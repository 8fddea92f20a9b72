CONSTANTS
    DayLength = 12
    WeekDays = 4
    Epoch = 3
    FirstDay = 1
    Shift = 11
    DoseDays = {0, 2}
    o2SplitCount = 2
    o2MainHour = 1
    WeeklyDoses = {0, 10}
    Flow = 2
    o2MinFilterRunMin = 1
    MaxTicks = 13
    MaxResets = 1
SPECIFICATION OxygenSpec
INVARIANT DoseOncePerDay
