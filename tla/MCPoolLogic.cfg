CONSTANTS
    DayLength = 11
    WeekDays = 4
    Epoch = 3
    FirstDay = 1
    Shift = 10
    DoseDays = {0, 2}
    o2SplitCount = 2
    o2MainHour = 1
    WeeklyDoses = {0, 10}
    Flow = 2
    o2MinFilterRunMin = 1
    MaxTicks = 11
    MaxResets = 1
    DayTicks = 4
    Windows <- MCWindows
    robotDelayMin = 1
    robotDurationMin = 1
    BusRoom = 1
    MaxMoves = 3
    delayPidsMin = 2
    ProbeRun = 2
    Intervals = {4, 6}
    Fallback = 5
    SecRange = 8
    MaxHeatMoves = 3
    Periods = {"day", "month"}
    PeriodLength <- MCPeriodLength
    Day = "day"
    MaxUptimeDay = 2
    PersistInterval = 1
    MaxTime = 9
    MaxRestarts = 1
    MaxFailures = 1
    UserSlots = {3, 4}
    UserDefs <- MCUserDefs
    DayMinutes = 3
    DaysOfWeek = 2
    Editors = {web, pool}
    MaxTurns = 2
    MaxMinute = 4
SPECIFICATION Spec
SYMMETRY EditorSymmetry
INVARIANTS
    DosingSound
    FiltrationSound
    RegulationSound
    HeatSound
    CountersSound
    SlotsSound
