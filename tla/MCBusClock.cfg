CONSTANTS
    Range = 64
    Quiet = 1
    Guard = 3
    Interval = 6
    Timeout = 3
    LineLimit = 5
    RestLimit = 10
SPECIFICATION ClockSpec
INVARIANTS
    FreedInTime
