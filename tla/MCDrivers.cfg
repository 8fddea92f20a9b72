CONSTANTS
    Steps = {s1, s2, s3}
    DeadTime = 2
    RetryRest = 2
    MaxFaults = 3
    Levels = {1, 2}
    Low = Low
    High = High
    Nothing = Nothing
    Profiles <- MCProfiles
    SerialFaults = 1
    N = 2
    Deps <- RobotFirst
    Required <- NoSlots
    Sensed = {}
    Overridable = {0}
    Roles = {}
    Range = 48
    Quiet = 1
    Guard = 3
    Interval = 6
    Timeout = 3
    LineLimit = 5
    RestLimit = 4
SPECIFICATION DriverSpec
INVARIANTS
    ClockSound
PROPERTIES
    ContactsSafe
    DeviceFollows
    OutputsFollow
