CONSTANTS
    None = None
    Targets = {pump}
    MaxDurationSec = 3
    MsPerSec = 3
    Tolerance = 1
    Durations <- MCDurations
    StopReasons <- MCStopReasons
    Offsets <- MCTwoOffsets
    MaxReal = 2
    MaxReboots = 2
SPECIFICATION ForcingSpec
INVARIANTS
    TypeOK
    LeaseKept
    NeverOutlivesGrant
    SlotsTypeOK
    InterlockHolds
    NoAutoRestart
PROPERTIES
    DeadlineFixed
    ImplementsDurableLease
    ForcingsWhole
