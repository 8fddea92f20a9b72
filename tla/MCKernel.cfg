CONSTANTS
    MaxPulses = 2
    MaxAsked = 2
    MaxMishaps = 1
    NoBlob = NoBlob
    Count = 3
    Gated = {1}
    TaskCount <- MCTasks
    KeyCount = 2
    Consumers = {mqtt}
    QUEUE_LENGTH = 1
    DispatchBudget = 1
    FlushBudget = 1
    MaxOthers = 1
    SlotCount = 2
    Latched = {1}
    OnDelay <- MCOn
    OffDelay <- MCOff
    MinRepeat = 2
    Installed = v0
    Newer = {v1, v2}
    MaxReleases = 2
    MaxUpgradeFaults = 3
SPECIFICATION Spec
INVARIANTS
    StartupSound
    EventsSound
    UpgradeSound
PROPERTIES
    RequestsHonoured
    AlarmsSound
    EndsWell
