CONSTANTS
    N = 3
    Cap <- Tight
    Messages <- Three
    NoMessage = NoMessage
    Requests <- Competing
    MinDelay = 2
    MaxDelay = 2
    MaxRetries = 0
    Pace = 0
SPECIFICATION Spec
INVARIANTS
    QueueTypeOK
    JobsSound
PROPERTIES
    TakenInTurn
    EachIsServed
