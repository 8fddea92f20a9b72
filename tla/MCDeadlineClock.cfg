CONSTANTS
    Range = 32
    MaxDelay = 4
    RestLimit = 10
SPECIFICATION Spec
INVARIANTS
    NoLongerThanMax
