CONSTANTS
    N = 2
    MaxId = 3
    Requests <- StopAndTelemetry
    Age = 2
    Long = 3
SPECIFICATION LineSpec
INVARIANTS
    TypeOK
    TablesAgree
    AnswersMatch
PROPERTIES
    SentInTurn
    ImplementsModbusMaster
    ForcingEnds
