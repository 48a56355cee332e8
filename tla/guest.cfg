SPECIFICATION Spec
CONSTANTS
    k1 = k1
    k2 = k2
    LastCall = 2
    MaxOutput = 2
    MaxInput = 2
    Terminals <- MCTerminals
    Waiters <- MCWaiters
INVARIANTS
    TypeOK
    OutputInOrder
    QuietExitComplete
    InputInOrder
    ReadyMeansVersion
PROPERTIES
    ParkedWakes
    RunReturns
CHECK_DEADLOCK FALSE
