SPECIFICATION Spec
CONSTANTS
    w1 = w1
    w2 = w2
    nil = nil
    NoPage = nil
    Command = "embed"
    Windows <- MCWindows
    Visitors <- MCVisitors
    Configs <- MCConfigs
INVARIANTS
    StartMatchesItsPage
PROPERTIES
    LoadedHandlerReturns
    ImplementsSession
CHECK_DEADLOCK FALSE
