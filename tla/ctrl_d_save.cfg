SPECIFICATION Spec
CONSTANTS
    w1 = w1
    v1 = v1
    nil = nil
    NoPage = nil
    Command = "boot"
    Windows <- MCWindows
    Visitors <- MCVisitors
    Configs <- MCConfigs
INVARIANT
    CtrlDSaves
CHECK_DEADLOCK FALSE
