SPECIFICATION Spec
CONSTANTS
    Tokens = {t1, t2}
    Proxies = {p1}
    Keys = {k1, k2}
    NoKey = NoKey
PROPERTY ResetAllowsReconnect
CHECK_DEADLOCK FALSE
