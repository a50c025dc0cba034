SPECIFICATION ManagerSpec
CONSTANTS
    Types = {t1}
    NoType = NoType
    MaxSessions = 2
    FirstPort = 65534
    PortMod = 65536
    MaxRequests = 2
    Hidden = {2}
    IndexMod = 8
    NoSession = NoSession
    Nowhere = Nowhere
    Refused = Refused
CHECK_DEADLOCK FALSE
INVARIANT ListSkipsNull
