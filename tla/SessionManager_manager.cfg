SPECIFICATION FairManagerSpec
CONSTANTS
    Types = {t1, t2}
    NoType = NoType
    MaxSessions = 2
    FirstPort = 65534
    PortMod = 65536
    MaxRequests = 4
    Hidden = {2}
    IndexMod = 8
    NoSession = NoSession
    Nowhere = Nowhere
    Refused = Refused
CHECK_DEADLOCK FALSE
INVARIANTS
    ManagerTypeOK
    RoomWhenScanning
    ListedInOrder
    PagesMakeUpList
PROPERTIES
    ImplementsDirectory
    RequestsAnswered
