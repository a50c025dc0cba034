SPECIFICATION Spec
CONSTANTS
    Peers = {p1, p2}
    Uids = {u1, u2, u3}
    NoPeer = NoPeer
    NoUid = NoUid
    NoSlot = NoSlot
    NoSession = NoSession
    MaxSessions = 2
    MaxHeads = 3
    AppPackets = {"plain", "callback"}
    OrderlyClients = FALSE
    PeersTimeOut = TRUE
SYMMETRY Clients
CHECK_DEADLOCK FALSE
INVARIANTS
    TypeOK
    MappedUserHasSession
    VectorsAgree
    OnlyJoinAndCallbackFault
PROPERTIES
    EndedByItsOwnUser
    ImplementsLaxRooms
