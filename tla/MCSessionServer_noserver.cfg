SPECIFICATION Spec
CONSTANTS
    Peers = {p1, p2}
    Uids = {u1, u2}
    NoPeer = NoPeer
    NoUid = NoUid
    NoSlot = NoSlot
    NoSession = NoSession
    MaxSessions = 2
    MaxHeads = 3
    AppPackets = {"plain", "callback"}
    OrderlyClients = TRUE
    PeersTimeOut = FALSE
CHECK_DEADLOCK FALSE
INVARIANT SessionReachesItsServer
