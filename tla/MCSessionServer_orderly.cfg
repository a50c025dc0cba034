SPECIFICATION Spec
CONSTANTS
    Peers = {p1, p2, p3}
    Uids = {u1, u2, u3}
    NoPeer = NoPeer
    NoUid = NoUid
    NoSlot = NoSlot
    NoSession = NoSession
    MaxSessions = 3
    MaxHeads = 4
    AppPackets = {"plain"}
    OrderlyClients = TRUE
    PeersTimeOut = FALSE
INVARIANTS
    TablesInverse
    IdentityIsOwn
    HeadCount
    NoGhosts
    MembersAreConnected
PROPERTIES
    ImplementsRooms
