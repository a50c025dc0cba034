SPECIFICATION PeersSpec
CONSTANTS
    Clients = {c1, c2}
    SlotCount = 2
    MaxAttempts = 2
    MaxUses = 4
INVARIANTS
    PeersTypeOK
    OpenedIsVerified
PROPERTIES
    ImplementsEvents
    SlotsFreed
CHECK_DEADLOCK FALSE
