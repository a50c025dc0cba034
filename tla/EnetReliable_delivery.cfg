SPECIFICATION ReliableSpec
CONSTANTS
    Windows = 6
    WindowSize = 2
    FreeWindows = 3
    Lifetime = 4
    Earlier = 8
    MaxPackets = 6
    MaxQueued = 3
INVARIANTS
    ReliableTypeOK
    ForgottenIsReceived
    WaitingIsAhead
    WindowsAgree
PROPERTIES
    ImplementsChannel
    AllReceived
CHECK_DEADLOCK FALSE
