SPECIFICATION LoggerSpec
CONSTANTS
    Writers = {w1, w2}
    MaxMessages = 2
    NoMessage = NoMessage
INVARIANTS
    LoggerTypeOK
    ThreadHasQueue
    PrintedInOrder
PROPERTIES
    LostOnlyByStop
    Settled
    StopReturns
CHECK_DEADLOCK FALSE
