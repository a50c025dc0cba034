SPECIFICATION LifecycleSpec
CONSTANTS
    Callers = {main, other}
    Owner = main
    Handlers = {builtin, user}
    Builtin = {builtin}
    MaxEvents = 2
INVARIANTS
    LifecycleTypeOK
    HostOutlivesThread
    QuietAfterStop
PROPERTIES
    EachHandlerOnce
    StopEndsThread
    StopReturns
CHECK_DEADLOCK FALSE
