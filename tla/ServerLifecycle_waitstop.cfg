SPECIFICATION LifecycleSpec
CONSTANTS
    Callers = {main, other}
    Owner = main
    Handlers = {builtin, user}
    Builtin = {builtin}
    MaxEvents = 2
INVARIANT JoinedOnce
CHECK_DEADLOCK FALSE
