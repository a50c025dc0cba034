---------------------------- MODULE ServerLifecycle ----------------------------
(***************************************************************************)
(* The life of a Server: the constructor creates the host, starts the      *)
(* thread, then registers handlers; run dispatches events to the handlers; *)
(* stop and wait, called by any thread, join the thread; the destructor    *)
(* destroys the host.  No lock is held anywhere.                           *)
(*                                                                         *)
(* The handlers are those of one packet type: an event is a packet of that *)
(* type, and what its dispatch does is call them in order.  A session's    *)
(* own table of handlers is the same code.                                 *)
(***************************************************************************)
EXTENDS Naturals, FiniteSets, SequencesExt

CONSTANTS
    Callers,     \* the threads of the application
    Owner,       \* the one that constructs, configures and destroys the server
    Handlers,    \* handlers of the packet type
    Builtin,     \* those the constructors register
    MaxEvents    \* bound: how many packets arrive

ASSUME LifecycleAssumption ==
    /\ Owner \in Callers
    /\ IsFiniteSet(Handlers) /\ Builtin \subseteq Handlers
    /\ MaxEvents \in Nat

VARIABLES
    object,   \* "none", "building", "ready", "closing" (in ~Server) or "gone"
    host,     \* the ENet host exists
    running,
    joinable, \* serverThread.joinable()
    thread,   \* what the server's thread does next
    list,     \* packetHandlers of the type
    at,       \* the handler the dispatch has come to
    called,   \* history: those the dispatch has called
    touched,  \* history: whether the list has changed since the dispatch began
    events,   \* packets that have not arrived yet
    caller,   \* what each thread of the application does next
    stopper,  \* history: the thread whose stop ended the server, if any
    waited,   \* history: the owner's wait has returned
    fault     \* "none", or what ended the process

lifecycleVars == <<object, host, running, joinable, thread, list, at, called, touched, events,
                   caller, stopper, waited, fault>>
objectVars == <<object, host>>
dispatch == <<at, called, touched>>

Faults == {"none", "host", "terminate", "self", "join", "handlers"}

LifecycleInit ==
    /\ object = "none"
    /\ host = FALSE /\ running = FALSE /\ joinable = FALSE
    /\ thread = "none"
    /\ list = <<>>
    /\ at = 1 /\ called = <<>> /\ touched = FALSE
    /\ events = MaxEvents
    /\ caller = [c \in Callers |-> "idle"]
    /\ stopper = {} /\ waited = FALSE
    /\ fault = "none"

-------------------------------------------------------------------------------
(* The owner: constructor, handlers, destructor.                           *)

\* The base constructor, up to the start of the thread.
Construct ==
    /\ fault = "none"
    /\ object = "none"
    /\ object' = "building"
    /\ host' = TRUE /\ running' = TRUE /\ joinable' = TRUE
    /\ thread' = "outer"
    /\ UNCHANGED <<list, dispatch, events, caller, stopper, waited, fault>>

\* A handler of the application is at work; the library's own only answer.
InHandler == thread = "handle" /\ at > 1 /\ Last(called) \notin Builtin

\* Handlers are added and removed by the owner, and by handlers.  A list that changes
\* under a dispatch invalidates the iterator the dispatch holds; it may go unnoticed.
Configure ==
    /\ fault = "none"
    /\ caller[Owner] = "idle" \/ InHandler
    /\ \/ thread = "handle" /\ touched' = TRUE /\ fault' \in {"none", "handlers"}
       \/ thread # "handle" /\ UNCHANGED <<touched, fault>>
    /\ UNCHANGED <<objectVars, running, joinable, thread, at, called, events, caller,
                   stopper, waited>>

\* Mutant of Registered: a handler that is there already is added again.
RegisteredTwice(h) == Append(list, h)

Registered(h) == IF Contains(list, h) THEN list ELSE Append(list, h)

Removed(h) == RemoveFirst(list, h)

RegisterPacketHandler(h) ==
    /\ object = "ready" \/ (object = "building" /\ h \in Builtin)
    /\ list' = Registered(h)
    /\ Configure

RemovePacketHandler(h) ==
    /\ object = "ready"
    /\ Contains(list, h)
    /\ list' = Removed(h)
    /\ Configure

\* The constructors of the derived class are done.
Constructed ==
    /\ fault = "none"
    /\ object = "building"
    /\ Builtin \subseteq ToSet(list)
    /\ object' = "ready"
    /\ UNCHANGED <<host, running, joinable, thread, list, dispatch, events, caller,
                   stopper, waited, fault>>

\* ~Server, called when nobody else uses the server and the owner has waited for it.
DestroyHost ==
    /\ fault = "none"
    /\ object = "ready"
    /\ waited
    /\ \A c \in Callers : caller[c] = "idle"
    /\ object' = "closing"
    /\ host' = FALSE
    /\ UNCHANGED <<running, joinable, thread, list, dispatch, events, caller,
                   stopper, waited, fault>>

\* The members follow; the destructor of a joinable thread ends the process.
DestroyMembers ==
    /\ fault = "none"
    /\ object = "closing"
    /\ IF joinable
       THEN fault' = "terminate" /\ UNCHANGED object
       ELSE object' = "gone" /\ UNCHANGED fault
    /\ UNCHANGED <<host, running, joinable, thread, list, dispatch, events, caller,
                   stopper, waited>>

-------------------------------------------------------------------------------
(* The server's thread: run.                                               *)

At(step) == fault = "none" /\ thread = step

\* Mutant of TestRunning: the outer loop goes on for ever.
RunForever ==
    /\ At("outer")
    /\ thread' = "service"
    /\ UNCHANGED <<objectVars, running, joinable, list, dispatch, events, caller,
                   stopper, waited, fault>>

TestRunning ==
    /\ At("outer")
    /\ thread' = IF running THEN "service" ELSE "ended"
    /\ UNCHANGED <<objectVars, running, joinable, list, dispatch, events, caller,
                   stopper, waited, fault>>

\* enet_host_service.  As long as it has an event, running is not looked at.
Service ==
    /\ At("service")
    /\ \/ /\ host
          /\ events > 0
          /\ events' = events - 1
          /\ thread' = "handle"
          /\ at' = 1 /\ called' = <<>> /\ touched' = FALSE
          /\ UNCHANGED fault
       \/ /\ host
          /\ thread' = "outer"
          /\ UNCHANGED <<events, dispatch, fault>>
       \/ /\ ~host
          /\ fault' = "host"
          /\ UNCHANGED <<thread, events, dispatch>>
    /\ UNCHANGED <<objectVars, running, joinable, list, caller, stopper, waited>>

\* Mutant of CallHandler: the loop ends before the last handler.
CallAllButLast ==
    /\ At("handle")
    /\ \/ /\ at < Len(list)
          /\ called' = Append(called, list[at])
          /\ at' = at + 1
          /\ UNCHANGED <<thread, touched>>
       \/ /\ at >= Len(list)
          /\ thread' = "service"
          /\ UNCHANGED dispatch
    /\ UNCHANGED <<objectVars, running, joinable, list, events, caller, stopper,
                   waited, fault>>

\* The dispatch loop: the next handler is called, or the packet is done with.
CallHandler ==
    /\ At("handle")
    /\ \/ /\ at <= Len(list)
          /\ called' = Append(called, list[at])
          /\ at' = at + 1
          /\ UNCHANGED <<thread, touched>>
       \/ /\ at > Len(list)
          /\ thread' = "service"
          /\ UNCHANGED dispatch
    /\ UNCHANGED <<objectVars, running, joinable, list, events, caller, stopper,
                   waited, fault>>

\* A handler calls stop or wait: the thread would join itself, which throws.
JoinInHandler ==
    /\ fault = "none"
    /\ InHandler
    /\ joinable
    /\ \/ running /\ running' = FALSE
       \/ UNCHANGED running
    /\ fault' = "self"
    /\ UNCHANGED <<objectVars, joinable, thread, list, dispatch, events, caller,
                   stopper, waited>>

-------------------------------------------------------------------------------
(* stop and wait.                                                          *)

Idle(c) == fault = "none" /\ object = "ready" /\ caller[c] = "idle"

\* Mutant of Stop: the thread is not joined.
StopOnly(c) ==
    /\ Idle(c)
    /\ running
    /\ running' = FALSE
    /\ stopper' = {c}
    /\ UNCHANGED <<objectVars, joinable, thread, list, dispatch, events, caller,
                   waited, fault>>

\* Mutant of Stop: running stays set until the thread is joined.
StopLate(c) ==
    /\ Idle(c)
    /\ running
    /\ stopper = {}
    /\ stopper' = {c}
    /\ caller' = [caller EXCEPT ![c] = "stop"]
    /\ UNCHANGED <<objectVars, running, joinable, thread, list, dispatch, events,
                   waited, fault>>

\* A stop after the first returns at once, although the first may not have returned.
Stop(c) ==
    /\ Idle(c)
    /\ running
    /\ running' = FALSE
    /\ stopper' = {c}
    /\ caller' = [caller EXCEPT ![c] = "stop"]
    /\ UNCHANGED <<objectVars, joinable, thread, list, dispatch, events, waited, fault>>

Wait(c) ==
    /\ Idle(c)
    /\ caller' = [caller EXCEPT ![c] = "wait"]
    /\ UNCHANGED <<objectVars, running, joinable, thread, list, dispatch, events,
                   stopper, waited, fault>>

Return(c) ==
    /\ waited' = (waited \/ (c = Owner /\ caller[c] \in {"wait", "waitjoin"}))
    /\ caller' = [caller EXCEPT ![c] = "idle"]

\* The test of joinable, in stop and in wait.
TestJoinable(c) ==
    /\ fault = "none"
    /\ caller[c] \in {"stop", "wait"}
    /\ \/ /\ joinable
          /\ caller' = [caller EXCEPT ![c] = IF caller[c] = "stop" THEN "stopjoin" ELSE "waitjoin"]
          /\ UNCHANGED waited
       \/ /\ ~joinable
          /\ Return(c)
    /\ UNCHANGED <<objectVars, running, joinable, thread, list, dispatch, events,
                   stopper, fault>>

\* Mutant of Join: the thread is detached.
Detached(c) ==
    /\ fault = "none"
    /\ caller[c] \in {"stopjoin", "waitjoin"}
    /\ joinable' = FALSE
    /\ Return(c)
    /\ UNCHANGED <<objectVars, running, thread, list, dispatch, events, stopper, fault>>

\* The thread has ended.  A thread that has been joined meanwhile cannot be joined
\* again: that throws, or is not noticed.
Join(c) ==
    /\ fault = "none"
    /\ caller[c] \in {"stopjoin", "waitjoin"}
    /\ thread = "ended"
    /\ joinable' = FALSE
    /\ \/ Return(c) /\ UNCHANGED fault
       \/ ~joinable /\ fault' = "join" /\ UNCHANGED <<caller, waited>>
    /\ UNCHANGED <<objectVars, running, thread, list, dispatch, events, stopper>>

-------------------------------------------------------------------------------
ServerThread == TestRunning \/ Service \/ CallHandler

LifecycleNext ==
    \/ Construct
    \/ \E h \in Handlers : RegisterPacketHandler(h)
    \/ \E h \in Handlers : RemovePacketHandler(h)
    \/ Constructed
    \/ DestroyHost
    \/ DestroyMembers
    \/ ServerThread
    \/ JoinInHandler
    \/ \E c \in Callers : Stop(c)
    \/ \E c \in Callers : Wait(c)
    \/ \E c \in Callers : TestJoinable(c)
    \/ \E c \in Callers : Join(c)

\* Threads that can run do: the server's, and those inside stop or wait.
LifecycleSpec ==
    /\ LifecycleInit /\ [][LifecycleNext]_lifecycleVars
    /\ WF_lifecycleVars(ServerThread)
    /\ \A c \in Callers : WF_lifecycleVars(TestJoinable(c) \/ Join(c))

-------------------------------------------------------------------------------
(* Properties.                                                             *)

\* The variables keep their types; a list has room for each handler once.
LifecycleTypeOK ==
    /\ object \in {"none", "building", "ready", "closing", "gone"}
    /\ host \in BOOLEAN /\ running \in BOOLEAN /\ joinable \in BOOLEAN
    /\ thread \in {"none", "outer", "service", "handle", "ended"}
    /\ list \in Seq(Handlers) /\ Len(list) <= Cardinality(Handlers)
    /\ at \in Nat \ {0} /\ called \in Seq(Handlers) /\ touched \in BOOLEAN
    /\ events \in 0 .. MaxEvents
    /\ caller \in [Callers -> {"idle", "stop", "stopjoin", "wait", "waitjoin"}]
    /\ stopper \in SUBSET Callers /\ waited \in BOOLEAN
    /\ fault \in Faults

\* An owner that destroys the server only after a wait of its own has returned does so
\* under no thread, whoever else called stop and wait, in whatever order.
HostOutlivesThread ==
    /\ thread \in {"outer", "service", "handle"} => host
    /\ fault \notin {"host", "terminate"}

\* When the stop that cleared running has returned, no packet is handled any more;
\* so when a wait of the owner has.
QuietAfterStop ==
    (\E c \in stopper : caller[c] \notin {"stop", "stopjoin"}) \/ waited
        => thread = "ended"

\* A packet is handed to every handler of its type, once and in the order they were
\* registered, if nobody adds or removes one meanwhile.
EachHandlerOnce ==
    [][thread = "handle" /\ thread' = "service" /\ ~touched
        => called = list /\ IsInjective(called)]_lifecycleVars

\* Once running is cleared the thread ends, if the clients fall silent: run does not
\* look at running while there are events.
StopEndsThread ==
    object = "ready" /\ ~running ~> (thread = "ended" \/ fault # "none")

\* A stop returns.
StopReturns ==
    \A c \in Callers :
        caller[c] \in {"stop", "stopjoin"} ~> (caller[c] = "idle" \/ fault # "none")

\* The thread is joined by one caller only: joinable is tested before each join.
JoinedOnce == fault # "join"
===============================================================================
