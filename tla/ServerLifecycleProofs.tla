------------------------- MODULE ServerLifecycleProofs -------------------------
(***************************************************************************)
(* Proofs about ServerLifecycle, for any number of threads that stop the   *)
(* server and wait for it, of handlers and of packets.                     *)
(***************************************************************************)
EXTENDS ServerLifecycle, DataLemmas

Alive == {"outer", "service", "handle"}

(***************************************************************************)
(* The part of the types that the argument needs: nothing about handlers.  *)
(***************************************************************************)
CallTypes ==
    /\ object \in {"none", "building", "ready", "closing", "gone"}
    /\ joinable \in BOOLEAN
    /\ thread \in {"none", "ended"} \cup Alive
    /\ caller \in [Callers -> {"idle", "stop", "stopjoin", "wait", "waitjoin"}]
    /\ stopper \subseteq Callers
    /\ waited \in BOOLEAN
    /\ fault \in Faults

\* A thread that runs has not been joined, and has a host to serve.
AliveThread == thread \in Alive => host /\ joinable

\* The thread exists as soon as the object does; before, nobody has called anything.
Phases ==
    /\ object = "none" => thread = "none" /\ stopper = {} /\ ~waited
    /\ object # "none" => thread # "none"
    /\ object \in {"closing", "gone"} => waited

\* stop and wait are only called on a server that is there to stay until they return.
CallsWhenReady == \A c \in Callers : caller[c] # "idle" => object = "ready"

\* The owner's wait returns only when the thread has been joined, by whomever.
WaitedIsJoined == waited => ~joinable

LifecycleInv ==
    /\ CallTypes /\ AliveThread /\ Phases /\ CallsWhenReady /\ WaitedIsJoined
    /\ QuietAfterStop /\ HostOutlivesThread

USE DEF Alive

LEMMA InitInv == LifecycleInit => LifecycleInv
  BY LifecycleAssumption
  DEF LifecycleInit, LifecycleInv, CallTypes, AliveThread, Phases, CallsWhenReady,
      WaitedIsJoined, QuietAfterStop, HostOutlivesThread, Faults

\* A change of the handlers touches nothing else, except that it may end the process.
LEMMA ConfigureInv == ASSUME LifecycleInv, Configure PROVE LifecycleInv'
  BY DEF Configure, objectVars, LifecycleInv, CallTypes, AliveThread, Phases, CallsWhenReady,
         WaitedIsJoined, QuietAfterStop, HostOutlivesThread, Faults

\* The server's thread: where it goes changes, and nothing the callers see.
LEMMA ThreadInv == ASSUME LifecycleInv, ServerThread PROVE LifecycleInv'
<1>1. CASE TestRunning
  BY <1>1 DEF TestRunning, At, objectVars, dispatch, LifecycleInv, CallTypes, AliveThread,
              Phases, CallsWhenReady, WaitedIsJoined, QuietAfterStop, HostOutlivesThread
<1>2. CASE Service
  <2>1. host
    BY <1>2 DEF Service, At, LifecycleInv, AliveThread
  <2>2. fault' = "none" /\ thread' \in {"handle", "outer"}
    BY <1>2, <2>1 DEF Service, At
  <2>3. QED
    BY <1>2, <2>1, <2>2
    DEF Service, At, objectVars, LifecycleInv, CallTypes, AliveThread, Phases,
        CallsWhenReady, WaitedIsJoined, QuietAfterStop, HostOutlivesThread, Faults
<1>3. CASE CallHandler
  BY <1>3 DEF CallHandler, At, objectVars, dispatch, LifecycleInv, CallTypes, AliveThread,
              Phases, CallsWhenReady, WaitedIsJoined, QuietAfterStop, HostOutlivesThread
<1>4. QED
  BY <1>1, <1>2, <1>3 DEF ServerThread

\* A call that finds the thread not joinable, or joins it, returns to a quiet server.
LEMMA JoinedIsEnded ==
    ASSUME LifecycleInv, NEW c \in Callers, caller[c] # "idle", ~joinable
    PROVE thread = "ended"
  BY DEF LifecycleInv, CallTypes, AliveThread, Phases, CallsWhenReady

LEMMA TestJoinableInv ==
    ASSUME LifecycleInv, NEW c \in Callers, TestJoinable(c) PROVE LifecycleInv'
<1> USE LifecycleAssumption
<1>1. CASE joinable
  <2>1. /\ caller' = [caller EXCEPT ![c] = IF caller[c] = "stop" THEN "stopjoin" ELSE "waitjoin"]
        /\ UNCHANGED <<object, host, joinable, thread, stopper, waited, fault>>
        /\ caller[c] \in {"stop", "wait"}
    BY <1>1 DEF TestJoinable, objectVars
  <2>2. /\ \A d \in Callers : caller'[d] # "idle" => caller[d] # "idle"
        /\ \A d \in Callers : caller'[d] \notin {"stop", "stopjoin"}
                                => caller[d] \notin {"stop", "stopjoin"}
        /\ caller' \in [Callers -> {"idle", "stop", "stopjoin", "wait", "waitjoin"}]
    BY <2>1 DEF LifecycleInv, CallTypes
  <2>3. QED
    BY <2>1, <2>2
    DEF LifecycleInv, CallTypes, AliveThread, Phases, CallsWhenReady, WaitedIsJoined,
        QuietAfterStop, HostOutlivesThread
<1>2. CASE ~joinable
  <2>1. /\ caller' = [caller EXCEPT ![c] = "idle"]
        /\ waited' \in BOOLEAN
        /\ waited => waited'
        /\ UNCHANGED <<object, host, joinable, thread, stopper, fault>>
    BY <1>2 DEF TestJoinable, Return, objectVars, LifecycleInv, CallTypes
  <2>2. thread = "ended" /\ object = "ready"
    BY <1>2, JoinedIsEnded DEF TestJoinable, LifecycleInv, CallsWhenReady
  <2>3. QED
    BY <1>2, <2>1, <2>2
    DEF LifecycleInv, CallTypes, AliveThread, Phases, CallsWhenReady, WaitedIsJoined,
        QuietAfterStop, HostOutlivesThread
<1>3. QED
  BY <1>1, <1>2

LEMMA JoinInv ==
    ASSUME LifecycleInv, NEW c \in Callers, Join(c) PROVE LifecycleInv'
<1>1. /\ thread = "ended" /\ thread' = "ended"
      /\ joinable' = FALSE
      /\ UNCHANGED <<object, host, stopper>>
  BY DEF Join, objectVars
<1>2. object = "ready"
  BY DEF Join, LifecycleInv, CallsWhenReady
<1>3. CASE Return(c) /\ UNCHANGED fault
  <2>1. /\ caller' = [caller EXCEPT ![c] = "idle"]
        /\ waited' \in BOOLEAN
        /\ UNCHANGED fault
    BY <1>3 DEF Return, LifecycleInv, CallTypes
  <2>2. QED
    BY <1>1, <1>2, <2>1
    DEF LifecycleInv, CallTypes, AliveThread, Phases, CallsWhenReady, WaitedIsJoined,
        QuietAfterStop, HostOutlivesThread
<1>4. CASE fault' = "join" /\ UNCHANGED <<caller, waited>>
  BY <1>1, <1>2, <1>4
  DEF LifecycleInv, CallTypes, AliveThread, Phases, CallsWhenReady, WaitedIsJoined,
      QuietAfterStop, HostOutlivesThread, Faults
<1>5. QED
  BY <1>3, <1>4 DEF Join

LEMMA StepInv == LifecycleInv /\ [LifecycleNext]_lifecycleVars => LifecycleInv'
<1> SUFFICES ASSUME LifecycleInv, [LifecycleNext]_lifecycleVars PROVE LifecycleInv'
  OBVIOUS
<1> USE LifecycleAssumption
    DEF objectVars, dispatch
<1>1. CASE Construct
  BY <1>1 DEF Construct, LifecycleInv, CallTypes, AliveThread, Phases, CallsWhenReady,
              WaitedIsJoined, QuietAfterStop, HostOutlivesThread
<1>2. ASSUME NEW h \in Handlers, RegisterPacketHandler(h) \/ RemovePacketHandler(h)
      PROVE LifecycleInv'
  BY <1>2, ConfigureInv DEF RegisterPacketHandler, RemovePacketHandler
<1>3. CASE Constructed
  BY <1>3 DEF Constructed, LifecycleInv, CallTypes, AliveThread, Phases, CallsWhenReady,
              WaitedIsJoined, QuietAfterStop, HostOutlivesThread
<1>4. CASE DestroyHost
  <2>1. thread = "ended"
    BY <1>4 DEF DestroyHost, LifecycleInv, QuietAfterStop
  <2>2. QED
    BY <1>4, <2>1
    DEF DestroyHost, LifecycleInv, CallTypes, AliveThread, Phases, CallsWhenReady,
        WaitedIsJoined, QuietAfterStop, HostOutlivesThread
<1>5. CASE DestroyMembers
  <2>1. waited /\ ~joinable
    BY <1>5 DEF DestroyMembers, LifecycleInv, Phases, WaitedIsJoined
  <2>2. QED
    BY <1>5, <2>1
    DEF DestroyMembers, LifecycleInv, CallTypes, AliveThread, Phases, CallsWhenReady,
        WaitedIsJoined, QuietAfterStop, HostOutlivesThread
<1>6. CASE ServerThread
  BY <1>6, ThreadInv
<1>7. CASE JoinInHandler
  BY <1>7 DEF JoinInHandler, LifecycleInv, CallTypes, AliveThread, Phases, CallsWhenReady,
              WaitedIsJoined, QuietAfterStop, HostOutlivesThread, Faults
<1>8. ASSUME NEW c \in Callers, Stop(c) PROVE LifecycleInv'
  BY <1>8 DEF Stop, Idle, LifecycleInv, CallTypes, AliveThread, Phases, CallsWhenReady,
              WaitedIsJoined, QuietAfterStop, HostOutlivesThread
<1>9. ASSUME NEW c \in Callers, Wait(c) PROVE LifecycleInv'
  BY <1>9 DEF Wait, Idle, LifecycleInv, CallTypes, AliveThread, Phases, CallsWhenReady,
              WaitedIsJoined, QuietAfterStop, HostOutlivesThread
<1>10. ASSUME NEW c \in Callers, TestJoinable(c) \/ Join(c) PROVE LifecycleInv'
  BY <1>10, TestJoinableInv, JoinInv
<1>11. CASE UNCHANGED lifecycleVars
  BY <1>11 DEF lifecycleVars, LifecycleInv, CallTypes, AliveThread, Phases, CallsWhenReady,
               WaitedIsJoined, QuietAfterStop, HostOutlivesThread
<1>12. QED
  BY <1>1, <1>2, <1>3, <1>4, <1>5, <1>6, <1>7, <1>8, <1>9, <1>10, <1>11
  DEF LifecycleNext

\* No thread runs without a host, and none is left behind by stop, wait or the owner.
THEOREM AlwaysInv == LifecycleSpec => []LifecycleInv
  BY InitInv, StepInv, PTL DEF LifecycleSpec

\* However many threads stop the server and wait for it, when the stop that cleared
\* running has returned, or the owner's wait, the server's thread has ended.
THEOREM StoppedIsQuiet == LifecycleSpec => []QuietAfterStop
<1>1. LifecycleInv => QuietAfterStop
  BY DEF LifecycleInv
<1>2. QED
  BY <1>1, AlwaysInv, PTL

\* An owner that destroys the server after a wait of its own destroys the host under
\* no thread and never destroys a joinable thread.
THEOREM DestroyedInPeace == LifecycleSpec => []HostOutlivesThread
<1>1. LifecycleInv => HostOutlivesThread
  BY DEF LifecycleInv
<1>2. QED
  BY <1>1, AlwaysInv, PTL

(***************************************************************************)
(* The handlers.  The list never holds a handler twice, so it has room for *)
(* each; and a dispatch that nobody disturbs has called those before the   *)
(* place it has come to.                                                   *)
(***************************************************************************)
ListTypes ==
    /\ list \in Seq(Handlers) /\ NoDuplicates(list)
    /\ at \in Nat \ {0} /\ called \in Seq(Handlers) /\ touched \in BOOLEAN
    /\ host \in BOOLEAN /\ running \in BOOLEAN
    /\ events \in 0 .. MaxEvents

CalledSoFar ==
    thread = "handle" /\ ~touched =>
        at <= Len(list) + 1 /\ called = [i \in 1 .. at - 1 |-> list[i]]

HandlerInv == ListTypes /\ CalledSoFar

LEMMA InitHandlers == LifecycleInit => HandlerInv
<1> SUFFICES ASSUME LifecycleInit PROVE HandlerInv
  OBVIOUS
<1>1. NoDuplicates(<<>>)
  BY AmongEmpty
<1>2. list = <<>> /\ called = <<>> /\ <<>> \in Seq(Handlers)
  BY DEF LifecycleInit
<1>3. ListTypes
  <2>1. NoDuplicates(list)
    BY <1>1, <1>2
  <2>2. events \in 0 .. MaxEvents
    BY LifecycleAssumption DEF LifecycleInit
  <2>3. list \in Seq(Handlers) /\ called \in Seq(Handlers)
    BY <1>2
  <2>4. at \in Nat \ {0} /\ touched \in BOOLEAN /\ host \in BOOLEAN /\ running \in BOOLEAN
    <3>1. at = 1 /\ touched = FALSE /\ host = FALSE /\ running = FALSE
      BY DEF LifecycleInit
    <3>2. at \in Nat \ {0}
      BY <3>1
    <3>3. touched \in BOOLEAN /\ host \in BOOLEAN /\ running \in BOOLEAN
      BY <3>1
    <3>4. QED
      BY <3>2, <3>3
  <2>5. QED
    BY <2>1, <2>2, <2>3, <2>4 DEF ListTypes
<1>4. CalledSoFar
  BY DEF LifecycleInit, CalledSoFar
<1>5. QED
  BY <1>3, <1>4 DEF HandlerInv

\* A handler that is there already is not added again.
LEMMA RegisteredOnce ==
    ASSUME ListTypes, NEW h \in Handlers
    PROVE  Registered(h) \in Seq(Handlers) /\ NoDuplicates(Registered(h))
<1>1. list \in Seq(Handlers) /\ NoDuplicates(list)
  BY DEF ListTypes
<1>2. CASE Contains(list, h)
  BY <1>1, <1>2 DEF Registered
<1>3. CASE ~Contains(list, h)
  <2>1. h \notin Among(list)
    BY <1>3 DEF Contains, Among
  <2>2. Registered(h) = Append(list, h)
    BY <1>3 DEF Registered
  <2>3. QED
    BY <1>1, <2>1, <2>2, AmongAppend
<1>4. QED
  BY <1>2, <1>3

LEMMA RemovedOnce ==
    ASSUME ListTypes, NEW h \in Handlers, Contains(list, h)
    PROVE  Removed(h) \in Seq(Handlers) /\ NoDuplicates(Removed(h))
<1> DEFINE I == {i \in 1 .. Len(list) : list[i] = h}
<1>1. list \in Seq(Handlers) /\ NoDuplicates(list)
  BY DEF ListTypes
<1>2. I # {}
  BY DEF Contains
<1>3. Removed(h) = RemoveAt(list, Min(I))
  <2>1. \E i \in 1 .. Len(list) : list[i] = h
    BY DEF Contains
  <2>2. Removed(h) = RemoveAt(list, SelectInSeq(list, LAMBDA v : v = h))
    BY <2>1 DEF Removed, RemoveFirst
  <2>3. SelectInSeq(list, LAMBDA v : v = h) = Min(I)
    BY <1>2 DEF SelectInSeq
  <2>4. QED
    BY <2>2, <2>3
<1>4. \E x \in I : \A y \in I : x =< y
  <2>1. I \subseteq Nat
    OBVIOUS
  <2> HIDE DEF I
  <2>2. QED
    BY <1>2, <2>1, LeastOf
<1>5. Min(I) \in I
  <2> HIDE DEF I
  <2>1. QED
    BY <1>4 DEF Min
<1>6. PICK i \in 1 .. Len(list) : Removed(h) = RemoveAt(list, i)
  BY <1>3, <1>5
<1>7. QED
  BY <1>1, <1>6, RemoveAtProperties

\* A change of the handlers is seen by the dispatch that it disturbs.
LEMMA ConfigureHandlers ==
    ASSUME HandlerInv, Configure, list' \in Seq(Handlers), NoDuplicates(list')
    PROVE  HandlerInv'
<1>1. /\ UNCHANGED <<host, running, at, called, events, thread>>
      /\ touched' \in BOOLEAN
      /\ thread = "handle" => touched'
  BY DEF Configure, objectVars, HandlerInv, ListTypes
<1>2. NoDuplicates(list)'
  BY DEF NoDuplicates
<1>3. QED
  BY <1>1, <1>2 DEF HandlerInv, ListTypes, CalledSoFar

LEMMA CallHandlerKeeps == ASSUME HandlerInv, CallHandler PROVE HandlerInv'
<1>1. UNCHANGED <<list, host, running, touched, events>>
  BY DEF CallHandler, objectVars, dispatch
<1>2. list \in Seq(Handlers) /\ at \in Nat \ {0} /\ called \in Seq(Handlers)
  BY DEF HandlerInv, ListTypes
<1>3. NoDuplicates(list)'
  BY <1>1 DEF NoDuplicates, HandlerInv, ListTypes
<1>4. CASE at <= Len(list)
  <2>1. /\ called' = Append(called, list[at]) /\ at' = at + 1 /\ thread' = thread
        /\ thread = "handle"
    BY <1>2, <1>4 DEF CallHandler, At
  <2>2. list[at] \in Handlers
    BY <1>2, <1>4
  <2>3. called' \in Seq(Handlers) /\ at' \in Nat \ {0}
    BY <1>2, <2>1, <2>2
  <2>4. ASSUME ~touched PROVE called' = [i \in 1 .. at' - 1 |-> list[i]]
    <3>1. called = [i \in 1 .. at - 1 |-> list[i]]
      BY <2>1, <2>4 DEF HandlerInv, CalledSoFar
    <3>2. Len(called) = at - 1 /\ \A i \in 1 .. at - 1 : called[i] = list[i]
      BY <1>2, <3>1
    <3>3. /\ DOMAIN called' = 1 .. at
          /\ \A i \in 1 .. at - 1 : called'[i] = called[i]
          /\ called'[at] = list[at]
      BY <1>2, <2>1, <2>2, <3>2
    <3>4. \A i \in 1 .. at : called'[i] = list[i]
      BY <1>2, <3>2, <3>3
    <3>5. called' = [i \in DOMAIN called' |-> called'[i]]
      BY <2>3
    <3>6. at' - 1 = at
      BY <1>2, <2>1
    <3>7. QED
      BY <3>3, <3>4, <3>5, <3>6
  <2>5. CalledSoFar'
    <3>1. ASSUME ~touched PROVE at' <= Len(list) + 1 /\ called' = [i \in 1 .. at' - 1 |-> list[i]]
      <4>1. at' <= Len(list) + 1
        BY <1>2, <1>4, <2>1
      <4>2. QED
        BY <2>4, <3>1, <4>1
    <3>2. QED
      BY <1>1, <3>1 DEF CalledSoFar
  <2>6. QED
    BY <1>1, <1>3, <2>3, <2>5 DEF HandlerInv, ListTypes
<1>5. CASE ~(at <= Len(list))
  <2>1. thread' = "service" /\ UNCHANGED <<at, called>>
    BY <1>2, <1>5 DEF CallHandler, dispatch
  <2>2. QED
    BY <1>1, <1>3, <2>1 DEF HandlerInv, ListTypes, CalledSoFar
<1>6. QED
  BY <1>4, <1>5

LEMMA StepHandlers == HandlerInv /\ [LifecycleNext]_lifecycleVars => HandlerInv'
<1> SUFFICES ASSUME HandlerInv, [LifecycleNext]_lifecycleVars PROVE HandlerInv'
  OBVIOUS
<1>1. ASSUME /\ UNCHANGED <<list, at, called, touched, events>>
             /\ thread' = "handle" => thread = "handle"
             /\ host' \in BOOLEAN /\ running' \in BOOLEAN
      PROVE  HandlerInv'
  BY <1>1 DEF HandlerInv, ListTypes, CalledSoFar, NoDuplicates
<1> USE DEF objectVars, dispatch
<1>2. host \in BOOLEAN /\ running \in BOOLEAN
  BY DEF HandlerInv, ListTypes
<1>3. CASE Construct \/ Constructed \/ DestroyHost \/ DestroyMembers \/ JoinInHandler
  BY <1>1, <1>2, <1>3 DEF Construct, Constructed, DestroyHost, DestroyMembers, JoinInHandler
<1>4. ASSUME NEW h \in Handlers, RegisterPacketHandler(h) PROVE HandlerInv'
  BY <1>4, RegisteredOnce, ConfigureHandlers DEF RegisterPacketHandler, HandlerInv
<1>5. ASSUME NEW h \in Handlers, RemovePacketHandler(h) PROVE HandlerInv'
  BY <1>5, RemovedOnce, ConfigureHandlers DEF RemovePacketHandler, HandlerInv
<1>6. CASE TestRunning
  BY <1>1, <1>2, <1>6 DEF TestRunning, At
<1>7. CASE Service
  <2>1. CASE thread' = "handle" /\ thread # "handle"
    <3>1. /\ events > 0 /\ events' = events - 1
          /\ at' = 1 /\ called' = <<>> /\ touched' = FALSE
          /\ UNCHANGED <<list, host, running>>
      BY <1>7, <2>1 DEF Service, At
    <3>2. NoDuplicates(list)'
      BY <3>1 DEF NoDuplicates, HandlerInv, ListTypes
    <3>3. events' \in 0 .. MaxEvents
      BY <3>1, LifecycleAssumption DEF HandlerInv, ListTypes
    <3>4. at' <= Len(list) + 1 /\ called' = [i \in 1 .. at' - 1 |-> list[i]]
      BY <3>1 DEF HandlerInv, ListTypes
    <3>5. QED
      <4>1. ListTypes'
        <5>1. called' \in Seq(Handlers) /\ at' \in Nat \ {0} /\ touched' \in BOOLEAN
          <6>1. <<>> \in Seq(Handlers) /\ 1 \in Nat \ {0} /\ FALSE \in BOOLEAN
            OBVIOUS
          <6>2. QED
            BY <3>1, <6>1
        <5>2. QED
          BY <3>1, <3>2, <3>3, <5>1 DEF HandlerInv, ListTypes
      <4>2. CalledSoFar'
        BY <3>1, <3>4 DEF CalledSoFar
      <4>3. QED
        BY <4>1, <4>2 DEF HandlerInv
  <2>2. CASE ~(thread' = "handle" /\ thread # "handle")
    BY <1>1, <1>2, <1>7, <2>2 DEF Service, At
  <2>3. QED
    BY <2>1, <2>2
<1>8. CASE CallHandler
  BY <1>8, CallHandlerKeeps
<1>9. ASSUME NEW c \in Callers, Stop(c) \/ Wait(c) \/ TestJoinable(c) \/ Join(c) PROVE HandlerInv'
  BY <1>1, <1>2, <1>9 DEF Stop, Wait, TestJoinable, Join
<1>10. CASE UNCHANGED lifecycleVars
  BY <1>1, <1>2, <1>10 DEF lifecycleVars
<1>11. QED
  BY <1>3, <1>4, <1>5, <1>6, <1>7, <1>8, <1>9, <1>10 DEF LifecycleNext, ServerThread

LEMMA AlwaysHandlers == LifecycleSpec => []HandlerInv
  BY InitHandlers, StepHandlers, PTL DEF LifecycleSpec

\* Every variable keeps its type; the list of handlers never grows beyond one entry for
\* each handler there is, however often they are registered and removed.
THEOREM LifecycleTypeCorrect == LifecycleSpec => []LifecycleTypeOK
<1>1. LifecycleInv /\ HandlerInv => LifecycleTypeOK
  <2> SUFFICES ASSUME LifecycleInv, HandlerInv PROVE LifecycleTypeOK
    OBVIOUS
  <2>1. Len(list) <= Cardinality(Handlers)
    <3>1. list \in Injection(1 .. Len(list), Handlers)
      BY DEF HandlerInv, ListTypes, NoDuplicates, Injection, IsInjective
    <3>2. Cardinality(1 .. Len(list)) <= Cardinality(Handlers)
      BY <3>1, FS_Injection, LifecycleAssumption
    <3>3. Len(list) \in Nat
      BY DEF HandlerInv, ListTypes
    <3>4. Cardinality(1 .. Len(list)) = Len(list)
      <4>1. PICK a \in Int, b \in Int : a = 1 /\ b = Len(list)
        BY <3>3
      <4>2. Cardinality(a .. b) = (IF a > b THEN 0 ELSE b - a + 1)
        BY FS_Interval
      <4>3. QED
        BY <3>3, <4>1, <4>2
    <3>5. QED
      BY <3>2, <3>4
  <2>2. QED
    BY <2>1 DEF LifecycleTypeOK, LifecycleInv, CallTypes, HandlerInv, ListTypes
<1>2. QED
  BY <1>1, AlwaysInv, AlwaysHandlers, PTL

\* A packet is handed to every handler of its type once, in the order in which they were
\* registered, unless the list changes meanwhile, whatever other threads do.
THEOREM HandedToEachOnce == LifecycleSpec => EachHandlerOnce
<1>1. HandlerInv /\ [LifecycleNext]_lifecycleVars
        => [thread = "handle" /\ thread' = "service" /\ ~touched
              => called = list /\ IsInjective(called)]_lifecycleVars
  <2> SUFFICES ASSUME HandlerInv, LifecycleNext, thread = "handle", thread' = "service", ~touched
               PROVE  called = list /\ IsInjective(called)
    OBVIOUS
  <2> USE DEF objectVars, dispatch
  <2>1. CallHandler
    <3>1. ASSUME NEW h \in Handlers PROVE ~RegisterPacketHandler(h) /\ ~RemovePacketHandler(h)
      BY DEF RegisterPacketHandler, RemovePacketHandler, Configure
    <3>2. ~Construct
      BY DEF Construct
    <3>3. ~Constructed /\ ~DestroyHost /\ ~DestroyMembers /\ ~JoinInHandler
      BY DEF Constructed, DestroyHost, DestroyMembers, JoinInHandler
    <3>4. ~TestRunning /\ ~Service
      BY DEF TestRunning, Service, At
    <3>5. ASSUME NEW c \in Callers PROVE ~Stop(c) /\ ~Wait(c) /\ ~TestJoinable(c) /\ ~Join(c)
      BY DEF Stop, Wait, TestJoinable, Join
    <3>6. QED
      BY <3>1, <3>2, <3>3, <3>4, <3>5 DEF LifecycleNext, ServerThread
  <2>2. at > Len(list)
    BY <2>1 DEF CallHandler
  <2>3. at <= Len(list) + 1 /\ called = [i \in 1 .. at - 1 |-> list[i]]
    BY DEF HandlerInv, CalledSoFar
  <2>4. list \in Seq(Handlers) /\ at \in Nat
    BY DEF HandlerInv, ListTypes
  <2>5. at - 1 = Len(list)
    BY <2>2, <2>3, <2>4
  <2>6. called = list
    BY <2>3, <2>4, <2>5
  <2>7. IsInjective(list)
    BY <2>4 DEF HandlerInv, ListTypes, NoDuplicates, IsInjective
  <2>8. QED
    BY <2>6, <2>7
<1>2. QED
  BY <1>1, AlwaysHandlers, PTL DEF LifecycleSpec, EachHandlerOnce
===============================================================================
