-------------------------- MODULE SessionManagerProofs --------------------------
(***************************************************************************)
(* Proofs about SessionManager, for any number of types, of sessions a     *)
(* server may have, and of requests.                                       *)
(***************************************************************************)
EXTENDS SessionManager, DataLemmas

(***************************************************************************)
(* The part of the types that the argument needs.                          *)
(***************************************************************************)
RoomTypes ==
    /\ count \in 0 .. MaxSessions
    /\ size \in [Servers -> 0 .. MaxSessions]
    /\ slots \in [Servers -> [Slots -> Nat \cup {NoSession}]]
    /\ i \in Nat /\ num \in Nat /\ seen \in Nat /\ id \in Nat

\* Where the main thread is says which server it works on, and how far it is.
InProgress ==
    /\ i <= count
    /\ pc \in {"count", "copy"} => i < count
    /\ pc \in Attaching => i < MaxSessions
    /\ pc = "open" => i = count
    /\ pc \in {"count", "scan"} => num <= size[i]
    /\ pc = "push" => num = size[i] /\ size[i] < MaxSessions

\* A server that is not in sessionServers yet has a session only once that is attached.
FreshServersEmpty ==
    \A s \in Servers : s >= count /\ size[s] > 0 => pc \in Attached /\ s = i

\* What is not counted is null, and stays so until this thread fills it.
CountedSlots ==
    pc = "count" =>
        /\ seen <= num
        /\ seen < num => \E n \in Slots : n < num /\ slots[i][n] = NoSession

\* A server that is full to its last slot has a null one the scan has not come to.
RoomAhead ==
    pc = "scan" /\ size[i] = MaxSessions =>
        \E n \in Slots : num <= n /\ slots[i][n] = NoSession

RoomInv == RoomTypes /\ InProgress /\ FreshServersEmpty /\ CountedSlots /\ RoomAhead

\* All that the argument needs of the constants.
LEMMA Bounds == MaxSessions \in Nat /\ MaxSessions > 0 /\ NoSession \notin Nat
  BY ManagerAssumption

USE Bounds DEF Servers, Slots, Attached, Attaching

LEMMA InvGivesRoom == RoomInv => RoomWhenScanning
  BY DEF RoomInv, RoomTypes, InProgress, RoomAhead, RoomWhenScanning

LEMMA InitRoom == ManagerInit => RoomInv
<1> SUFFICES ASSUME ManagerInit PROVE RoomInv
  OBVIOUS
<1>1. /\ count = 0 /\ pc = "idle" /\ id = 0 /\ i = 0 /\ num = 0 /\ seen = 0
      /\ size = [s \in Servers |-> 0]
      /\ slots = [s \in Servers |-> [n \in Slots |-> NoSession]]
  BY DEF ManagerInit
<1>2. RoomTypes
  BY <1>1 DEF RoomTypes
<1>3. QED
  BY <1>1, <1>2 DEF RoomInv, InProgress, FreshServersEmpty, CountedSlots, RoomAhead

(***************************************************************************)
(* What most steps leave alone: the vectors, so that only what is said of  *)
(* the main thread's place is left to show.                                *)
(***************************************************************************)
LEMMA ElsewhereInv ==
    ASSUME RoomInv, UNCHANGED <<count, size, slots>>,
           pc \notin Attached,
           pc' \in {"idle", "lookup", "look", "list", "copy", "page"},
           i' \in Nat /\ num' \in Nat /\ seen' \in Nat /\ id' \in Nat,
           i' <= count, pc' = "copy" => i' < count
    PROVE  RoomInv'
  BY DEF RoomInv, RoomTypes, InProgress, FreshServersEmpty, CountedSlots, RoomAhead

LEMMA RoomUnchanged ==
    ASSUME RoomInv, UNCHANGED <<count, size, slots, pc, i, num, seen, id>>
    PROVE  RoomInv'
  BY DEF RoomInv, RoomTypes, InProgress, FreshServersEmpty, CountedSlots, RoomAhead

-------------------------------------------------------------------------------
(* createNewSession, step by step.                                         *)

LEMMA CallKeepsRoom ==
    ASSUME RoomInv, NEW t \in Types,
           \/ RegisterSessionGenerator(t) \/ RemoveSessionGenerator(t)
           \/ CreateNewSession(t)
    PROVE  RoomInv'
<1>1. CASE RegisterSessionGenerator(t) \/ RemoveSessionGenerator(t)
  <2>1. UNCHANGED <<count, size, slots, pc, i, num, seen, id>>
    BY <1>1 DEF RegisterSessionGenerator, RemoveSessionGenerator
  <2>2. QED
    BY <2>1, RoomUnchanged
<1>2. CASE CreateNewSession(t)
  <2>1. /\ UNCHANGED <<count, size, slots, i, num, seen>>
        /\ pc = "idle" /\ pc' = "lookup" /\ id' = id + 1
    BY <1>2 DEF CreateNewSession, At, tables
  <2>2. i \in Nat /\ num \in Nat /\ seen \in Nat /\ id \in Nat /\ i <= count
    BY DEF RoomInv, RoomTypes, InProgress
  <2>3. QED
    BY <2>1, <2>2, ElsewhereInv
<1>3. QED
  BY <1>1, <1>2

LEMMA LookupKeepsRoom == ASSUME RoomInv, Lookup PROVE RoomInv'
<1>1. /\ UNCHANGED <<count, size, slots, num, seen, id>>
      /\ pc = "lookup" /\ pc' \in {"idle", "lookup", "look"} /\ i' \in {i, 0}
  BY DEF Lookup, Answer, At, tables
<1>2. /\ i \in Nat /\ num \in Nat /\ seen \in Nat /\ id \in Nat
      /\ i <= count /\ count \in Nat
  BY DEF RoomInv, RoomTypes, InProgress
<1>3. QED
  BY <1>1, <1>2, ElsewhereInv

LEMMA LookKeepsRoom == ASSUME RoomInv, Look PROVE RoomInv'
<1>1. /\ UNCHANGED <<count, size, slots, id>> /\ pc = "look"
      /\ \/ i < count /\ i' = i + 1 /\ UNCHANGED <<pc, num, seen>>
         \/ i < count /\ i' = i /\ pc' = "count" /\ num' = 0 /\ seen' = 0
         \/ i = count /\ pc' = "open" /\ UNCHANGED <<i, num, seen>>
  BY DEF Look, At, tables
<1>2. RoomTypes'
  BY <1>1 DEF RoomInv, RoomTypes
<1>3. InProgress'
  BY <1>1 DEF RoomInv, RoomTypes, InProgress
<1>4. FreshServersEmpty' /\ CountedSlots' /\ RoomAhead'
  BY <1>1 DEF RoomInv, FreshServersEmpty, CountedSlots, RoomAhead
<1>5. QED
  BY <1>2, <1>3, <1>4 DEF RoomInv

\* A slot that is not counted is the witness for one that is null.
LEMMA CountKeepsRoom == ASSUME RoomInv, Count PROVE RoomInv'
<1>1. /\ UNCHANGED <<count, size, slots, id>> /\ pc = "count"
      /\ \/ /\ num < size[i] /\ num' = num + 1
            /\ seen' = IF slots[i][num] = NoSession THEN seen ELSE seen + 1
            /\ UNCHANGED <<pc, i>>
         \/ num = size[i] /\ seen < MaxSessions /\ pc' = "scan" /\ num' = 0 /\ UNCHANGED <<i, seen>>
         \/ num = size[i] /\ pc' = "look" /\ i' = i + 1 /\ UNCHANGED <<num, seen>>
  BY DEF Count, At, tables
<1>2. /\ i \in Servers /\ i < count /\ count \in 0 .. MaxSessions
      /\ size[i] \in 0 .. MaxSessions
      /\ num \in Nat /\ num <= size[i] /\ seen \in Nat
  BY <1>1 DEF RoomInv, RoomTypes, InProgress
<1>3. CountedSlots
  BY DEF RoomInv
<1>4. RoomTypes'
  <2>1. i' \in Nat /\ num' \in Nat /\ seen' \in Nat
    BY <1>1, <1>2
  <2>2. QED
    BY <1>1, <2>1 DEF RoomInv, RoomTypes
<1>5. InProgress'
  BY <1>1, <1>2 DEF InProgress
<1>6. FreshServersEmpty'
  BY <1>1 DEF RoomInv, FreshServersEmpty
<1>7. CountedSlots'
  <2>1. CASE num < size[i] /\ slots[i][num] = NoSession
    BY <1>1, <1>2, <1>3, <2>1 DEF CountedSlots
  <2>2. CASE num < size[i] /\ slots[i][num] # NoSession
    BY <1>1, <1>2, <1>3, <2>2 DEF CountedSlots
  <2>3. CASE num = size[i]
    BY <1>1, <1>2, <2>3 DEF CountedSlots
  <2>4. QED
    BY <1>2, <2>1, <2>2, <2>3
<1>8. RoomAhead'
  BY <1>1, <1>2, <1>3 DEF CountedSlots, RoomAhead
<1>9. QED
  BY <1>4, <1>5, <1>6, <1>7, <1>8 DEF RoomInv

LEMMA ScanKeepsRoom == ASSUME RoomInv, Scan PROVE RoomInv'
<1>1. /\ UNCHANGED <<count, size, id, i, seen>> /\ pc = "scan"
      /\ \/ num < size[i] /\ Store("thread") /\ UNCHANGED num
         \/ num < size[i] /\ slots[i][num] # NoSession /\ num' = num + 1 /\ UNCHANGED <<pc, slots>>
         \/ num = size[i] /\ pc' = "push" /\ UNCHANGED <<num, slots>>
  BY DEF Scan, At
<1>2. /\ i \in Servers /\ i <= count /\ count \in 0 .. MaxSessions
      /\ size[i] \in 0 .. MaxSessions /\ num \in Nat /\ num <= size[i]
      /\ slots \in [Servers -> [Slots -> Nat \cup {NoSession}]] /\ id \in Nat
  BY <1>1 DEF RoomInv, RoomTypes, InProgress
<1>3. FreshServersEmpty /\ RoomAhead
  BY DEF RoomInv
<1>4. num = size[i] => size[i] < MaxSessions
  BY <1>1, InvGivesRoom DEF RoomWhenScanning
<1>5. Store("thread") =>
          pc' = "thread" /\ slots' = [slots EXCEPT ![i] = [slots[i] EXCEPT ![num] = id]]
  BY DEF Store
<1>6. RoomTypes'
  <2>1. slots' \in [Servers -> [Slots -> Nat \cup {NoSession}]]
    <3>1. CASE UNCHANGED slots
      BY <1>2, <3>1
    <3>2. CASE num < size[i] /\ Store("thread")
      <4>1. slots[i] \in [Slots -> Nat \cup {NoSession}]
        BY <1>2
      <4>2. [slots[i] EXCEPT ![num] = id] \in [Slots -> Nat \cup {NoSession}]
        BY <1>2, <4>1
      <4>3. QED
        BY <1>2, <1>5, <3>2, <4>2
    <3>3. QED
      BY <1>1, <3>1, <3>2
  <2>2. num' \in Nat
    BY <1>1, <1>2
  <2>3. QED
    BY <1>1, <2>1, <2>2 DEF RoomInv, RoomTypes
<1>7. InProgress'
  BY <1>1, <1>2, <1>4, <1>5 DEF InProgress
<1>8. FreshServersEmpty'
  BY <1>1, <1>3 DEF FreshServersEmpty
<1>9. CountedSlots'
  BY <1>1, <1>5 DEF CountedSlots
<1>10. RoomAhead'
  BY <1>1, <1>2, <1>3, <1>5 DEF RoomAhead
<1>11. QED
  BY <1>6, <1>7, <1>8, <1>9, <1>10 DEF RoomInv

LEMMA PushBackKeepsRoom == ASSUME RoomInv, PushBack PROVE RoomInv'
<1>1. /\ pc = "push" /\ pc' = "grow"
      /\ size' = [size EXCEPT ![i] = size[i] + 1]
      /\ slots' = [slots EXCEPT ![i] = [slots[i] EXCEPT ![num] = id]]
      /\ UNCHANGED <<count, id, i, num, seen>>
  BY DEF PushBack, Store, At
<1>2. /\ i \in Servers /\ i <= count /\ size[i] \in Nat /\ size[i] < MaxSessions
      /\ num \in Slots /\ id \in Nat
      /\ size \in [Servers -> 0 .. MaxSessions]
      /\ slots \in [Servers -> [Slots -> Nat \cup {NoSession}]]
  BY <1>1 DEF RoomInv, RoomTypes, InProgress
<1>3. RoomTypes'
  <2>1. size' \in [Servers -> 0 .. MaxSessions]
    BY <1>1, <1>2
  <2>2. [slots[i] EXCEPT ![num] = id] \in [Slots -> Nat \cup {NoSession}]
    BY <1>2
  <2>3. slots' \in [Servers -> [Slots -> Nat \cup {NoSession}]]
    BY <1>1, <1>2, <2>2
  <2>4. QED
    BY <1>1, <2>1, <2>3 DEF RoomInv, RoomTypes
<1>4. InProgress'
  BY <1>1, <1>2 DEF InProgress
<1>5. FreshServersEmpty'
  <2>1. \A s \in Servers : s # i => size'[s] = size[s]
    BY <1>1, <1>2
  <2>2. QED
    BY <1>1, <2>1 DEF RoomInv, FreshServersEmpty
<1>6. CountedSlots' /\ RoomAhead'
  BY <1>1 DEF CountedSlots, RoomAhead
<1>7. QED
  BY <1>3, <1>4, <1>5, <1>6 DEF RoomInv

LEMMA StoreThreadKeepsRoom == ASSUME RoomInv, StoreThread PROVE RoomInv'
<1>1. /\ UNCHANGED <<count, size, slots, id, i, num, seen>>
      /\ pc \in {"thread", "grow"} /\ pc' = "found"
  BY DEF StoreThread, At, tables
<1>2. QED
  BY <1>1 DEF RoomInv, RoomTypes, InProgress, FreshServersEmpty, CountedSlots, RoomAhead

LEMMA OpenKeepsRoom == ASSUME RoomInv, Open PROVE RoomInv'
<1>1. /\ UNCHANGED <<count, size, slots, id, i, seen>> /\ pc = "open"
      /\ \/ pc' \in {"idle", "open"} /\ UNCHANGED num
         \/ count < MaxSessions /\ pc' = "scan" /\ num' = 0
  BY DEF Open, Answer, At, tables
<1>2. /\ i = count /\ count \in 0 .. MaxSessions /\ num \in Nat
      /\ size \in [Servers -> 0 .. MaxSessions]
  BY <1>1 DEF RoomInv, RoomTypes, InProgress
<1>3. count < MaxSessions => size[count] = 0
  BY <1>1, <1>2 DEF RoomInv, FreshServersEmpty
<1>4. RoomTypes'
  BY <1>1 DEF RoomInv, RoomTypes
<1>5. InProgress'
  BY <1>1, <1>2, <1>3 DEF InProgress
<1>6. FreshServersEmpty'
  BY <1>1 DEF RoomInv, FreshServersEmpty
<1>7. CountedSlots' /\ RoomAhead'
  BY <1>1, <1>2, <1>3 DEF CountedSlots, RoomAhead
<1>8. QED
  BY <1>4, <1>5, <1>6, <1>7 DEF RoomInv

LEMMA FoundKeepsRoom == ASSUME RoomInv, Found PROVE RoomInv'
<1>1. /\ UNCHANGED <<size, slots, id, i, num, seen>> /\ pc = "found" /\ pc' = "idle"
      /\ \/ i < count /\ count' = count
         \/ i = count /\ count' = count + 1
  BY DEF Found, Answer, At
<1>2. i \in Nat /\ i < MaxSessions /\ count \in 0 .. MaxSessions
  BY <1>1 DEF RoomInv, RoomTypes, InProgress
<1>3. RoomTypes'
  BY <1>1, <1>2 DEF RoomInv, RoomTypes
<1>4. InProgress'
  BY <1>1, <1>2 DEF InProgress
<1>5. FreshServersEmpty'
  BY <1>1, <1>2 DEF RoomInv, RoomTypes, FreshServersEmpty
<1>6. CountedSlots' /\ RoomAhead'
  BY <1>1 DEF CountedSlots, RoomAhead
<1>7. QED
  BY <1>3, <1>4, <1>5, <1>6 DEF RoomInv

-------------------------------------------------------------------------------
(* The listing, and the session servers' threads.                          *)

PageIsCut == \E page, perPage \in 0 .. IndexMod - 1 : CutPage(page, perPage)

LEMMA ListingKeepsRoom ==
    ASSUME RoomInv, GetSessionList \/ List \/ Copy \/ PageIsCut PROVE RoomInv'
<1>1. /\ UNCHANGED <<count, size, slots, id, seen>>
      /\ pc \in {"idle", "list", "copy", "page"} /\ pc' \in {"idle", "list", "copy", "page"}
      /\ \/ i' \in {0, i}
         \/ i < count /\ i' = i + 1
      /\ num' \in {0, num, num + 1}
      /\ pc' = "copy" => i' = i /\ (i < count \/ pc = "copy")
  <2>1. CASE GetSessionList \/ List
    BY <2>1 DEF GetSessionList, List, At, tables
  <2>2. CASE Copy
    BY <2>2 DEF Copy, At, tables
  <2>3. CASE PageIsCut
    BY <2>3 DEF PageIsCut, CutPage, At, tables
  <2>4. QED
    BY <2>1, <2>2, <2>3
<1>2. /\ i \in Nat /\ num \in Nat /\ seen \in Nat /\ id \in Nat
      /\ i <= count /\ count \in Nat /\ (pc = "copy" => i < count)
  BY DEF RoomInv, RoomTypes, InProgress
<1>3. i' \in Nat /\ num' \in Nat /\ i' <= count /\ (pc' = "copy" => i' < count)
  BY <1>1, <1>2
<1>4. QED
  BY <1>1, <1>2, <1>3, ElsewhereInv

\* A session that ends only makes room: null slots stay null.
LEMMA DetachKeepsRoom ==
    ASSUME RoomInv, NEW s \in Servers, NEW n \in Slots, Detach(s, n) PROVE RoomInv'
<1>1. /\ UNCHANGED <<count, size, pc, id, i, num, seen>>
      /\ slots' = [slots EXCEPT ![s] = [slots[s] EXCEPT ![n] = NoSession]]
  BY DEF Detach
<1>2. slots \in [Servers -> [Slots -> Nat \cup {NoSession}]]
  BY DEF RoomInv, RoomTypes
<1>3. slots' \in [Servers -> [Slots -> Nat \cup {NoSession}]]
  <2>1. [slots[s] EXCEPT ![n] = NoSession] \in [Slots -> Nat \cup {NoSession}]
    BY <1>2
  <2>2. QED
    BY <1>1, <1>2, <2>1
<1>4. \A r \in Servers, m \in Slots : slots[r][m] = NoSession => slots'[r][m] = NoSession
  BY <1>1, <1>2
<1>5. pc \in {"count", "scan"} => i \in Servers
  BY DEF RoomInv, RoomTypes, InProgress
<1>6. RoomTypes'
  BY <1>1, <1>3 DEF RoomInv, RoomTypes
<1>7. InProgress' /\ FreshServersEmpty'
  BY <1>1 DEF RoomInv, InProgress, FreshServersEmpty
<1>8. CountedSlots'
  BY <1>1, <1>4, <1>5 DEF RoomInv, CountedSlots
<1>9. RoomAhead'
  BY <1>1, <1>4, <1>5 DEF RoomInv, RoomAhead
<1>10. QED
  BY <1>6, <1>7, <1>8, <1>9 DEF RoomInv

\* What ends the process while two threads use the same data.
Race == ChangeGenerators \/ (\E s \in Servers : Touch(s)) \/ DetachEarly

LEMMA RaceLeaves ==
    ASSUME Race
    PROVE  /\ UNCHANGED <<generators, count, types, size, slots, pc, id, i, num, seen, listed,
                          asked, told, was>>
           /\ fault = "none" /\ fault' \in {"generators", "moved", "thread"}
  BY DEF Race, ChangeGenerators, Touch, DetachEarly, At, tables, history

LEMMA RaceKeepsRoom == ASSUME RoomInv, Race PROVE RoomInv'
  BY RaceLeaves, RoomUnchanged

-------------------------------------------------------------------------------
LEMMA StepRoom == RoomInv /\ [ManagerNext]_managerVars => RoomInv'
<1> SUFFICES ASSUME RoomInv, [ManagerNext]_managerVars PROVE RoomInv'
  OBVIOUS
<1>1. CASE UNCHANGED managerVars
  <2>1. UNCHANGED <<count, size, slots, pc, i, num, seen, id>>
    BY <1>1 DEF managerVars
  <2>2. QED
    BY <2>1, RoomUnchanged
<1>2. CASE ManagerNext
  <2>1. CASE \E t \in Types : RegisterSessionGenerator(t) \/ RemoveSessionGenerator(t)
                              \/ CreateNewSession(t)
    BY <2>1, CallKeepsRoom
  <2>2. CASE MainThread
    BY <2>2, LookupKeepsRoom, LookKeepsRoom, CountKeepsRoom, ScanKeepsRoom,
       PushBackKeepsRoom, StoreThreadKeepsRoom, OpenKeepsRoom, FoundKeepsRoom, ListingKeepsRoom
    DEF MainThread, PageIsCut
  <2>3. CASE GetSessionList
    BY <2>3, ListingKeepsRoom
  <2>4. CASE \E s \in Servers, n \in Slots : Detach(s, n)
    BY <2>4, DetachKeepsRoom
  <2>5. CASE Race
    BY <2>5, RaceKeepsRoom
  <2>6. QED
    BY <1>2, <2>1, <2>2, <2>3, <2>4, <2>5 DEF ManagerNext, Race
<1>3. QED
  BY <1>1, <1>2

\* A server counted to have room has a slot for the session when the scan gets there,
\* whatever sessions end on that server's own thread meanwhile.
THEOREM AlwaysRoomWhenScanning == ManagerSpec => []RoomWhenScanning
<1>1. ManagerSpec => []RoomInv
  BY InitRoom, StepRoom, PTL DEF ManagerSpec
<1>2. QED
  BY <1>1, InvGivesRoom, PTL

-------------------------------------------------------------------------------
(***************************************************************************)
(* Types and tables.  While the main thread reads the slots, the session   *)
(* servers free them; what it relies on all the same is that a slot it did *)
(* not fill is not filled, and that a stored session is at its own place.  *)
(***************************************************************************)

\* A request is being worked on.
Busy == pc \in {"lookup", "look", "count", "open"} \cup Attaching

\* A server has a type when it is in sessionServers.
Hosts == \A s \in Servers : types[s] = NoType <=> s >= count

\* What has not been asked for has no type, no place and no answer.
Requests ==
    \A r \in Ids : /\ r > id <=> asked[r] = NoType
                   /\ r > id => was[r] = Nowhere /\ told[r] = Nowhere

\* The request being worked on has no answer, a place only once it is attached, and the
\* server the main thread is at is of its type.
AtWork ==
    Busy => /\ id \in Ids /\ told[id] = Nowhere
            /\ pc \notin Attached => was[id] = Nowhere
            /\ pc \in {"count"} \cup Attaching /\ i < count => types[i] = asked[id]
            /\ pc \in Attached => num \in Slots /\ was[id] = <<i, num>> /\ (i = count => num = 0)

\* A session in a slot was put there: no other slot has it.
Stored ==
    \A s \in Servers, n \in Slots :
        slots[s][n] # NoSession => was[slots[s][n]] = <<s, n>>

\* A server has no session beyond the end of its vector.
WithinSize == \A s \in Servers, n \in Slots : n >= size[s] => slots[s][n] = NoSession

\* The list is empty between listings; a listing is within a vector.
Listing ==
    /\ pc \notin {"list", "copy", "page"} => listed = <<>>
    /\ pc = "copy" => num < size[i]
    /\ pc = "list" /\ i < count => num <= size[i]

Tables == Hosts /\ Stored /\ WithinSize
\* The answers a client may get, and the places a session may have.
Answers == ((0 .. PortMod - 1) \X Slots) \cup {Nowhere, Refused}
Places == (Servers \X Slots) \cup {Nowhere}

\* The types, one by one.
Typing ==
    /\ generators \in [Types -> {"none", "set", "null"}]
    /\ pc \in Steps /\ fault \in ManagerFaults
    /\ i \in 0 .. MaxSessions /\ num \in 0 .. MaxSessions /\ seen \in 0 .. MaxSessions
    /\ listed \in Seq(Ids \ Hidden) /\ told \in [Ids -> Answers]
    /\ count \in 0 .. MaxSessions /\ size \in [Servers -> 0 .. MaxSessions]
    /\ slots \in [Servers -> [Slots -> Ids \cup {NoSession}]]
    /\ asked \in [Ids -> Types \cup {NoType}]
    /\ was \in [Ids -> Places]
    /\ types \in [Servers -> Types \cup {NoType}] /\ id \in 0 .. MaxRequests

LEMMA Typed == ManagerTypeOK <=> Typing
  BY DEF ManagerTypeOK, Typing, Answers, Places

DirectoryInv == Typing /\ Tables /\ Requests /\ AtWork /\ Listing

LEMMA OutsideProducts ==
    ASSUME NEW S, NEW T, S \subseteq Nat, T \subseteq Nat
    PROVE  Nowhere \notin S \X T /\ Refused \notin S \X T
<1>1. Nowhere \notin S \X T
  BY MarkerAssumption, Zenon
<1>2. Refused \notin S \X T
  BY MarkerAssumption, Zenon
<1>3. QED
  BY <1>1, <1>2

LEMMA Markers ==
    /\ Nowhere \notin Servers \X Slots
    /\ Nowhere \notin (0 .. PortMod - 1) \X Slots /\ Refused \notin (0 .. PortMod - 1) \X Slots
<1>1. Slots \subseteq Nat /\ Servers \subseteq Nat /\ 0 .. PortMod - 1 \subseteq Nat
  BY ManagerAssumption
<1>2. QED
  BY <1>1, OutsideProducts

LEMMA RequestBounds == MaxRequests \in Nat /\ NoType \notin Types /\ NoSession \notin Ids
<1>1. MaxRequests \in Nat /\ NoType \notin Types
  BY ManagerAssumption
<1>2. QED
  BY <1>1 DEF Ids

\* The ports of the servers do not wrap.
LEMMA Ports ==
    ASSUME NEW s \in Servers
    PROVE  Port(s) = FirstPort + s /\ Port(s) \in 0 .. PortMod - 1
<1>1. PICK p \in Nat : p = FirstPort + s
  BY ManagerAssumption
<1>2. p < PortMod /\ PortMod \in Nat
  BY <1>1, ManagerAssumption
<1>3. (p % PortMod) = p
  BY <1>2
<1>4. Port(s) = p
  BY <1>1, <1>3 DEF Port
<1>5. QED
  BY <1>1, <1>2, <1>4

LEMMA InitDirectory == ManagerInit => DirectoryInv
<1> SUFFICES ASSUME ManagerInit PROVE DirectoryInv
  OBVIOUS
<1>1. Typing
  <2>1. listed \in Seq(Ids \ Hidden)
    BY DEF ManagerInit
  <2>2. told \in [Ids -> Answers] /\ was \in [Ids -> Places]
    BY DEF ManagerInit, Answers, Places
  <2>3. id \in 0 .. MaxRequests
    BY RequestBounds DEF ManagerInit
  <2>4. QED
    BY <2>1, <2>2, <2>3 DEF ManagerInit, Typing, Steps, ManagerFaults
<1>2. Tables
  BY DEF ManagerInit, Tables, Hosts, Stored, WithinSize
<1>3. Requests
  BY DEF ManagerInit, Requests, Ids
<1>4. AtWork /\ Listing
  BY DEF ManagerInit, AtWork, Busy, Listing
<1>5. QED
  BY <1>1, <1>2, <1>3, <1>4 DEF DirectoryInv

(***************************************************************************)
(* Two frames.  A step that leaves the vectors alone keeps the tables; if  *)
(* it leaves the requests alone too, only its own variables are to type.   *)
(***************************************************************************)
LEMMA TablesKept ==
    ASSUME Tables, UNCHANGED <<count, types, size, slots, was>>
    PROVE  Tables'
  BY DEF Tables, Hosts, Stored, WithinSize

LEMMA TypesKept ==
    ASSUME Typing, UNCHANGED <<count, types, size, slots, id, asked, was>>,
           generators' \in [Types -> {"none", "set", "null"}],
           pc' \in Steps, fault' \in ManagerFaults,
           i' \in 0 .. MaxSessions, num' \in 0 .. MaxSessions, seen' \in 0 .. MaxSessions,
           listed' \in Seq(Ids \ Hidden),
           told' \in [Ids -> Answers]
    PROVE  Typing'
  BY DEF Typing

LEMMA DirectoryUnchanged ==
    ASSUME DirectoryInv, UNCHANGED managerVars
    PROVE  DirectoryInv'
<1>1. UNCHANGED <<generators, count, types, size, slots, pc, id, i, num, seen, listed,
                  asked, told, was, fault>>
  BY DEF managerVars
<1>2. Tables'
  BY <1>1, TablesKept DEF DirectoryInv
<1>3. Typing'
  BY <1>1 DEF DirectoryInv, Typing
<1>4. Requests' /\ AtWork' /\ Listing'
  BY <1>1 DEF DirectoryInv, Requests, AtWork, Busy, Listing
<1>5. QED
  BY <1>2, <1>3, <1>4 DEF DirectoryInv

LEMMA AnswerTyped ==
    ASSUME Typing, AtWork, Busy, NEW a \in Answers, Answer(a)
    PROVE  /\ told' \in [Ids -> Answers] /\ pc' = "idle"
           /\ \A r \in Ids : r # id => told'[r] = told[r]
           /\ told'[id] = a
  BY DEF Answer, AtWork, Typing

-------------------------------------------------------------------------------
(* The calls of the application, and createNewSession.                     *)

LEMMA CallKeepsDirectory ==
    ASSUME DirectoryInv, NEW t \in Types,
           RegisterSessionGenerator(t) \/ RemoveSessionGenerator(t)
    PROVE  DirectoryInv'
<1>1. /\ UNCHANGED <<count, types, size, slots, pc, id, i, num, seen, asked, told, was, fault,
                     listed>>
      /\ generators' \in {[generators EXCEPT ![t] = "set"], [generators EXCEPT ![t] = "null"]}
  BY DEF RegisterSessionGenerator, RemoveSessionGenerator, history
<1>2. Tables'
  BY <1>1, TablesKept DEF DirectoryInv
<1>3. Typing'
  BY <1>1 DEF DirectoryInv, Typing
<1>4. Requests' /\ AtWork' /\ Listing'
  BY <1>1 DEF DirectoryInv, Requests, AtWork, Busy, Listing
<1>5. QED
  BY <1>2, <1>3, <1>4 DEF DirectoryInv

LEMMA CreateKeepsDirectory ==
    ASSUME DirectoryInv, NEW t \in Types, CreateNewSession(t)
    PROVE  DirectoryInv'
<1>1. /\ UNCHANGED <<generators, count, types, size, slots, i, num, seen, told, was, fault,
                     listed>>
      /\ pc = "idle" /\ pc' = "lookup" /\ id < MaxRequests /\ id' = id + 1
      /\ asked' = [asked EXCEPT ![id + 1] = t]
  BY DEF CreateNewSession, At, tables
<1>2. Tables'
  BY <1>1, TablesKept DEF DirectoryInv
<1>3. id \in Nat /\ id' \in Ids /\ asked' \in [Ids -> Types \cup {NoType}]
  BY <1>1, RequestBounds DEF DirectoryInv, Typing, Ids
<1>4. Typing'
  <2>1. id' \in 0 .. MaxRequests /\ pc' \in Steps
    BY <1>1, <1>3 DEF Ids, Steps
  <2>2. QED
    BY <1>1, <1>3, <2>1 DEF DirectoryInv, Typing
<1>5. Requests'
  <2>1. \A r \in Ids : asked'[r] = IF r = id + 1 THEN t ELSE asked[r]
    BY <1>1, <1>3 DEF DirectoryInv, Typing
  <2>2. QED
    BY <1>1, <1>3, <2>1, RequestBounds DEF DirectoryInv, Requests, Ids
<1>6. AtWork'
  <2>1. told[id'] = Nowhere /\ was[id'] = Nowhere
    BY <1>1, <1>3 DEF DirectoryInv, Requests
  <2>2. QED
    BY <1>1, <1>3, <2>1 DEF AtWork
<1>7. Listing'
  BY <1>1 DEF DirectoryInv, Listing
<1>8. QED
  BY <1>2, <1>4, <1>5, <1>6, <1>7 DEF DirectoryInv

LEMMA AnswerKeepsRequests ==
    ASSUME Requests, AtWork, Busy, Typing, NEW a \in Answers, Answer(a),
           UNCHANGED <<id, asked, was>>
    PROVE  Requests'
<1>1. id \in 0 .. MaxRequests /\ MaxRequests \in Nat
  BY RequestBounds DEF Typing
<1>2. \A r \in Ids : r > id => r # id
  BY <1>1 DEF Ids
<1>3. \A r \in Ids : r # id => told'[r] = told[r]
  BY AnswerTyped
<1>4. QED
  BY <1>2, <1>3 DEF Requests

LEMMA LookupKeepsDirectory == ASSUME RoomInv, DirectoryInv, Lookup PROVE DirectoryInv'
<1>1. /\ UNCHANGED <<generators, count, types, size, slots, id, num, seen, asked, was, listed>>
      /\ pc = "lookup"
      /\ \/ Answer(Refused) /\ UNCHANGED <<i, fault>>
         \/ fault' = "generator" /\ UNCHANGED <<pc, told, i>>
         \/ i' = 0 /\ pc' = "look" /\ UNCHANGED <<told, fault>>
  BY DEF Lookup, At, tables
<1>2. Tables'
  BY <1>1, TablesKept DEF DirectoryInv
<1>3. Typing /\ Requests /\ AtWork /\ Listing /\ Busy
  BY <1>1 DEF DirectoryInv, Busy
<1>4. Refused \in Answers
  BY DEF Answers
<1>5. /\ told' \in [Ids -> Answers] /\ Requests'
      /\ pc' \in {"idle", "lookup", "look"} /\ (pc' # "idle" => told' = told)
      /\ i' \in 0 .. MaxSessions /\ fault' \in ManagerFaults
  <2>1. CASE Answer(Refused) /\ UNCHANGED <<i, fault>>
    BY <1>1, <1>3, <1>4, <2>1, AnswerTyped, AnswerKeepsRequests DEF Typing
  <2>2. CASE fault' = "generator" /\ UNCHANGED <<pc, told, i>>
    BY <1>1, <1>3, <2>2 DEF Typing, Requests, ManagerFaults
  <2>3. CASE i' = 0 /\ pc' = "look" /\ UNCHANGED <<told, fault>>
    BY <1>1, <1>3, <2>3 DEF Typing, Requests
  <2>4. QED
    BY <1>1, <2>1, <2>2, <2>3
<1>6. Typing'
  <2>1. pc' \in Steps /\ num' \in 0 .. MaxSessions /\ seen' \in 0 .. MaxSessions
    BY <1>1, <1>3, <1>5 DEF Typing, Steps
  <2>2. QED
    BY <1>1, <1>3, <1>5, <2>1 DEF Typing
<1>7. AtWork' /\ Listing'
  BY <1>1, <1>3, <1>5 DEF AtWork, Busy, Listing
<1>8. QED
  BY <1>2, <1>5, <1>6, <1>7 DEF DirectoryInv

\* The loop stops at a server only if it is of the type asked for.
LEMMA LookKeepsDirectory == ASSUME RoomInv, DirectoryInv, Look PROVE DirectoryInv'
<1>1. /\ UNCHANGED <<generators, count, types, size, slots, id, asked, told, was, fault, listed>>
      /\ pc = "look"
      /\ \/ i < count /\ i' = i + 1 /\ UNCHANGED <<pc, num, seen>>
         \/ /\ i < count /\ types[i] = asked[id] /\ i' = i
            /\ pc' = "count" /\ num' = 0 /\ seen' = 0
         \/ i = count /\ pc' = "open" /\ UNCHANGED <<i, num, seen>>
  BY DEF Look, At, tables, history
<1>2. Tables'
  BY <1>1, TablesKept DEF DirectoryInv
<1>3. Typing /\ Requests /\ AtWork /\ Listing
  BY DEF DirectoryInv
<1>4. Typing'
  <2>1. /\ pc' \in Steps /\ num' \in 0 .. MaxSessions /\ seen' \in 0 .. MaxSessions
        /\ i' \in 0 .. MaxSessions
    BY <1>1, <1>3 DEF Typing, Steps
  <2>2. QED
    BY <1>1, <1>3, <2>1 DEF Typing
<1>5. Requests' /\ AtWork' /\ Listing'
  BY <1>1, <1>3 DEF Requests, AtWork, Busy, Listing
<1>6. QED
  BY <1>2, <1>4, <1>5 DEF DirectoryInv

LEMMA CountKeepsDirectory == ASSUME RoomInv, DirectoryInv, Count PROVE DirectoryInv'
<1>1. /\ UNCHANGED <<generators, count, types, size, slots, id, asked, told, was, fault, listed>>
      /\ pc = "count"
      /\ \/ /\ num < size[i] /\ num' = num + 1 /\ seen' \in {seen, seen + 1}
            /\ UNCHANGED <<pc, i>>
         \/ num = size[i] /\ pc' = "scan" /\ num' = 0 /\ UNCHANGED <<i, seen>>
         \/ num = size[i] /\ pc' = "look" /\ i' = i + 1 /\ UNCHANGED <<num, seen>>
  BY DEF Count, At, tables, history
<1>2. Tables'
  BY <1>1, TablesKept DEF DirectoryInv
<1>3. Typing /\ Requests /\ AtWork /\ Listing
  BY DEF DirectoryInv
<1>4. i \in Servers /\ i < count /\ seen <= num /\ size[i] \in 0 .. MaxSessions
  BY <1>1, <1>3 DEF RoomInv, RoomTypes, InProgress, CountedSlots, Typing
<1>5. Typing'
  <2>1. /\ pc' \in Steps /\ num' \in 0 .. MaxSessions /\ seen' \in 0 .. MaxSessions
        /\ i' \in 0 .. MaxSessions
    <3>1. pc' \in Steps
      BY <1>1 DEF Steps
    <3>2. i \in 0 .. MaxSessions /\ num \in 0 .. MaxSessions /\ seen \in 0 .. MaxSessions
          /\ count \in 0 .. MaxSessions
      BY <1>3 DEF Typing
    <3>3. num' \in 0 .. MaxSessions /\ seen' \in 0 .. MaxSessions /\ i' \in 0 .. MaxSessions
      BY <1>1, <1>4, <3>2
    <3>4. QED
      BY <3>1, <3>3
  <2>2. QED
    BY <1>1, <1>3, <2>1 DEF Typing
<1>6. Requests' /\ AtWork' /\ Listing'
  BY <1>1, <1>3 DEF Requests, AtWork, Busy, Listing
<1>7. QED
  BY <1>2, <1>5, <1>6 DEF DirectoryInv

(***************************************************************************)
(* A session is stored only in a slot that is null, and has no other place. *)
(***************************************************************************)
LEMMA StoreKeepsTables ==
    ASSUME Typing, Tables, Requests, AtWork, pc \in {"scan", "push"},
           i \in Servers, num \in Slots, i = count => num = 0, i <= count,
           slots[i][num] = NoSession, NEW next \in Attached, Store(next),
           UNCHANGED <<count, types, i, num, id, asked, told>>
    PROVE  /\ slots' \in [Servers -> [Slots -> Ids \cup {NoSession}]]
           /\ was' \in [Ids -> Places]
           /\ \A s \in Servers, n \in Slots :
                  slots'[s][n] = IF s = i /\ n = num THEN id ELSE slots[s][n]
           /\ Hosts' /\ Stored' /\ Requests' /\ AtWork'
<1>1. /\ slots' = [slots EXCEPT ![i] = [slots[i] EXCEPT ![num] = id]]
      /\ was' = [was EXCEPT ![id] = <<i, num>>] /\ pc' = next
  BY DEF Store
<1>2. /\ id \in Ids /\ told[id] = Nowhere /\ was[id] = Nowhere
      /\ i < count => types[i] = asked[id]
  BY DEF AtWork, Busy
<1>3. /\ slots \in [Servers -> [Slots -> Ids \cup {NoSession}]] /\ was \in [Ids -> Places]
      /\ told \in [Ids -> Answers]
  BY DEF Typing
<1>4. [slots[i] EXCEPT ![num] = id] \in [Slots -> Ids \cup {NoSession}]
  BY <1>2, <1>3
<1>5. slots' \in [Servers -> [Slots -> Ids \cup {NoSession}]]
  BY <1>1, <1>3, <1>4
<1>6. <<i, num>> \in Places
  BY DEF Places
<1>7. was' \in [Ids -> Places] /\ \A r \in Ids : was'[r] = IF r = id THEN <<i, num>> ELSE was[r]
  BY <1>1, <1>2, <1>3, <1>6
<1>8. \A s \in Servers, n \in Slots :
          slots'[s][n] = IF s = i /\ n = num THEN id ELSE slots[s][n]
  BY <1>1, <1>3
<1>9. Stored'
  <2>1. SUFFICES ASSUME NEW s \in Servers, NEW n \in Slots, slots'[s][n] # NoSession
                 PROVE  was'[slots'[s][n]] = <<s, n>>
    BY DEF Stored
  <2>2. CASE s = i /\ n = num
    BY <1>2, <1>7, <1>8, <2>2
  <2>3. CASE ~(s = i /\ n = num)
    <3>1. slots'[s][n] = slots[s][n] /\ slots[s][n] \in Ids
      BY <1>3, <1>8, <2>1, <2>3
    <3>2. was[slots[s][n]] = <<s, n>> /\ slots[s][n] # NoSession
      BY <2>1, <3>1 DEF Tables, Stored
    <3>3. <<s, n>> \in Servers \X Slots
      OBVIOUS
    <3>4. slots[s][n] # id
      BY <1>2, <3>2, <3>3, Markers
    <3>5. QED
      BY <1>7, <3>1, <3>2, <3>4
  <2>4. QED
    BY <2>2, <2>3
<1>10. Hosts'
  BY DEF Tables, Hosts
<1>11. Requests'
  <2>1. id \in 0 .. MaxRequests
    BY DEF Typing
  <2>2. QED
    BY <1>2, <1>7, <2>1, RequestBounds DEF Requests, Ids
<1>12. AtWork'
  BY <1>1, <1>2, <1>7 DEF AtWork
<1>13. QED
  BY <1>5, <1>7, <1>8, <1>9, <1>10, <1>11, <1>12

LEMMA ScanKeepsDirectory == ASSUME RoomInv, DirectoryInv, Scan PROVE DirectoryInv'
<1>1. /\ UNCHANGED <<generators, count, types, size, id, i, seen, asked, told, fault, listed>>
      /\ pc = "scan"
      /\ \/ num < size[i] /\ slots[i][num] = NoSession /\ Store("thread") /\ UNCHANGED num
         \/ num < size[i] /\ num' = num + 1 /\ UNCHANGED <<pc, slots, was>>
         \/ num = size[i] /\ pc' = "push" /\ UNCHANGED <<num, slots, was>>
  BY DEF Scan, At
<1>2. Typing /\ Tables /\ Requests /\ AtWork /\ Listing
  BY DEF DirectoryInv
<1>3. /\ i \in Servers /\ i <= count /\ size[i] \in 0 .. MaxSessions /\ num \in 0 .. MaxSessions
      /\ num <= size[i] /\ (i = count => size[i] = 0)
  BY <1>1, <1>2 DEF RoomInv, RoomTypes, InProgress, FreshServersEmpty, Typing
<1>4. CASE num < size[i] /\ slots[i][num] = NoSession /\ Store("thread") /\ UNCHANGED num
  <2>1. num \in Slots /\ (i = count => num = 0)
    BY <1>3, <1>4
  <2>2. /\ slots' \in [Servers -> [Slots -> Ids \cup {NoSession}]]
        /\ was' \in [Ids -> Places]
        /\ \A s \in Servers, n \in Slots :
               slots'[s][n] = IF s = i /\ n = num THEN id ELSE slots[s][n]
        /\ Hosts' /\ Stored' /\ Requests' /\ AtWork'
    BY <1>1, <1>2, <1>3, <1>4, <2>1, StoreKeepsTables
  <2>3. WithinSize'
    <3>1. SUFFICES ASSUME NEW s \in Servers, NEW n \in Slots, n >= size'[s]
                   PROVE  slots'[s][n] = NoSession
      BY DEF WithinSize
    <3>2. size[s] = size'[s] /\ slots[s][n] = NoSession
      BY <1>1, <1>2, <3>1 DEF Tables, WithinSize
    <3>3. ~(s = i /\ n = num)
      BY <1>3, <1>4, <3>1, <3>2 DEF Slots
    <3>4. QED
      BY <2>2, <3>2, <3>3
  <2>4. pc' = "thread"
    BY <1>4 DEF Store
  <2>5. Typing'
    BY <1>1, <1>2, <1>4, <2>2, <2>4 DEF Typing, Steps
  <2>6. Listing'
    BY <1>1, <1>2, <2>4 DEF Listing
  <2>7. QED
    BY <2>2, <2>3, <2>5, <2>6 DEF DirectoryInv, Tables
<1>5. CASE /\ num' \in 0 .. MaxSessions /\ pc' \in {"scan", "push"} /\ UNCHANGED <<slots, was>>
  <2>1. Tables'
    BY <1>1, <1>2, <1>5, TablesKept
  <2>2. Typing'
    BY <1>1, <1>2, <1>5 DEF Typing, Steps
  <2>3. Requests' /\ AtWork' /\ Listing'
    BY <1>1, <1>2, <1>5 DEF Requests, AtWork, Busy, Listing
  <2>4. QED
    BY <2>1, <2>2, <2>3 DEF DirectoryInv
<1>6. QED
  BY <1>1, <1>3, <1>4, <1>5

\* The element added is null until the session is in it.
LEMMA PushBackKeepsDirectory == ASSUME RoomInv, DirectoryInv, PushBack PROVE DirectoryInv'
<1>1. /\ UNCHANGED <<generators, count, types, id, i, num, seen, asked, told, fault, listed>>
      /\ pc = "push" /\ Store("grow") /\ size' = [size EXCEPT ![i] = size[i] + 1]
  BY DEF PushBack, At
<1>2. Typing /\ Tables /\ Requests /\ AtWork /\ Listing
  BY DEF DirectoryInv
<1>3. /\ i \in Servers /\ i <= count /\ size[i] \in 0 .. MaxSessions /\ num \in Slots
      /\ num = size[i] /\ (i = count => size[i] = 0)
  BY <1>1, <1>2 DEF RoomInv, RoomTypes, InProgress, FreshServersEmpty, Typing
<1>4. slots[i][num] = NoSession
  BY <1>2, <1>3 DEF Tables, WithinSize
<1>5. /\ slots' \in [Servers -> [Slots -> Ids \cup {NoSession}]]
      /\ was' \in [Ids -> Places]
      /\ \A s \in Servers, n \in Slots :
             slots'[s][n] = IF s = i /\ n = num THEN id ELSE slots[s][n]
      /\ Hosts' /\ Stored' /\ Requests' /\ AtWork'
  BY <1>1, <1>2, <1>3, <1>4, StoreKeepsTables
<1>6. size' \in [Servers -> 0 .. MaxSessions]
  BY <1>1, <1>2, <1>3 DEF Typing
<1>7. WithinSize'
  <2>1. \A s \in Servers : size'[s] = IF s = i THEN size[i] + 1 ELSE size[s]
    BY <1>1, <1>2 DEF Typing
  <2>2. SUFFICES ASSUME NEW s \in Servers, NEW n \in Slots, n >= size'[s]
                 PROVE  slots'[s][n] = NoSession
    BY DEF WithinSize
  <2>3. n >= size[s] /\ ~(s = i /\ n = num)
    BY <1>2, <1>3, <2>1, <2>2 DEF Typing
  <2>4. QED
    BY <1>2, <1>5, <2>3 DEF Tables, WithinSize
<1>8. pc' = "grow"
  BY <1>1 DEF Store
<1>9. Typing'
  BY <1>1, <1>2, <1>5, <1>6, <1>8 DEF Typing, Steps
<1>10. Listing'
  BY <1>1, <1>2, <1>8 DEF Listing
<1>11. QED
  BY <1>5, <1>7, <1>9, <1>10 DEF DirectoryInv, Tables

LEMMA StoreThreadKeepsDirectory ==
    ASSUME DirectoryInv, StoreThread PROVE DirectoryInv'
<1>1. /\ UNCHANGED <<generators, count, types, size, slots, id, i, num, seen, asked, told, was,
                     fault, listed>>
      /\ pc \in {"thread", "grow"} /\ pc' = "found"
  BY DEF StoreThread, At, tables, history
<1>2. Tables'
  BY <1>1, TablesKept DEF DirectoryInv
<1>3. Typing'
  BY <1>1 DEF DirectoryInv, Typing, Steps
<1>4. Requests' /\ AtWork' /\ Listing'
  BY <1>1 DEF DirectoryInv, Requests, AtWork, Busy, Listing
<1>5. QED
  BY <1>2, <1>3, <1>4 DEF DirectoryInv

LEMMA OpenKeepsDirectory == ASSUME RoomInv, DirectoryInv, Open PROVE DirectoryInv'
<1>1. /\ UNCHANGED <<generators, count, types, size, slots, id, i, seen, asked, was, listed>>
      /\ pc = "open"
      /\ \/ Answer(Refused) /\ UNCHANGED <<num, fault>>
         \/ fault' = "host" /\ UNCHANGED <<pc, told, num>>
         \/ pc' = "scan" /\ num' = 0 /\ UNCHANGED <<told, fault>>
  BY DEF Open, At, tables
<1>2. Tables'
  BY <1>1, TablesKept DEF DirectoryInv
<1>3. Typing /\ Requests /\ AtWork /\ Listing /\ Busy /\ i = count
  BY <1>1 DEF DirectoryInv, Busy, RoomInv, InProgress
<1>4. Refused \in Answers
  BY DEF Answers
<1>5. /\ told' \in [Ids -> Answers] /\ Requests'
      /\ pc' \in {"idle", "open", "scan"} /\ (pc' # "idle" => told' = told)
      /\ num' \in 0 .. MaxSessions /\ fault' \in ManagerFaults
  <2>1. CASE Answer(Refused) /\ UNCHANGED <<num, fault>>
    BY <1>1, <1>3, <1>4, <2>1, AnswerTyped, AnswerKeepsRequests DEF Typing
  <2>2. CASE fault' = "host" /\ UNCHANGED <<pc, told, num>>
    BY <1>1, <1>3, <2>2 DEF Typing, Requests, ManagerFaults
  <2>3. CASE pc' = "scan" /\ num' = 0 /\ UNCHANGED <<told, fault>>
    BY <1>1, <1>3, <2>3 DEF Typing, Requests
  <2>4. QED
    BY <1>1, <2>1, <2>2, <2>3
<1>6. Typing'
  <2>1. pc' \in Steps
    BY <1>5 DEF Steps
  <2>2. QED
    BY <1>1, <1>3, <1>5, <2>1 DEF Typing
<1>7. AtWork'
  <2>1. pc' # "idle" => id \in Ids /\ told'[id] = Nowhere /\ was[id] = Nowhere
    BY <1>1, <1>3, <1>5 DEF AtWork
  <2>2. ~(i < count)
    BY <1>3 DEF Typing
  <2>3. QED
    BY <1>1, <1>5, <2>1, <2>2 DEF AtWork, Busy
<1>8. Listing'
  BY <1>1, <1>3, <1>5 DEF Listing
<1>9. QED
  BY <1>2, <1>5, <1>6, <1>7, <1>8 DEF DirectoryInv

LEMMA FoundKeepsDirectory == ASSUME RoomInv, DirectoryInv, Found PROVE DirectoryInv'
<1>1. /\ UNCHANGED <<generators, size, slots, id, i, num, seen, asked, was, fault, listed>>
      /\ pc = "found"
      /\ \/ i < count /\ Answer(<<Port(i), num>>) /\ UNCHANGED <<count, types>>
         \/ /\ i = count /\ Answer(<<Port(i), 0>>) /\ count' = count + 1
            /\ types' = [types EXCEPT ![i] = asked[id]]
  BY DEF Found, At
<1>2. Typing /\ Tables /\ Requests /\ AtWork /\ Listing /\ Busy
  BY <1>1 DEF DirectoryInv, Busy
<1>3. i \in Servers /\ num \in Slots /\ id \in Ids /\ count \in 0 .. MaxSessions
  BY <1>1, <1>2 DEF RoomInv, InProgress, AtWork, Typing
<1>4. <<Port(i), num>> \in Answers /\ <<Port(i), 0>> \in Answers
  <2>1. Port(i) \in 0 .. PortMod - 1
    BY <1>3, Ports
  <2>2. QED
    BY <1>3, <2>1 DEF Answers
<1>5. told' \in [Ids -> Answers] /\ pc' = "idle" /\ Requests'
  <2>1. PICK a \in Answers : Answer(a)
    BY <1>1, <1>4
  <2>2. QED
    BY <1>1, <1>2, <2>1, AnswerTyped, AnswerKeepsRequests
<1>6. asked[id] \in Types
  <2>1. asked[id] # NoType /\ asked[id] \in Types \cup {NoType}
    BY <1>2, <1>3, RequestBounds DEF Requests, Ids, Typing
  <2>2. QED
    BY <2>1
<1>7. /\ count' \in 0 .. MaxSessions /\ types' \in [Servers -> Types \cup {NoType}]
      /\ Hosts'
  <2>1. CASE UNCHANGED <<count, types>>
    BY <1>2, <2>1 DEF Typing, Tables, Hosts
  <2>2. CASE i = count /\ count' = count + 1 /\ types' = [types EXCEPT ![i] = asked[id]]
    <3>1. types' \in [Servers -> Types \cup {NoType}] /\ count' \in 0 .. MaxSessions
      BY <1>2, <1>3, <1>6, <2>2 DEF Typing
    <3>2. \A s \in Servers : types'[s] = IF s = i THEN asked[id] ELSE types[s]
      BY <1>2, <2>2 DEF Typing
    <3>3. asked[id] # NoType
      BY <1>6, RequestBounds
    <3>4. QED
      BY <1>2, <1>3, <2>2, <3>1, <3>2, <3>3 DEF Tables, Hosts
  <2>3. QED
    BY <1>1, <2>1, <2>2
<1>8. Typing'
  BY <1>1, <1>2, <1>5, <1>7 DEF Typing, Steps
<1>9. Stored' /\ WithinSize'
  BY <1>1, <1>2 DEF Tables, Stored, WithinSize
<1>10. AtWork' /\ Listing'
  BY <1>1, <1>2, <1>5 DEF AtWork, Busy, Listing
<1>11. QED
  BY <1>5, <1>7, <1>8, <1>9, <1>10 DEF DirectoryInv, Tables

-------------------------------------------------------------------------------
(* The listing, and the session servers' threads.                          *)

LEMMA ListKeepsDirectory ==
    ASSUME RoomInv, DirectoryInv, GetSessionList \/ List PROVE DirectoryInv'
<1>1. /\ UNCHANGED <<generators, count, types, size, slots, id, seen, listed, asked, told, was,
                     fault>>
      /\ pc \in {"idle", "list"} /\ pc' \in {"list", "copy", "page"}
      /\ \/ pc' = "list" /\ i' = 0 /\ num' = 0
         \/ pc = "list" /\ i < count /\ num < size[i] /\ i' = i /\ num' = num + 1 /\ pc' = "list"
         \/ pc = "list" /\ i < count /\ num < size[i] /\ i' = i /\ num' = num /\ pc' = "copy"
         \/ pc = "list" /\ i < count /\ i' = i + 1 /\ num' = 0 /\ pc' = "list"
         \/ pc = "list" /\ i = count /\ i' = i /\ num' = num /\ pc' = "page"
  <2>1. CASE GetSessionList
    BY <2>1 DEF GetSessionList, At, tables, history
  <2>2. CASE List
    BY <2>2 DEF List, At, tables, history
  <2>3. QED
    BY <2>1, <2>2
<1>2. Tables'
  BY <1>1, TablesKept DEF DirectoryInv
<1>3. Typing /\ Requests /\ AtWork /\ Listing
  BY DEF DirectoryInv
<1>4. /\ count \in 0 .. MaxSessions /\ size \in [Servers -> 0 .. MaxSessions]
      /\ i \in 0 .. MaxSessions /\ num \in 0 .. MaxSessions
      /\ i < count => size[i] \in 0 .. MaxSessions
  BY <1>3 DEF Typing
<1>5. i' \in 0 .. MaxSessions /\ num' \in 0 .. MaxSessions
  BY <1>1, <1>4
<1>6. Typing'
  <2>1. pc' \in Steps
    BY <1>1 DEF Steps
  <2>2. QED
    BY <1>1, <1>3, <1>5, <2>1 DEF Typing
<1>7. Requests' /\ AtWork'
  BY <1>1, <1>3 DEF Requests, AtWork, Busy
<1>8. Listing'
  <2>1. i' < count' => size'[i'] \in 0 .. MaxSessions
    BY <1>1, <1>4, <1>5
  <2>2. QED
    BY <1>1, <1>3, <1>4, <1>5, <2>1 DEF Listing
<1>9. QED
  BY <1>2, <1>6, <1>7, <1>8 DEF DirectoryInv

LEMMA CopyKeepsDirectory == ASSUME RoomInv, DirectoryInv, Copy PROVE DirectoryInv'
<1>1. /\ UNCHANGED <<generators, count, types, size, slots, id, i, seen, asked, told, was>>
      /\ pc = "copy"
      /\ \/ /\ slots[i][num] # NoSession /\ pc' = "list" /\ num' = num + 1 /\ UNCHANGED fault
            /\ listed' = IF slots[i][num] \in Hidden THEN listed
                         ELSE Append(listed, slots[i][num])
         \/ fault' = "list" /\ UNCHANGED <<pc, num, listed>>
  BY DEF Copy, At, tables, history
<1>2. Tables'
  BY <1>1, TablesKept DEF DirectoryInv
<1>3. Typing /\ Requests /\ AtWork /\ Listing
  BY DEF DirectoryInv
<1>4. /\ i \in Servers /\ num < size[i] /\ size[i] \in 0 .. MaxSessions
      /\ num \in Slots /\ slots[i][num] \in Ids \cup {NoSession}
  BY <1>1, <1>3 DEF RoomInv, InProgress, Listing, Typing
<1>5. /\ listed' \in Seq(Ids \ Hidden) /\ num' \in 0 .. MaxSessions
      /\ pc' \in Steps /\ fault' \in ManagerFaults
  <2>1. CASE fault' = "list" /\ UNCHANGED <<pc, num, listed>>
    BY <1>3, <2>1 DEF Typing, ManagerFaults
  <2>2. CASE /\ slots[i][num] # NoSession /\ pc' = "list" /\ num' = num + 1 /\ UNCHANGED fault
             /\ listed' = IF slots[i][num] \in Hidden THEN listed
                          ELSE Append(listed, slots[i][num])
    <3>1. listed \in Seq(Ids \ Hidden)
      BY <1>3 DEF Typing
    <3>2. slots[i][num] \notin Hidden => slots[i][num] \in Ids \ Hidden
      BY <1>4, <2>2
    <3>3. listed' \in Seq(Ids \ Hidden)
      BY <2>2, <3>1, <3>2, AppendProperties
    <3>4. QED
      BY <1>3, <1>4, <2>2, <3>3 DEF Typing, Steps
  <2>3. QED
    BY <1>1, <2>1, <2>2
<1>6. Typing'
  BY <1>1, <1>3, <1>5 DEF Typing
<1>7. pc' \in {"copy", "list"} /\ (pc' = "copy" => num' = num) /\ (pc' = "list" => num' = num + 1)
  BY <1>1
<1>8. Requests' /\ AtWork'
  BY <1>1, <1>3, <1>7 DEF Requests, AtWork, Busy
<1>9. Listing'
  BY <1>1, <1>4, <1>7 DEF Listing
<1>10. QED
  BY <1>2, <1>6, <1>8, <1>9 DEF DirectoryInv

LEMMA PageKeepsDirectory == ASSUME RoomInv, DirectoryInv, PageIsCut PROVE DirectoryInv'
<1>1. /\ UNCHANGED <<generators, count, types, size, slots, id, i, num, seen, asked, told, was>>
      /\ pc = "page"
      /\ \/ pc' = "idle" /\ listed' = <<>> /\ UNCHANGED fault
         \/ fault' = "page" /\ UNCHANGED <<pc, listed>>
  BY DEF PageIsCut, CutPage, At, tables, history
<1>2. Tables'
  BY <1>1, TablesKept DEF DirectoryInv
<1>3. Typing /\ Requests /\ AtWork /\ Listing
  BY DEF DirectoryInv
<1>4. listed' \in Seq(Ids \ Hidden)
  <2>1. << >> \in Seq(Ids \ Hidden)
    OBVIOUS
  <2>2. QED
    BY <1>1, <1>3, <2>1 DEF Typing
<1>5. pc' \in {"idle", "page"} /\ pc' \in Steps /\ fault' \in ManagerFaults
  BY <1>1, <1>3 DEF Typing, Steps, ManagerFaults
<1>6. Typing'
  BY <1>1, <1>3, <1>4, <1>5 DEF Typing
<1>7. Requests' /\ AtWork' /\ Listing'
  BY <1>1, <1>3, <1>5 DEF Requests, AtWork, Busy, Listing
<1>8. QED
  BY <1>2, <1>6, <1>7 DEF DirectoryInv

LEMMA DetachSlots ==
    ASSUME Typing, NEW s \in Servers, NEW n \in Slots, Detach(s, n)
    PROVE  /\ slots' \in [Servers -> [Slots -> Ids \cup {NoSession}]]
           /\ \A r \in Servers, m \in Slots :
                  slots'[r][m] = IF r = s /\ m = n THEN NoSession ELSE slots[r][m]
           /\ UNCHANGED <<generators, count, types, size, pc, id, i, num, seen, listed,
                          asked, told, was, fault>>
<1>1. /\ slots' = [slots EXCEPT ![s] = [slots[s] EXCEPT ![n] = NoSession]]
      /\ UNCHANGED <<generators, count, types, size, pc, id, i, num, seen, listed,
                     asked, told, was, fault>>
  BY DEF Detach, history
<1>2. slots \in [Servers -> [Slots -> Ids \cup {NoSession}]]
  BY DEF Typing
<1>3. [slots[s] EXCEPT ![n] = NoSession] \in [Slots -> Ids \cup {NoSession}]
  BY <1>2
<1>4. slots' \in [Servers -> [Slots -> Ids \cup {NoSession}]]
  BY <1>1, <1>2, <1>3
<1>5. \A r \in Servers, m \in Slots :
          slots'[r][m] = IF r = s /\ m = n THEN NoSession ELSE slots[r][m]
  BY <1>1, <1>2
<1>6. QED
  BY <1>1, <1>4, <1>5

LEMMA DetachKeepsDirectory ==
    ASSUME DirectoryInv, NEW s \in Servers, NEW n \in Slots, Detach(s, n)
    PROVE  DirectoryInv'
<1>1. Typing /\ Tables /\ Requests /\ AtWork /\ Listing
  BY DEF DirectoryInv
<1>2. /\ slots' \in [Servers -> [Slots -> Ids \cup {NoSession}]]
      /\ \A r \in Servers, m \in Slots :
             slots'[r][m] = IF r = s /\ m = n THEN NoSession ELSE slots[r][m]
      /\ UNCHANGED <<generators, count, types, size, pc, id, i, num, seen, listed,
                     asked, told, was, fault>>
  BY <1>1, DetachSlots
<1>3. Typing'
  BY <1>1, <1>2 DEF Typing
<1>4. Hosts' /\ Stored' /\ WithinSize'
  <2>1. Hosts'
    BY <1>1, <1>2 DEF Tables, Hosts
  <2>2. Stored'
    <3>1. \A r \in Servers, m \in Slots :
              slots'[r][m] # NoSession => slots'[r][m] = slots[r][m] /\ was' = was
      BY <1>2
    <3>2. QED
      BY <1>1, <3>1 DEF Tables, Stored
  <2>3. WithinSize'
    BY <1>1, <1>2 DEF Tables, WithinSize
  <2>4. QED
    BY <2>1, <2>2, <2>3
<1>5. Requests' /\ AtWork' /\ Listing'
  BY <1>1, <1>2 DEF Requests, AtWork, Busy, Listing
<1>6. QED
  BY <1>3, <1>4, <1>5 DEF DirectoryInv, Tables

LEMMA RaceKeepsDirectory == ASSUME DirectoryInv, Race PROVE DirectoryInv'
<1>1. /\ UNCHANGED <<generators, count, types, size, slots, pc, id, i, num, seen, listed,
                     asked, told, was>>
      /\ fault' \in {"generators", "moved", "thread"}
  BY RaceLeaves
<1>2. Tables'
  BY <1>1, TablesKept DEF DirectoryInv
<1>3. Typing'
  BY <1>1 DEF DirectoryInv, Typing, ManagerFaults
<1>4. Requests' /\ AtWork' /\ Listing'
  BY <1>1 DEF DirectoryInv, Requests, AtWork, Busy, Listing
<1>5. QED
  BY <1>2, <1>3, <1>4 DEF DirectoryInv

LEMMA StepDirectory ==
    ASSUME RoomInv, DirectoryInv, [ManagerNext]_managerVars PROVE DirectoryInv'
<1>1. CASE UNCHANGED managerVars
  BY <1>1, DirectoryUnchanged
<1>2. CASE ManagerNext
  <2>1. CASE \E t \in Types : RegisterSessionGenerator(t) \/ RemoveSessionGenerator(t)
    BY <2>1, CallKeepsDirectory
  <2>2. CASE \E t \in Types : CreateNewSession(t)
    BY <2>2, CreateKeepsDirectory
  <2>3. CASE GetSessionList
    BY <2>3, ListKeepsDirectory
  <2>4. CASE MainThread
    BY <2>4, LookupKeepsDirectory, LookKeepsDirectory, CountKeepsDirectory, ScanKeepsDirectory,
       PushBackKeepsDirectory, StoreThreadKeepsDirectory, OpenKeepsDirectory,
       FoundKeepsDirectory, ListKeepsDirectory, CopyKeepsDirectory, PageKeepsDirectory
    DEF MainThread, PageIsCut
  <2>5. CASE \E s \in Servers, n \in Slots : Detach(s, n)
    BY <2>5, DetachKeepsDirectory
  <2>6. CASE Race
    BY <2>6, RaceKeepsDirectory
  <2>7. QED
    BY <1>2, <2>1, <2>2, <2>3, <2>4, <2>5, <2>6 DEF ManagerNext, Race
<1>3. QED
  BY <1>1, <1>2

ManagerInv == RoomInv /\ DirectoryInv

LEMMA AlwaysManagerInv == ManagerSpec => []ManagerInv
<1>1. ManagerInit => ManagerInv
  BY InitRoom, InitDirectory DEF ManagerInv
<1>2. ManagerInv /\ [ManagerNext]_managerVars => ManagerInv'
  BY StepRoom, StepDirectory DEF ManagerInv
<1>3. QED
  BY <1>1, <1>2, PTL DEF ManagerSpec

\* The manager's variables keep their types: no loop leaves a vector, and nothing is stored
\* or counted beyond a server's size.
THEOREM ManagerTypeCorrect == ManagerSpec => []ManagerTypeOK
<1>1. ManagerInv => ManagerTypeOK
  BY Typed DEF ManagerInv, DirectoryInv
<1>2. QED
  BY <1>1, AlwaysManagerInv, PTL

-------------------------------------------------------------------------------
(***************************************************************************)
(* What a listing has: sessions that were given places, in their order.    *)
(***************************************************************************)
Before(p, q) == p[1] < q[1] \/ (p[1] = q[1] /\ p[2] < q[2])

Placed == \A k \in 1 .. Len(listed) : was[listed[k]] \in Servers \X Slots

InOrder ==
    \A k, l \in 1 .. Len(listed) : k < l => Before(was[listed[k]], was[listed[l]])

Passed == \A k \in 1 .. Len(listed) : Before(was[listed[k]], <<i, num>>)

NoneMissing ==
    \A s \in Servers, n \in Slots :
        /\ s < count /\ slots[s][n] \notin Hidden \cup {NoSession}
        /\ Before(<<s, n>>, <<i, num>>)
        => \E k \in 1 .. Len(listed) : listed[k] = slots[s][n]

Listed == Placed /\ InOrder /\ Passed /\ NoneMissing

InListing == pc \in {"list", "copy", "page"}

ListedInv == InListing => Listed

LEMMA ListedIsOrder == ListedInv => ListedInOrder
  BY DEF ListedInOrder, ListedInv, InListing, Listed, InOrder, Passed, NoneMissing, Before

\* A place that is the first after some others is after all that are before them.
LEMMA BeforeLater ==
    ASSUME NEW p \in Nat \X Nat, NEW q \in Nat \X Nat, NEW r \in Nat \X Nat,
           Before(p, q), q = r \/ Before(q, r)
    PROVE  Before(p, r)
<1>1. p[1] \in Nat /\ p[2] \in Nat /\ q[1] \in Nat /\ q[2] \in Nat /\ r[1] \in Nat /\ r[2] \in Nat
  OBVIOUS
<1>2. QED
  BY <1>1 DEF Before

LEMMA Naturals == ASSUME NEW p \in Servers \X Slots PROVE p \in Nat \X Nat
  OBVIOUS

LEMMA InitListed == ManagerInit => ListedInv
  BY DEF ManagerInit, ListedInv, InListing

\* Only the slots and the place the listing has come to matter, and a slot may become null.
LEMMA ListedKept ==
    ASSUME Listed, UNCHANGED <<count, i, num, listed, was>>,
           \A s \in Servers, n \in Slots : slots'[s][n] \in {slots[s][n], NoSession}
    PROVE  Listed'
<1>1. Placed' /\ InOrder' /\ Passed'
  BY DEF Listed, Placed, InOrder, Passed
<1>2. NoneMissing'
  BY DEF Listed, NoneMissing
<1>3. QED
  BY <1>1, <1>2 DEF Listed

\* Where the listing goes next: over a slot that is null, or to the next server.
LEMMA NothingMissed ==
    ASSUME Typing, Tables, Listing, i <= count, pc = "list", NoneMissing,
           \/ i < count /\ num < size[i] /\ slots[i][num] = NoSession /\ i' = i /\ num' = num + 1
           \/ i < count /\ num = size[i] /\ i' = i + 1 /\ num' = 0,
           UNCHANGED <<count, slots, listed>>
    PROVE  NoneMissing'
<1>1. SUFFICES ASSUME NEW s \in Servers, NEW n \in Slots,
                      s < count, slots[s][n] \notin Hidden \cup {NoSession},
                      Before(<<s, n>>, <<i', num'>>)
               PROVE  \E k \in 1 .. Len(listed) : listed[k] = slots[s][n]
  BY DEF NoneMissing
<1>2. i \in Servers /\ num \in Nat /\ size[i] \in 0 .. MaxSessions /\ count \in 0 .. MaxSessions
  BY DEF Typing
<1>3. slots[s][n] # NoSession
  BY <1>1
<1>4. Before(<<s, n>>, <<i, num>>)
  <2>1. s < i' \/ (s = i' /\ n < num')
    BY <1>1 DEF Before
  <2>2. s < i \/ (s = i /\ n < num)
    <3>1. CASE i < count /\ num < size[i] /\ slots[i][num] = NoSession /\ i' = i /\ num' = num + 1
      BY <1>2, <1>3, <2>1, <3>1
    <3>2. CASE i < count /\ num = size[i] /\ i' = i + 1 /\ num' = 0
      <4>1. s = i => n < size[i]
        BY <1>2, <1>3 DEF Tables, WithinSize
      <4>2. QED
        BY <1>2, <2>1, <3>2, <4>1
    <3>3. QED
      BY <3>1, <3>2
  <2>3. QED
    BY <2>2 DEF Before
<1>5. QED
  BY <1>1, <1>4 DEF NoneMissing

LEMMA PassedFurther ==
    ASSUME Typing, Placed, Passed, UNCHANGED <<listed, was>>,
           \/ i' = i /\ num' = num + 1
           \/ i' = i + 1 /\ num' = 0
    PROVE  Passed'
<1>1. SUFFICES ASSUME NEW k \in 1 .. Len(listed)
               PROVE  Before(was[listed[k]], <<i', num'>>)
  BY DEF Passed
<1>2. i \in Nat /\ num \in Nat /\ i' \in Nat /\ num' \in Nat
  BY DEF Typing
<1>3. was[listed[k]] \in Nat \X Nat /\ Before(was[listed[k]], <<i, num>>)
  BY <1>1, Naturals DEF Placed, Passed
<1>4. <<i, num>> \in Nat \X Nat /\ <<i', num'>> \in Nat \X Nat
  BY <1>2
<1>5. Before(<<i, num>>, <<i', num'>>)
  BY <1>2 DEF Before
<1>6. QED
  BY <1>3, <1>4, <1>5, BeforeLater

LEMMA ListKeepsListed ==
    ASSUME ManagerInv, ListedInv, GetSessionList \/ List PROVE ListedInv'
<1>1. Typing /\ Tables /\ Listing /\ i <= count
  BY DEF ManagerInv, DirectoryInv, RoomInv, InProgress
<1>2. CASE GetSessionList
  <2>1. listed' = <<>> /\ i' = 0 /\ num' = 0
    BY <1>1, <1>2 DEF GetSessionList, At, Listing
  <2>2. Placed' /\ InOrder' /\ Passed'
    BY <2>1 DEF Placed, InOrder, Passed
  <2>3. NoneMissing'
    BY <2>1 DEF NoneMissing, Before
  <2>4. QED
    BY <2>2, <2>3 DEF ListedInv, Listed
<1>3. CASE List
  <2>1. /\ UNCHANGED <<count, slots, listed, was>> /\ pc = "list"
        /\ \/ i < count /\ num < size[i] /\ slots[i][num] = NoSession /\ i' = i /\ num' = num + 1
           \/ i' = i /\ num' = num
           \/ i < count /\ num = size[i] /\ i' = i + 1 /\ num' = 0
    BY <1>3 DEF List, At, tables, history
  <2>2. Placed /\ InOrder /\ Passed /\ NoneMissing
    BY <2>1 DEF ListedInv, InListing, Listed
  <2>3. Placed' /\ InOrder'
    BY <2>1, <2>2 DEF Placed, InOrder
  <2>4. CASE i' = i /\ num' = num
    BY <2>1, <2>2, <2>4, ListedKept DEF ListedInv, Listed
  <2>5. CASE \/ i < count /\ num < size[i] /\ slots[i][num] = NoSession /\ i' = i /\ num' = num + 1
             \/ i < count /\ num = size[i] /\ i' = i + 1 /\ num' = 0
    BY <1>1, <2>1, <2>2, <2>3, <2>5, NothingMissed, PassedFurther DEF ListedInv, Listed
  <2>6. QED
    BY <2>1, <2>4, <2>5
<1>4. QED
  BY <1>2, <1>3

\* The session copied is at the place the listing has come to.
LEMMA CopyKeepsListed == ASSUME ManagerInv, ListedInv, Copy PROVE ListedInv'
<1>1. Typing /\ Tables /\ Listing
  BY DEF ManagerInv, DirectoryInv
<1>2. pc = "copy" /\ UNCHANGED <<count, i, size, slots, was>> /\ Listed
  BY DEF Copy, At, tables, history, ListedInv, InListing
<1>3. CASE slots[i][num] = NoSession
  <2>1. UNCHANGED <<num, listed>>
    BY <1>3 DEF Copy
  <2>2. QED
    BY <1>2, <2>1, ListedKept DEF ListedInv
<1>4. CASE slots[i][num] # NoSession
  <2>1. PICK r \in Ids : r = slots[i][num]
    <3>1. i \in Servers /\ num \in Slots
      BY <1>1, <1>2 DEF ManagerInv, RoomInv, InProgress, Listing, Typing
    <3>2. QED
      BY <1>1, <1>4, <3>1 DEF Typing
  <2>2. i \in Servers /\ num \in Slots /\ was[r] = <<i, num>>
    BY <1>1, <1>2, <1>4, <2>1 DEF ManagerInv, RoomInv, InProgress, Listing, Typing, Tables, Stored
  <2>3. /\ num' = num + 1
        /\ listed' = IF r \in Hidden THEN listed ELSE Append(listed, r)
    BY <1>4, <2>1 DEF Copy
  <2>4. PICK m \in Nat : m = Len(listed)
    BY <1>1 DEF Typing
  <2>5. \A k \in 1 .. m : /\ was[listed[k]] \in Servers \X Slots
                          /\ Before(was[listed[k]], <<i, num>>)
    BY <1>2, <2>4 DEF Listed, Placed, Passed
  <2>6. Before(<<i, num>>, <<i, num + 1>>)
    BY <2>2 DEF Before
  <2>7. \A k \in 1 .. m : Before(was[listed[k]], <<i, num + 1>>)
    <3>1. SUFFICES ASSUME NEW k \in 1 .. m PROVE Before(was[listed[k]], <<i, num + 1>>)
      OBVIOUS
    <3>2. /\ was[listed[k]] \in Nat \X Nat
          /\ <<i, num>> \in Nat \X Nat /\ <<i, num + 1>> \in Nat \X Nat
      BY <2>2, <2>5, Naturals
    <3>3. QED
      BY <2>5, <2>6, <3>2, BeforeLater
  <2>8. \A s \in Servers, n \in Slots :
            /\ s < count /\ slots[s][n] \notin Hidden \cup {NoSession}
            /\ Before(<<s, n>>, <<i, num + 1>>)
            => \/ slots[s][n] = r /\ r \notin Hidden
               \/ \E k \in 1 .. m : listed[k] = slots[s][n]
    <3>1. SUFFICES ASSUME NEW s \in Servers, NEW n \in Slots,
                          s < count, slots[s][n] \notin Hidden \cup {NoSession},
                          Before(<<s, n>>, <<i, num + 1>>), ~(s = i /\ n = num)
                   PROVE  \E k \in 1 .. m : listed[k] = slots[s][n]
      BY <2>1
    <3>2. s < i \/ (s = i /\ n < num + 1)
      BY <3>1 DEF Before
    <3>3. s < i \/ (s = i /\ n < num)
      BY <2>2, <3>1, <3>2
    <3>4. Before(<<s, n>>, <<i, num>>)
      BY <3>3 DEF Before
    <3>5. QED
      BY <1>2, <2>4, <3>1, <3>4 DEF Listed, NoneMissing
  <2>9. CASE r \in Hidden
    <3>1. listed' = listed
      BY <2>3, <2>9
    <3>2. Placed' /\ InOrder' /\ Passed'
      BY <1>2, <2>3, <2>4, <2>7, <3>1 DEF Listed, Placed, InOrder, Passed
    <3>3. NoneMissing'
      BY <1>2, <2>3, <2>4, <2>8, <2>9, <3>1 DEF NoneMissing
    <3>4. QED
      BY <3>2, <3>3 DEF ListedInv, Listed
  <2>10. CASE r \notin Hidden
    <3>1. Len(listed') = m + 1 /\ listed'[m + 1] = r /\ \A k \in 1 .. m : listed'[k] = listed[k]
      <4>1. listed \in Seq(Ids \ Hidden) /\ r \in Ids \ Hidden /\ listed' = Append(listed, r)
        BY <1>1, <2>1, <2>3, <2>10 DEF Typing
      <4>2. QED
        BY <2>4, <4>1, AppendProperties
    <3>2. Placed'
      <4>1. was' = was /\ was[r] \in Servers \X Slots
        BY <1>2, <2>2
      <4>2. SUFFICES ASSUME NEW k \in 1 .. m + 1 PROVE was[listed'[k]] \in Servers \X Slots
        BY <3>1, <4>1 DEF Placed
      <4>3. CASE k = m + 1
        BY <3>1, <4>1, <4>3
      <4>4. CASE k # m + 1
        <5>1. k \in 1 .. m
          BY <2>4, <4>2, <4>4
        <5>2. QED
          BY <2>5, <3>1, <5>1
      <4>5. QED
        BY <4>3, <4>4
    <3>3. InOrder'
      <4>1. SUFFICES ASSUME NEW k \in 1 .. m + 1, NEW l \in 1 .. m + 1, k < l
                     PROVE  Before(was[listed'[k]], was[listed'[l]])
        BY <1>2, <3>1 DEF InOrder
      <4>2. CASE l = m + 1
        <5>1. k \in 1 .. m /\ was[listed'[l]] = <<i, num>>
          BY <2>2, <2>4, <3>1, <4>1, <4>2
        <5>2. QED
          BY <2>5, <3>1, <5>1
      <4>3. CASE l # m + 1
        <5>1. k \in 1 .. m /\ l \in 1 .. m
          BY <2>4, <4>1, <4>3
        <5>2. Before(was[listed[k]], was[listed[l]])
          BY <1>2, <2>4, <4>1, <5>1 DEF Listed, InOrder
        <5>3. QED
          BY <3>1, <5>1, <5>2
      <4>4. QED
        BY <4>2, <4>3
    <3>4. Passed'
      <4>1. SUFFICES ASSUME NEW k \in 1 .. m + 1 PROVE Before(was[listed'[k]], <<i, num + 1>>)
        BY <1>2, <2>3, <3>1 DEF Passed
      <4>2. k = m + 1 \/ k \in 1 .. m
        BY <2>4
      <4>3. QED
        BY <2>2, <2>6, <2>7, <3>1, <4>2
    <3>5. NoneMissing'
      <4>1. SUFFICES ASSUME NEW s \in Servers, NEW n \in Slots,
                            s < count, slots[s][n] \notin Hidden \cup {NoSession},
                            Before(<<s, n>>, <<i, num + 1>>)
                     PROVE  \E k \in 1 .. m + 1 : listed'[k] = slots[s][n]
        BY <1>2, <2>3, <3>1 DEF NoneMissing
      <4>2. CASE slots[s][n] = r
        BY <2>4, <3>1, <4>2
      <4>3. CASE \E k \in 1 .. m : listed[k] = slots[s][n]
        BY <2>4, <3>1, <4>3
      <4>4. QED
        BY <2>8, <4>1, <4>2, <4>3
    <3>6. QED
      BY <3>2, <3>3, <3>4, <3>5 DEF ListedInv, Listed
  <2>11. QED
    BY <2>9, <2>10
<1>5. QED
  BY <1>3, <1>4

LEMMA StepListed ==
    ASSUME ManagerInv, ListedInv, [ManagerNext]_managerVars PROVE ListedInv'
<1>1. CASE GetSessionList \/ List
  BY <1>1, ListKeepsListed
<1>2. CASE Copy
  BY <1>2, CopyKeepsListed
<1>3. CASE ~InListing'
  BY <1>3 DEF ListedInv
<1>4. CASE \E s \in Servers, n \in Slots : Detach(s, n)
  <2>1. PICK s \in Servers, n \in Slots : Detach(s, n)
    BY <1>4
  <2>2. Typing
    BY DEF ManagerInv, DirectoryInv
  <2>3. \A r \in Servers, m \in Slots : slots'[r][m] \in {slots[r][m], NoSession}
    BY <2>1, <2>2, DetachSlots
  <2>4. UNCHANGED <<count, i, num, listed, was, pc>>
    BY <2>1 DEF Detach, history
  <2>5. QED
    BY <2>3, <2>4, ListedKept DEF ListedInv, InListing
<1>5. CASE UNCHANGED <<count, i, num, listed, was, slots, pc>>
  <2>1. \A s \in Servers, n \in Slots : slots'[s][n] \in {slots[s][n], NoSession}
    BY <1>5
  <2>2. QED
    BY <1>5, <2>1, ListedKept DEF ListedInv, InListing
<1>6. CASE MainThread /\ ~List /\ ~Copy
  <2>1. ~InListing' \/ UNCHANGED <<count, i, num, listed, was, slots, pc>>
    <3>1. CASE Lookup \/ Open \/ Found
      BY <3>1 DEF Lookup, Open, Found, Answer, At, InListing
    <3>2. CASE Look \/ Count
      BY <3>2 DEF Look, Count, At, InListing
    <3>3. CASE Scan \/ PushBack \/ StoreThread
      BY <3>3 DEF Scan, PushBack, Store, StoreThread, At, InListing
    <3>4. CASE \E page, perPage \in 0 .. IndexMod - 1 : CutPage(page, perPage)
      BY <3>4 DEF CutPage, At, InListing, tables, history
    <3>5. QED
      BY <1>6, <3>1, <3>2, <3>3, <3>4 DEF MainThread
  <2>2. QED
    BY <1>3, <1>5, <2>1
<1>7. CASE \E t \in Types : CreateNewSession(t)
  <2>1. ~InListing'
    BY <1>7 DEF CreateNewSession, At, InListing
  <2>2. QED
    BY <1>3, <2>1
<1>8. CASE \/ \E t \in Types : RegisterSessionGenerator(t) \/ RemoveSessionGenerator(t)
           \/ Race \/ UNCHANGED managerVars
  <2>1. UNCHANGED <<count, i, num, listed, was, slots, pc>>
    BY <1>8, RaceLeaves
    DEF RegisterSessionGenerator, RemoveSessionGenerator, history, managerVars
  <2>2. QED
    BY <1>5, <2>1
<1>9. QED
  BY <1>1, <1>2, <1>4, <1>6, <1>7, <1>8 DEF ManagerNext, MainThread, Race

\* While sessions end under it, a listing has every session still there of the places it has
\* passed, in their order, and none twice.
THEOREM ListingKeepsOrder == ManagerSpec => []ListedInOrder
<1>1. ManagerSpec => []ListedInv
  <2>1. ManagerInv /\ ListedInv /\ [ManagerNext]_managerVars => ListedInv'
    BY StepListed
  <2>2. QED
    BY <2>1, InitListed, AlwaysManagerInv, PTL DEF ManagerSpec
<1>2. QED
  BY <1>1, ListedIsOrder, PTL

-------------------------------------------------------------------------------
(***************************************************************************)
(* The pages: as long as the end of a page does not wrap as an index, its  *)
(* range is the one meant.                                                 *)
(***************************************************************************)
LEMMA SmallIndex == ASSUME NEW x \in Nat, x < IndexMod PROVE (x % IndexMod) = x
  BY ManagerAssumption

LEMMA PageRange ==
    ASSUME NEW page \in 1 .. IndexMod - 1, NEW perPage \in 1 .. IndexMod - 1,
           page * perPage < IndexMod
    PROVE  /\ (page - 1) * perPage \in Nat
           /\ PageStart(page, perPage) = (page - 1) * perPage
           /\ ((PageStart(page, perPage) + perPage) % IndexMod) = (page - 1) * perPage + perPage
<1>1. PICK b \in Nat : b = page - 1
  OBVIOUS
<1>2. PICK passed \in Int : passed = b * perPage
  BY <1>1
<1>3. passed \in Nat /\ passed + perPage = page * perPage
  BY <1>1, <1>2
<1>4. passed + perPage \in Nat /\ passed + perPage < IndexMod /\ passed < IndexMod
  BY <1>3, ManagerAssumption
<1>5. ((page + IndexMod - 1) % IndexMod) = b
  <2>1. page + IndexMod - 1 = IndexMod * 1 + b /\ b \in 0 .. IndexMod - 1
    BY <1>1, ManagerAssumption
  <2>2. page + IndexMod - 1 \in Nat /\ IndexMod \in Nat \ {0}
    BY ManagerAssumption
  <2>3. QED
    BY <2>1, <2>2, QuotientUnique
<1>6. PageStart(page, perPage) = passed
  BY <1>2, <1>3, <1>4, <1>5, SmallIndex DEF PageStart
<1>7. ((passed + perPage) % IndexMod) = passed + perPage
  BY <1>4, SmallIndex
<1>8. (page - 1) * perPage = passed
  BY <1>1, <1>2
<1>9. QED
  BY <1>3, <1>6, <1>7, <1>8

LEMMA PagesOfList ==
    ASSUME NEW S, NEW list \in Seq(S),
           NEW page \in 1 .. IndexMod - 1, NEW perPage \in 1 .. IndexMod - 1,
           page * perPage < IndexMod,
           NEW passed \in Nat, passed = (page - 1) * perPage,
           NEW k \in 1 .. Len(list)
    PROVE  /\ (k > passed /\ k <= passed + perPage)
                  <=> (k - passed \in 1 .. Len(Page(list, page, perPage)))
           /\ k - passed \in 1 .. Len(Page(list, page, perPage)) =>
                  Page(list, page, perPage)[k - passed] = list[k]
<1>1. /\ PageStart(page, perPage) = passed
      /\ ((PageStart(page, perPage) + perPage) % IndexMod) = passed + perPage
  BY PageRange
<1>2. PICK last \in Nat : last = IF passed + perPage < Len(list) THEN passed + perPage ELSE Len(list)
  OBVIOUS
<1>3. PageEnd(list, page, perPage) = last
  BY <1>1, <1>2 DEF PageEnd
<1>4. PICK a \in Int : a = passed + 1
  OBVIOUS
<1>5. \A n \in a .. last : list[n] \in S
  BY <1>2, <1>4
<1>6. /\ SubSeq(list, a, last) \in Seq(S)
      /\ Len(SubSeq(list, a, last)) = IF a <= last THEN last - a + 1 ELSE 0
      /\ \A n \in 1 .. last - a + 1 : SubSeq(list, a, last)[n] = list[a + n - 1]
  BY <1>5, SubSeqProperties
<1>7. PICK got \in Seq(S) : got = SubSeq(list, a, last)
  BY <1>6
<1>8. Page(list, page, perPage) = got
  BY <1>1, <1>3, <1>4, <1>7 DEF Page
<1>9. PICK j \in Int : j = k - passed
  OBVIOUS
<1>10. PICK m \in Nat : m = Len(got)
  OBVIOUS
<1>11. PICK l \in Nat : l = Len(list)
  OBVIOUS
<1>12. /\ m = IF a <= last THEN last - a + 1 ELSE 0
       /\ \A n \in 1 .. last - a + 1 : got[n] = list[a + n - 1]
  BY <1>6, <1>7, <1>10
<1>13. (k > passed /\ k <= passed + perPage) <=> j \in 1 .. m
  <2>1. k \in Nat /\ k <= l /\ last = IF passed + perPage < l THEN passed + perPage ELSE l
    BY <1>2, <1>11
  <2>2. perPage \in Nat /\ m = IF a <= last THEN last - a + 1 ELSE 0
    BY <1>12
  <2>3. QED
    BY <1>4, <1>9, <2>1, <2>2
<1>14. j \in 1 .. m => got[j] = list[k]
  <2>1. k \in Nat /\ (j \in 1 .. m => j \in 1 .. last - a + 1)
    BY <1>12
  <2>2. a + j - 1 = k
    BY <1>4, <1>9, <2>1
  <2>3. QED
    BY <1>12, <2>1, <2>2
<1>15. QED
  BY <1>8, <1>9, <1>10, <1>13, <1>14

\* For any list a listing can make and any page whose end does not wrap as an index, the
\* pages getSessionList cuts make up the list.
THEOREM PagesAreTheList == ManagerSpec => []PagesMakeUpList
<1>1. ManagerInv => PagesMakeUpList
  <2>1. SUFFICES ASSUME listed \in Seq(Ids \ Hidden),
                        NEW page \in 1 .. IndexMod - 1, NEW perPage \in 1 .. IndexMod - 1,
                        page * perPage < IndexMod, NEW k \in 1 .. Len(listed)
                 PROVE  LET got == Page(listed, page, perPage)
                            passed == (page - 1) * perPage
                        IN /\ (k > passed /\ k <= passed + perPage)
                                  <=> (k - passed \in 1 .. Len(got))
                           /\ k - passed \in 1 .. Len(got) => got[k - passed] = listed[k]
    BY DEF PagesMakeUpList, ManagerInv, DirectoryInv, Typing
  <2>2. PICK passed \in Nat : passed = (page - 1) * perPage
    BY <2>1, PageRange
  <2>3. PICK got : got = Page(listed, page, perPage)
    OBVIOUS
  <2>4. /\ (k > passed /\ k <= passed + perPage) <=> (k - passed \in 1 .. Len(got))
        /\ k - passed \in 1 .. Len(got) => got[k - passed] = listed[k]
    BY <2>1, <2>2, <2>3, PagesOfList
  <2>5. QED
    BY <2>2, <2>3, <2>4
<1>2. QED
  BY <1>1, AlwaysManagerInv, PTL

-------------------------------------------------------------------------------
(***************************************************************************)
(* The manager implements the directory.  The abstract variables that are  *)
(* not the manager's own, by name:                                         *)
(***************************************************************************)
Live == {r \in Ids : \E s \in Servers, n \in Slots : slots[s][n] = r}
Hosted == [s \in Servers |-> IF s < count THEN types[s]
                             ELSE IF Running(s) THEN asked[id] ELSE NoType]
Told == [r \in Ids |-> PlaceOf(told[r])]

\* The server being started has been given its thread.
Opening == i = count /\ pc \in Attaching

\* One step of the directory, or none.
DirectoryStep == [D!DirectoryNext]_(D!directoryVars)

LEMMA PlaceOfMarkers == PlaceOf(Nowhere) = Nowhere /\ PlaceOf(Refused) = Refused
  BY DEF PlaceOf

\* No two servers have one port, so that an answer means one place.
LEMMA PlaceOfAnswer ==
    ASSUME NEW s \in Servers, NEW n \in Slots
    PROVE  PlaceOf(<<Port(s), n>>) = <<s, n>>
<1>1. <<Port(s), n>> \in (0 .. PortMod - 1) \X Slots
  BY Ports
<1>2. <<Port(s), n>> # Nowhere /\ <<Port(s), n>> # Refused
  BY <1>1, Markers
<1>3. \A t \in Servers : Port(t) = Port(s) => t = s
  <2>1. SUFFICES ASSUME NEW t \in Servers, Port(t) = Port(s) PROVE t = s
    OBVIOUS
  <2>2. FirstPort + t = FirstPort + s /\ FirstPort \in Nat
    BY <2>1, Ports, ManagerAssumption
  <2>3. QED
    BY <2>2
<1>4. (CHOOSE t \in Servers : Port(t) = Port(s)) = s
  BY <1>3
<1>5. QED
  BY <1>2, <1>4 DEF PlaceOf

LEMMA HostedKept ==
    ASSUME UNCHANGED <<count, types>>, Opening' <=> Opening, Opening => UNCHANGED <<id, asked>>
    PROVE  Hosted' = Hosted
<1>1. \A s \in Servers : (s < count \/ Running(s)) = (s < count \/ (s = count /\ Opening))
  BY DEF Running, Opening
<1>2. \A s \in Servers : (s < count \/ Running(s)') = (s < count \/ (s = count /\ Opening'))
  BY DEF Running, Opening
<1>3. \A s \in Servers :
          (IF s < count THEN types[s] ELSE IF Running(s) THEN asked[id] ELSE NoType)
        = (IF s < count THEN types[s] ELSE IF Running(s)' THEN asked'[id'] ELSE NoType)
  BY <1>1, <1>2
<1>4. QED
  BY <1>3 DEF Hosted

LEMMA DirectoryStutters ==
    ASSUME UNCHANGED <<asked, was, slots, told, fault>>, Hosted' = Hosted
    PROVE  DirectoryStep
<1>1. Live' = Live /\ Told' = Told
  BY DEF Live, Told
<1>2. UNCHANGED <<asked, was, Live, Hosted, Told, fault = "none">>
  BY <1>1
<1>3. QED
  BY <1>2 DEF DirectoryStep, D!directoryVars, Live, Hosted, Told

LEMMA DirectoryFails == ASSUME fault = "none", fault' # "none" PROVE DirectoryStep
  BY DEF DirectoryStep, D!DirectoryNext, D!Fail

\* An answer is told, and means the place the session has, or that it has none.
LEMMA DirectoryTells ==
    ASSUME Typing, Requests, AtWork, Busy, NEW a \in Answers, Answer(a), fault = "none",
           PlaceOf(a) = IF was[id] = Nowhere THEN Refused ELSE was[id],
           UNCHANGED <<asked, was, slots, id, fault>>, Hosted' = Hosted
    PROVE  DirectoryStep
<1>1. id \in Ids /\ told[id] = Nowhere
  BY DEF AtWork
<1>2. asked[id] # NoType
  <2>1. id \in 0 .. MaxRequests
    BY DEF Typing
  <2>2. QED
    BY <1>1, <2>1, RequestBounds DEF Requests, Ids
<1>3. Told[id] = Nowhere
  BY <1>1, PlaceOfMarkers DEF Told
<1>4. \A r \in Ids : told'[r] = IF r = id THEN a ELSE told[r]
  BY AnswerTyped
<1>5. Told' = [Told EXCEPT ![id] = IF was[id] = Nowhere THEN Refused ELSE was[id]]
  <2>1. Told' = [r \in Ids |-> PlaceOf(told'[r])]
    BY DEF Told, PlaceOf
  <2>2. Told' = [r \in Ids |-> IF r = id THEN PlaceOf(a) ELSE PlaceOf(told[r])]
    BY <1>4, <2>1
  <2>3. QED
    BY <1>1, <2>2 DEF Told
<1>6. Live' = Live
  BY DEF Live
<1>7. D!Tell(id)
  BY <1>2, <1>3, <1>5, <1>6 DEF D!Tell, Live, Hosted, Told
<1>8. QED
  BY <1>1, <1>7 DEF DirectoryStep, D!DirectoryNext

LEMMA PlaceIsStep ==
    ASSUME NEW r \in Ids, fault = "none", D!Place(r) PROVE DirectoryStep
  BY DEF DirectoryStep, D!DirectoryNext

\* A session stored is placed: its slot was null, so no session that has not ended has it.
LEMMA DirectoryPlaces ==
    ASSUME Typing, Tables, Requests, AtWork, pc \in {"scan", "push"}, fault = "none",
           i \in Servers, num \in Slots, i = count => num = 0, i <= count,
           slots[i][num] = NoSession, NEW next \in Attached, Store(next),
           UNCHANGED <<count, types, i, num, id, asked, told, fault>>
    PROVE  DirectoryStep
<1>1. /\ id \in Ids /\ told[id] = Nowhere /\ was[id] = Nowhere
      /\ i < count => types[i] = asked[id]
  BY DEF AtWork, Busy
<1>2. \A s \in Servers, n \in Slots :
          slots'[s][n] = IF s = i /\ n = num THEN id ELSE slots[s][n]
  BY StoreKeepsTables
<1>3. was' = [was EXCEPT ![id] = <<i, num>>] /\ pc' = next
  BY DEF Store
<1>4. Hosted' = Hosted
  <2>1. Opening' <=> Opening
    BY <1>3 DEF Opening
  <2>2. QED
    BY <2>1, HostedKept
<1>5. Told' = Told
  BY DEF Told
<1>6. asked[id] # NoType
  <2>1. id \in 0 .. MaxRequests
    BY DEF Typing
  <2>2. QED
    BY <1>1, <2>1, RequestBounds DEF Requests, Ids
<1>7. Hosted[i] = asked[id]
  <2>1. i < count \/ (i = count /\ Running(i))
    BY DEF Running, Typing
  <2>2. i = count => ~(i < count)
    BY DEF Typing
  <2>3. QED
    BY <1>1, <2>1, <2>2 DEF Hosted
<1>8. Told[id] = Nowhere
  BY <1>1, PlaceOfMarkers DEF Told
<1>9. \A r \in Live : was[r] # <<i, num>>
  <2>1. SUFFICES ASSUME NEW r \in Live, was[r] = <<i, num>> PROVE FALSE
    OBVIOUS
  <2>2. PICK s \in Servers, n \in Slots : slots[s][n] = r
    BY <2>1 DEF Live
  <2>3. r # NoSession
    BY <2>1, RequestBounds DEF Live
  <2>4. was[r] = <<s, n>>
    BY <2>2, <2>3 DEF Tables, Stored
  <2>5. s = i /\ n = num
    BY <2>1, <2>4
  <2>6. QED
    BY <2>2, <2>3, <2>5
<1>10. Live' = Live \cup {id}
  <2>1. \A r \in Ids : r \in Live' <=> r \in Live \/ r = id
    <3>1. SUFFICES ASSUME NEW r \in Ids PROVE r \in Live' <=> r \in Live \/ r = id
      OBVIOUS
    <3>2. r \in Live => r \in Live'
      <4>1. SUFFICES ASSUME NEW s \in Servers, NEW n \in Slots, slots[s][n] = r
                     PROVE  \E t \in Servers, m \in Slots : slots'[t][m] = r
        BY <3>1 DEF Live
      <4>2. ~(s = i /\ n = num)
        BY <3>1, <4>1, RequestBounds
      <4>3. QED
        BY <1>2, <4>1, <4>2
    <3>3. r = id => r \in Live'
      BY <1>2, <3>1 DEF Live
    <3>4. r \in Live' => r \in Live \/ r = id
      BY <1>2, <3>1 DEF Live
    <3>5. QED
      BY <3>2, <3>3, <3>4
  <2>2. Live \subseteq Ids /\ Live' \subseteq Ids
    BY DEF Live
  <2>3. QED
    BY <1>1, <2>1, <2>2
<1>11. PICK r \in Ids : r = id
  BY <1>1
<1>12. D!Place(r)
  <2>1. D!Free(i, num)
    BY <1>9 DEF D!Free, Live
  <2>2. \E s \in Servers, n \in Slots : /\ Hosted[s] = asked[id]
                                        /\ D!Free(s, n)
                                        /\ was' = [was EXCEPT ![r] = <<s, n>>]
    BY <1>3, <1>7, <1>11, <2>1
  <2>3. /\ asked[r] # NoType /\ was[r] = Nowhere /\ Told[r] = Nowhere
        /\ Live' = Live \cup {r}
    BY <1>1, <1>6, <1>8, <1>10, <1>11
  <2>4. \E s \in Servers, n \in Slots : /\ Hosted[s] = asked[r]
                                        /\ D!Free(s, n)
                                        /\ was' = [was EXCEPT ![r] = <<s, n>>]
    BY <1>11, <2>2
  <2>5. QED
    BY <1>4, <1>5, <2>3, <2>4 DEF D!Place, Live, Hosted, Told
<1>13. QED
  BY <1>12, PlaceIsStep

LEMMA ScanPlaces ==
    ASSUME RoomInv, DirectoryInv, Scan \/ PushBack PROVE DirectoryStep
<1>1. Typing /\ Tables /\ Requests /\ AtWork
  BY DEF DirectoryInv
<1>2. /\ pc \in {"scan", "push"} /\ fault = "none"
      /\ UNCHANGED <<count, types, i, id, asked, told, fault>>
  BY DEF Scan, PushBack, At
<1>3. /\ i \in Servers /\ i <= count /\ size[i] \in 0 .. MaxSessions /\ num \in 0 .. MaxSessions
      /\ num <= size[i] /\ (i = count => size[i] = 0)
      /\ pc = "push" => num = size[i] /\ num \in Slots
  BY <1>1, <1>2 DEF RoomInv, RoomTypes, InProgress, FreshServersEmpty, Typing
<1>4. pc = "push" => slots[i][num] = NoSession
  BY <1>1, <1>3 DEF Tables, WithinSize
<1>5. CASE pc = "push"
  <2>1. Store("grow") /\ UNCHANGED num /\ num \in Slots /\ (i = count => num = 0)
    BY <1>3, <1>5 DEF Scan, PushBack, At
  <2>2. QED
    BY <1>1, <1>2, <1>3, <1>4, <1>5, <2>1, DirectoryPlaces
<1>6. CASE pc = "scan"
  <2>1. \/ num < size[i] /\ slots[i][num] = NoSession /\ Store("thread") /\ UNCHANGED num
        \/ pc' \in {"scan", "push"} /\ UNCHANGED <<slots, was>>
    BY <1>6 DEF Scan, PushBack, At
  <2>2. CASE num < size[i] /\ slots[i][num] = NoSession /\ Store("thread") /\ UNCHANGED num
    <3>1. num \in Slots /\ (i = count => num = 0)
      BY <1>3, <2>2
    <3>2. QED
      BY <1>1, <1>2, <1>3, <2>2, <3>1, DirectoryPlaces
  <2>3. CASE pc' \in {"scan", "push"} /\ UNCHANGED <<slots, was>>
    <3>1. Opening' <=> Opening
      BY <1>2, <2>3 DEF Opening
    <3>2. QED
      BY <1>2, <2>3, <3>1, HostedKept, DirectoryStutters
  <2>4. QED
    BY <2>1, <2>2, <2>3
<1>7. QED
  BY <1>2, <1>5, <1>6

LEMMA CreateAsks ==
    ASSUME RoomInv, DirectoryInv, NEW t \in Types, CreateNewSession(t) PROVE DirectoryStep
<1>1. /\ UNCHANGED <<count, types, slots, was, told, fault>> /\ fault = "none"
      /\ pc = "idle" /\ pc' = "lookup" /\ id < MaxRequests
      /\ asked' = [asked EXCEPT ![id + 1] = t]
  BY DEF CreateNewSession, At, tables
<1>2. id + 1 \in Ids /\ asked[id + 1] = NoType
  <2>1. id \in Nat
    BY RequestBounds DEF DirectoryInv, Typing
  <2>2. id + 1 \in Ids /\ id + 1 > id
    BY <1>1, <2>1, RequestBounds DEF Ids
  <2>3. QED
    BY <2>2 DEF DirectoryInv, Requests
<1>3. Hosted' = Hosted
  <2>1. ~Opening /\ ~Opening'
    BY <1>1 DEF Opening
  <2>2. QED
    BY <1>1, <2>1, HostedKept
<1>4. Live' = Live /\ Told' = Told
  BY <1>1 DEF Live, Told
<1>5. D!Ask(id + 1)
  BY <1>1, <1>2, <1>3, <1>4 DEF D!Ask, Live, Hosted, Told
<1>6. QED
  BY <1>1, <1>2, <1>5 DEF DirectoryStep, D!DirectoryNext

LEMMA LookupTells == ASSUME RoomInv, DirectoryInv, Lookup PROVE DirectoryStep
<1>1. /\ UNCHANGED <<count, types, slots, id, asked, was>> /\ fault = "none"
      /\ pc = "lookup"
      /\ \/ Answer(Refused) /\ UNCHANGED fault
         \/ fault' = "generator"
         \/ pc' = "look" /\ UNCHANGED <<told, fault>>
  BY DEF Lookup, At, tables
<1>2. Typing /\ Requests /\ AtWork /\ Busy /\ was[id] = Nowhere
  BY <1>1 DEF DirectoryInv, Busy, AtWork
<1>3. CASE Answer(Refused) /\ UNCHANGED fault
  <2>1. Hosted' = Hosted
    <3>1. ~Opening /\ ~Opening'
      BY <1>1, <1>3 DEF Opening, Answer
    <3>2. QED
      BY <1>1, <3>1, HostedKept
  <2>2. Refused \in Answers
    BY DEF Answers
  <2>3. QED
    BY <1>1, <1>2, <1>3, <2>1, <2>2, PlaceOfMarkers, DirectoryTells
<1>4. CASE fault' = "generator"
  BY <1>1, <1>4, DirectoryFails
<1>5. CASE pc' = "look" /\ UNCHANGED <<told, fault>>
  <2>1. ~Opening /\ ~Opening'
    BY <1>1, <1>5 DEF Opening
  <2>2. QED
    BY <1>1, <1>5, <2>1, HostedKept, DirectoryStutters
<1>6. QED
  BY <1>1, <1>3, <1>4, <1>5

\* Starting a server's thread makes it a host of the type asked for.
LEMMA OpenHosts == ASSUME RoomInv, DirectoryInv, Open PROVE DirectoryStep
<1>1. /\ UNCHANGED <<count, types, slots, id, i, asked, was>> /\ fault = "none"
      /\ pc = "open"
      /\ \/ Answer(Refused) /\ UNCHANGED fault
         \/ fault' = "host"
         \/ count < MaxSessions /\ pc' = "scan" /\ UNCHANGED <<told, fault>>
  BY DEF Open, At, tables
<1>2. Typing /\ Requests /\ AtWork /\ Busy /\ was[id] = Nowhere /\ id \in Ids /\ i = count
  BY <1>1 DEF DirectoryInv, Busy, AtWork, RoomInv, InProgress
<1>3. CASE Answer(Refused) /\ UNCHANGED fault
  <2>1. Hosted' = Hosted
    <3>1. ~Opening /\ ~Opening'
      BY <1>1, <1>3 DEF Opening, Answer
    <3>2. QED
      BY <1>1, <3>1, HostedKept
  <2>2. Refused \in Answers
    BY DEF Answers
  <2>3. QED
    BY <1>1, <1>2, <1>3, <2>1, <2>2, PlaceOfMarkers, DirectoryTells
<1>4. CASE fault' = "host"
  BY <1>1, <1>4, DirectoryFails
<1>5. CASE count < MaxSessions /\ pc' = "scan" /\ UNCHANGED <<told, fault>>
  <2>1. PICK c \in Servers : c = count
    BY <1>2, <1>5 DEF Typing
  <2>2. asked[id] \in Types
    <3>1. asked[id] # NoType /\ asked[id] \in Types \cup {NoType}
      BY <1>2, RequestBounds DEF Requests, Ids, Typing
    <3>2. QED
      BY <3>1
  <2>3. /\ \A s \in Servers : Running(s) <=> s < count
        /\ \A s \in Servers : Running(s)' <=> s < count \/ s = count
    BY <1>1, <1>2, <1>5 DEF Running
  <2>4. Hosted[c] = NoType
    BY <1>2, <2>1, <2>3 DEF Hosted, Typing
  <2>5. Hosted' = [Hosted EXCEPT ![c] = asked[id]]
    <3>1. Hosted' = [s \in Servers |-> IF s < count THEN types[s]
                                       ELSE IF s = count THEN asked[id] ELSE NoType]
      BY <1>1, <2>3 DEF Hosted
    <3>2. Hosted = [s \in Servers |-> IF s < count THEN types[s] ELSE NoType]
      BY <2>3 DEF Hosted
    <3>3. ~(c < count)
      BY <1>2, <2>1
    <3>4. QED
      BY <2>1, <3>1, <3>2, <3>3
  <2>6. Live' = Live /\ Told' = Told
    BY <1>1, <1>5 DEF Live, Told
  <2>7. D!Host(c)
    BY <1>1, <1>5, <2>2, <2>4, <2>5, <2>6 DEF D!Host, Live, Hosted, Told
  <2>8. QED
    BY <1>1, <2>1, <2>7 DEF DirectoryStep, D!DirectoryNext
<1>6. QED
  BY <1>1, <1>3, <1>4, <1>5

LEMMA FoundTells == ASSUME RoomInv, DirectoryInv, Found PROVE DirectoryStep
<1>1. /\ UNCHANGED <<slots, id, i, num, asked, was, fault>> /\ fault = "none"
      /\ pc = "found"
      /\ \/ i < count /\ Answer(<<Port(i), num>>) /\ UNCHANGED <<count, types>>
         \/ /\ i = count /\ Answer(<<Port(i), 0>>) /\ count' = count + 1
            /\ types' = [types EXCEPT ![i] = asked[id]]
  BY DEF Found, At
<1>2. Typing /\ Requests /\ AtWork /\ Busy
  BY <1>1 DEF DirectoryInv, Busy
<1>3. /\ i \in Servers /\ num \in Slots /\ count \in 0 .. MaxSessions
      /\ was[id] = <<i, num>> /\ (i = count => num = 0)
  BY <1>1, <1>2 DEF RoomInv, InProgress, AtWork, Typing
<1>4. Answer(<<Port(i), num>>) /\ <<Port(i), num>> \in Answers
  <2>1. Answer(<<Port(i), num>>)
    BY <1>1, <1>3
  <2>2. <<Port(i), num>> \in Answers
    BY <1>3, Ports DEF Answers
  <2>3. QED
    BY <2>1, <2>2
<1>5. PlaceOf(<<Port(i), num>>) = IF was[id] = Nowhere THEN Refused ELSE was[id]
  <2>1. <<i, num>> \in Servers \X Slots
    BY <1>3
  <2>2. was[id] # Nowhere
    BY <1>3, <2>1, Markers
  <2>3. QED
    BY <1>3, <2>2, PlaceOfAnswer
<1>6. pc' = "idle"
  BY <1>4 DEF Answer
<1>7. Hosted' = Hosted
  <2>1. CASE i < count /\ UNCHANGED <<count, types>>
    <3>1. ~Opening /\ ~Opening'
      BY <1>2, <1>6, <2>1 DEF Opening, Typing
    <3>2. QED
      BY <2>1, <3>1, HostedKept
  <2>2. CASE i = count /\ count' = count + 1 /\ types' = [types EXCEPT ![i] = asked[id]]
    <3>1. /\ \A s \in Servers : Running(s) <=> s < count \/ s = count
          /\ \A s \in Servers : Running(s)' <=> s < count'
      BY <1>1, <1>6, <2>2 DEF Running
    <3>2. \A s \in Servers : types'[s] = IF s = count THEN asked[id] ELSE types[s]
      BY <1>2, <2>2 DEF Typing
    <3>3. \A s \in Servers : s < count' <=> s < count \/ s = count
      BY <1>3, <2>2
    <3>4. \A s \in Servers : s = count => ~(s < count)
      BY <1>3
    <3>5. \A s \in Servers :
              (IF s < count THEN types[s] ELSE IF Running(s) THEN asked[id] ELSE NoType)
            = (IF s < count' THEN types'[s] ELSE IF Running(s)' THEN asked'[id'] ELSE NoType)
      BY <3>1, <3>2, <3>3, <3>4
    <3>6. QED
      BY <3>5 DEF Hosted
  <2>3. QED
    BY <1>1, <2>1, <2>2
<1>8. QED
  BY <1>1, <1>2, <1>4, <1>5, <1>7, DirectoryTells

LEMMA DetachEnds ==
    ASSUME DirectoryInv, NEW s \in Servers, NEW n \in Slots, Detach(s, n) PROVE DirectoryStep
<1>1. Typing /\ Stored /\ fault = "none" /\ slots[s][n] # NoSession
  BY DEF DirectoryInv, Tables, Detach
<1>2. /\ \A r \in Servers, m \in Slots :
             slots'[r][m] = IF r = s /\ m = n THEN NoSession ELSE slots[r][m]
      /\ UNCHANGED <<count, types, pc, id, i, asked, told, was, fault>>
  BY <1>1, DetachSlots
<1>3. PICK r \in Ids : r = slots[s][n]
  BY <1>1 DEF Typing
<1>4. Live' = Live \ {r}
  <2>1. \A q \in Ids : q \in Live' <=> q \in Live /\ q # r
    <3>1. SUFFICES ASSUME NEW q \in Ids PROVE q \in Live' <=> q \in Live /\ q # r
      OBVIOUS
    <3>2. q \in Live' => q \in Live /\ q # r
      <4>1. SUFFICES ASSUME NEW t \in Servers, NEW m \in Slots, slots'[t][m] = q
                     PROVE  q \in Live /\ q # r
        BY <3>1 DEF Live
      <4>2. ~(t = s /\ m = n) /\ slots[t][m] = q
        BY <1>2, <3>1, <4>1, RequestBounds
      <4>3. q # NoSession
        BY <3>1, RequestBounds
      <4>4. was[q] = <<t, m>> /\ was[r] = <<s, n>>
        BY <1>1, <1>3, <4>2, <4>3 DEF Stored
      <4>5. QED
        BY <3>1, <4>2, <4>4 DEF Live
    <3>3. q \in Live /\ q # r => q \in Live'
      <4>1. SUFFICES ASSUME NEW t \in Servers, NEW m \in Slots, slots[t][m] = q, q # r
                     PROVE  q \in Live'
        BY <3>1 DEF Live
      <4>2. slots'[t][m] = q
        BY <1>2, <1>3, <4>1
      <4>3. QED
        BY <3>1, <4>2 DEF Live
    <3>4. QED
      BY <3>2, <3>3
  <2>2. Live \subseteq Ids /\ Live' \subseteq Ids
    BY DEF Live
  <2>3. QED
    BY <2>1, <2>2
<1>5. Hosted' = Hosted
  <2>1. Opening' <=> Opening
    BY <1>2 DEF Opening
  <2>2. QED
    BY <1>2, <2>1, HostedKept
<1>6. Told' = Told
  BY <1>2 DEF Told
<1>7. D!End(r)
  BY <1>2, <1>4, <1>5, <1>6 DEF D!End, Live, Hosted, Told
<1>8. QED
  BY <1>1, <1>3, <1>7 DEF DirectoryStep, D!DirectoryNext

\* The rest: the loops read, the listing is the manager's own, and generators are no part of
\* the directory.
LEMMA OthersStutter ==
    ASSUME UNCHANGED <<count, types, slots, asked, told, was>>,
           \/ fault = "none" /\ fault' # "none"
           \/ UNCHANGED fault /\ ~Opening /\ ~Opening'
           \/ UNCHANGED <<fault, pc, i, id>>
    PROVE  DirectoryStep
<1>1. CASE fault = "none" /\ fault' # "none"
  BY <1>1, DirectoryFails
<1>2. CASE UNCHANGED fault /\ ~Opening /\ ~Opening'
  BY <1>2, HostedKept, DirectoryStutters
<1>3. CASE UNCHANGED <<fault, pc, i, id>>
  <2>1. Opening' <=> Opening
    BY <1>3 DEF Opening
  <2>2. QED
    BY <1>3, <2>1, HostedKept, DirectoryStutters
<1>4. QED
  BY <1>1, <1>2, <1>3

LEMMA StepImplements ==
    ASSUME ManagerInv, [ManagerNext]_managerVars PROVE DirectoryStep
<1>1. RoomInv /\ DirectoryInv /\ Typing
  BY DEF ManagerInv, DirectoryInv
<1>2. CASE UNCHANGED managerVars
  BY <1>2, OthersStutter DEF managerVars
<1>3. CASE \E t \in Types : RegisterSessionGenerator(t) \/ RemoveSessionGenerator(t)
  BY <1>3, OthersStutter DEF RegisterSessionGenerator, RemoveSessionGenerator, history
<1>4. CASE \E t \in Types : CreateNewSession(t)
  BY <1>1, <1>4, CreateAsks
<1>5. CASE Lookup \/ Open \/ Found
  BY <1>1, <1>5, LookupTells, OpenHosts, FoundTells
<1>6. CASE Scan \/ PushBack
  BY <1>1, <1>6, ScanPlaces
<1>7. CASE Look
  BY <1>7, OthersStutter DEF Look, At, tables, history, Opening
<1>8. CASE Count
  <2>1. i < count /\ i \in Nat /\ count \in Nat /\ pc = "count"
    BY <1>1, <1>8 DEF Count, At, RoomInv, RoomTypes, InProgress
  <2>2. /\ UNCHANGED <<count, types, slots, asked, told, was, fault>>
        /\ pc' \in {"count", "scan", "look"} /\ (pc' = "scan" => i' = i)
    BY <1>8, <2>1 DEF Count, At, tables, history
  <2>3. ~Opening /\ ~Opening'
    BY <2>1, <2>2 DEF Opening
  <2>4. QED
    BY <2>2, <2>3, OthersStutter
<1>9. CASE GetSessionList \/ List \/ Copy
  <2>1. /\ UNCHANGED <<count, types, slots, asked, told, was>>
        /\ \/ fault = "none" /\ fault' # "none"
           \/ /\ UNCHANGED fault
              /\ pc \in {"idle", "list", "copy"} /\ pc' \in {"list", "copy", "page"}
    BY <1>9 DEF GetSessionList, List, Copy, At, tables, history
  <2>2. QED
    BY <2>1, OthersStutter DEF Opening
<1>10. CASE PageIsCut
  <2>1. /\ UNCHANGED <<count, types, slots, asked, told, was>>
        /\ \/ fault = "none" /\ fault' # "none"
           \/ UNCHANGED fault /\ pc = "page" /\ pc' = "idle"
    BY <1>10 DEF PageIsCut, CutPage, At, tables, history
  <2>2. QED
    BY <2>1, OthersStutter DEF Opening
<1>11. CASE \E s \in Servers, n \in Slots : Detach(s, n)
  BY <1>1, <1>11, DetachEnds
<1>12. CASE Race
  BY <1>12, RaceLeaves, OthersStutter
<1>13. CASE StoreThread
  <2>1. /\ UNCHANGED <<count, types, slots, i, id, asked, told, was, fault>>
        /\ Opening' <=> Opening
    BY <1>13 DEF StoreThread, At, tables, history, Opening
  <2>2. QED
    BY <2>1, HostedKept, DirectoryStutters
<1>14. QED
  BY <1>2, <1>3, <1>4, <1>5, <1>6, <1>7, <1>8, <1>9, <1>10, <1>11, <1>12, <1>13
  DEF ManagerNext, MainThread, PageIsCut, Race

LEMMA InitImplements == ManagerInit => D!DirectoryInit
<1> SUFFICES ASSUME ManagerInit PROVE D!DirectoryInit
  OBVIOUS
<1>1. /\ asked = [r \in Ids |-> NoType] /\ was = [r \in Ids |-> Nowhere] /\ fault = "none"
      /\ told = [r \in Ids |-> Nowhere]
      /\ slots = [s \in Servers |-> [n \in Slots |-> NoSession]]
      /\ count = 0 /\ pc = "idle" /\ types = [s \in Servers |-> NoType]
  BY DEF ManagerInit
<1>2. Live = {}
  BY <1>1, RequestBounds DEF Live
<1>3. Hosted = [s \in Servers |-> NoType]
  <2>1. \A s \in Servers : ~Running(s) /\ ~(s < count)
    BY <1>1 DEF Running
  <2>2. QED
    BY <2>1 DEF Hosted
<1>4. Told = [r \in Ids |-> Nowhere]
  <2>1. \A r \in Ids : PlaceOf(told[r]) = Nowhere
    BY <1>1, PlaceOfMarkers
  <2>2. QED
    BY <2>1 DEF Told
<1>5. QED
  BY <1>1, <1>2, <1>3, <1>4 DEF D!DirectoryInit, Live, Hosted, Told

\* The manager's loops over tables that change under it do what the directory promises: each
\* session has a place of its own, on a server of its type, and is found where it is said to be.
THEOREM ManagerImplementsDirectory == ManagerSpec => ImplementsDirectory
<1>1. ManagerInv /\ [ManagerNext]_managerVars => [D!DirectoryNext]_(D!directoryVars)
  BY StepImplements DEF DirectoryStep
<1>2. QED
  BY <1>1, InitImplements, AlwaysManagerInv, PTL
  DEF ManagerSpec, ImplementsDirectory, D!DirectorySpec
===============================================================================
