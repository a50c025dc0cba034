----------------------------- MODULE SessionManager -----------------------------
(***************************************************************************)
(* SessionManager: it makes a session for each request, finds or starts a  *)
(* session server of the session's type, and stores the session in one of  *)
(* that server's slots.                                                    *)
(*                                                                         *)
(* All of it runs on the main server's thread.  The threads of the session *)
(* servers detach sessions from the same vectors with no lock, so here the *)
(* main thread takes one step for each slot it reads or writes.            *)
(*                                                                         *)
(* Server number `count' is the one being started: its thread runs, and it *)
(* takes clients, before createNewSession has put it in sessionServers.    *)
(***************************************************************************)
EXTENDS Naturals, FiniteSets, Sequences

CONSTANTS
    Types,        \* session types
    NoType,
    MaxSessions,  \* sessionServerOption.maxSessions
    FirstPort,    \* sessionServerOption.portRange.first
    MaxRequests,  \* bound: how many sessions are asked for
    Hidden,       \* the requests for sessions a listing leaves out: private, or filtered
    PortMod,      \* how many values a port, and a number of sessions, has: 2^16
    IndexMod,     \* how many values an index of a page has: 2^32
    NoSession,    \* a null pointer in a server's sessions
    Nowhere,      \* history: no place, no answer
    Refused       \* an answer with success = false

ASSUME ManagerAssumption ==
    /\ PortMod \in Nat
    /\ MaxSessions \in 1 .. PortMod - 1
    /\ FirstPort \in 1 .. PortMod - 1 /\ FirstPort + MaxSessions <= PortMod
    /\ MaxRequests \in Nat
    /\ IndexMod \in Nat \ {0}
    /\ NoType \notin Types
    /\ NoSession \notin Nat

ASSUME MarkerAssumption == Nowhere \notin Nat \X Nat /\ Refused \notin Nat \X Nat

VARIABLES
    generators, \* sessionGenerators: "none", "set", or "null" once removed
    count,      \* sessionServers.size()
    types,      \* sessionTypes
    size,       \* sessions.size() of each server
    slots,      \* sessions of each server
    pc,         \* what the main thread does next
    id,         \* the session it makes (the number of the request)
    i, num,     \* the server and slot its loops are at
    seen,       \* the result of count_if so far
    listed,     \* list, in getSessionList
    asked,      \* history: the type each session was asked for
    told,       \* history: the answer to each request
    was,        \* history: where each session was stored
    fault       \* "none", or what ended the process

managerVars == <<generators, count, types, size, slots, pc, id, i, num, seen, listed,
                 asked, told, was, fault>>
history == <<asked, told, was>>
tables == <<generators, count, types, size, slots>>

Ids == 1 .. MaxRequests
Servers == 0 .. MaxSessions - 1
Slots == 0 .. MaxSessions - 1

Port(s) == (FirstPort + s) % PortMod

\* In attachSession: a slot is looked for; then the session has one.
Attached == {"thread", "grow", "found"}
Attaching == {"scan", "push"} \cup Attached

Steps == {"idle", "lookup", "look", "count", "open", "list", "copy", "page"} \cup Attaching
ManagerFaults == {"none", "generators", "generator", "host", "moved", "thread", "list", "page"}

ManagerTypeOK ==
    /\ generators \in [Types -> {"none", "set", "null"}]
    /\ count \in 0 .. MaxSessions
    /\ types \in [Servers -> Types \cup {NoType}]
    /\ size \in [Servers -> 0 .. MaxSessions]
    /\ slots \in [Servers -> [Slots -> Ids \cup {NoSession}]]
    /\ pc \in Steps
    /\ id \in 0 .. MaxRequests
    /\ i \in 0 .. MaxSessions
    /\ num \in 0 .. MaxSessions
    /\ seen \in 0 .. MaxSessions
    /\ listed \in Seq(Ids \ Hidden)
    /\ asked \in [Ids -> Types \cup {NoType}]
    /\ told \in [Ids -> ((0 .. PortMod - 1) \X Slots) \cup {Nowhere, Refused}]
    /\ was \in [Ids -> (Servers \X Slots) \cup {Nowhere}]
    /\ fault \in ManagerFaults

ManagerInit ==
    /\ generators = [t \in Types |-> "none"]
    /\ count = 0
    /\ types = [s \in Servers |-> NoType]
    /\ size = [s \in Servers |-> 0]
    /\ slots = [s \in Servers |-> [n \in Slots |-> NoSession]]
    /\ pc = "idle"
    /\ id = 0 /\ i = 0 /\ num = 0 /\ seen = 0 /\ listed = <<>>
    /\ asked = [r \in Ids |-> NoType]
    /\ told = [r \in Ids |-> Nowhere]
    /\ was = [r \in Ids |-> Nowhere]
    /\ fault = "none"

At(step) == fault = "none" /\ pc = step

-------------------------------------------------------------------------------
(* The application, on a thread of its own.                                *)

RegisterSessionGenerator(t) ==
    /\ fault = "none"
    /\ generators' = [generators EXCEPT ![t] = "set"]
    /\ UNCHANGED <<count, types, size, slots, pc, id, i, num, seen, history, fault, listed>>

\* The entry is kept and its function emptied.
RemoveSessionGenerator(t) ==
    /\ fault = "none"
    /\ generators[t] # "none"
    /\ generators' = [generators EXCEPT ![t] = "null"]
    /\ UNCHANGED <<count, types, size, slots, pc, id, i, num, seen, history, fault, listed>>

\* Either may change the table, or the function in it, while createNewSession uses it.
ChangeGenerators ==
    /\ At("lookup")
    /\ fault' = "generators"
    /\ UNCHANGED <<tables, pc, id, i, num, seen, history, listed>>

-------------------------------------------------------------------------------
(* createNewSession.                                                       *)

CreateNewSession(t) ==
    /\ At("idle")
    /\ id < MaxRequests
    /\ id' = id + 1
    /\ asked' = [asked EXCEPT ![id + 1] = t]
    /\ pc' = "lookup"
    /\ UNCHANGED <<tables, i, num, seen, told, was, fault, listed>>

Answer(a) ==
    /\ told' = [told EXCEPT ![id] = a]
    /\ pc' = "idle"

\* An empty function is called all the same; what it throws nobody catches.
Lookup ==
    /\ At("lookup")
    /\ \/ /\ generators[asked[id]] = "none"
          /\ Answer(Refused)
          /\ UNCHANGED <<i, fault>>
       \/ /\ generators[asked[id]] = "null"
          /\ fault' = "generator"
          /\ UNCHANGED <<pc, told, i>>
       \/ /\ generators[asked[id]] = "set"
          /\ i' = 0
          /\ pc' = "look"
          /\ UNCHANGED <<told, fault>>
    /\ UNCHANGED <<tables, id, num, seen, asked, was, listed>>

\* Mutant of Look: the loop does not go on to the next server.
LookStays ==
    /\ At("look")
    /\ \/ /\ i < count
          /\ types[i] = asked[id]
          /\ pc' = "count" /\ num' = 0 /\ seen' = 0
          /\ UNCHANGED i
       \/ /\ i = count
          /\ pc' = "open"
          /\ UNCHANGED <<i, num, seen>>
    /\ UNCHANGED <<tables, id, history, fault, listed>>

\* The loop over the servers, up to its test of the type.
Look ==
    /\ At("look")
    /\ \/ /\ i < count
          /\ types[i] # asked[id]
          /\ i' = i + 1
          /\ UNCHANGED <<pc, num, seen>>
       \/ /\ i < count
          /\ types[i] = asked[id]
          /\ pc' = "count" /\ num' = 0 /\ seen' = 0
          /\ UNCHANGED i
       \/ /\ i = count
          /\ pc' = "open"
          /\ UNCHANGED <<i, num, seen>>
    /\ UNCHANGED <<tables, id, history, fault, listed>>

\* Mutant of Count: a server with maxSessions sessions is taken to have room.
CountOffByOne ==
    /\ At("count")
    /\ \/ /\ num < size[i]
          /\ seen' = IF slots[i][num] = NoSession THEN seen ELSE seen + 1
          /\ num' = num + 1
          /\ UNCHANGED <<pc, i>>
       \/ /\ num = size[i]
          /\ seen <= MaxSessions
          /\ pc' = "scan" /\ num' = 0
          /\ UNCHANGED <<i, seen>>
    /\ UNCHANGED <<tables, id, history, fault, listed>>

\* getSessionsCount, slot by slot, and the test of its result.
Count ==
    /\ At("count")
    /\ \/ /\ num < size[i]
          /\ seen' = IF slots[i][num] = NoSession THEN seen ELSE seen + 1
          /\ num' = num + 1
          /\ UNCHANGED <<pc, i>>
       \/ /\ num = size[i]
          /\ seen < MaxSessions
          /\ pc' = "scan" /\ num' = 0
          /\ UNCHANGED <<i, seen>>
       \/ /\ num = size[i]
          /\ seen >= MaxSessions
          /\ pc' = "look" /\ i' = i + 1
          /\ UNCHANGED <<num, seen>>
    /\ UNCHANGED <<tables, id, history, fault, listed>>

Store(next) ==
    /\ slots' = [slots EXCEPT ![i] = [slots[i] EXCEPT ![num] = id]]
    /\ was' = [was EXCEPT ![id] = <<i, num>>]
    /\ pc' = next

\* Mutant of Scan: slots that have become null are not used again.
ScanToTheEnd ==
    /\ At("scan")
    /\ \/ /\ num < size[i]
          /\ num' = num + 1
          /\ UNCHANGED <<pc, slots, was>>
       \/ /\ num = size[i]
          /\ pc' = "push"
          /\ UNCHANGED <<num, slots, was>>
    /\ UNCHANGED <<generators, count, types, size, id, i, seen, asked, told, fault, listed>>

\* attachSession: the first slot found null is taken; failing that, one is added.
Scan ==
    /\ At("scan")
    /\ \/ /\ num < size[i]
          /\ slots[i][num] = NoSession
          /\ Store("thread")
          /\ UNCHANGED num
       \/ /\ num < size[i]
          /\ slots[i][num] # NoSession
          /\ num' = num + 1
          /\ UNCHANGED <<pc, slots, was>>
       \/ /\ num = size[i]
          /\ pc' = "push"
          /\ UNCHANGED <<num, slots, was>>
    /\ UNCHANGED <<generators, count, types, size, id, i, seen, asked, told, fault, listed>>

\* push_back: while pc is "push" the elements may be on their way to new storage.
PushBack ==
    /\ At("push")
    /\ Store("grow")
    /\ size' = [size EXCEPT ![i] = size[i] + 1]
    /\ UNCHANGED <<generators, count, types, id, i, num, seen, asked, told, fault, listed>>

\* The session's thread is put in sessionThreads, in its slot ("thread") or a new one ("grow").
StoreThread ==
    /\ At("thread") \/ At("grow")
    /\ pc' = "found"
    /\ UNCHANGED <<tables, id, i, num, seen, history, fault, listed>>

\* No server has room: one is started, on the port after the last one's, unless
\* there are as many as a server may have sessions.  Its constructor throws when
\* ENet cannot have the port.
Open ==
    /\ At("open")
    /\ \/ /\ count >= MaxSessions
          /\ Answer(Refused)
          /\ UNCHANGED <<num, fault>>
       \/ /\ count < MaxSessions
          /\ fault' = "host"
          /\ UNCHANGED <<pc, told, num>>
       \/ /\ count < MaxSessions
          /\ pc' = "scan" /\ num' = 0
          /\ UNCHANGED <<told, fault>>
    /\ UNCHANGED <<tables, id, i, seen, asked, was, listed>>

\* Mutant of Found: the port told is that of the server started last.
FoundAtLastServer ==
    /\ At("found")
    /\ \/ /\ i < count
          /\ Answer(<<Port(count - 1), num>>)
          /\ UNCHANGED <<count, types>>
       \/ /\ i = count
          /\ Answer(<<Port(i), 0>>)
          /\ count' = count + 1
          /\ types' = [types EXCEPT ![i] = asked[id]]
    /\ UNCHANGED <<generators, size, slots, id, i, num, seen, asked, was, fault, listed>>

\* The answer.  attachSession's result is not used for a server just started.
Found ==
    /\ At("found")
    /\ \/ /\ i < count
          /\ Answer(<<Port(i), num>>)
          /\ UNCHANGED <<count, types>>
       \/ /\ i = count
          /\ Answer(<<Port(i), 0>>)
          /\ count' = count + 1
          /\ types' = [types EXCEPT ![i] = asked[id]]
    /\ UNCHANGED <<generators, size, slots, id, i, num, seen, asked, was, fault, listed>>

-------------------------------------------------------------------------------
(* getSessionList.                                                         *)

GetSessionList ==
    /\ At("idle")
    /\ count > 0
    /\ pc' = "list" /\ i' = 0 /\ num' = 0
    /\ UNCHANGED <<tables, id, seen, listed, history, fault>>

\* Mutant of List: going on to the next server, the slot number is kept.
ListKeepsSlot ==
    /\ At("list")
    /\ \/ /\ i < count
          /\ num < size[i]
          /\ IF slots[i][num] = NoSession
             THEN num' = num + 1 /\ UNCHANGED pc
             ELSE pc' = "copy" /\ UNCHANGED num
          /\ UNCHANGED i
       \/ /\ i < count
          /\ num >= size[i]
          /\ i' = i + 1
          /\ UNCHANGED <<pc, num>>
       \/ /\ i = count
          /\ pc' = "page"
          /\ UNCHANGED <<i, num>>
    /\ UNCHANGED <<tables, id, seen, listed, history, fault>>

\* A null slot is passed over; another is read again to copy its information.
List ==
    /\ At("list")
    /\ \/ /\ i < count
          /\ num < size[i]
          /\ slots[i][num] = NoSession
          /\ num' = num + 1
          /\ UNCHANGED <<pc, i>>
       \/ /\ i < count
          /\ num < size[i]
          /\ slots[i][num] # NoSession
          /\ pc' = "copy"
          /\ UNCHANGED <<i, num>>
       \/ /\ i < count
          /\ num = size[i]
          /\ i' = i + 1 /\ num' = 0
          /\ UNCHANGED pc
       \/ /\ i = count
          /\ pc' = "page"
          /\ UNCHANGED <<i, num>>
    /\ UNCHANGED <<tables, id, seen, listed, history, fault>>

Copy ==
    /\ At("copy")
    /\ \/ /\ slots[i][num] # NoSession
          /\ listed' = IF slots[i][num] \in Hidden THEN listed
                       ELSE Append(listed, slots[i][num])
          /\ pc' = "list" /\ num' = num + 1
          /\ UNCHANGED fault
       \/ /\ slots[i][num] = NoSession
          /\ fault' = "list"
          /\ UNCHANGED <<pc, num, listed>>
    /\ UNCHANGED <<tables, id, i, seen, history>>

\* startIdx, from numbers the client chooses, and the end of the page.
PageStart(page, perPage) == (((page + IndexMod - 1) % IndexMod) * perPage) % IndexMod

PageEnd(list, page, perPage) ==
    LET end == (PageStart(page, perPage) + perPage) % IndexMod
    IN IF end < Len(list) THEN end ELSE Len(list)

\* Mutant of Page: page 1 begins at perPage.
PageFromZero(list, page, perPage) ==
    SubSeq(list, page * perPage + 1, PageEnd(list, page + 1, perPage))

Page(list, page, perPage) ==
    SubSeq(list, PageStart(page, perPage) + 1, PageEnd(list, page, perPage))

\* The range of a page that begins in the list but ends, modulo IndexMod, before its
\* beginning: no vector can be made of it.
NoRange(list, page, perPage) ==
    PageEnd(list, page, perPage) < PageStart(page, perPage) /\ PageStart(page, perPage) < Len(list)

\* The page the client asked for is made and sent.
CutPage(page, perPage) ==
    /\ At("page")
    /\ \/ /\ ~NoRange(listed, page, perPage)
          /\ pc' = "idle" /\ listed' = <<>>
          /\ UNCHANGED fault
       \/ /\ NoRange(listed, page, perPage)
          /\ fault' = "page"
          /\ UNCHANGED <<pc, listed>>
    /\ UNCHANGED <<tables, id, i, num, seen, history>>

-------------------------------------------------------------------------------
(* The threads of the session servers.                                     *)

Running(s) ==
    \/ s < count
    \/ s = count /\ i = count /\ pc \in Attaching

\* detachSession, after the last user of a session has left it.
Detach(s, n) ==
    /\ fault = "none"
    /\ Running(s)
    /\ slots[s][n] # NoSession
    /\ pc \in {"thread", "grow"} => <<s, n>> # <<i, num>>
    /\ slots' = [slots EXCEPT ![s] = [slots[s] EXCEPT ![n] = NoSession]]
    /\ UNCHANGED <<generators, count, types, size, pc, id, i, num, seen, history, fault, listed>>

\* A packet makes the server's thread index a vector that push_back is moving.
Touch(s) ==
    /\ At("push") /\ s = i
    /\ fault' = "moved"
    /\ UNCHANGED <<tables, pc, id, i, num, seen, history, listed>>

\* A session's last user leaves it before its thread is in sessionThreads, or while those move.
DetachEarly ==
    /\ At("thread") \/ At("grow")
    /\ fault' = "thread"
    /\ UNCHANGED <<tables, pc, id, i, num, seen, history, listed>>

-------------------------------------------------------------------------------
MainThread == Lookup \/ Look \/ Count \/ Scan \/ PushBack \/ StoreThread \/ Open \/ Found
              \/ List \/ Copy
              \/ \E page, perPage \in 0 .. IndexMod - 1 : CutPage(page, perPage)

ManagerNext ==
    \/ \E t \in Types : RegisterSessionGenerator(t)
    \/ \E t \in Types : RemoveSessionGenerator(t)
    \/ ChangeGenerators
    \/ \E t \in Types : CreateNewSession(t)
    \/ GetSessionList
    \/ MainThread
    \/ \E s \in Servers, n \in Slots : Detach(s, n)
    \/ \E s \in Servers : Touch(s)
    \/ DetachEarly

ManagerSpec == ManagerInit /\ [][ManagerNext]_managerVars

\* The main server's thread is scheduled.
FairManagerSpec == ManagerSpec /\ WF_managerVars(MainThread)

-------------------------------------------------------------------------------
(* Properties.                                                             *)

\* What the answers mean to a client: a port is a server's and a number a slot's.
PlaceOf(a) ==
    CASE a \in {Nowhere, Refused} -> a
      [] OTHER -> <<CHOOSE s \in Servers : Port(s) = a[1], a[2]>>

D == INSTANCE Directory WITH
        Numbers <- Slots,
        kind <- asked,
        place <- was,
        live <- {r \in Ids : \E s \in Servers, n \in Slots : slots[s][n] = r},
        hosted <- [s \in Servers |-> IF s < count THEN types[s]
                                     ELSE IF Running(s) THEN asked[id] ELSE NoType],
        answer <- [r \in Ids |-> PlaceOf(told[r])],
        alive <- fault = "none"

\* Although slots become free while the manager counts and scans them, a session
\* gets a free slot of a server of its type, nothing is stored over it, and the
\* client is told its place.
ImplementsDirectory == D!DirectorySpec

\* The manager finds a slot whenever it looks for one: a server it has counted fewer
\* than maxSessions sessions in does not grow past that size, whatever is detached
\* between the count and the end of the scan.
RoomWhenScanning ==
    pc \in {"scan", "push"} /\ num = size[i] => size[i] < MaxSessions

\* A request is answered, however often sessions end meanwhile, unless the process
\* fails; so is a listing.
RequestsAnswered == pc # "idle" ~> (pc = "idle" \/ fault # "none")

\* While slots become free under it, a listing keeps to the order of the places: what it
\* has is in that order, so nothing twice, from places it has passed, and of those it has
\* passed no session that is still there is missing.
ListedInOrder ==
    pc \in {"list", "copy", "page"} =>
        LET before(p, q) == p[1] < q[1] \/ (p[1] = q[1] /\ p[2] < q[2])
        IN /\ \A k, l \in 1 .. Len(listed) : k < l => before(was[listed[k]], was[listed[l]])
           /\ \A k \in 1 .. Len(listed) : before(was[listed[k]], <<i, num>>)
           /\ \A s \in Servers, n \in Slots :
                  /\ s < count /\ slots[s][n] \notin Hidden \cup {NoSession}
                  /\ before(<<s, n>>, <<i, num>>)
                  => \E k \in 1 .. Len(listed) : listed[k] = slots[s][n]

\* The pages of a listing make it up: page after page, as long as the end of a page does
\* not wrap as an index, a client that asks for all of them gets each session once and,
\* after the last one, empty pages.
PagesMakeUpList ==
    pc = "page" =>
        \A page, perPage \in 1 .. IndexMod - 1 :
            page * perPage < IndexMod =>
                LET got == Page(listed, page, perPage)
                    passed == (page - 1) * perPage
                IN \A k \in 1 .. Len(listed) :
                       /\ (k > passed /\ k <= passed + perPage)
                              <=> (k - passed \in 1 .. Len(got))
                       /\ k - passed \in 1 .. Len(got) => got[k - passed] = listed[k]

\* Removing the generator of a type makes requests for it be refused.
RemovedTypesRefused == fault # "generator"

\* The listing skips the slots that have no session.
ListSkipsNull == fault # "list"
===============================================================================
