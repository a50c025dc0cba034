# A verification development for NetCoreServer

NetCoreServer is a C++20 library for game servers on top of ENet. A *main server* logs
clients in and manages *sessions* (rooms); each session lives in one slot of a *session
server*, which has an ENet host, a port and a thread of its own. Clients ask the main
server for a session, connect to the session server they are told, and join.

This directory holds TLA+ models of the library's own code (`src/NetCoreServer`), TLC
configurations that check them on small instances, and proofs that TLAPS checks for all
values of the constants. Of the vendored ENet the two protocols the library builds on are
modelled as well: how peers connect and disconnect, and how reliable packets are delivered.
msgpack, Boost and the other vendored libraries are not.

## 1. Inventory

| Component | State | Operations | Hard behaviour | Correct when |
|---|---|---|---|---|
| `Server` (Server.hpp/.cpp) | ENet host, thread, `running`, handler tables, the identity tables `peerToUidTable` and `uidToPeerTable` | constructor, `run`, `stop`, `wait`, destructor, register/remove handlers, `setPeerUid`, `removePeer`, `sendPacket` | starts its thread inside the base constructor; `stop` and `wait` from any thread; nothing is locked; ENet reuses peer slots; a time-out is an event of its own | nothing runs once `stop` has returned; a packet goes to each handler once; the identity of a peer is the one its own connection gave |
| `SessionServer` (SessionServer.hpp/.cpp) | vector of sessions (null when free), user → session number, session number → users | `attachSession`, `detachSession`, `addUser`, `removeUser`, join handler, disconnection handler, dispatch to sessions | session numbers are stored and looked up later, slots are reused, the records of who is where are kept three times | a stored number leads to a live session; the records agree; a session lives exactly as long as it has users |
| `SessionManager` (SessionManager.hpp) | generators by type, session servers and their types | register/remove generator, `createNewSession`, `getSessionList` | runs on the main server's thread against vectors the session servers' threads change | a request gets a free slot of a server of its type and is told where; every request is answered |
| `AbstractSession` (AbstractSession.hpp/.cpp, SessionHandler.hpp) | players, head count, `server` pointer, `running`, handler table | handlers, `getPeerUid`, `sendPacket`, tick thread | the `server` pointer is assigned by someone else; its thread is detached | handlers can reach the server; ticks run while the session does |
| `MainServer` (MainServer.hpp/.cpp) | login channel and flag | login, list and creation handlers | login may be repeated on a connection | as `Server` and `SessionManager` |
| `Logger` (Logger.hpp/.cpp) | lock-free queue, thread, `running` | `start`, `stop`, five log functions | log functions test and use the queue in two steps; `stop` destroys it | printed in order, lost only to `stop`; `stop` returns |
| Packets (Packet.hpp/.cpp) | registry of packet types | register, create, parse | framing with a length the peer chooses | parse ∘ create is the identity |
| Wire structures, `AbstractHandler` | none | none | none | declarations only |
| ENet (vendored, enet.h) | peers of a host: state, session IDs, connectID; channels: sequence numbers, windows, queues of commands sent, to be sent and received | connect, disconnect, send, service (receive, acknowledge, send again, time out, dispatch events) | datagrams are lost, duplicated, late and out of order; peers are reused; 16-bit numbers and 2-bit sessions wrap; commands are sent again while their acknowledgements are under way | a connection is reported once, to the right peer, with its own packets, and its peer is freed; reliable packets arrive once, in order and, while the connection lasts, all of them |

Interaction: the main server's thread runs `SessionManager` from packet handlers; through
it it reads and writes the `sessions` vectors of the session servers (`getSessionsCount`,
`attachSession`, `getSessionList`). Each session server's thread runs its own handlers
and detaches sessions. `Logger` is called from all threads. `stop`, `wait` and the
construction of the main server are the application's.

## 2. Modules

| Module | Models | How it corresponds to the code |
|---|---|---|
| `Server` | the part of `Server` both servers inherit | `connected` is what ENet has reported; `peerToUid`/`uidToPeer` are the two tables, total functions with a null value for "no entry"; one operator for each event and table operation |
| `SessionServer` (extends `Server`) | one session server with its clients | one action per handler, as the server's thread runs them: `Connect`, `Join`, `Disconnect`, `Timeout`, `Deliver`; `AttachSession` is the main thread's. A vector of uids is the number of times each uid is in it, since it is only pushed to, purged of a uid and tested for emptiness. `currentPlayers` is a byte |
| `Rooms` | abstract: what a session server promises | each user in at most one room, entered while it is open, closed by its last user. `LaxSpec` lets a room outlive its users |
| `MCSessionServer` | instances of `SessionServer` | the symmetry set |
| `SessionServerProofs`, `SessionServerOrderlyProofs`, `SessionManagerProofs`, `ServerLifecycleProofs`, `LoggerProofs`, `EnetReliableProofs`, `EnetPeersProofs` | theorems about the module each is named after | section 6 |
| `Lists`, `DataLemmas` | two operators on lists; lemmas on lists, induction, quotients and remainders | used by the models of ENet and `Logger`, and by their proofs |
| `SessionManager` | the manager and all its servers | the main thread has a program counter and takes one step per slot it reads or writes: `Lookup`, `Look`, `Count`, `Scan`, `PushBack`, `StoreThread`, `Found` are the parts of `createNewSession`, `List` and `Copy` those of `getSessionList`, and `CutPage` cuts the page out of the listing, with integers that wrap at `IndexMod`; `Detach`, `DetachEarly` and `Touch` are the session servers' threads, at any moment between; `RegisterSessionGenerator`, `RemoveSessionGenerator` and `ChangeGenerators` are the application's, which takes no lock |
| `Directory` | abstract: what the manager promises | a session has one place, free and of its type, until it ends; the client is told that place or refused |
| `Logger` | `Logger` | threads that log (`Log`, `Push`), the logger's thread (`Test`, `Look`, `PrintMessage`, `Drain`), a thread that starts and stops it |
| `ServerLifecycle` | construction to destruction of a `Server`, the dispatch, handlers that come and go | the owner (`Construct`, `RegisterPacketHandler`, ..., `DestroyMembers`), the server's thread (`TestRunning`, `Service`, `CallHandler`), any thread in `stop` or `wait` (`Stop`, `Wait`, `TestJoinable`, `Join`) |
| `EnetReliable` | the reliable packets of one channel, sender, receiver and network | `Send` is `enet_peer_send`; `SendPass` is one pass of `enet_protocol_send_outgoing_commands` (time-outs first, then as many commands as the windows let go); `ReceiveAck` is `enet_protocol_remove_sent_reliable_command`; `ReceiveData` is `enet_peer_queue_incoming_command` with the dispatch and the acknowledgement it leads to. Packets are numbered without end, the code sees `SeqNo(n)` |
| `ReliableChannel` | abstract: what a channel promises | the application receives a prefix of what was sent |
| `EnetPeers` | the peers of a server's host and of its clients | one action per command handled (`HandleConnect`, `HandleVerifyConnect`, `AcknowledgeAgain`, `HandleAcknowledge`, `HandleSendReliable`, `HandleDisconnect`, `HandleDisconnected`), per call of a client (`Connect`, `SendPacket`, `Disconnect`, `DisconnectNow`) and per step of the host's event loop (`SendAcknowledgement`, `ReportPacket`, `ReportDisconnect`, `TimeOut`) |
| `PeerEvents` | abstract: the events `Server::run` is promised | an attempt to connect is reported at most once, on one peer; then its packets; then its end |

`SessionServer` keeps a whole handler in one step, because only one thread runs the
handlers of a server; what the main thread does meanwhile is the subject of
`SessionManager`, which in turn keeps nothing of users and peers. `Server` takes its events
for granted: that ENet delivers them in such an order is what `EnetPeers` shows, and that
a session's packets are not lost or doubled is what `EnetReliable` shows.

*Undefined behaviour* ends a behaviour: the step that follows a null or missing pointer,
lets an exception leave a thread, uses a destroyed host, or changes a vector or a table
under another thread's access sets `fault`, and nothing happens after. Where such an access may
also go unnoticed (a handler list changed under a dispatch, a second join) both outcomes
are steps. This is why the configurations say `CHECK_DEADLOCK FALSE` where a fault is
reachable; the run `orderly`, in which none is, checks for deadlock.

Definitions whose comment says "Mutant of" are not part of a model: each is the named
definition with a bug put in, kept to show that a property can fail.

## 3. Runs

| Run | Checks | Shows |
|---|---|---|
| `any` | `TypeOK`, `MappedUserHasSession`, `VectorsAgree`, `OnlyJoinAndCallbackFault`, `EndedByItsOwnUser`, `ImplementsLaxRooms` | With clients that do anything (join twice, with someone else's id, sessions that are gone, time out at any moment) stored session numbers never lead to a null session, the records agree, and the server is a `Rooms` |
| `orderly` | `TablesInverse`, `IdentityIsOwn`, `HeadCount`, `NoGhosts`, `MembersAreConnected`, `ImplementsRooms` | With clients that join once per connection with an id of their own, and no time-outs, everything is released with its last user |
| `manager` | `ManagerTypeOK`, `RoomWhenScanning`, `ImplementsDirectory`, `RequestsAnswered`, `ListedInOrder`, `PagesMakeUpList` | Sessions that end while the manager counts and scans never make it overflow a server, overwrite a session, or tell a client a wrong place; it always comes to an answer. A listing has every session that stays, once and in order, and its pages make it up as long as their end does not wrap as an index |
| `logger` | `LoggerTypeOK`, `ThreadHasQueue`, `PrintedInOrder`, `LostOnlyByStop`, `Settled`, `StopReturns` | Across any number of starts and stops, messages are printed in order and lost only to a stop, the logger's thread never loses its queue, and stop returns |
| `lifecycle` | `LifecycleTypeOK`, `HostOutlivesThread`, `QuietAfterStop`, `EachHandlerOnce`, `StopEndsThread`, `StopReturns` | Whoever stops and waits in whatever order, nothing runs after the stop that cleared `running` has returned, and an owner that waits before it destroys does so under no thread |
| `delivery` | `ReliableTypeOK`, `ForgottenIsReceived`, `WaitingIsAhead`, `WindowsAgree`, `ImplementsChannel`, `AllReceived` | Whatever is lost, doubled, late or sent again, across the wrap of the numbers, packets are received once and in order; the sender forgets none the receiver lacks; the windows count what is unacknowledged; everything is received unless the connection is given up |
| `connection` | `PeersTypeOK`, `OpenedIsVerified`, `ImplementsEvents`, `SlotsFreed` | Commands of earlier attempts, late or doubled, open no connection, reach no later one and keep no peer taken; `connectedPeers` counts the connected peers |

Runs that show a disagreement between the code and what it says of itself:

| Run | Violated | What happens |
|---|---|---|
| `timeout` | `MembersAreConnected` | `Server::run` has no case for `ENET_EVENT_TYPE_DISCONNECT_TIMEOUT`; the user stays in the session and the slot's next client inherits the identity |
| `noserver` | `SessionReachesItsServer` | the first session of a new server never gets its `server` pointer; its handlers follow a null pointer |
| `removed` | `RemovedTypesRefused` | a removed generator stays in the table as an empty function and is called |
| `listing` | `ListSkipsNull` | the slot tested by the listing is reset before it is read again |
| `waitstop` | `JoinedOnce` | `stop` on one thread while another is in `wait` joins the thread twice |

### Bounds

- `any`: two peer slots, three uids, two session slots: enough for a slot to be reused
  under a stored number, for two users in one session and a third in the other, and for
  two peers to claim one uid. `MaxHeads` stops joins at three heads per session; a
  repeated join needs two. Peers and uids are symmetric: no definition chooses among
  them and no liveness is checked in this run.
- `orderly`: three of each, four heads; no client joins twice, so `MaxHeads` never bites
  there, and it stays short of the wrap of the byte at 256, which is the same
  arithmetic modulo 256 in the model and in `HeadCount`.
- `manager`: two types, two slots a server, two servers, four requests: one server full,
  one reused, one type without a server, a refusal. `PortMod` is 2^16, the number of values a
  port has, and `FirstPort` is 65534 to have the ports at the end of their range;
  `ManagerAssumption` excludes a wrap, which the code does not test for.
- `logger`: two writers with two messages each; starts and stops are not bounded. That
  messages are finitely many is an assumption behind `StopReturns`: `process` empties the
  queue after `running` is cleared, so a writer that never pauses can keep it there.
- `lifecycle`: two threads, one handler of the library and one of the application, two
  packets. That packets are finitely many is an assumption behind `StopEndsThread` and
  `StopReturns`: the inner loop of `run` does not look at `running` while ENet has events.

- `manager` also: the session of request 2 is hidden (private, or of another name), and
  indices are computed modulo 8 instead of 2^32: the listing of at most four sessions is
  shorter than that, as any listing is shorter than 2^32, and all page numbers and sizes
  below 8 are tried, those that wrap included.
- `delivery`: six windows of two numbers with three free ones, in the code's proportions
  (16 of 4096 with 8 free), so that the numbers wrap at 12. `Earlier` = 8 puts the first
  packet at 9: six packets cross the wrap and three borders of windows. Three packets wait
  at a time, enough to fill a window and hold one back at the border, or to keep an old
  packet unacknowledged while later ones are, which the second half of the sender's test
  (the windows ahead are free) then waits for. A sender without that half would need a
  longer queue to get into trouble, so this run does not show what it is good for.
- `connection`: two peers, two clients, two attempts in all (two of one client, or one of
  each), and four uses of peers: one client's second attempt on the peer of the first, or
  on another, and late CONNECTs that take a peer again. The fourth use is the first that
  can bring a session ID of a peer back, since an ID has two bits and the new one is next
  to the one the client had last. `MaxUses` and `MaxAttempts` only keep the run finite;
  the proofs are for any values of them.

### Fairness

ENet. The event loop of a host goes round, so a disconnected peer is acknowledged and
reported, and a peer that nobody answers times out: `WF` of `Finish` in `PeersSpec`.
`ReliableFairness` says that everything unacknowledged is in the end sent again, as far as
the windows allow (`WF` of `SendAgain`: no throttle or count of bytes in transit holds a
command back forever), and that the network delivers the oldest packet, and its
acknowledgement, when they are sent over and over (`SF`). Each of these is needed:
`AllReceived` fails without any of them. Nobody has to send, connect or disconnect.

The library's threads.

Only threads that can run are assumed to: the main server's thread in
`FairManagerSpec`, the logger's thread and a thread inside `start` or `stop` in
`LoggerSpec`, the server's thread and the threads inside `stop` or `wait` in
`LifecycleSpec`. All of it is weak fairness, which the operating system's scheduler
gives a runnable thread; no step waits for a lock. Nobody has to log, connect, join,
disconnect, stop or start anything.

### Assumptions on the network

- `EnetReliable`: no datagram is still under way once the packet `Lifetime` after its own is
  sent, with `Lifetime` at most the free windows (28672 to 32768 packets with the code's
  constants). Sequence numbers of any protocol need an assumption of this kind.
- `EnetPeers`: when a peer gets back a session ID that it had before its last one, no
  datagram of that client with this ID is under way any more (`StillArrives`), and the
  client no longer takes itself to be connected under it (`EndKnown`): it has heard of the
  end or timed out. An ID comes around when a peer has been taken a few more times, which
  takes 5 seconds and more each time if nobody answers, and as long as the clients make it
  if they disconnect; nothing in the code waits for it. How often peers are taken, and by
  whom, is not restricted, and nothing else is assumed of the network: a datagram may arrive
  at any time, never, or more than once. Both halves are needed: without the first TLC
  finds `ImplementsEvents` and `OpenedIsVerified` violated, without the second
  `OpenedIsVerified`.

### Assumptions on callers

- `OrderlyClients` (run `orderly`): what the protocol of the library seems to expect of
  a client. The server does not enforce it, so nothing in `any` uses it, nor any proof but
  those of `SessionServerOrderlyProofs`, which have it as a hypothesis.
- `ServerLifecycle`: the owner destroys the server only after a `wait` of its own has
  returned and nobody else is inside `stop` or `wait`. The destructor neither stops nor
  joins; without this it destroys the host under the thread. The library does not keep this
  assumption itself: `SessionManager` owns the session servers and lets them go without
  waiting for their threads, so `HostOutlivesThread` speaks of servers whose owner waits.
- `Logger`: one thread calls `start` and `stop`. If two did, `stop` could run between the
  exchange and the assignment of the thread in `start`.

## 4. What the models leave out

- Contents: names, passwords (never compared), msgpack payloads, log texts, channels,
  flags, bandwidth. `maxPlayers` is stored and never enforced, so it is not in the models.
- `SessionManager`: the handlers copied to new servers. The identifier and type of the
  sessions it lists are never filled in (`SessionManager.hpp:79-87`), so a client that
  names a type is given an empty list; the listing in the model is the one for the empty
  type, and the filter by name is, with the private sessions, in `Hidden`.
- `AbstractSession`: the tick thread. `running` is never set, so the thread of a
  session ends before its first tick.
- `MainServer`: `Login`, which sets an identity on the main server.
- Packets: the registry of types and the framing.
- `Server`: tables of event handlers, `removePeerUid`, `sendPacket` to an unknown uid
  (it follows a null pointer to log the failure), a host that cannot be created.
- ENet: unreliable, unsequenced and fragmented packets, the throttle, bandwidth limits and
  pings (a ping is a reliable command that changes nothing else), connections that the
  server ends, hosts serviced without an event (CONNECTION_PENDING and
  CONNECTION_SUCCEEDED, which `Server::run` and a client in an event loop never see),
  failed allocations, sockets and addresses. The checksum is not used by the library.
- msgpack and stduuid, header-only and vendored, and Boost.Lockfree, which is not part of
  the repository: encoding, identifiers and a container, used as they are.

## 5. Plan

Done: `Server` and `SessionServer` with `Rooms`, `SessionManager` with `Directory` and its
listing, `Logger`, `ServerLifecycle`, and ENet's connections (`EnetPeers`, `PeerEvents`) and
reliable channels (`EnetReliable`, `ReliableChannel`). Every invariant, action property and
refinement that a passing run checks is also a theorem (section 6).

Next, in this order:

1. `MainServer`: login, repeated login and disconnection on the main server, which has
   no disconnection handler, refining an abstract table of identities.
2. The session's thread: `running`, `tick`, `detachSession` while the thread runs.
3. `PacketTypes`: the registry, and create/parse as inverse operators on lengths.

All modules are written without recursive operators, so that each can be proved about.

## 6. Proofs

`SessionServerProofs` is about `SessionServer!Spec` with any sets of peers and uids, any
`MaxSessions` in 1 .. 65535 and clients that do anything, time-outs included. It rests on
the assumptions named in `Server` and `SessionServer`: the null values are not among the
values they stand for, and `MaxHeads` is at most 256.

1. `TypeCorrect`: `TypeOK` is inductive. The part that is not bookkeeping is that the
   vector never outgrows `maxSessions`. By `RoomToGrow`, if no slot below `size` is null
   then `LiveSlots` is `0 .. size - 1`, so the test on the number of live sessions leaves
   room.
2. `AlwaysSafe`: `Safety`, the conjunction of `TypeOK`, `MappedUserHasSession`,
   `VectorsAgree` and `OnlyJoinAndCallbackFault`, is inductive. None of the last three
   is inductive alone. That a user's session exists follows from his being in its vector,
   because a session is detached only when the vector is empty; that the vector and the
   session's players agree needs `removeUser` to find the session it looks up; and it
   finds it because the user's session exists. The other theorems on invariants
   (`UsersHaveSessions`, `VectorsStayTogether`, `LookupsNeverFault`) are its parts.
3. `EndedOnlyByOwnUser`: an action property, from `Safety`.
4. `ImplementsRoomsLaxly`: under the refinement mapping (`room` is
   `uidToSessionNumberTable`, `open` the slots that hold a session) every step is one of
   `Rooms!LaxNext` or leaves the rooms as they are. A join that is the user's second is a
   stutter; a disconnection is `Leave` or `LeaveOpen`.

`SessionServerOrderlyProofs` is about the same specification when `OrderlyClients` holds and
peers do not time out (`OrderlyServer`, a hypothesis of each theorem: it is what `orderly`
fixes, and the run `timeout` shows that the second half is needed). `OrderlyInv` is `Safety`
with the identity tables (`Identities`: inverse to each other, an identity set over a
connection and erased with it), `NoGhosts` and `HeadCount`. They need each other: that the
disconnection handler's `removePeer(uid)` erases the entry of the very peer that left is
`TablesInverse`; that it then takes the right user out of his session is `IdentityIsOwn`;
and the head count falls by one because he was counted in once. The five
invariants of the run are its parts. `ImplementsRoomsExactly` also excludes handlers that go
through the session's `server` pointer, which fail (run `noserver`) where `Rooms!StrictSpec`
has no failure; with them the server is a `LaxSpec`, as `ImplementsRoomsLaxly` says.

`SessionManagerProofs` is for any number of types, requests and `maxSessions`, any width of
an index, and any detaching meanwhile.

1. `AlwaysRoomWhenScanning`: `RoomWhenScanning` speaks of the end of the scan, so `RoomInv`
   carries what the count learnt to there: of the slots it has passed, one it did not count
   is null (`CountedSlots`) and stays null until this thread fills it, since other threads
   only make slots null; so a full server that was counted to have room has a null slot
   ahead of the scan (`RoomAhead`). `FreshServersEmpty` is for a server just started, which
   is not counted at all.
2. `ManagerTypeCorrect`: `ManagerInv`, which adds the types and the tables: a session is in
   the slot it was given and in no other (`Stored`), a vector has nothing beyond its end
   (`WithinSize`), and the server the main thread works on is of the requested type
   (`AtWork`). That a vector does not outgrow `maxSessions` is `RoomWhenScanning` again.
3. `ListingKeepsOrder` and `PagesAreTheList`: the listing from `Stored`, which makes two
   listed sessions different; the pages from the lemmas on remainders, for any length.
4. `ManagerImplementsDirectory`: each step is a step of `Directory` or a stutter. A new
   server is the directory's from when its thread runs (`Hosted`), before `sessionServers`
   has it.

`ServerLifecycleProofs` is for any number of threads that stop and wait and of packets, and
any finite set of handlers. `LifecycleInv` adds to `QuietAfterStop` and `HostOutlivesThread`
that a running thread has not been joined and has a host (`AliveThread`), that stop and wait
are called on a complete server only (`CallsWhenReady`, `Phases`), and that an owner whose
wait has returned has a joined thread, by whomever it was joined (`WaitedIsJoined`): a thread
that finds `joinable` FALSE did not join, and the conclusion must not depend on who did.
`LifecycleTypeCorrect` and `HandedToEachOnce` are from `HandlerInv`: the list holds no handler
twice, and a dispatch nobody disturbs has called the handlers before its place, in order.

`LoggerProofs` is for any writers and messages. `LoggerInv` says where `start` and `stop`
are (`CallerPhases`): while they replace the queue there is no thread, and the thread
leaves its first loop only after `running` is cleared (`DrainsAfterStop`). `ThreadHasQueue`
follows; so does `LostOnlyByStop`, because the queue that `start` replaces is empty
(`NoQueueNoMessages`). `PrintInv` is for the order: the queue is the end of what was pushed
(`QueuedLast`), and what is at hand was pushed after all that is printed (`OutFirst`).

`EnetReliableProofs` is for any size and number of windows, any starting number, and any
number of packets, with the proportions of `ReliableAssumption`: as many windows again as
there are free ones, and a datagram's lifetime at most the free windows. The argument is one
of distances. `Frame(n)` is the window of a packet were its number not reduced. The sender
stays within the free windows of its oldest packet without an acknowledgement (`WindowSpan`,
which is where the counters come in: `WindowsAgree`), and the receiver acknowledges what it
has, so nothing sent is further ahead of the receiver than that (`NearlyReceived`); the
lifetime bounds how far behind it a datagram may be. So any two numbers the code compares
are less than half of the 16-bit range apart, where the comparison of reduced numbers is the
comparison of packets. `ReliableInv` collects this; the five theorems follow from it.

`EnetPeersProofs` first brings the steps down to what they come to: a client starts an
attempt, accepts one, or goes on; a peer is taken, opened, given a packet, has it reported,
or leaves (`ClientSteps`, `ServerDoes`). `PeersTypeCorrect` is for any finite set of clients
and any numbers of peers, attempts and uses, and so are the other two, which also rest on
`StillArrives` and `EndKnown`: no bound on how often peers are taken is among their
hypotheses. `SessionInv` says what they need. Whatever a client was told or claims (in a
datagram, or by being connected) of the peer and session ID that a taken peer of its own has
is about the attempt that peer has (`Matched`): by `NobodyNames`, when a peer is taken under
a new ID nothing claims that ID, since it is not the last one's and older claims are gone.
Hence an acknowledgement or packet that a peer accepts is of its own attempt (`ClaimIsOwn`).
No two peers have one attempt (`Apart`), and a client accepts an attempt once, before it
answers (`Knows`), so an attempt already opened is never opened again; and a packet is
queued once (`Once`). `OpensOnlyVerified` and `PeersImplementEvents` follow.

What the theorems assume of the constants is in the named assumptions of the modules, which
TLC evaluates in the runs: null values and markers are not among the values they stand for
(`MarkerAssumption`: a place is a pair of numbers, "nowhere" is none), bounds are natural
numbers, and clients and handlers are finite sets.

`DataLemmas` holds what does not depend on a model: induction over a set of numbers (the
library's theorem on minimal elements takes the set, not a predicate, and can be
instantiated), lists without duplicates and what a choice of their members keeps, quotients
and remainders.

Only model-checked: liveness (`RequestsAnswered`, `Settled`, both `StopReturns`,
`StopEndsThread`, `AllReceived`, `SlotsFreed`), which rests on fairness and so on ENABLED,
of which the prover knows nothing. The runs that show a disagreement are counterexamples
and have nothing to prove.

## 7. Running

    tlc -config MCSessionServer_any.cfg MCSessionServer
    tlc -config SessionManager_manager.cfg SessionManager
    tlc -config Logger_logger.cfg Logger
    tlc -config ServerLifecycle_lifecycle.cfg ServerLifecycle
    tlc -config EnetReliable_delivery.cfg EnetReliable
    tlc -config EnetPeers_connection.cfg EnetPeers
    tlapm DataLemmas.tla
    tlapm SessionServerProofs.tla
    tlapm SessionServerOrderlyProofs.tla
    tlapm SessionManagerProofs.tla
    tlapm ServerLifecycleProofs.tla
    tlapm LoggerProofs.tla
    tlapm EnetReliableProofs.tla
    tlapm EnetPeersProofs.tla

The other configurations are run alike. `delivery` and `connection` take two to three
minutes, `any` and `manager` about one, the others seconds; the proofs of a module take from seconds to a
few minutes.
