----------------------------- MODULE SessionServer -----------------------------
(***************************************************************************)
(* One SessionServer: the sessions it hosts, the clients of its ENet host, *)
(* and the tables that say which user is in which session.                 *)
(*                                                                         *)
(* Two threads act on it.  Its own server thread handles the ENet events   *)
(* (Server::run); the main server's thread attaches the sessions that      *)
(* SessionManager creates.  A handler is one step here.                    *)
(*                                                                         *)
(* The vectors of uids (sessionNumberToUidTable[n], players) are only      *)
(* pushed to, emptied of one value and tested for emptiness, so they are   *)
(* modelled by the number of times each uid occurs in them.                *)
(***************************************************************************)
EXTENDS Server

CONSTANTS
    MaxSessions,  \* sessionServerOption.maxSessions
    NoSlot,       \* no entry in uidToSessionNumberTable
    NoSession,    \* a null pointer in sessions
    AppPackets,   \* the application's packet types: a subset of {"plain", "callback"}
    MaxHeads,     \* bound: no join to a session whose currentPlayers has reached it
    OrderlyClients,  \* TRUE: see Orderly below
    PeersTimeOut     \* TRUE: ENet may report a peer as timed out

ASSUME MaxSessionsAssumption == MaxSessions \in Nat \ {0} /\ MaxSessions < 2^16
ASSUME NoSlotAssumption == NoSlot \notin Nat
ASSUME MaxHeadsAssumption == MaxHeads \in 1 .. 256
ASSUME AppPacketsAssumption == AppPackets \subseteq {"plain", "callback"}

VARIABLES
    size,           \* sessions.size()
    sessions,       \* the vector of session pointers, NoSession from size on
    uidToSession,   \* uidToSessionNumberTable
    members,        \* sessionNumberToUidTable: members[n][u] occurrences of u
    fault           \* "none", or the undefined behaviour the process ran into

vars == <<serverVars, size, sessions, uidToSession, members, fault>>

Slots == 0 .. MaxSessions - 1
SessionNumbers == 0 .. MaxSessions   \* what a client may ask for: one is no slot
UidVector == [Uids -> Nat]
EmptyVector == [u \in Uids |-> 0]
Push(v, u) == [v EXCEPT ![u] = v[u] + 1]
\* Mutant of Without: std::remove without erase leaves the vector as long as it was.
RemoveWithoutErase(v, u) == v

Without(v, u) == [v EXCEPT ![u] = 0]

Session == [players : UidVector, currentPlayers : 0 .. 255, hasServer : BOOLEAN]

ASSUME NoSessionAssumption == NoSession \notin Session

Faults == {"none", "join", "leave", "deliver", "nullServer"}

TypeOK ==
    /\ ServerTypeOK
    /\ size \in 0 .. MaxSessions
    /\ sessions \in [Slots -> Session \cup {NoSession}]
    /\ uidToSession \in [Uids -> SessionNumbers \cup {NoSlot}]
    /\ members \in [SessionNumbers -> UidVector]
    /\ fault \in Faults

HasSession(n) == n < size /\ sessions[n] # NoSession
LiveSlots == {n \in Slots : HasSession(n)}

Init ==
    /\ ServerInit
    /\ size = 0
    /\ sessions = [n \in Slots |-> NoSession]
    /\ uidToSession = [u \in Uids |-> NoSlot]
    /\ members = [n \in SessionNumbers |-> EmptyVector]
    /\ fault = "none"

-------------------------------------------------------------------------------
(* The main server's thread.                                               *)

\* session->server is set for every session but the one a server is made for:
\* createNewSession assigns it only when it finds a server that has room.
NewSession ==
    [players |-> EmptyVector, currentPlayers |-> 0, hasServer |-> size > 0]

FreeSlots == {n \in Slots : n < size /\ sessions[n] = NoSession}

\* Mutant of AttachSession: the vector always grows.
AttachAtEnd ==
    /\ fault = "none"
    /\ Cardinality(LiveSlots) < MaxSessions
    /\ sessions' = [sessions EXCEPT ![size] = NewSession]
    /\ size' = size + 1
    /\ UNCHANGED <<serverVars, uidToSession, members, fault>>

\* attachSession: the first null slot is reused, otherwise the vector grows.
AttachSession ==
    /\ fault = "none"
    /\ Cardinality(LiveSlots) < MaxSessions
    /\ \/ \E num \in FreeSlots :
            /\ \A m \in FreeSlots : num <= m
            /\ sessions' = [sessions EXCEPT ![num] = NewSession]
            /\ UNCHANGED size
       \/ /\ FreeSlots = {}
          /\ sessions' = [sessions EXCEPT ![size] = NewSession]
          /\ size' = size + 1
    /\ UNCHANGED <<serverVars, uidToSession, members, fault>>

-------------------------------------------------------------------------------
(* The server thread.                                                      *)

Connect(p) ==
    /\ fault = "none"
    /\ PeerConnects(p)
    /\ UNCHANGED <<peerToUid, uidToPeer, size, sessions, uidToSession, members, fault>>

\* A client of the kind the library's protocol assumes: it joins once over a
\* connection, with an id nobody else is using, a session that still exists.
Orderly(p, u, n) ==
    /\ peerToUid[p] = NoUid
    /\ uidToPeer[u] = NoPeer
    /\ uidToSession[u] = NoSlot
    /\ HasSession(n)

\* What a join and a leave do to the session object; currentPlayers is a byte.
Entered(s, u) ==
    [s EXCEPT !.players = Push(s.players, u),
              !.currentPlayers = (s.currentPlayers + 1) % 256]

\* Mutants of Left: one of its two statements is missing.
LeftStaysPlayer(s, u) == [s EXCEPT !.currentPlayers = (s.currentPlayers + 255) % 256]
LeftStillCounted(s, u) == [s EXCEPT !.players = Without(s.players, u)]

Left(s, u) ==
    [s EXCEPT !.players = Without(s.players, u),
              !.currentPlayers = (s.currentPlayers + 255) % 256]

\* Mutant of AddUser: the table is assigned to, so a second join moves the user.
AddUserByAssignment(n, u) ==
    /\ uidToSession' = [uidToSession EXCEPT ![u] = n]
    /\ members' = [members EXCEPT ![n] = Push(members[n], u)]
    /\ \/ /\ HasSession(n)
          /\ sessions' = [sessions EXCEPT ![n] = Entered(sessions[n], u)]
          /\ UNCHANGED fault
       \/ /\ ~HasSession(n)
          /\ fault' = "join"
          /\ UNCHANGED sessions

\* addUser.  emplace leaves an existing entry alone; the pushes happen anyway.
\* There is no test of the session number or of the session's capacity.
AddUser(n, u) ==
    /\ uidToSession' =
         IF uidToSession[u] = NoSlot THEN [uidToSession EXCEPT ![u] = n] ELSE uidToSession
    /\ members' = [members EXCEPT ![n] = Push(members[n], u)]
    /\ \/ /\ HasSession(n)
          /\ sessions' = [sessions EXCEPT ![n] = Entered(sessions[n], u)]
          /\ UNCHANGED fault
       \/ /\ ~HasSession(n)
          /\ fault' = "join"
          /\ UNCHANGED sessions

\* A JoinSession packet: SessionJoinHandler::rawHandle.
Join(p, u, n) ==
    /\ fault = "none"
    /\ p \in connected
    /\ HasSession(n) => sessions[n].currentPlayers < MaxHeads
    /\ OrderlyClients => Orderly(p, u, n)
    /\ SetPeerUid(p, u)
    /\ AddUser(n, u)
    /\ claimed' = [claimed EXCEPT ![p] = u]
    /\ UNCHANGED <<connected, size>>

\* Mutant of TakeOut: the entry of the table is not erased.
TakeOutKeepsEntry(u, num, last) ==
    /\ UNCHANGED <<uidToSession, fault>>
    /\ members' = [members EXCEPT ![num] = Without(members[num], u)]
    /\ sessions' = [sessions EXCEPT ![num] =
                      IF last THEN NoSession ELSE Left(sessions[num], u)]

\* The part of removeUser for a user of session num: the session is detached if
\* he was the last, otherwise its head count and players are brought up to date.
TakeOut(u, num, last) ==
    /\ uidToSession' = [uidToSession EXCEPT ![u] = NoSlot]
    /\ members' = [members EXCEPT ![num] = Without(members[num], u)]
    /\ \/ /\ HasSession(num)
          /\ sessions' = [sessions EXCEPT ![num] =
                            IF last THEN NoSession ELSE Left(sessions[num], u)]
          /\ UNCHANGED fault
       \/ /\ ~HasSession(num)
          /\ fault' = IF last /\ num >= size THEN fault ELSE "leave"
          /\ UNCHANGED sessions

\* Mutants of RemoveUser: it detaches without asking who is left; or it takes the
\* session of a user who is in none to be number 0, as operator[] would.
RemoveUserAlwaysDetaches(u) ==
    LET num == uidToSession[u] IN
    \/ /\ num = NoSlot
       /\ UNCHANGED <<sessions, uidToSession, members, fault>>
    \/ /\ num # NoSlot
       /\ TakeOut(u, num, TRUE)

RemoveUserFromZero(u) ==
    LET num == IF uidToSession[u] = NoSlot THEN 0 ELSE uidToSession[u] IN
    TakeOut(u, num, Without(members[num], u) = EmptyVector)

\* He was the last when nobody remains in the server's vector.
RemoveUser(u) ==
    LET num == uidToSession[u] IN
    \/ /\ num = NoSlot
       /\ UNCHANGED <<sessions, uidToSession, members, fault>>
    \/ /\ num # NoSlot
       /\ TakeOut(u, num, Without(members[num], u) = EmptyVector)

\* Mutants of Disconnect: one of the two removals is missing.
DisconnectKeepsPeer(p) ==
    /\ fault = "none"
    /\ PeerLeaves(p)
    /\ \/ /\ peerToUid[p] = NoUid
          /\ UNCHANGED <<sessions, uidToSession, members, fault>>
       \/ /\ peerToUid[p] # NoUid
          /\ RemoveUser(peerToUid[p])
    /\ UNCHANGED <<peerToUid, uidToPeer, size>>

DisconnectKeepsUser(p) ==
    /\ fault = "none"
    /\ PeerLeaves(p)
    /\ \/ /\ peerToUid[p] = NoUid
          /\ UNCHANGED <<peerToUid, uidToPeer>>
       \/ /\ peerToUid[p] # NoUid
          /\ RemovePeer(peerToUid[p])
    /\ UNCHANGED <<size, sessions, uidToSession, members, fault>>

\* The DISCONNECT event: the handler that SessionServer's constructor registers.
Disconnect(p) ==
    /\ fault = "none"
    /\ PeerLeaves(p)
    /\ \/ /\ peerToUid[p] = NoUid
          /\ UNCHANGED <<peerToUid, uidToPeer, sessions, uidToSession, members, fault>>
       \/ /\ peerToUid[p] # NoUid
          /\ RemovePeer(peerToUid[p])
          /\ RemoveUser(peerToUid[p])
    /\ UNCHANGED size

Timeout(p) ==
    /\ fault = "none"
    /\ PeersTimeOut
    /\ PeerTimesOut(p)
    /\ UNCHANGED <<size, sessions, uidToSession, members, fault>>

\* An application packet is handed to the session of the sender's uid; packets
\* of an unknown sender, or of one in no session, are dropped.  A handler of a
\* "callback" packet asks the session for the sender's uid, as every
\* SessionPacketHandler does, and so goes through session->server.
Deliver(p, kind) ==
    LET u == peerToUid[p] IN
    /\ fault = "none"
    /\ p \in connected
    /\ u # NoUid
    /\ uidToSession[u] # NoSlot
    /\ uidToSession[u] < size
    /\ fault' = CASE sessions[uidToSession[u]] = NoSession -> "deliver"
                  [] OTHER -> IF kind = "callback" /\ ~sessions[uidToSession[u]].hasServer
                              THEN "nullServer"
                              ELSE "none"
    /\ UNCHANGED <<serverVars, size, sessions, uidToSession, members>>

Next ==
    \/ AttachSession
    \/ \E p \in Peers : Connect(p)
    \/ \E p \in Peers, u \in Uids, n \in SessionNumbers : Join(p, u, n)
    \/ \E p \in Peers : Disconnect(p)
    \/ \E p \in Peers : Timeout(p)
    \/ \E p \in Peers, kind \in AppPackets : Deliver(p, kind)

Spec == Init /\ [][Next]_vars
-------------------------------------------------------------------------------
(* Properties that hold whatever the clients do.                           *)

\* A user who is in a session is in one that exists, and is in the vector that
\* keeps it alive: the session cannot be destroyed under its users, although
\* the packet dispatch and removeUser look the session up by a stored number
\* and do not test the pointer.
MappedUserHasSession ==
    fault = "none" =>
        \A u \in Uids : uidToSession[u] # NoSlot =>
            /\ HasSession(uidToSession[u])
            /\ members[uidToSession[u]][u] > 0

\* The two records of who is in a session, the server's vector and the session
\* object's players, agree through every join, leave, detach and slot reuse; and
\* a number whose session is gone has no users left over for its next session.
VectorsAgree ==
    fault = "none" =>
        \A n \in Slots :
            IF HasSession(n) THEN sessions[n].players = members[n]
                             ELSE members[n] = EmptyVector

\* Dispatching a packet and handling a disconnection never reach through a null
\* or missing session; of the undefined behaviours only a join and a handler
\* that goes through session->server can.
OnlyJoinAndCallbackFault == fault \in {"none", "join", "nullServer"}

\* A session ends only in the step in which one of its own users leaves it:
\* neither a join, nor an attach, nor another session's users can end it.
EndedByItsOwnUser ==
    [][\A n \in Slots : HasSession(n) /\ ~HasSession(n)' =>
            \E u \in Uids : uidToSession[u] = n /\ uidToSession'[u] = NoSlot]_vars

\* The abstraction to Rooms.
R == INSTANCE Rooms WITH
        Users <- Uids, RoomNumbers <- SessionNumbers, Nowhere <- NoSlot,
        room <- uidToSession, open <- LiveSlots, alive <- fault = "none"

\* With any clients the server implements Rooms in which rooms may linger.
ImplementsLaxRooms == R!LaxSpec

-------------------------------------------------------------------------------
(* Properties of a server whose clients are orderly and never time out.    *)

\* The two identity tables are inverse to each other.
TablesInverse ==
    \A p \in Peers, u \in Uids : peerToUid[p] = u <=> uidToPeer[u] = p

\* The identity under which a peer's packets are handled is the one its own
\* connection gave: nothing is left over from the slot's previous client, and a
\* client that joined is not forgotten while it is connected.
IdentityIsOwn == \A p \in Peers : peerToUid[p] = claimed[p]

\* currentPlayers, which clients see in the session list, is the number of users
\* in the session (modulo the width of its type).
HeadCount ==
    \A n \in LiveSlots :
        sessions[n].currentPlayers = Cardinality({u \in Uids : uidToSession[u] = n}) % 256

\* Nobody is in the vector of a session he is not in, so the session of users who
\* have all left is gone: no session is kept alive by a user who is not in it.
NoGhosts ==
    \A u \in Uids, n \in SessionNumbers : members[n][u] > 0 => uidToSession[u] = n

\* A user who is in a session has a connection of his own: the end of the
\* connection, whatever its cause, takes him out of the session.
MembersAreConnected ==
    \A u \in Uids : uidToSession[u] # NoSlot =>
        \E p \in connected : claimed[p] = u

\* With orderly clients the server implements Rooms exactly.
ImplementsRooms == R!StrictSpec

-------------------------------------------------------------------------------
(* What the code says of the program and does not do.                      *)

\* A session can reach the server it is attached to: the handlers of its packets
\* can ask it for the sender's uid.
SessionReachesItsServer == fault # "nullServer"
===============================================================================
