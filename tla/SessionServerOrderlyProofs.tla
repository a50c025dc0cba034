---------------------- MODULE SessionServerOrderlyProofs -----------------------
(***************************************************************************)
(* Proofs about a SessionServer whose clients keep to the protocol: each   *)
(* joins once over its connection, under an id nobody else is using, and   *)
(* no connection ends by a timeout.  For any number of peers, users and    *)
(* slots.                                                                  *)
(***************************************************************************)
EXTENDS SessionServerProofs

USE DEF Slots, SessionNumbers

OrderlyServer == OrderlyClients /\ ~PeersTimeOut

UsersOf(n) == {u \in Uids : uidToSession[u] = n}

(***************************************************************************)
(* The inductive invariant.  An identity is set over a connection and is   *)
(* erased with it (IdentityIsOwn, ForgottenWithConnection), and the two    *)
(* tables being inverse makes removePeer(uid) erase the entry of the very  *)
(* peer that left.  So a user is in a session only while his connection    *)
(* lasts, and nobody is in the vector of a session he is not in.           *)
(***************************************************************************)
ForgottenWithConnection == \A p \in Peers \ connected : claimed[p] = NoUid

FiniteSessions == \A n \in Slots : IsFiniteSet(UsersOf(n))

Identities ==
    /\ TablesInverse
    /\ IdentityIsOwn
    /\ ForgottenWithConnection
    /\ MembersAreConnected

Heads == FiniteSessions /\ HeadCount

OrderlyInv == Safety /\ Identities /\ NoGhosts /\ Heads

LEMMA InitOrderly == Init => OrderlyInv
<1> SUFFICES ASSUME Init PROVE OrderlyInv
  OBVIOUS
<1>1. Safety
  BY InitSafety
<1>2. Identities
  BY PeerAssumption, UidAssumption
     DEF Init, ServerInit, Identities, TablesInverse, IdentityIsOwn, ForgottenWithConnection,
         MembersAreConnected
<1>3. NoGhosts
  BY DEF Init, NoGhosts, EmptyVector
<1>4. \A n \in Slots : UsersOf(n) = {} /\ ~HasSession(n)
  BY MaxSessionsAssumption, NoSlotAssumption DEF Init, UsersOf, HasSession
<1>5. Heads
  BY <1>4, FS_EmptySet DEF Heads, FiniteSessions, HeadCount, LiveSlots
<1>6. QED
  BY <1>1, <1>2, <1>3, <1>5 DEF OrderlyInv

(***************************************************************************)
(* A join.                                                                 *)
(***************************************************************************)
\* What an orderly join does to the tables: it finds a session and sets entries
\* that were unset.
LEMMA OrderlyJoin ==
    ASSUME OrderlyServer, Safety,
           NEW p \in Peers, NEW u \in Uids, NEW n \in SessionNumbers, Join(p, u, n)
    PROVE  /\ fault = "none" /\ fault' = "none"
           /\ p \in connected /\ connected' = connected
           /\ peerToUid[p] = NoUid /\ uidToPeer[u] = NoPeer /\ uidToSession[u] = NoSlot
           /\ peerToUid' = [peerToUid EXCEPT ![p] = u]
           /\ uidToPeer' = [uidToPeer EXCEPT ![u] = p]
           /\ claimed' = [claimed EXCEPT ![p] = u]
           /\ uidToSession' = [uidToSession EXCEPT ![u] = n]
           /\ members' = [members EXCEPT ![n] = Push(members[n], u)]
           /\ sessions' = [sessions EXCEPT ![n] = Entered(sessions[n], u)]
           /\ HasSession(n) /\ n \in Slots /\ sessions[n] \in Session
           /\ size' = size
<1>1. Orderly(p, u, n) /\ TypeOK
  BY DEF Join, OrderlyServer, Safety
<1>2. n \in Slots /\ sessions[n] \in Session
  BY <1>1, LiveSlot DEF Orderly
<1>3. QED
  BY <1>1, <1>2 DEF Join, SetPeerUid, AddUser, Orderly

LEMMA JoinIdentities ==
    ASSUME OrderlyServer, OrderlyInv,
           NEW p \in Peers, NEW u \in Uids, NEW n \in SessionNumbers, Join(p, u, n)
    PROVE  Identities'
<1> Safety /\ TypeOK /\ Identities
  BY DEF OrderlyInv, Safety
<1>1. /\ p \in connected /\ connected' = connected
      /\ peerToUid[p] = NoUid /\ uidToPeer[u] = NoPeer
      /\ peerToUid' = [peerToUid EXCEPT ![p] = u]
      /\ uidToPeer' = [uidToPeer EXCEPT ![u] = p]
      /\ claimed' = [claimed EXCEPT ![p] = u]
      /\ uidToSession' = [uidToSession EXCEPT ![u] = n]
  BY OrderlyJoin
<1>2. TablesInverse'
  BY <1>1, UidAssumption, PeerAssumption DEF Identities, TablesInverse, TypeOK, ServerTypeOK
<1>3. IdentityIsOwn' /\ ForgottenWithConnection'
  BY <1>1 DEF Identities, IdentityIsOwn, ForgottenWithConnection, TypeOK, ServerTypeOK
<1>4. MembersAreConnected'
  <2> SUFFICES ASSUME NEW v \in Uids, uidToSession'[v] # NoSlot
               PROVE  \E q \in connected : claimed'[q] = v
    BY <1>1 DEF MembersAreConnected
  <2>1. CASE v = u
    BY <1>1, <2>1 DEF TypeOK, ServerTypeOK
  <2>2. CASE v # u
    <3>1. PICK q \in connected : claimed[q] = v
      BY <1>1, <2>2 DEF Identities, MembersAreConnected, TypeOK
    <3>2. q # p
      BY <1>1, <3>1, UidAssumption DEF Identities, IdentityIsOwn
    <3>3. QED
      BY <1>1, <3>1, <3>2 DEF TypeOK, ServerTypeOK
  <2>3. QED
    BY <2>1, <2>2
<1>5. QED
  BY <1>2, <1>3, <1>4 DEF Identities

LEMMA JoinNoGhosts ==
    ASSUME OrderlyServer, OrderlyInv,
           NEW p \in Peers, NEW u \in Uids, NEW n \in SessionNumbers, Join(p, u, n)
    PROVE  NoGhosts'
<1> Safety /\ TypeOK /\ NoGhosts
  BY DEF OrderlyInv, Safety
<1>1. /\ uidToSession[u] = NoSlot
      /\ uidToSession' = [uidToSession EXCEPT ![u] = n]
      /\ members' = [members EXCEPT ![n] = Push(members[n], u)]
  BY OrderlyJoin
<1>2. members[n] \in UidVector
  BY DEF TypeOK
<1> SUFFICES ASSUME NEW v \in Uids, NEW m \in SessionNumbers, members'[m][v] > 0
             PROVE  uidToSession'[v] = m
  BY DEF NoGhosts
<1>3. CASE v = u
  <2>1. CASE m = n
    BY <1>1, <1>3, <2>1 DEF TypeOK
  <2>2. CASE m # n
    <3>1. members[m][u] > 0
      BY <1>1, <1>3, <2>2 DEF TypeOK
    <3>2. m \notin {NoSlot}
      BY NoSlotAssumption, MaxSessionsAssumption
    <3>3. QED
      BY <1>1, <3>1, <3>2 DEF NoGhosts
  <2>3. QED
    BY <2>1, <2>2
<1>4. CASE v # u
  <2>1. Push(members[n], u)[v] = members[n][v]
    BY <1>2, <1>4, VectorTypes
  <2>2. members[m][v] > 0
    BY <1>1, <2>1 DEF TypeOK
  <2>3. QED
    BY <1>1, <1>4, <2>2 DEF NoGhosts, TypeOK
<1>5. QED
  BY <1>3, <1>4

\* currentPlayers is a byte: what a join and a leave do to it, modulo 256.
LEMMA CountedByte ==
    ASSUME NEW s \in Session, NEW u \in Uids, NEW k \in Nat, s.currentPlayers = k % 256
    PROVE  /\ Entered(s, u).currentPlayers = (k + 1) % 256
           /\ k > 0 => Left(s, u).currentPlayers = (k - 1) % 256
<1>1. Entered(s, u).currentPlayers = ((k % 256) + 1) % 256
  BY DEF Entered, Session
<1>2. Left(s, u).currentPlayers = ((k % 256) + 255) % 256
  BY DEF Left, Session
<1>3. ((k % 256) + 1) % 256 = (k + 1) % 256
  OBVIOUS
<1>4. k > 0 => ((k % 256) + 255) % 256 = (k - 1) % 256
  OBVIOUS
<1>5. QED
  BY <1>1, <1>2, <1>3, <1>4

LEMMA JoinHeads ==
    ASSUME OrderlyServer, OrderlyInv,
           NEW p \in Peers, NEW u \in Uids, NEW n \in SessionNumbers, Join(p, u, n)
    PROVE  Heads'
<1> Safety /\ TypeOK /\ FiniteSessions /\ HeadCount
  BY DEF OrderlyInv, Safety, Heads
<1>1. /\ uidToSession[u] = NoSlot
      /\ uidToSession' = [uidToSession EXCEPT ![u] = n]
      /\ sessions' = [sessions EXCEPT ![n] = Entered(sessions[n], u)]
      /\ HasSession(n) /\ n \in Slots /\ sessions[n] \in Session
      /\ size' = size
  BY OrderlyJoin
<1>2. Entered(sessions[n], u) # NoSession
  BY <1>1, SessionTypes
<1>3. \A m \in Slots \ {n} : UsersOf(m)' = UsersOf(m) /\ sessions'[m] = sessions[m]
  <2> SUFFICES ASSUME NEW m \in Slots \ {n}
               PROVE  UsersOf(m)' = UsersOf(m) /\ sessions'[m] = sessions[m]
    OBVIOUS
  <2>1. \A v \in Uids : uidToSession'[v] = m <=> uidToSession[v] = m
    <3>1. m # NoSlot
      BY NoSlotAssumption, MaxSessionsAssumption
    <3>2. QED
      BY <1>1, <3>1 DEF TypeOK
  <2>2. QED
    BY <1>1, <2>1 DEF UsersOf, TypeOK
<1>4. UsersOf(n)' = UsersOf(n) \cup {u} /\ u \notin UsersOf(n)
  <2>1. n # NoSlot
    BY <1>1, NoSlotAssumption, MaxSessionsAssumption
  <2>2. QED
    BY <1>1, <2>1 DEF UsersOf, TypeOK
<1>5. IsFiniteSet(UsersOf(n))
  BY <1>1 DEF FiniteSessions
<1>6. /\ IsFiniteSet(UsersOf(n)')
      /\ Cardinality(UsersOf(n)') = Cardinality(UsersOf(n)) + 1
      /\ Cardinality(UsersOf(n)) \in Nat
  BY <1>4, <1>5, FS_AddElement, FS_CardinalityType
<1>7. FiniteSessions'
  BY <1>3, <1>6 DEF FiniteSessions
<1>8. sessions'[n].currentPlayers = Cardinality(UsersOf(n)') % 256
  <2>1. sessions[n].currentPlayers = Cardinality(UsersOf(n)) % 256
    BY <1>1 DEF HeadCount, LiveSlots, UsersOf
  <2>2. sessions'[n] = Entered(sessions[n], u)
    BY <1>1 DEF TypeOK
  <2>3. QED
    BY <1>1, <1>6, <2>1, <2>2, CountedByte
<1>9. ASSUME NEW m \in LiveSlots'
      PROVE  sessions'[m].currentPlayers = Cardinality(UsersOf(m)') % 256
  <2>1. CASE m = n
    BY <1>8, <2>1
  <2>2. CASE m # n
    <3>1. m \in Slots \ {n} /\ m \in LiveSlots
      BY <1>1, <1>3, <1>9, <2>2 DEF LiveSlots, HasSession
    <3>2. QED
      BY <1>3, <3>1 DEF HeadCount, UsersOf
  <2>3. QED
    BY <2>1, <2>2
<1>10. HeadCount'
  BY <1>9 DEF HeadCount, UsersOf
<1>11. QED
  BY <1>7, <1>10 DEF Heads

(***************************************************************************)
(* A disconnection.                                                        *)
(***************************************************************************)
\* The disconnection of a peer that joined erases the pair of entries of that very
\* peer and finds its user in a session, or in none.
LEMMA OrderlyDisconnect ==
    ASSUME OrderlyInv, NEW p \in Peers, Disconnect(p), peerToUid[p] # NoUid
    PROVE  /\ peerToUid[p] \in Uids /\ claimed[p] = peerToUid[p]
           /\ uidToPeer[peerToUid[p]] = p
           /\ peerToUid' = [peerToUid EXCEPT ![p] = NoUid]
           /\ uidToPeer' = [uidToPeer EXCEPT ![peerToUid[p]] = NoPeer]
           /\ RemoveUser(peerToUid[p])
<1>1. TypeOK /\ TablesInverse /\ IdentityIsOwn
  BY DEF OrderlyInv, Safety, Identities
<1> PICK u \in Uids : u = peerToUid[p]
  BY <1>1 DEF TypeOK, ServerTypeOK
<1>2. uidToPeer[u] = p
  BY <1>1 DEF TablesInverse
<1>3. RemovePeer(u) /\ RemoveUser(u)
  BY DEF Disconnect
<1>4. QED
  BY <1>1, <1>2, <1>3, PeerAssumption DEF RemovePeer, IdentityIsOwn

\* What removeUser does to the user's session: the session ends when, and only
\* when, nobody else is in it.
LEMMA OrderlyLeave ==
    ASSUME OrderlyInv, fault = "none", size' = size,
           NEW u \in Uids, NEW n \in SessionNumbers, uidToSession[u] = n, RemoveUser(u)
    PROVE  /\ fault' = "none"
           /\ n \in Slots /\ HasSession(n) /\ sessions[n] \in Session
           /\ uidToSession' = [uidToSession EXCEPT ![u] = NoSlot]
           /\ members' = [members EXCEPT ![n] = Without(members[n], u)]
           /\ sessions' = [sessions EXCEPT ![n] =
                 IF R!Alone(u) THEN NoSession ELSE Left(sessions[n], u)]
<1> TypeOK /\ MappedUserHasSession /\ NoGhosts
  BY DEF OrderlyInv, Safety
<1>1. n # NoSlot
  BY NoSlotAssumption, MaxSessionsAssumption
<1>2. HasSession(n) /\ n \in Slots /\ sessions[n] \in Session
  BY <1>1, LiveSlot DEF MappedUserHasSession
<1> PICK rest : rest = Without(members[n], u)
  OBVIOUS
<1>3. rest \in UidVector /\ rest[u] = 0 /\ \A v \in Uids \ {u} : rest[v] = members[n][v]
  <2>1. members[n] \in UidVector
    BY DEF TypeOK
  <2>2. QED
    BY <2>1, VectorTypes
<1>4. rest = EmptyVector <=> R!Alone(u)
  <2>1. \A v \in Uids \ {u} : members[n][v] > 0 <=> uidToSession[v] = n
    BY <1>1 DEF MappedUserHasSession, NoGhosts
  <2>2. R!Alone(u) <=> \A v \in Uids \ {u} : ~(rest[v] > 0)
    BY <1>3, <2>1 DEF R!Alone
  <2>3. \A v \in Uids : rest[v] \in Nat
    BY <1>3 DEF UidVector
  <2>4. ASSUME \A v \in Uids : rest[v] = 0 PROVE rest = EmptyVector
    BY <1>3, <2>4 DEF UidVector, EmptyVector
  <2>5. rest = EmptyVector => \A v \in Uids : rest[v] = 0
    BY DEF EmptyVector
  <2>6. QED
    BY <1>3, <2>2, <2>3, <2>4, <2>5
<1>5. QED
  BY <1>1, <1>2, <1>4 DEF RemoveUser, TakeOut

LEMMA DisconnectIdentities ==
    ASSUME OrderlyInv, NEW p \in Peers, Disconnect(p)
    PROVE  Identities'
<1> TypeOK /\ Identities /\ fault = "none"
  BY DEF OrderlyInv, Safety, Disconnect
<1>1. p \in connected /\ connected' = connected \ {p} /\ claimed' = [claimed EXCEPT ![p] = NoUid]
  BY DEF Disconnect, PeerLeaves
<1>2. ForgottenWithConnection'
  BY <1>1 DEF Identities, ForgottenWithConnection, TypeOK, ServerTypeOK
<1>3. CASE peerToUid[p] = NoUid
  <2>1. UNCHANGED <<peerToUid, uidToPeer, uidToSession>>
    BY <1>3 DEF Disconnect
  <2>2. TablesInverse' /\ IdentityIsOwn'
    BY <1>1, <1>3, <2>1 DEF Identities, TablesInverse, IdentityIsOwn, TypeOK, ServerTypeOK
  <2>3. \A v \in Uids : claimed[p] # v
    BY <1>3, UidAssumption DEF Identities, IdentityIsOwn
  <2>4. MembersAreConnected'
    BY <1>1, <2>1, <2>3 DEF Identities, MembersAreConnected, TypeOK, ServerTypeOK
  <2>5. QED
    BY <1>2, <2>2, <2>4 DEF Identities
<1>4. CASE peerToUid[p] # NoUid
  <2> PICK u \in Uids : u = peerToUid[p]
    BY <1>4, OrderlyDisconnect
  <2>1. /\ claimed[p] = u /\ uidToPeer[u] = p
        /\ peerToUid' = [peerToUid EXCEPT ![p] = NoUid]
        /\ uidToPeer' = [uidToPeer EXCEPT ![u] = NoPeer]
        /\ RemoveUser(u)
    BY <1>4, OrderlyDisconnect
  <2>2. TablesInverse'
    BY <2>1, UidAssumption, PeerAssumption DEF Identities, TablesInverse, TypeOK, ServerTypeOK
  <2>3. IdentityIsOwn'
    BY <1>1, <2>1 DEF Identities, IdentityIsOwn, TypeOK, ServerTypeOK
  <2>4. uidToSession' = [uidToSession EXCEPT ![u] = NoSlot]
    BY <2>1 DEF RemoveUser, TakeOut, TypeOK
  <2>5. ASSUME NEW v \in Uids, uidToSession'[v] # NoSlot
        PROVE  \E q \in connected' : claimed'[q] = v
    <3>1. v # u /\ uidToSession[v] # NoSlot
      BY <2>4, <2>5 DEF TypeOK
    <3>2. PICK q \in connected : claimed[q] = v
      BY <3>1 DEF Identities, MembersAreConnected
    <3>3. q # p
      BY <2>1, <3>1, <3>2
    <3>4. QED
      BY <1>1, <3>2, <3>3 DEF TypeOK, ServerTypeOK
  <2>6. MembersAreConnected'
    BY <2>5 DEF MembersAreConnected
  <2>7. QED
    BY <1>2, <2>2, <2>3, <2>6 DEF Identities
<1>5. QED
  BY <1>3, <1>4

LEMMA DisconnectNoGhosts ==
    ASSUME OrderlyInv, NEW p \in Peers, Disconnect(p)
    PROVE  NoGhosts'
<1> TypeOK /\ NoGhosts /\ fault = "none" /\ size' = size
  BY DEF OrderlyInv, Safety, Disconnect
<1>1. CASE peerToUid[p] = NoUid \/ uidToSession[peerToUid[p]] = NoSlot
  BY <1>1 DEF Disconnect, RemoveUser, TakeOut, NoGhosts
<1>2. CASE peerToUid[p] # NoUid /\ uidToSession[peerToUid[p]] # NoSlot
  <2> PICK u \in Uids : u = peerToUid[p] /\ RemoveUser(u)
    BY <1>2, OrderlyDisconnect
  <2> PICK n \in SessionNumbers : uidToSession[u] = n
    BY <1>2 DEF TypeOK
  <2>1. /\ uidToSession' = [uidToSession EXCEPT ![u] = NoSlot]
        /\ members' = [members EXCEPT ![n] = Without(members[n], u)]
    BY OrderlyLeave
  <2>2. /\ Without(members[n], u)[u] = 0
        /\ \A v \in Uids \ {u} : Without(members[n], u)[v] = members[n][v]
    <3>1. members[n] \in UidVector
      BY DEF TypeOK
    <3>2. QED
      BY <3>1, VectorTypes
  <2> SUFFICES ASSUME NEW v \in Uids, NEW m \in SessionNumbers, members'[m][v] > 0
               PROVE  uidToSession'[v] = m
    BY DEF NoGhosts
  <2>3. members[m][v] > 0 /\ ~(v = u /\ m = n)
    <3>1. CASE m = n
      BY <2>1, <2>2, <3>1 DEF TypeOK
    <3>2. CASE m # n
      BY <2>1, <3>2 DEF TypeOK
    <3>3. QED
      BY <3>1, <3>2
  <2>4. uidToSession[v] = m
    BY <2>3 DEF NoGhosts
  <2>5. QED
    BY <2>1, <2>3, <2>4 DEF TypeOK
<1>3. QED
  BY <1>1, <1>2

LEMMA DisconnectHeads ==
    ASSUME OrderlyInv, NEW p \in Peers, Disconnect(p)
    PROVE  Heads'
<1> TypeOK /\ FiniteSessions /\ HeadCount /\ fault = "none" /\ size' = size
  BY DEF OrderlyInv, Safety, Heads, Disconnect
<1>1. CASE peerToUid[p] = NoUid \/ uidToSession[peerToUid[p]] = NoSlot
  <2>1. UNCHANGED <<sessions, uidToSession, size>>
    BY <1>1 DEF Disconnect, RemoveUser, TakeOut
  <2>2. \A n \in Slots : UsersOf(n)' = UsersOf(n) /\ HasSession(n)' = HasSession(n)
    BY <2>1 DEF UsersOf, HasSession
  <2>3. FiniteSessions'
    BY <2>2 DEF FiniteSessions
  <2>4. HeadCount'
    BY <2>1 DEF HeadCount, LiveSlots, HasSession
  <2>5. QED
    BY <2>3, <2>4 DEF Heads
<1>2. CASE peerToUid[p] # NoUid /\ uidToSession[peerToUid[p]] # NoSlot
  <2> PICK u \in Uids : u = peerToUid[p] /\ RemoveUser(u)
    BY <1>2, OrderlyDisconnect
  <2> PICK n \in SessionNumbers : uidToSession[u] = n
    BY <1>2 DEF TypeOK
  <2>1. /\ n \in Slots /\ HasSession(n) /\ sessions[n] \in Session
        /\ uidToSession' = [uidToSession EXCEPT ![u] = NoSlot]
        /\ sessions' = [sessions EXCEPT ![n] =
              IF R!Alone(u) THEN NoSession ELSE Left(sessions[n], u)]
    BY OrderlyLeave
  <2>2. \A m \in Slots \ {n} : UsersOf(m)' = UsersOf(m) /\ sessions'[m] = sessions[m]
    <3> SUFFICES ASSUME NEW m \in Slots \ {n}
                 PROVE  UsersOf(m)' = UsersOf(m) /\ sessions'[m] = sessions[m]
      OBVIOUS
    <3>1. m # NoSlot
      BY NoSlotAssumption, MaxSessionsAssumption
    <3>2. \A v \in Uids : uidToSession'[v] = m <=> uidToSession[v] = m
      BY <2>1, <3>1 DEF TypeOK
    <3>3. QED
      BY <2>1, <3>2 DEF UsersOf, TypeOK
  <2>3. UsersOf(n)' = UsersOf(n) \ {u} /\ u \in UsersOf(n)
    <3>1. n # NoSlot
      BY <2>1, NoSlotAssumption, MaxSessionsAssumption
    <3>2. QED
      BY <2>1, <3>1 DEF UsersOf, TypeOK
  <2> PICK k : k = Cardinality(UsersOf(n))
    OBVIOUS
  <2>4. k \in Nat /\ k > 0 /\ IsFiniteSet(UsersOf(n)') /\ Cardinality(UsersOf(n)') = k - 1
    <3>1. IsFiniteSet(UsersOf(n))
      BY <2>1 DEF FiniteSessions
    <3>2. k \in Nat /\ IsFiniteSet(UsersOf(n) \ {u}) /\ Cardinality(UsersOf(n) \ {u}) = k - 1
      BY <2>3, <3>1, FS_RemoveElement, FS_CardinalityType
    <3>3. Cardinality(UsersOf(n) \ {u}) \in Nat
      BY <3>2, FS_CardinalityType
    <3>4. QED
      BY <2>3, <3>2, <3>3
  <2>5. FiniteSessions'
    BY <2>2, <2>4 DEF FiniteSessions
  <2>6. ASSUME NEW m \in LiveSlots'
        PROVE  sessions'[m].currentPlayers = Cardinality(UsersOf(m)') % 256
    <3>1. CASE m = n
      <4>1. sessions'[n] = Left(sessions[n], u)
        BY <2>1, <2>6, <3>1 DEF LiveSlots, HasSession, TypeOK
      <4>2. sessions[n].currentPlayers = k % 256
        BY <2>1 DEF HeadCount, LiveSlots, UsersOf
      <4>3. QED
        BY <2>1, <2>4, <3>1, <4>1, <4>2, CountedByte
    <3>2. CASE m # n
      <4>1. m \in Slots \ {n} /\ m \in LiveSlots
        BY <2>2, <2>6, <3>2 DEF LiveSlots, HasSession
      <4>2. QED
        BY <2>2, <4>1 DEF HeadCount, UsersOf
    <3>3. QED
      BY <3>1, <3>2
  <2>7. HeadCount'
    BY <2>6 DEF HeadCount, UsersOf
  <2>8. QED
    BY <2>5, <2>7 DEF Heads
<1>3. QED
  BY <1>1, <1>2

(***************************************************************************)
(* An attach: the slot it fills has no user, so its session starts with    *)
(* the head count its users have.                                          *)
(***************************************************************************)
LEMMA AttachedCount ==
    ASSUME Safety, AttachSession, NEW n \in Slots, ~HasSession(n), HasSession(n)'
    PROVE  sessions'[n].currentPlayers = 0
<1> TypeOK
  BY DEF Safety
<1>1. NewSession.currentPlayers = 0
  BY DEF NewSession
<1>2. CASE FreeSlots # {}
  <2>1. PICK num \in FreeSlots :
            sessions' = [sessions EXCEPT ![num] = NewSession] /\ UNCHANGED size
    BY <1>2 DEF AttachSession
  <2>2. n = num
    BY <2>1 DEF HasSession, TypeOK
  <2>3. QED
    BY <1>1, <2>1, <2>2 DEF TypeOK
<1>3. CASE FreeSlots = {}
  <2>1. sessions' = [sessions EXCEPT ![size] = NewSession] /\ size' = size + 1
    BY <1>3 DEF AttachSession
  <2>2. n = size
    <3>1. SUFFICES ASSUME n # size PROVE FALSE
      OBVIOUS
    <3>2. sessions'[n] = sessions[n] /\ n < size + 1
      BY <2>1, <3>1 DEF HasSession, TypeOK
    <3>3. n < size
      BY <3>1, <3>2, MaxSessionsAssumption DEF TypeOK
    <3>4. QED
      BY <3>2, <3>3 DEF HasSession
  <2>3. QED
    BY <1>1, <2>1, <2>2 DEF TypeOK
<1>4. QED
  BY <1>2, <1>3

LEMMA AttachHeads ==
    ASSUME OrderlyInv, AttachSession
    PROVE  Heads'
<1> Safety /\ TypeOK /\ FiniteSessions /\ HeadCount
  BY DEF OrderlyInv, Safety, Heads
<1>1. fault = "none" /\ uidToSession' = uidToSession
  BY DEF AttachSession
<1>2. PICK k \in Slots :
        /\ ~HasSession(k)
        /\ HasSession(k)'
        /\ \A n \in SessionNumbers \ {k} :
              HasSession(n)' = HasSession(n) /\ (n \in Slots => sessions'[n] = sessions[n])
  BY AttachedSlot
<1>3. \A n : UsersOf(n)' = UsersOf(n)
  BY <1>1 DEF UsersOf
<1>4. UsersOf(k) = {} /\ Cardinality(UsersOf(k)) = 0
  <2>1. k # NoSlot
    BY NoSlotAssumption, MaxSessionsAssumption
  <2>2. \A u \in Uids : uidToSession[u] # k
    BY <1>1, <1>2, <2>1 DEF Safety, MappedUserHasSession
  <2>3. QED
    BY <2>2, FS_EmptySet DEF UsersOf
<1>5. FiniteSessions'
  BY <1>3 DEF FiniteSessions
<1>6. ASSUME NEW n \in LiveSlots'
      PROVE  sessions'[n].currentPlayers = Cardinality(UsersOf(n)') % 256
  <2>1. CASE n = k
    <3>1. sessions'[n].currentPlayers = 0
      BY <1>2, <2>1, AttachedCount
    <3>2. QED
      BY <1>3, <1>4, <2>1, <3>1
  <2>2. CASE n # k
    <3>1. n \in Slots /\ n \in SessionNumbers /\ HasSession(n)'
      BY <1>6, MaxSessionsAssumption DEF LiveSlots
    <3>2. n \in LiveSlots /\ sessions'[n] = sessions[n]
      BY <1>2, <2>2, <3>1 DEF LiveSlots
    <3>3. sessions[n].currentPlayers = Cardinality(UsersOf(n)) % 256
      BY <3>2 DEF HeadCount, UsersOf
    <3>4. UsersOf(n)' = UsersOf(n)
      BY <1>3
    <3>5. QED
      BY <3>2, <3>3, <3>4
  <2>3. QED
    BY <2>1, <2>2
<1>7. HeadCount'
  BY <1>6 DEF HeadCount, UsersOf
<1>8. QED
  BY <1>5, <1>7 DEF Heads

(***************************************************************************)
(* Every step.                                                             *)
(***************************************************************************)
LEMMA StepOrderly == OrderlyServer /\ OrderlyInv /\ [Next]_vars => OrderlyInv'
<1> SUFFICES ASSUME OrderlyServer, OrderlyInv, [Next]_vars PROVE OrderlyInv'
  OBVIOUS
<1>1. Safety'
  BY StepSafety DEF OrderlyInv
<1>2. CASE AttachSession
  <2>1. UNCHANGED <<serverVars, uidToSession, members>>
    BY <1>2 DEF AttachSession
  <2>2. Identities' /\ NoGhosts'
    BY <2>1 DEF OrderlyInv, Identities, TablesInverse, IdentityIsOwn, ForgottenWithConnection,
                MembersAreConnected, NoGhosts, serverVars
  <2>3. QED
    BY <1>1, <1>2, <2>2, AttachHeads DEF OrderlyInv
<1>3. ASSUME UNCHANGED <<size, sessions, uidToSession, members>> PROVE NoGhosts' /\ Heads'
  BY <1>3 DEF OrderlyInv, NoGhosts, Heads, FiniteSessions, HeadCount, UsersOf, LiveSlots,
              HasSession
<1>4. ASSUME NEW p \in Peers, Connect(p) PROVE OrderlyInv'
  <2>1. /\ p \notin connected /\ connected' = connected \cup {p}
        /\ claimed' = [claimed EXCEPT ![p] = NoUid]
        /\ UNCHANGED <<peerToUid, uidToPeer, size, sessions, uidToSession, members>>
    BY <1>4 DEF Connect, PeerConnects
  <2>2. claimed' = claimed
    BY <2>1 DEF OrderlyInv, Identities, ForgottenWithConnection, Safety, TypeOK, ServerTypeOK
  <2>3. Identities'
    BY <2>1, <2>2 DEF OrderlyInv, Identities, TablesInverse, IdentityIsOwn,
                      ForgottenWithConnection, MembersAreConnected
  <2>4. QED
    BY <1>1, <1>3, <2>1, <2>3 DEF OrderlyInv
<1>5. ASSUME NEW p \in Peers, NEW u \in Uids, NEW n \in SessionNumbers, Join(p, u, n)
      PROVE  OrderlyInv'
  BY <1>1, <1>5, JoinIdentities, JoinNoGhosts, JoinHeads DEF OrderlyInv
<1>6. ASSUME NEW p \in Peers, Disconnect(p) PROVE OrderlyInv'
  BY <1>1, <1>6, DisconnectIdentities, DisconnectNoGhosts, DisconnectHeads DEF OrderlyInv
<1>7. ASSUME NEW p \in Peers, Timeout(p) PROVE OrderlyInv'
  BY <1>7 DEF Timeout, OrderlyServer
<1>8. ASSUME UNCHANGED <<serverVars, size, sessions, uidToSession, members>> PROVE OrderlyInv'
  BY <1>1, <1>3, <1>8 DEF OrderlyInv, Identities, TablesInverse, IdentityIsOwn,
                          ForgottenWithConnection, MembersAreConnected, serverVars
<1>9. ASSUME NEW p \in Peers, NEW kind \in AppPackets, Deliver(p, kind) PROVE OrderlyInv'
  BY <1>8, <1>9 DEF Deliver
<1>10. CASE UNCHANGED vars
  BY <1>8, <1>10 DEF vars
<1>11. QED
  BY <1>2, <1>4, <1>5, <1>6, <1>7, <1>9, <1>10 DEF Next

\* With orderly clients the two identity tables, the connections and the session
\* tables describe one relation between peers, users and sessions.
THEOREM AlwaysOrderly == OrderlyServer => (Spec => []OrderlyInv)
<1> SUFFICES ASSUME OrderlyServer PROVE Spec => []OrderlyInv
  OBVIOUS
<1>1. OrderlyInv /\ [Next]_vars => OrderlyInv'
  BY StepOrderly
<1>2. QED
  BY <1>1, InitOrderly, PTL DEF Spec

\* The two identity tables stay inverse to each other.
THEOREM TablesStayInverse == OrderlyServer => (Spec => []TablesInverse)
<1>1. OrderlyInv => TablesInverse
  BY DEF OrderlyInv, Identities
<1>2. QED
  BY <1>1, AlwaysOrderly, PTL

\* A peer's packets are handled under the identity its own connection gave, also
\* when its slot belonged to another client before.
THEOREM IdentitiesAreOwn == OrderlyServer => (Spec => []IdentityIsOwn)
<1>1. OrderlyInv => IdentityIsOwn
  BY DEF OrderlyInv, Identities
<1>2. QED
  BY <1>1, AlwaysOrderly, PTL

\* The number of players clients see is the number of users in the session.
THEOREM HeadsAreCounted == OrderlyServer => (Spec => []HeadCount)
<1>1. OrderlyInv => HeadCount
  BY DEF OrderlyInv, Heads
<1>2. QED
  BY <1>1, AlwaysOrderly, PTL

\* No session is kept alive by a user who is not in it.
THEOREM NoGhostsRemain == OrderlyServer => (Spec => []NoGhosts)
<1>1. OrderlyInv => NoGhosts
  BY DEF OrderlyInv
<1>2. QED
  BY <1>1, AlwaysOrderly, PTL

\* A user is in a session only while his connection lasts.
THEOREM MembersStayConnected == OrderlyServer => (Spec => []MembersAreConnected)
<1>1. OrderlyInv => MembersAreConnected
  BY DEF OrderlyInv, Identities
<1>2. QED
  BY <1>1, AlwaysOrderly, PTL

(***************************************************************************)
(* The server implements Rooms exactly, if no application packet goes      *)
(* through session->server (the null pointer of the run noserver).         *)
(***************************************************************************)
StrictStep == R!StrictNext \/ UNCHANGED R!roomsVars

LEMMA JoinEnters ==
    ASSUME OrderlyServer, Safety,
           NEW p \in Peers, NEW u \in Uids, NEW n \in SessionNumbers, Join(p, u, n)
    PROVE  StrictStep
<1>1. /\ fault = "none" /\ fault' = "none"
      /\ uidToSession[u] = NoSlot
      /\ uidToSession' = [uidToSession EXCEPT ![u] = n]
      /\ sessions' = [sessions EXCEPT ![n] = Entered(sessions[n], u)]
      /\ HasSession(n) /\ n \in Slots /\ sessions[n] \in Session
      /\ size' = size
  BY OrderlyJoin
<1>2. Entered(sessions[n], u) # NoSession
  BY <1>1, SessionTypes
<1>3. \A m \in Slots : HasSession(m)' <=> HasSession(m)
  BY <1>1, <1>2 DEF HasSession, Safety, TypeOK
<1>4. LiveSlots' = LiveSlots /\ n \in LiveSlots
  BY <1>1, <1>3 DEF LiveSlots
<1>5. R!Enter(u)
  BY <1>1, <1>4 DEF R!Enter
<1>6. QED
  BY <1>1, <1>5 DEF StrictStep, R!StrictNext

LEMMA DisconnectLeaves ==
    ASSUME OrderlyInv, NEW p \in Peers, Disconnect(p)
    PROVE  StrictStep
<1> TypeOK /\ fault = "none" /\ size' = size
  BY DEF OrderlyInv, Safety, Disconnect
<1>1. CASE peerToUid[p] = NoUid \/ uidToSession[peerToUid[p]] = NoSlot
  <2>1. UNCHANGED <<size, sessions, uidToSession, fault>>
    BY <1>1 DEF Disconnect, RemoveUser, TakeOut
  <2>2. QED
    BY <2>1 DEF StrictStep, R!roomsVars, LiveSlots, HasSession
<1>2. CASE peerToUid[p] # NoUid /\ uidToSession[peerToUid[p]] # NoSlot
  <2> PICK u \in Uids : u = peerToUid[p] /\ RemoveUser(u)
    BY <1>2, OrderlyDisconnect
  <2> PICK n \in SessionNumbers : uidToSession[u] = n
    BY <1>2 DEF TypeOK
  <2>1. /\ fault' = "none"
        /\ n \in Slots /\ HasSession(n) /\ sessions[n] \in Session
        /\ uidToSession' = [uidToSession EXCEPT ![u] = NoSlot]
        /\ sessions' = [sessions EXCEPT ![n] =
              IF R!Alone(u) THEN NoSession ELSE Left(sessions[n], u)]
    BY OrderlyLeave
  <2>2. \A m \in Slots \ {n} : HasSession(m)' <=> HasSession(m)
    BY <2>1 DEF HasSession, TypeOK
  <2>3. HasSession(n)' <=> ~R!Alone(u)
    <3>1. Left(sessions[n], u) # NoSession
      BY <2>1, SessionTypes
    <3>2. QED
      BY <2>1, <3>1 DEF HasSession, TypeOK
  <2>4. LiveSlots' = IF R!Alone(u) THEN LiveSlots \ {n} ELSE LiveSlots
    BY <2>1, <2>2, <2>3 DEF LiveSlots
  <2>5. R!Leave(u)
    BY <1>2, <2>1, <2>4 DEF R!Leave
  <2>6. QED
    BY <2>5 DEF StrictStep, R!StrictNext
<1>3. QED
  BY <1>1, <1>2

LEMMA StepStrict ==
    OrderlyServer /\ "callback" \notin AppPackets /\ OrderlyInv /\ [Next]_vars => StrictStep
<1> SUFFICES ASSUME OrderlyServer, "callback" \notin AppPackets, OrderlyInv, [Next]_vars
             PROVE  StrictStep
  OBVIOUS
<1> Safety
  BY DEF OrderlyInv
<1>1. ASSUME UNCHANGED <<size, sessions, uidToSession, fault>> PROVE StrictStep
  BY <1>1 DEF StrictStep, R!roomsVars, LiveSlots, HasSession
<1>2. CASE AttachSession
  <2>1. PICK k \in Slots :
          /\ ~HasSession(k)
          /\ HasSession(k)'
          /\ \A n \in SessionNumbers \ {k} : HasSession(n)' = HasSession(n)
    BY <1>2, AttachedSlot
  <2>2. \A n \in Slots : n \in SessionNumbers
    BY MaxSessionsAssumption
  <2>3. LiveSlots' = LiveSlots \cup {k} /\ k \in SessionNumbers \ LiveSlots
    BY <2>1, <2>2 DEF LiveSlots
  <2>4. fault = "none" /\ UNCHANGED <<uidToSession, fault>>
    BY <1>2 DEF AttachSession
  <2>5. R!Open
    BY <2>3, <2>4 DEF R!Open
  <2>6. QED
    BY <2>4, <2>5 DEF StrictStep, R!StrictNext
<1>3. ASSUME NEW p \in Peers, NEW u \in Uids, NEW n \in SessionNumbers, Join(p, u, n)
      PROVE  StrictStep
  BY <1>3, JoinEnters
<1>4. ASSUME NEW p \in Peers, Disconnect(p) PROVE StrictStep
  BY <1>4, DisconnectLeaves
<1>5. ASSUME NEW p \in Peers, NEW kind \in AppPackets, Deliver(p, kind) PROVE StrictStep
  <2>1. fault = "none" /\ UNCHANGED <<size, sessions, uidToSession>>
    BY <1>5 DEF Deliver
  <2>2. uidToSession[peerToUid[p]] # NoSlot /\ peerToUid[p] \in Uids
    BY <1>5 DEF Deliver, Safety, TypeOK, ServerTypeOK
  <2>3. sessions[uidToSession[peerToUid[p]]] # NoSession
    BY <2>1, <2>2 DEF Safety, MappedUserHasSession, HasSession
  <2>4. fault' = "none"
    BY <1>5, <2>3, kind # "callback" DEF Deliver
  <2>5. QED
    BY <1>1, <2>1, <2>4
<1>6. QED
  BY <1>1, <1>2, <1>3, <1>4, <1>5 DEF Next, vars, Connect, Timeout

\* A server with orderly clients is a set of rooms: each user is in at most one, it
\* was open when he entered, and it closes when its last user leaves and only then.
THEOREM ImplementsRoomsExactly ==
    OrderlyServer /\ "callback" \notin AppPackets => (Spec => ImplementsRooms)
<1> SUFFICES ASSUME OrderlyServer, "callback" \notin AppPackets PROVE Spec => ImplementsRooms
  OBVIOUS
<1>1. OrderlyInv /\ [Next]_vars => [R!StrictNext]_(R!roomsVars)
  BY StepStrict DEF StrictStep
<1>2. Spec => []OrderlyInv
  BY AlwaysOrderly
<1>3. QED
  BY <1>1, <1>2, InitImplements, PTL DEF Spec, ImplementsRooms, R!StrictSpec
===============================================================================
