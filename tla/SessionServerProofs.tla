-------------------------- MODULE SessionServerProofs --------------------------
(***************************************************************************)
(* Proofs about SessionServer, for any number of peers, users and session  *)
(* slots and for clients that do anything (OrderlyClients and PeersTimeOut *)
(* are not constrained).                                                   *)
(***************************************************************************)
EXTENDS SessionServer, FiniteSetTheorems, TLAPS

USE DEF Slots, SessionNumbers

(***************************************************************************)
(* attachSession grows the vector only when it has no null slot, and is    *)
(* called only when fewer than MaxSessions slots are in use: so the vector *)
(* never grows past MaxSessions.                                           *)
(***************************************************************************)
LEMMA RoomToGrow ==
    ASSUME TypeOK, Cardinality(LiveSlots) < MaxSessions, FreeSlots = {}
    PROVE  size < MaxSessions
<1>1. SUFFICES ASSUME size = MaxSessions PROVE FALSE
  BY MaxSessionsAssumption DEF TypeOK
<1>2. ASSUME NEW n \in Slots PROVE HasSession(n)
  <2>1. n < size
    BY <1>1, MaxSessionsAssumption
  <2>2. sessions[n] # NoSession
    BY <2>1 DEF FreeSlots
  <2>3. QED
    BY <2>1, <2>2 DEF HasSession
<1>3. Cardinality(0 .. MaxSessions - 1) = MaxSessions
  BY FS_Interval, MaxSessionsAssumption
<1>4. LiveSlots = 0 .. MaxSessions - 1
  BY <1>2 DEF LiveSlots
<1>5. QED
  BY <1>3, <1>4, MaxSessionsAssumption

(***************************************************************************)
(* Type correctness.                                                       *)
(***************************************************************************)
LEMMA InitTypeOK == Init => TypeOK
<1> SUFFICES ASSUME Init PROVE TypeOK
  OBVIOUS
<1>1. ServerTypeOK
  BY DEF Init, ServerInit, ServerTypeOK
<1>2. EmptyVector \in UidVector
  BY DEF EmptyVector, UidVector
<1>3. QED
  BY <1>1, <1>2, MaxSessionsAssumption DEF Init, TypeOK, Faults

LEMMA AttachTypeOK == TypeOK /\ AttachSession => TypeOK'
<1> SUFFICES ASSUME TypeOK, AttachSession PROVE TypeOK'
  OBVIOUS
<1>1. NewSession \in Session
  BY MaxSessionsAssumption DEF NewSession, TypeOK, Session, EmptyVector, UidVector
<1>2. ServerTypeOK' /\ (uidToSession \in [Uids -> SessionNumbers \cup {NoSlot}])'
      /\ (members \in [SessionNumbers -> UidVector])' /\ (fault \in Faults)'
  BY DEF AttachSession, TypeOK, ServerTypeOK, serverVars
<1>3. CASE FreeSlots # {}
  <2>1. PICK num \in FreeSlots :
            sessions' = [sessions EXCEPT ![num] = NewSession] /\ UNCHANGED size
    BY <1>3 DEF AttachSession
  <2>2. num \in Slots
    BY DEF FreeSlots
  <2>3. QED
    BY <1>1, <1>2, <2>1, <2>2 DEF TypeOK
<1>4. CASE FreeSlots = {}
  <2>1. size < MaxSessions
    BY <1>4, RoomToGrow DEF AttachSession
  <2>2. sessions' = [sessions EXCEPT ![size] = NewSession] /\ size' = size + 1
    BY <1>4 DEF AttachSession
  <2>3. size \in Slots /\ size + 1 \in 0 .. MaxSessions
    BY <2>1, MaxSessionsAssumption DEF TypeOK
  <2>4. QED
    BY <1>1, <1>2, <2>2, <2>3 DEF TypeOK
<1>5. QED
  BY <1>3, <1>4

\* The operations on a vector of uids and on the session object keep their types.
LEMMA VectorTypes ==
    ASSUME NEW v \in UidVector, NEW u \in Uids
    PROVE  /\ Push(v, u) \in UidVector /\ Without(v, u) \in UidVector
           /\ Push(v, u)[u] > 0 /\ Without(v, u)[u] = 0
           /\ \A w \in Uids : Push(v, u)[w] >= v[w]
           /\ \A w \in Uids \ {u} : Push(v, u)[w] = v[w] /\ Without(v, u)[w] = v[w]
<1>1. \A w \in Uids : v[w] \in Nat
  BY DEF UidVector
<1>2. QED
  BY <1>1 DEF Push, Without, UidVector

LEMMA SessionTypes ==
    ASSUME NEW s \in Session, NEW u \in Uids
    PROVE  /\ Entered(s, u) \in Session /\ Left(s, u) \in Session
           /\ Entered(s, u) # NoSession /\ Left(s, u) # NoSession
           /\ Entered(s, u).players = Push(s.players, u)
           /\ Left(s, u).players = Without(s.players, u)
<1>1. s.players \in UidVector
  BY DEF Session
<1>2. Push(s.players, u) \in UidVector /\ Without(s.players, u) \in UidVector
  BY <1>1, VectorTypes
<1>3. (s.currentPlayers + 1) % 256 \in 0 .. 255 /\ (s.currentPlayers + 255) % 256 \in 0 .. 255
  BY DEF Session
<1>4. Entered(s, u) \in Session /\ Left(s, u) \in Session
  <2>1. PICK Bytes, up, down :
            /\ Bytes = 0 .. 255
            /\ up = (s.currentPlayers + 1) % 256 /\ down = (s.currentPlayers + 255) % 256
    OBVIOUS
  <2>2. Session = [players : UidVector, currentPlayers : Bytes, hasServer : BOOLEAN]
    BY <2>1 DEF Session
  <2>3. up \in Bytes /\ down \in Bytes
    BY <1>3, <2>1
  <2>4. /\ Entered(s, u) = [s EXCEPT !.players = Push(s.players, u), !.currentPlayers = up]
        /\ Left(s, u) = [s EXCEPT !.players = Without(s.players, u), !.currentPlayers = down]
    BY <2>1 DEF Entered, Left
  <2>5. QED
    BY <1>2, <2>2, <2>3, <2>4
<1>5. Entered(s, u).players = Push(s.players, u) /\ Left(s, u).players = Without(s.players, u)
  BY DEF Entered, Left, Session
<1>6. QED
  BY <1>4, <1>5, NoSessionAssumption

\* A number with a session is a slot; null pointers are the only other content.
LEMMA LiveSlot ==
    ASSUME TypeOK, NEW n \in SessionNumbers, HasSession(n)
    PROVE  n \in Slots /\ sessions[n] \in Session
  BY MaxSessionsAssumption DEF HasSession, TypeOK

LEMMA JoinTypeOK ==
    ASSUME TypeOK, NEW p \in Peers, NEW u \in Uids, NEW n \in SessionNumbers, Join(p, u, n)
    PROVE  TypeOK'
<1>1. ServerTypeOK' /\ size' = size
  BY DEF Join, SetPeerUid, TypeOK, ServerTypeOK
<1>2. uidToSession' \in [Uids -> SessionNumbers \cup {NoSlot}]
  BY DEF Join, AddUser, TypeOK
<1>3. members' \in [SessionNumbers -> UidVector]
  <2>1. Push(members[n], u) \in UidVector
    BY VectorTypes DEF TypeOK
  <2>2. QED
    BY <2>1 DEF Join, AddUser, TypeOK
<1>4. fault' \in Faults
  BY DEF Join, AddUser, TypeOK, Faults
<1>5. sessions' \in [Slots -> Session \cup {NoSession}]
  <2>1. CASE HasSession(n)
    <3>1. n \in Slots /\ sessions[n] \in Session
      BY <2>1, LiveSlot
    <3>2. Entered(sessions[n], u) \in Session
      BY <3>1, SessionTypes
    <3>3. QED
      BY <2>1, <3>1, <3>2 DEF Join, AddUser, TypeOK
  <2>2. CASE ~HasSession(n)
    BY <2>2 DEF Join, AddUser, TypeOK
  <2>3. QED
    BY <2>1, <2>2
<1>6. QED
  BY <1>1, <1>2, <1>3, <1>4, <1>5 DEF TypeOK

LEMMA RemoveUserTypeOK ==
    ASSUME TypeOK, NEW u \in Uids, RemoveUser(u)
    PROVE  /\ sessions' \in [Slots -> Session \cup {NoSession}]
           /\ uidToSession' \in [Uids -> SessionNumbers \cup {NoSlot}]
           /\ members' \in [SessionNumbers -> UidVector]
           /\ fault' \in Faults
<1> DEFINE num == uidToSession[u]
           rest == Without(members[num], u)
<1>1. CASE num = NoSlot
  BY <1>1 DEF RemoveUser, TakeOut, TypeOK
<1>2. CASE num # NoSlot
  <2>1. num \in SessionNumbers
    BY <1>2 DEF TypeOK
  <2>2. uidToSession' \in [Uids -> SessionNumbers \cup {NoSlot}] /\ fault' \in Faults
    BY <1>2 DEF RemoveUser, TakeOut, TypeOK, Faults
  <2>3. rest \in UidVector
    BY <2>1, VectorTypes DEF TypeOK
  <2>4. members' \in [SessionNumbers -> UidVector]
    BY <1>2, <2>1, <2>3 DEF RemoveUser, TakeOut, TypeOK
  <2>5. sessions' \in [Slots -> Session \cup {NoSession}]
    <3>1. CASE HasSession(num)
      <4>1. num \in Slots /\ sessions[num] \in Session
        BY <2>1, <3>1, LiveSlot
      <4>2. Left(sessions[num], u) \in Session
        BY <4>1, SessionTypes
      <4>3. sessions' = [sessions EXCEPT ![num] =
                    IF rest = EmptyVector THEN NoSession ELSE Left(sessions[num], u)]
        BY <1>2, <3>1 DEF RemoveUser, TakeOut
      <4>4. QED
        BY <4>1, <4>2, <4>3 DEF TypeOK
    <3>2. CASE ~HasSession(num)
      BY <1>2, <3>2 DEF RemoveUser, TakeOut, TypeOK
    <3>3. QED
      BY <3>1, <3>2
  <2>6. QED
    BY <2>2, <2>4, <2>5
<1>3. QED
  BY <1>1, <1>2

LEMMA DisconnectTypeOK ==
    ASSUME TypeOK, NEW p \in Peers, Disconnect(p)
    PROVE  TypeOK'
<1>1. connected' \subseteq Peers /\ claimed' \in [Peers -> Uids \cup {NoUid}] /\ size' = size
  BY DEF Disconnect, PeerLeaves, TypeOK, ServerTypeOK
<1>2. CASE peerToUid[p] = NoUid
  BY <1>1, <1>2 DEF Disconnect, TypeOK, ServerTypeOK
<1>3. CASE peerToUid[p] # NoUid
  <2>1. peerToUid[p] \in Uids
    BY <1>3 DEF TypeOK, ServerTypeOK
  <2>2. RemovePeer(peerToUid[p]) /\ RemoveUser(peerToUid[p])
    BY <1>3 DEF Disconnect
  <2>3. /\ peerToUid' \in [Peers -> Uids \cup {NoUid}]
        /\ uidToPeer' \in [Uids -> Peers \cup {NoPeer}]
    BY <2>1, <2>2 DEF RemovePeer, TypeOK, ServerTypeOK
  <2>4. QED
    BY <1>1, <2>1, <2>2, <2>3, RemoveUserTypeOK DEF TypeOK, ServerTypeOK
<1>4. QED
  BY <1>2, <1>3

LEMMA StepTypeOK == TypeOK /\ [Next]_vars => TypeOK'
<1> SUFFICES ASSUME TypeOK, [Next]_vars PROVE TypeOK'
  OBVIOUS
<1>1. CASE AttachSession
  BY <1>1, AttachTypeOK
<1>2. ASSUME NEW p \in Peers, Connect(p) PROVE TypeOK'
  BY <1>2 DEF Connect, PeerConnects, TypeOK, ServerTypeOK
<1>3. ASSUME NEW p \in Peers, NEW u \in Uids, NEW n \in SessionNumbers, Join(p, u, n)
      PROVE  TypeOK'
  BY <1>3, JoinTypeOK
<1>4. ASSUME NEW p \in Peers, Disconnect(p) PROVE TypeOK'
  BY <1>4, DisconnectTypeOK
<1>5. ASSUME NEW p \in Peers, Timeout(p) PROVE TypeOK'
  BY <1>5 DEF Timeout, PeerTimesOut, PeerLeaves, TypeOK, ServerTypeOK
<1>6. ASSUME NEW p \in Peers, NEW kind \in AppPackets, Deliver(p, kind) PROVE TypeOK'
  BY <1>6 DEF Deliver, TypeOK, ServerTypeOK, serverVars, Faults
<1>7. CASE UNCHANGED vars
  BY <1>7 DEF vars, serverVars, TypeOK, ServerTypeOK
<1>8. QED
  BY <1>1, <1>2, <1>3, <1>4, <1>5, <1>6, <1>7 DEF Next

\* The variables of a session server keep their types: in particular the vector of
\* sessions never outgrows maxSessions, since attachSession reuses null slots.
THEOREM TypeCorrect == Spec => []TypeOK
<1>1. QED
  BY InitTypeOK, StepTypeOK, PTL DEF Spec

(***************************************************************************)
(* Safety.  Two facts hold only together: a user's session exists because  *)
(* the user is in the vector that keeps it alive, and that vector survives *)
(* in step with the session because nobody is removed from the one and not *)
(* the other.  With both, no stored number ever leads to a null session.   *)
(***************************************************************************)
Safety == TypeOK /\ MappedUserHasSession /\ VectorsAgree /\ OnlyJoinAndCallbackFault

LEMMA InitSafety == Init => Safety
<1> SUFFICES ASSUME Init PROVE Safety
  OBVIOUS
<1>1. TypeOK
  BY InitTypeOK
<1>2. MappedUserHasSession /\ OnlyJoinAndCallbackFault
  BY DEF Init, MappedUserHasSession, OnlyJoinAndCallbackFault
<1>3. ASSUME NEW n \in Slots PROVE ~HasSession(n) /\ members[n] = EmptyVector
  <2>1. size = 0 /\ n \in Nat /\ n \in SessionNumbers
    BY MaxSessionsAssumption DEF Init
  <2>2. members[n] = EmptyVector
    BY <2>1 DEF Init
  <2>3. QED
    BY <2>1, <2>2 DEF HasSession
<1>4. VectorsAgree
  BY <1>3 DEF VectorsAgree
<1>5. QED
  BY <1>1, <1>2, <1>4 DEF Safety

\* What attachSession does, in one form for both of its cases: the slot is empty
\* before, holds a new session after, and the other slots are as they were.
LEMMA AttachedSlot ==
    ASSUME Safety, AttachSession
    PROVE  \E k \in Slots :
              /\ ~HasSession(k)
              /\ HasSession(k)'
              /\ members[k] = EmptyVector
              /\ sessions'[k].players = EmptyVector
              /\ \A n \in SessionNumbers \ {k} :
                    HasSession(n)' = HasSession(n) /\ (n \in Slots => sessions'[n] = sessions[n])
<1> USE DEF Safety
<1>1. fault = "none"
  BY DEF AttachSession
<1>2. NewSession # NoSession /\ NewSession.players = EmptyVector
  <2>1. NewSession \in Session
    BY MaxSessionsAssumption DEF NewSession, TypeOK, Session, EmptyVector, UidVector
  <2>2. NewSession.players = EmptyVector
    BY DEF NewSession
  <2>3. QED
    BY <2>1, <2>2, NoSessionAssumption
<1>3. CASE FreeSlots # {}
  <2>1. PICK num \in FreeSlots :
            sessions' = [sessions EXCEPT ![num] = NewSession] /\ UNCHANGED size
    BY <1>3 DEF AttachSession
  <2>2. num \in Slots /\ num < size /\ ~HasSession(num)
    BY DEF FreeSlots, HasSession
  <2>3. members[num] = EmptyVector
    BY <1>1, <2>2 DEF VectorsAgree
  <2>4. sessions'[num] = NewSession
    BY <2>1, <2>2 DEF TypeOK
  <2>5. \A n \in SessionNumbers \ {num} : sessions'[n] = sessions[n] /\ size' = size
    BY <2>1, <2>2 DEF TypeOK
  <2>6. QED
    BY <1>2, <2>1, <2>2, <2>3, <2>4, <2>5 DEF HasSession
<1>4. CASE FreeSlots = {}
  <2>1. size < MaxSessions
    BY <1>4, RoomToGrow DEF AttachSession
  <2>2. sessions' = [sessions EXCEPT ![size] = NewSession] /\ size' = size + 1
    BY <1>4 DEF AttachSession
  <2>3. size \in Slots /\ size \in Nat /\ ~HasSession(size)
    <3>1. size \in Slots /\ size \in Nat
      BY <2>1, MaxSessionsAssumption DEF TypeOK
    <3>2. QED
      BY <3>1 DEF HasSession
  <2>4. members[size] = EmptyVector
    BY <1>1, <2>3 DEF VectorsAgree
  <2>5. sessions'[size] = NewSession
    BY <2>2, <2>3 DEF TypeOK
  <2>6. \A n \in SessionNumbers \ {size} :
            (n < size <=> n < size') /\ sessions'[n] = sessions[n]
    <3>1. ASSUME NEW n \in SessionNumbers \ {size} PROVE n < size <=> n < size + 1
      BY <2>3, <3>1, MaxSessionsAssumption
    <3>2. ASSUME NEW n \in SessionNumbers \ {size} PROVE sessions'[n] = sessions[n]
      BY <2>2, <2>3 DEF Safety, TypeOK
    <3>3. QED
      BY <2>2, <3>1, <3>2
  <2>7. QED
    BY <1>2, <2>2, <2>3, <2>4, <2>5, <2>6 DEF HasSession
<1>5. QED
  BY <1>3, <1>4

LEMMA AttachSafety ==
    ASSUME Safety, AttachSession
    PROVE  Safety'
<1> PICK k \in Slots :
        /\ ~HasSession(k)
        /\ HasSession(k)'
        /\ members[k] = EmptyVector
        /\ sessions'[k].players = EmptyVector
        /\ \A n \in SessionNumbers \ {k} :
              HasSession(n)' = HasSession(n) /\ (n \in Slots => sessions'[n] = sessions[n])
  BY AttachedSlot
<1>1. TypeOK'
  BY AttachTypeOK DEF Safety
<1>2. fault = "none" /\ UNCHANGED <<uidToSession, members, fault>>
  BY DEF AttachSession
<1>3. MappedUserHasSession'
  <2> SUFFICES ASSUME NEW u \in Uids, uidToSession[u] # NoSlot
               PROVE  HasSession(uidToSession[u])' /\ members[uidToSession[u]][u] > 0
    BY <1>2 DEF MappedUserHasSession
  <2>1. HasSession(uidToSession[u]) /\ members[uidToSession[u]][u] > 0
    BY <1>2 DEF Safety, MappedUserHasSession
  <2>2. uidToSession[u] \in SessionNumbers \ {k}
    BY <2>1 DEF Safety, TypeOK
  <2>3. HasSession(uidToSession[u])'
    BY <1>2, <2>1, <2>2 DEF HasSession
  <2>4. QED
    BY <2>1, <2>3
<1>4. VectorsAgree'
  <2> SUFFICES ASSUME NEW n \in Slots
               PROVE  IF HasSession(n)' THEN sessions'[n].players = members[n]
                                        ELSE members[n] = EmptyVector
    BY <1>2 DEF VectorsAgree
  <2>1. CASE n = k
    BY <2>1
  <2>2. CASE n # k
    <3>1. n \in SessionNumbers
      BY MaxSessionsAssumption
    <3>2. HasSession(n)' = HasSession(n) /\ sessions'[n] = sessions[n]
      BY <2>2, <3>1
    <3>3. IF HasSession(n) THEN sessions[n].players = members[n] ELSE members[n] = EmptyVector
      BY <1>2 DEF Safety, VectorsAgree
    <3>4. QED
      BY <3>2, <3>3
  <2>3. QED
    BY <2>1, <2>2
<1>5. QED
  BY <1>1, <1>2, <1>3, <1>4 DEF Safety, OnlyJoinAndCallbackFault

LEMMA JoinSafety ==
    ASSUME Safety, NEW p \in Peers, NEW u \in Uids, NEW n \in SessionNumbers, Join(p, u, n)
    PROVE  Safety'
<1>1. TypeOK /\ TypeOK' /\ fault = "none"
  BY JoinTypeOK DEF Safety, Join
<1>2. CASE ~HasSession(n)
  <2>1. fault' = "join"
    BY <1>2 DEF Join, AddUser
  <2>2. QED
    BY <1>1, <2>1 DEF Safety, MappedUserHasSession, VectorsAgree, OnlyJoinAndCallbackFault
<1>3. CASE HasSession(n)
  <2>1. /\ fault' = "none" /\ size' = size
        /\ members' = [members EXCEPT ![n] = Push(members[n], u)]
        /\ sessions' = [sessions EXCEPT ![n] = Entered(sessions[n], u)]
        /\ uidToSession' = IF uidToSession[u] = NoSlot
                           THEN [uidToSession EXCEPT ![u] = n] ELSE uidToSession
    BY <1>1, <1>3 DEF Join, AddUser
  <2>2. n \in Slots /\ sessions[n] \in Session
    BY <1>1, <1>3, LiveSlot
  <2>3. sessions'[n] = Entered(sessions[n], u) /\ members'[n] = Push(members[n], u)
    BY <1>1, <2>1, <2>2 DEF TypeOK
  <2>4. \A m \in SessionNumbers \ {n} : members'[m] = members[m] /\ sessions'[m] = sessions[m]
    BY <1>1, <2>1, <2>2 DEF TypeOK
  <2>5. Entered(sessions[n], u) # NoSession
    BY <2>2, SessionTypes
  <2>6. \A m \in SessionNumbers : HasSession(m)' = HasSession(m)
    BY <1>3, <2>1, <2>3, <2>4, <2>5 DEF HasSession
  <2>7. \A m \in SessionNumbers, v \in Uids : members'[m][v] >= members[m][v]
    <3>1. \A v \in Uids : members[n][v] \in Nat /\ Push(members[n], u)[v] >= members[n][v]
      <4>1. members[n] \in UidVector
        BY <1>1 DEF TypeOK
      <4>2. QED
        BY <4>1, VectorTypes DEF UidVector
    <3>2. \A m \in SessionNumbers, v \in Uids : members[m][v] \in Nat
      BY <1>1 DEF TypeOK, UidVector
    <3>3. QED
      BY <2>3, <2>4, <3>1, <3>2
  <2>8. members'[n][u] > 0
    <3>1. members[n] \in UidVector
      BY <1>1 DEF TypeOK
    <3>2. QED
      BY <2>3, <3>1, VectorTypes
  <2>9. MappedUserHasSession'
    <3> SUFFICES ASSUME NEW v \in Uids, uidToSession'[v] # NoSlot
                 PROVE  HasSession(uidToSession[v])' /\ members'[uidToSession'[v]][v] > 0
      BY DEF MappedUserHasSession
    <3>1. CASE v = u /\ uidToSession[u] = NoSlot
      <4>1. uidToSession'[v] = n
        BY <1>1, <2>1, <3>1 DEF TypeOK
      <4>2. HasSession(n)'
        BY <1>3, <2>6
      <4>3. QED
        BY <2>8, <3>1, <4>1, <4>2 DEF HasSession
    <3>2. CASE ~(v = u /\ uidToSession[u] = NoSlot)
      <4> DEFINE m == uidToSession[v]
      <4>1. uidToSession'[v] = m
        BY <1>1, <2>1, <3>2 DEF TypeOK
      <4>2. m \in SessionNumbers /\ HasSession(m) /\ members[m][v] > 0
        BY <1>1, <4>1 DEF Safety, MappedUserHasSession, TypeOK
      <4>3. members'[m][v] > 0
        <5>1. members'[m][v] >= members[m][v] /\ members[m][v] \in Nat /\ members'[m][v] \in Nat
          BY <1>1, <2>7, <4>2 DEF TypeOK, UidVector
        <5>2. QED
          BY <4>2, <5>1
      <4>4. HasSession(uidToSession[v])'
        BY <2>6, <4>1, <4>2 DEF HasSession
      <4>5. QED
        BY <4>1, <4>3, <4>4
    <3>3. QED
      BY <3>1, <3>2
  <2>10. VectorsAgree'
    <3> SUFFICES ASSUME NEW m \in Slots
                 PROVE  IF HasSession(m)' THEN sessions'[m].players = members'[m]
                                          ELSE members'[m] = EmptyVector
      BY DEF VectorsAgree
    <3>1. m \in SessionNumbers
      BY MaxSessionsAssumption
    <3>2. IF HasSession(m) THEN sessions[m].players = members[m] ELSE members[m] = EmptyVector
      BY <1>1 DEF Safety, VectorsAgree
    <3>3. CASE m = n
      <4>1. Entered(sessions[n], u).players = Push(sessions[n].players, u)
        BY <2>2, SessionTypes
      <4>2. QED
        BY <1>3, <2>3, <2>6, <3>1, <3>2, <3>3, <4>1
    <3>4. CASE m # n
      BY <2>4, <2>6, <3>1, <3>2, <3>4
    <3>5. QED
      BY <3>3, <3>4
  <2>11. QED
    BY <1>1, <2>1, <2>9, <2>10 DEF Safety, OnlyJoinAndCallbackFault
<1>4. QED
  BY <1>2, <1>3

\* removeUser finds the session it looks up: no null pointer is followed, and a
\* session that other users are in stays.
LEMMA RemoveUserSafety ==
    ASSUME Safety, fault = "none", size' = size, NEW u \in Uids, RemoveUser(u)
    PROVE  /\ fault' = "none"
           /\ MappedUserHasSession'
           /\ VectorsAgree'
           /\ \A n \in Slots : HasSession(n) /\ ~HasSession(n)' =>
                 uidToSession[u] = n /\ uidToSession'[u] = NoSlot
<1> TypeOK /\ MappedUserHasSession /\ VectorsAgree
  BY DEF Safety
<1>1. CASE uidToSession[u] = NoSlot
  <2>1. UNCHANGED <<sessions, uidToSession, members, fault>>
    BY <1>1 DEF RemoveUser, TakeOut
  <2>2. QED
    BY <2>1 DEF MappedUserHasSession, VectorsAgree, HasSession
<1>2. CASE uidToSession[u] # NoSlot
  <2> PICK num \in SessionNumbers : num = uidToSession[u]
    BY <1>2 DEF TypeOK
  <2> PICK rest : rest = Without(members[num], u)
    OBVIOUS
  <2>1. HasSession(num) /\ num \in Slots /\ sessions[num] \in Session
    BY <1>2, LiveSlot DEF MappedUserHasSession
  <2>2. /\ fault' = "none"
        /\ uidToSession' = [uidToSession EXCEPT ![u] = NoSlot]
        /\ members' = [members EXCEPT ![num] = rest]
        /\ sessions' = [sessions EXCEPT ![num] =
              IF rest = EmptyVector THEN NoSession ELSE Left(sessions[num], u)]
    BY <1>2, <2>1 DEF RemoveUser, TakeOut
  <2>3. /\ sessions'[num] = IF rest = EmptyVector THEN NoSession ELSE Left(sessions[num], u)
        /\ members'[num] = rest
        /\ uidToSession'[u] = NoSlot
    BY <2>1, <2>2 DEF TypeOK
  <2>4. \A m \in SessionNumbers \ {num} : members'[m] = members[m] /\ sessions'[m] = sessions[m]
    BY <2>1, <2>2 DEF TypeOK
  <2>5. \A v \in Uids \ {u} : uidToSession'[v] = uidToSession[v]
    BY <2>2 DEF TypeOK
  <2>6. \A v \in Uids \ {u} : rest[v] = members[num][v]
    <3>1. members[num] \in UidVector
      BY DEF TypeOK
    <3>2. QED
      BY <3>1, VectorTypes
  <2>7. Left(sessions[num], u) # NoSession
    BY <2>1, SessionTypes
  <2>8. \A m \in SessionNumbers \ {num} : HasSession(m)' = HasSession(m)
    BY <2>4 DEF HasSession
  <2>9. HasSession(num)' <=> rest # EmptyVector
    BY <2>1, <2>3, <2>7 DEF HasSession
  <2>10. MappedUserHasSession'
    <3> SUFFICES ASSUME NEW v \in Uids, uidToSession'[v] # NoSlot
                 PROVE  HasSession(uidToSession[v])' /\ members'[uidToSession'[v]][v] > 0
      BY DEF MappedUserHasSession
    <3>1. v # u
      BY <2>3
    <3> PICK m \in SessionNumbers : m = uidToSession[v] /\ m = uidToSession'[v]
      BY <2>5, <3>1 DEF TypeOK
    <3>2. HasSession(m) /\ members[m][v] > 0
      BY DEF MappedUserHasSession
    <3>3. members'[m][v] > 0
      BY <2>3, <2>4, <2>6, <3>1, <3>2
    <3>4. HasSession(m)'
      <4>1. CASE m # num
        BY <2>8, <3>2, <4>1
      <4>2. CASE m = num
        <5>1. rest # EmptyVector
          BY <2>3, <3>3, <4>2 DEF EmptyVector
        <5>2. QED
          BY <2>9, <4>2, <5>1
      <4>3. QED
        BY <4>1, <4>2
    <3>5. QED
      BY <3>3, <3>4 DEF HasSession
  <2>11. VectorsAgree'
    <3> SUFFICES ASSUME NEW m \in Slots
                 PROVE  IF HasSession(m)' THEN sessions'[m].players = members'[m]
                                          ELSE members'[m] = EmptyVector
      BY DEF VectorsAgree
    <3>1. m \in SessionNumbers
      BY MaxSessionsAssumption
    <3>2. IF HasSession(m) THEN sessions[m].players = members[m] ELSE members[m] = EmptyVector
      BY <2>2 DEF VectorsAgree
    <3>3. CASE m = num
      <4>1. Left(sessions[num], u).players = Without(sessions[num].players, u)
        BY <2>1, SessionTypes
      <4>2. QED
        BY <2>1, <2>3, <2>9, <3>2, <3>3, <4>1
    <3>4. CASE m # num
      BY <2>4, <2>8, <3>1, <3>2, <3>4
    <3>5. QED
      BY <3>3, <3>4
  <2>12. ASSUME NEW m \in Slots, HasSession(m), ~HasSession(m)' PROVE m = num
    <3>1. m \in SessionNumbers
      BY MaxSessionsAssumption
    <3>2. QED
      BY <2>8, <2>12, <3>1
  <2>13. QED
    BY <2>2, <2>3, <2>10, <2>11, <2>12
<1>3. QED
  BY <1>1, <1>2

LEMMA DisconnectSafety ==
    ASSUME Safety, NEW p \in Peers, Disconnect(p)
    PROVE  /\ Safety'
           /\ \A n \in Slots : HasSession(n) /\ ~HasSession(n)' =>
                 \E u \in Uids : uidToSession[u] = n /\ uidToSession'[u] = NoSlot
<1>1. TypeOK /\ TypeOK' /\ fault = "none" /\ size' = size
  BY DisconnectTypeOK DEF Safety, Disconnect
<1>2. CASE peerToUid[p] = NoUid
  <2>1. UNCHANGED <<size, sessions, uidToSession, members, fault>>
    BY <1>2 DEF Disconnect
  <2>2. QED
    BY <1>1, <2>1 DEF Safety, MappedUserHasSession, VectorsAgree, OnlyJoinAndCallbackFault,
                      HasSession
<1>3. CASE peerToUid[p] # NoUid
  <2>1. peerToUid[p] \in Uids /\ RemoveUser(peerToUid[p])
    BY <1>1, <1>3 DEF Disconnect, TypeOK, ServerTypeOK
  <2>2. QED
    BY <1>1, <2>1, RemoveUserSafety DEF Safety, OnlyJoinAndCallbackFault
<1>4. QED
  BY <1>2, <1>3

\* Deliver never follows a null pointer: the uid's session exists.
LEMMA DeliverFault ==
    ASSUME Safety, NEW p \in Peers, NEW kind \in AppPackets, Deliver(p, kind)
    PROVE  fault' \in {"none", "nullServer"}
<1>1. peerToUid[p] \in Uids /\ fault = "none" /\ uidToSession[peerToUid[p]] # NoSlot
  BY DEF Deliver, Safety, TypeOK, ServerTypeOK
<1>2. sessions[uidToSession[peerToUid[p]]] # NoSession
  BY <1>1 DEF Safety, MappedUserHasSession, HasSession
<1>3. QED
  BY <1>2 DEF Deliver

LEMMA StepSafety == Safety /\ [Next]_vars => Safety'
<1> SUFFICES ASSUME Safety, [Next]_vars PROVE Safety'
  OBVIOUS
<1>1. TypeOK'
  BY StepTypeOK DEF Safety
<1>2. CASE AttachSession
  BY <1>2, AttachSafety
<1>3. ASSUME UNCHANGED <<size, sessions, uidToSession, members>>,
             fault' = fault \/ fault' = "nullServer"
      PROVE  Safety'
  BY <1>1, <1>3 DEF Safety, MappedUserHasSession, VectorsAgree, OnlyJoinAndCallbackFault, HasSession
<1>4. ASSUME NEW p \in Peers, Connect(p) PROVE Safety'
  BY <1>3, <1>4 DEF Connect
<1>5. ASSUME NEW p \in Peers, NEW u \in Uids, NEW n \in SessionNumbers, Join(p, u, n)
      PROVE  Safety'
  BY <1>5, JoinSafety
<1>6. ASSUME NEW p \in Peers, Disconnect(p) PROVE Safety'
  BY <1>6, DisconnectSafety
<1>7. ASSUME NEW p \in Peers, Timeout(p) PROVE Safety'
  BY <1>3, <1>7 DEF Timeout
<1>8. ASSUME NEW p \in Peers, NEW kind \in AppPackets, Deliver(p, kind) PROVE Safety'
  <2>1. fault' \in {"none", "nullServer"}
    BY <1>8, DeliverFault
  <2>2. fault = "none" /\ UNCHANGED <<size, sessions, uidToSession, members>>
    BY <1>8 DEF Deliver
  <2>3. QED
    BY <1>3, <2>1, <2>2
<1>9. CASE UNCHANGED vars
  BY <1>3, <1>9 DEF vars
<1>10. QED
  BY <1>2, <1>4, <1>5, <1>6, <1>7, <1>8, <1>9 DEF Next

THEOREM AlwaysSafe == Spec => []Safety
<1>1. QED
  BY InitSafety, StepSafety, PTL DEF Spec

\* A user who is in a session is in one that exists and is kept alive by him, for
\* any interleaving of joins, packets, disconnections, timeouts and attaches.
THEOREM UsersHaveSessions == Spec => []MappedUserHasSession
<1>1. Safety => MappedUserHasSession
  BY DEF Safety
<1>2. QED
  BY <1>1, AlwaysSafe, PTL

\* The server's vectors and the sessions' own lists of players never diverge.
THEOREM VectorsStayTogether == Spec => []VectorsAgree
<1>1. Safety => VectorsAgree
  BY DEF Safety
<1>2. QED
  BY <1>1, AlwaysSafe, PTL

\* Neither the dispatch of a packet nor a disconnection follows a null session.
THEOREM LookupsNeverFault == Spec => []OnlyJoinAndCallbackFault
<1>1. Safety => OnlyJoinAndCallbackFault
  BY DEF Safety
<1>2. QED
  BY <1>1, AlwaysSafe, PTL

(***************************************************************************)
(* What ends a session.                                                    *)
(***************************************************************************)
Ending ==
    \A n \in Slots : HasSession(n) /\ ~HasSession(n)' =>
        \E u \in Uids : uidToSession[u] = n /\ uidToSession'[u] = NoSlot

LEMMA StepEnding == Safety /\ [Next]_vars => Ending
<1> SUFFICES ASSUME Safety, [Next]_vars PROVE Ending
  OBVIOUS
<1>1. ASSUME \A n \in Slots : HasSession(n) => HasSession(n)' PROVE Ending
  BY <1>1 DEF Ending
<1>2. ASSUME UNCHANGED <<size, sessions>> PROVE Ending
  BY <1>1, <1>2 DEF HasSession
<1>3. CASE AttachSession
  <2>1. PICK k \in Slots :
          HasSession(k)' /\ \A n \in SessionNumbers \ {k} : HasSession(n)' = HasSession(n)
    BY <1>3, AttachedSlot
  <2>2. \A n \in Slots : n \in SessionNumbers
    BY MaxSessionsAssumption
  <2>3. QED
    BY <1>1, <2>1, <2>2
<1>4. ASSUME NEW p \in Peers, NEW u \in Uids, NEW n \in SessionNumbers, Join(p, u, n)
      PROVE  Ending
  <2>1. CASE ~HasSession(n)
    BY <1>2, <1>4, <2>1 DEF Join, AddUser
  <2>2. CASE HasSession(n)
    <3>1. sessions' = [sessions EXCEPT ![n] = Entered(sessions[n], u)] /\ size' = size
      BY <1>4, <2>2 DEF Join, AddUser
    <3>2. Entered(sessions[n], u) # NoSession /\ n \in Slots
      <4>1. n \in Slots /\ sessions[n] \in Session
        BY <2>2, LiveSlot DEF Safety
      <4>2. QED
        BY <4>1, SessionTypes
    <3>3. ASSUME NEW m \in Slots, HasSession(m) PROVE HasSession(m)'
      BY <3>1, <3>2, <3>3 DEF HasSession, Safety, TypeOK
    <3>4. QED
      BY <1>1, <3>3
  <2>3. QED
    BY <2>1, <2>2
<1>5. ASSUME NEW p \in Peers, Disconnect(p) PROVE Ending
  BY <1>5, DisconnectSafety DEF Ending
<1>6. QED
  BY <1>2, <1>3, <1>4, <1>5 DEF Next, vars, Connect, Timeout, Deliver

\* A session ends only when a user of that very session leaves it.
THEOREM EndedOnlyByOwnUser == Spec => EndedByItsOwnUser
<1>1. Safety /\ [Next]_vars => [Ending]_vars
  BY StepEnding
<1>2. QED
  BY <1>1, AlwaysSafe, PTL DEF Spec, EndedByItsOwnUser, Ending

(***************************************************************************)
(* The server implements Rooms.  A join enters a room or, for a user who   *)
(* is in one, changes nothing; a disconnection closes the room only if its *)
(* user was alone there, which VectorsAgree and MappedUserHasSession give. *)
(***************************************************************************)
AbstractStep == R!LaxNext \/ UNCHANGED R!roomsVars

LEMMA InitImplements == Init => R!RoomsInit
<1> SUFFICES ASSUME Init PROVE R!RoomsInit
  OBVIOUS
<1>1. ASSUME NEW n \in Slots PROVE ~HasSession(n)
  <2>1. size = 0 /\ n >= 0
    BY MaxSessionsAssumption DEF Init
  <2>2. QED
    BY <2>1 DEF HasSession
<1>2. LiveSlots = {}
  BY <1>1 DEF LiveSlots
<1>3. QED
  BY <1>2 DEF Init, R!RoomsInit

LEMMA AttachImplements == ASSUME Safety, AttachSession PROVE R!LaxNext
<1>1. PICK k \in Slots :
        /\ ~HasSession(k)
        /\ HasSession(k)'
        /\ \A n \in SessionNumbers \ {k} : HasSession(n)' = HasSession(n)
  BY AttachedSlot
<1>2. \A n \in Slots : n \in SessionNumbers
  BY MaxSessionsAssumption
<1>3. LiveSlots' = LiveSlots \cup {k}
  BY <1>1, <1>2 DEF LiveSlots
<1>4. fault = "none" /\ UNCHANGED <<uidToSession, fault>>
  BY DEF AttachSession
<1>5. k \in SessionNumbers \ LiveSlots
  BY <1>1, <1>2 DEF LiveSlots
<1>6. R!Open
  BY <1>3, <1>4, <1>5 DEF R!Open
<1>7. QED
  BY <1>4, <1>6 DEF R!LaxNext

LEMMA JoinImplements ==
    ASSUME Safety, NEW p \in Peers, NEW u \in Uids, NEW n \in SessionNumbers, Join(p, u, n)
    PROVE  AbstractStep
<1>1. TypeOK /\ fault = "none"
  BY DEF Safety, Join
<1>2. CASE ~HasSession(n)
  <2>1. fault' = "join"
    BY <1>2 DEF Join, AddUser
  <2>2. QED
    BY <1>1, <2>1 DEF AbstractStep, R!LaxNext, R!Fail
<1>3. CASE HasSession(n)
  <2>1. /\ fault' = "none" /\ size' = size
        /\ sessions' = [sessions EXCEPT ![n] = Entered(sessions[n], u)]
        /\ uidToSession' = IF uidToSession[u] = NoSlot
                           THEN [uidToSession EXCEPT ![u] = n] ELSE uidToSession
    BY <1>1, <1>3 DEF Join, AddUser
  <2>2. n \in Slots /\ sessions[n] \in Session
    BY <1>1, <1>3, LiveSlot
  <2>3. Entered(sessions[n], u) # NoSession
    BY <2>2, SessionTypes
  <2>4. \A m \in Slots : HasSession(m)' <=> HasSession(m)
    BY <1>1, <1>3, <2>1, <2>2, <2>3 DEF HasSession, TypeOK
  <2>5. LiveSlots' = LiveSlots
    BY <2>4 DEF LiveSlots
  <2>6. CASE uidToSession[u] = NoSlot
    <3>1. n \in LiveSlots
      BY <1>3, <2>2 DEF LiveSlots
    <3>2. R!Enter(u)
      BY <1>1, <2>1, <2>5, <2>6, <3>1 DEF R!Enter
    <3>3. QED
      BY <1>1, <3>2 DEF AbstractStep, R!LaxNext
  <2>7. CASE uidToSession[u] # NoSlot
    BY <1>1, <2>1, <2>5, <2>7 DEF AbstractStep, R!roomsVars
  <2>8. QED
    BY <2>6, <2>7
<1>4. QED
  BY <1>2, <1>3

LEMMA DisconnectImplements ==
    ASSUME Safety, NEW p \in Peers, Disconnect(p)
    PROVE  AbstractStep
<1>1. TypeOK /\ fault = "none" /\ size' = size
  BY DEF Safety, Disconnect
<1>2. CASE peerToUid[p] = NoUid \/ uidToSession[peerToUid[p]] = NoSlot
  <2>1. UNCHANGED <<size, sessions, uidToSession, fault>>
    BY <1>1, <1>2 DEF Disconnect, RemoveUser
  <2>2. LiveSlots' = LiveSlots
    BY <2>1 DEF LiveSlots, HasSession
  <2>3. QED
    BY <2>1, <2>2 DEF AbstractStep, R!roomsVars
<1>3. CASE peerToUid[p] # NoUid /\ uidToSession[peerToUid[p]] # NoSlot
  <2> PICK u \in Uids : u = peerToUid[p]
    BY <1>1, <1>3 DEF TypeOK, ServerTypeOK
  <2> PICK num \in SessionNumbers : num = uidToSession[u] /\ num # NoSlot
    BY <1>1, <1>3 DEF TypeOK
  <2> PICK rest : rest = Without(members[num], u)
    OBVIOUS
  <2>1. RemoveUser(u)
    BY <1>3 DEF Disconnect
  <2>2. HasSession(num) /\ num \in Slots /\ sessions[num] \in Session
    BY <1>1, LiveSlot DEF Safety, MappedUserHasSession
  <2>3. /\ fault' = "none"
        /\ uidToSession' = [uidToSession EXCEPT ![u] = NoSlot]
        /\ sessions' = [sessions EXCEPT ![num] =
              IF rest = EmptyVector THEN NoSession ELSE Left(sessions[num], u)]
    BY <1>1, <2>1, <2>2 DEF RemoveUser, TakeOut
  <2>4. Left(sessions[num], u) # NoSession
    BY <2>2, SessionTypes
  <2>5. \A m \in Slots \ {num} : HasSession(m)' <=> HasSession(m)
    BY <1>1, <2>3 DEF HasSession, TypeOK
  <2>6. CASE rest = EmptyVector
    <3>1. ~HasSession(num)'
      BY <1>1, <2>2, <2>3, <2>6 DEF HasSession, TypeOK
    <3>2. LiveSlots' = LiveSlots \ {num}
      BY <2>2, <2>5, <3>1 DEF LiveSlots
    <3>3. \A v \in Uids \ {u} : uidToSession[v] # num
      <4> SUFFICES ASSUME NEW v \in Uids \ {u}, uidToSession[v] = num PROVE FALSE
        OBVIOUS
      <4>1. members[num][v] > 0
        BY <1>1 DEF Safety, MappedUserHasSession
      <4>2. members[num] \in UidVector
        BY <1>1 DEF TypeOK
      <4>3. rest[v] = members[num][v]
        BY <4>2, VectorTypes
      <4>4. QED
        BY <2>6, <4>1, <4>3 DEF EmptyVector
    <3>4. R!Leave(u)
      BY <1>1, <2>3, <3>2, <3>3 DEF R!Leave, R!Alone
    <3>5. QED
      BY <1>1, <3>4 DEF AbstractStep, R!LaxNext
  <2>7. CASE rest # EmptyVector
    <3>1. HasSession(num)'
      BY <1>1, <2>2, <2>3, <2>4, <2>7 DEF HasSession, TypeOK
    <3>2. LiveSlots' = LiveSlots
      BY <2>2, <2>5, <3>1 DEF LiveSlots
    <3>3. R!LeaveOpen(u)
      BY <1>1, <2>3, <3>2 DEF R!LeaveOpen
    <3>4. QED
      BY <1>1, <3>3 DEF AbstractStep, R!LaxNext
  <2>8. QED
    BY <2>6, <2>7
<1>4. QED
  BY <1>2, <1>3

LEMMA StepImplements == Safety /\ [Next]_vars => AbstractStep
<1> SUFFICES ASSUME Safety, [Next]_vars PROVE AbstractStep
  OBVIOUS
<1>1. ASSUME UNCHANGED <<size, sessions, uidToSession, fault>> PROVE AbstractStep
  BY <1>1 DEF AbstractStep, R!roomsVars, LiveSlots, HasSession
<1>2. CASE AttachSession
  BY <1>2, AttachImplements DEF AbstractStep
<1>3. ASSUME NEW p \in Peers, NEW u \in Uids, NEW n \in SessionNumbers, Join(p, u, n)
      PROVE  AbstractStep
  BY <1>3, JoinImplements
<1>4. ASSUME NEW p \in Peers, Disconnect(p) PROVE AbstractStep
  BY <1>4, DisconnectImplements
<1>5. ASSUME NEW p \in Peers, NEW kind \in AppPackets, Deliver(p, kind) PROVE AbstractStep
  <2>1. fault = "none" /\ fault' \in {"none", "nullServer"}
    BY <1>5, DeliverFault DEF Deliver
  <2>2. CASE fault' = "none"
    BY <1>1, <1>5, <2>1, <2>2 DEF Deliver
  <2>3. CASE fault' = "nullServer"
    BY <2>1, <2>3 DEF AbstractStep, R!LaxNext, R!Fail
  <2>4. QED
    BY <2>1, <2>2, <2>3
<1>6. QED
  BY <1>1, <1>2, <1>3, <1>4, <1>5 DEF Next, vars, Connect, Timeout

\* Whatever its clients do, the server is a set of rooms each user is in at most
\* one of, entered while open and closed by their own last user.
THEOREM ImplementsRoomsLaxly == Spec => ImplementsLaxRooms
<1>1. Safety /\ [Next]_vars => [R!LaxNext]_(R!roomsVars)
  BY StepImplements DEF AbstractStep
<1>2. QED
  BY <1>1, InitImplements, AlwaysSafe, PTL DEF Spec, ImplementsLaxRooms, R!LaxSpec
===============================================================================
