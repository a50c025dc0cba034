---------------------------- MODULE EnetPeersProofs ----------------------------
(***************************************************************************)
(* Proofs about EnetPeers, for any clients and number of peers, and        *)
(* however often clients connect and peers are taken.                      *)
(***************************************************************************)
EXTENDS EnetPeers, FiniteSetTheorems, TLAPS

(***************************************************************************)
(* Types, of the datagrams too.                                            *)
(***************************************************************************)
SlotStates == {"DISCONNECTED", "ACKNOWLEDGING_CONNECT", "CONNECTED", "ACKNOWLEDGING_DISCONNECT",
               "ZOMBIE"}
ClientStates == {"DISCONNECTED", "CONNECTING", "CONNECTED", "DISCONNECTING", "ZOMBIE"}
SlotRecords == [state : SlotStates, attempt : Attempts \cup {None}, in : Sessions, out : Sessions,
                incoming : {0, 1}, queued : Attempts \cup {None}]
ClientRecords == [state : ClientStates, attempt : 0 .. MaxAttempts, peer : Slots \cup {-1},
                  in : Sessions, out : Sessions]

Connects == [command : {"CONNECT"}, attempt : Attempts, in : Sessions, out : Sessions]
Verifies == [command : {"VERIFY_CONNECT"}, attempt : Attempts, peer : Slots,
             in : Sessions, out : Sessions]
Answers == [command : FromClients, attempt : Attempts, peer : Slots, session : Sessions]
Ends == [command : {"ACKNOWLEDGE_DISCONNECT"}, attempt : Attempts, session : Sessions]
Datagrams == Connects \cup Verifies \cup Answers \cup Ends

Typing ==
    /\ slot \in [Slots -> SlotRecords]
    /\ client \in [Clients -> ClientRecords]
    /\ uses \in 0 .. MaxUses
    /\ verified \subseteq Attempts /\ opened \subseteq Attempts /\ reported \subseteq Attempts
    /\ net \subseteq Datagrams

\* Whoever takes part in a connection knows which one it is.
Taking ==
    /\ \A c \in Clients : /\ client[c].state # "DISCONNECTED" => client[c].attempt > 0
                          /\ client[c].state \in {"CONNECTED", "DISCONNECTING"} =>
                                 client[c].peer \in Slots
    /\ \A s \in Slots : slot[s].state # "DISCONNECTED" => slot[s].attempt \in Attempts

ConnectedSlots == {s \in Slots : slot[s].state = "CONNECTED"}
Counted == connectedPeers = Cardinality(ConnectedSlots)

TypeInv == Typing /\ Taking /\ Counted

Current(c) == <<c, client[c].attempt>>

LEMMA TypesGiven == TypeInv => PeersTypeOK
  BY DEF TypeInv, Typing, Counted, ConnectedSlots, PeersTypeOK, SlotRecords, ClientRecords,
         SlotStates, ClientStates

LEMMA Numbers ==
    /\ SlotCount \in Nat \ {0} /\ MaxAttempts \in Nat /\ MaxUses \in Nat
    /\ None \notin Attempts /\ -1 \in Sessions /\ IsFiniteSet(Clients)
<1>1. None \notin Attempts
  BY DEF None, Attempts
<1>2. QED
  BY <1>1, PeersAssumption DEF Sessions

LEMMA SessionsNext ==
    ASSUME NEW a \in Sessions, NEW h \in Sessions
    PROVE  NextSession(a, h) \in Sessions
<1>1. /\ ((a + 1) % 4) \in 0 .. 3 /\ ((h + 1) % 4) \in 0 .. 3
      /\ ((((a + 1) % 4) + 1) % 4) \in 0 .. 3 /\ ((((h + 1) % 4) + 1) % 4) \in 0 .. 3
  BY DEF Sessions
<1>2. QED
  BY <1>1 DEF NextSession, Sessions

\* The datagrams, by their commands.
LEMMA Commands ==
    ASSUME Typing, NEW m \in net
    PROVE  /\ m.command = "CONNECT" => m \in Connects
           /\ m.command = "VERIFY_CONNECT" => m \in Verifies
           /\ m.command \in FromClients => m \in Answers
           /\ m.command = "ACKNOWLEDGE_DISCONNECT" => m \in Ends
           /\ m.attempt \in Attempts
<1>1. m \in Datagrams
  BY DEF Typing
<1>2. CASE m \in Connects
  BY <1>2 DEF Connects, FromClients
<1>3. CASE m \in Verifies
  BY <1>3 DEF Verifies, FromClients
<1>4. CASE m \in Answers
  BY <1>4 DEF Answers, FromClients
<1>5. CASE m \in Ends
  BY <1>5 DEF Ends, FromClients
<1>6. QED
  BY <1>1, <1>2, <1>3, <1>4, <1>5 DEF Datagrams

LEMMA InitTypes == PeersInit => TypeInv
<1> SUFFICES ASSUME PeersInit PROVE TypeInv
  OBVIOUS
<1>1. Typing
  BY Numbers DEF PeersInit, Typing, SlotRecords, ClientRecords, SlotStates, ClientStates
<1>2. Taking
  BY DEF PeersInit, Taking
<1>3. ConnectedSlots = {}
  BY DEF PeersInit, ConnectedSlots
<1>4. Counted
  BY <1>3, FS_EmptySet DEF PeersInit, Counted
<1>5. QED
  BY <1>1, <1>2, <1>4 DEF TypeInv

-------------------------------------------------------------------------------
(* The bound on attempts: a client that may connect again has made fewer.  *)

LEMMA FiniteImage ==
    ASSUME NEW S, NEW T, IsFiniteSet(S), NEW f, f \in [S -> T], \A t \in T : \E s \in S : f[s] = t
    PROVE  IsFiniteSet(T)
<1>1. f \in Surjection(S, T)
  BY DEF Surjection
<1>2. QED
  BY <1>1, FS_Surjection

LEMMA AttemptsFinite == IsFiniteSet(Attempts)
<1> DEFINE Numbered == 1 .. MaxAttempts
           Of(c) == {c} \X Numbered
           Parts == {Of(c) : c \in Clients}
<1>1. IsFiniteSet(Numbered)
  <2>1. PICK a \in Int, b \in Int : a = 1 /\ b = MaxAttempts
    BY Numbers
  <2>2. IsFiniteSet(a .. b)
    BY FS_Interval
  <2>3. QED
    BY <2>1, <2>2
<1>2. \A c \in Clients : IsFiniteSet(Of(c))
  <2>1. SUFFICES ASSUME NEW c \in Clients PROVE IsFiniteSet(Of(c))
    OBVIOUS
  <2>2. PICK f : f = [k \in Numbered |-> <<c, k>>]
    OBVIOUS
  <2>3. PICK S, T : S = Numbered /\ T = Of(c)
    OBVIOUS
  <2>4. f \in [S -> T] /\ \A t \in T : \E k \in S : f[k] = t
    BY <2>2, <2>3
  <2>5. IsFiniteSet(S)
    BY <1>1, <2>3
  <2>6. IsFiniteSet(T)
    BY <2>4, <2>5, FiniteImage
  <2>7. QED
    BY <2>3, <2>6
<1>3. IsFiniteSet(Parts)
  <2>1. PICK f : f = [c \in Clients |-> Of(c)]
    OBVIOUS
  <2>2. f \in [Clients -> Parts] /\ \A t \in Parts : \E c \in Clients : f[c] = t
    BY <2>1
  <2>3. QED
    BY <2>2, Numbers, FiniteImage
<1>4. IsFiniteSet(UNION Parts)
  <2>1. \A T \in Parts : IsFiniteSet(T)
    BY <1>2
  <2>2. QED
    BY <1>3, <2>1, FS_UNION
<1>5. Attempts = UNION Parts
  BY DEF Attempts
<1>6. QED
  BY <1>4, <1>5

LEMMA AttemptsLeft ==
    ASSUME Typing, NEW c \in Clients, Connect(c)
    PROVE  client[c].attempt + 1 \in 1 .. MaxAttempts
<1> DEFINE started == {a \in Attempts : a[2] <= client[a[1]].attempt}
<1>1. Cardinality(started) < MaxAttempts
  BY DEF Connect
<1>2. client[c].attempt \in 0 .. MaxAttempts
  BY DEF Typing, ClientRecords
<1>3. SUFFICES ASSUME client[c].attempt = MaxAttempts PROVE FALSE
  BY <1>2, Numbers
<1>4. IsFiniteSet(started) /\ Cardinality(started) \in Nat
  <2>1. started \in SUBSET Attempts
    OBVIOUS
  <2>2. IsFiniteSet(started)
    BY <2>1, AttemptsFinite, FS_Subset
  <2>3. QED
    BY <2>2, FS_CardinalityType
<1>5. PICK n \in Nat, one \in Int : n = MaxAttempts /\ one = 1
  BY Numbers
<1>6. [k \in one .. n |-> <<c, k>>] \in Injection(one .. n, started)
  <2>1. \A k \in one .. n : <<c, k>> \in started
    BY <1>3, <1>5 DEF Attempts
  <2>2. [k \in one .. n |-> <<c, k>>] \in [one .. n -> started]
    BY <2>1
  <2>3. \A j, k \in one .. n : [m \in one .. n |-> <<c, m>>][j] = [m \in one .. n |-> <<c, m>>][k]
                               => j = k
    OBVIOUS
  <2>4. QED
    BY <2>2, <2>3 DEF Injection, IsInjective
<1>7. Cardinality(one .. n) <= Cardinality(started)
  BY <1>4, <1>6, FS_Injection
<1>8. Cardinality(one .. n) = IF one > n THEN 0 ELSE n - one + 1
  BY <1>5, FS_Interval
<1>9. QED
  BY <1>1, <1>4, <1>5, <1>7, <1>8

-------------------------------------------------------------------------------
(***************************************************************************)
(* What the steps of a client come to: it starts an attempt, accepts what  *)
(* the server told it of one, or goes on with, or out of, the one it has.  *)
(***************************************************************************)
Starts(c) ==
    /\ client[c].state = "DISCONNECTED" /\ client[c].attempt + 1 \in 1 .. MaxAttempts
    /\ client'[c].state = "CONNECTING" /\ client'[c].attempt = client[c].attempt + 1
    /\ net' = net \cup {[command |-> "CONNECT", attempt |-> <<c, client[c].attempt + 1>>,
                         in |-> client[c].in, out |-> client[c].out]}
    /\ client'[c].in = client[c].in /\ client'[c].out = client[c].out
    /\ UNCHANGED verified

\* The answer a client sends for attempt a, to what it knows as peer p, session x.
AnswerOf(command, a, p, x) ==
    [command |-> command, attempt |-> a, peer |-> p, session |-> x]

Accepts(c, v) ==
    /\ v \in net /\ v.command = "VERIFY_CONNECT" /\ v.attempt = Current(c)
    /\ client[c].state = "CONNECTING"
    /\ client'[c].state = "CONNECTED" /\ client'[c].attempt = client[c].attempt
    /\ client'[c].peer = v.peer /\ client'[c].in = v.in /\ client'[c].out = v.out
    /\ verified' = verified \cup {Current(c)}
    /\ net' = net \cup {AnswerOf("ACKNOWLEDGE", Current(c), v.peer, v.out)}

\* Once it has asked for the end, a client sends nothing but that.
Sends(c, command) ==
    /\ client[c].state \in {"CONNECTED", "DISCONNECTING"}
    /\ command # "DISCONNECT" => client[c].state = "CONNECTED"
    /\ net' = net \cup {AnswerOf(command, Current(c), client[c].peer, client[c].out)}

GoesOn(c) ==
    /\ \/ client'[c] = client[c]
       \/ client'[c].state \in {"DISCONNECTED", "DISCONNECTING", "ZOMBIE"}
    /\ client[c].state # "DISCONNECTED"
    /\ client'[c].attempt = client[c].attempt
    /\ client'[c].in = client[c].in /\ client'[c].out = client[c].out
    /\ client'[c].state \in {"CONNECTED", "DISCONNECTING"} =>
           client[c].state \in {"CONNECTED", "DISCONNECTING"} /\ client'[c].peer = client[c].peer
    /\ UNCHANGED net \/ \E command \in FromClients : Sends(c, command)
    /\ UNCHANGED verified

ClientStep(c) == Starts(c) \/ (\E v \in net : Accepts(c, v)) \/ GoesOn(c)

LEMMA ClientSteps ==
    ASSUME Typing, NEW c \in Clients, ClientNext(c)
    PROVE  /\ UNCHANGED serverVars
           /\ client' \in [Clients -> ClientRecords]
           /\ \A d \in Clients : d # c => client'[d] = client[d]
           /\ ClientStep(c)
<1>1. client \in [Clients -> ClientRecords] /\ client[c] \in ClientRecords
  BY DEF Typing
<1>3. CASE Connect(c)
  <2>1. client[c].attempt + 1 \in 1 .. MaxAttempts
    BY <1>3, AttemptsLeft
  <2>2. client' = [client EXCEPT ![c].state = "CONNECTING", ![c].attempt = @ + 1]
    BY <1>3 DEF Connect
  <2>3. client' \in [Clients -> ClientRecords]
    BY <1>1, <2>1, <2>2 DEF ClientRecords, ClientStates
  <2>4. Starts(c)
    BY <1>1, <1>3, <2>1, <2>2 DEF Connect, Starts, ClientRecords
  <2>5. QED
    BY <1>1, <1>3, <2>2, <2>3, <2>4 DEF Connect, ClientStep
<1>4. CASE SendPacket(c)
  <2>1. GoesOn(c)
    BY <1>4 DEF SendPacket, GoesOn, Sends, ToServer, AnswerOf, Current, FromClients, clientVars
  <2>2. QED
    BY <1>1, <1>4, <2>1 DEF SendPacket, clientVars, ClientStep
<1>10. CASE \E m \in net : AcknowledgeAgain(c, m)
  <2>1. /\ client[c].state = "CONNECTED" /\ net' = net \cup {ToServer(c, "ACKNOWLEDGE")}
        /\ UNCHANGED <<client, verified, serverVars>>
    BY <1>10 DEF AcknowledgeAgain, clientVars
  <2>2. GoesOn(c)
    BY <2>1 DEF GoesOn, Sends, ToServer, AnswerOf, Current, FromClients
  <2>3. QED
    BY <1>1, <2>1, <2>2 DEF ClientStep
<1>5. CASE Disconnect(c)
  <2>1. client' = [client EXCEPT ![c].state = "DISCONNECTING"]
    BY <1>5 DEF Disconnect
  <2>2. client' \in [Clients -> ClientRecords]
    BY <1>1, <2>1 DEF ClientRecords, ClientStates
  <2>3. GoesOn(c)
    BY <1>1, <1>5, <2>1
    DEF Disconnect, GoesOn, Sends, ToServer, AnswerOf, Current, FromClients, ClientRecords
  <2>4. QED
    BY <1>1, <1>5, <2>1, <2>2, <2>3 DEF Disconnect, ClientStep
<1>6. CASE ClientReset(c) /\ UNCHANGED <<verified, serverVars>> /\ client[c].state # "DISCONNECTED"
           /\ \/ UNCHANGED net
              \/ /\ client[c].state = "CONNECTED"
                 /\ net' = net \cup {ToServer(c, "DISCONNECT_UNSEQUENCED")}
  <2>1. client' = [client EXCEPT ![c].state = "DISCONNECTED", ![c].peer = -1]
    BY <1>6 DEF ClientReset
  <2>2. client' \in [Clients -> ClientRecords]
    BY <1>1, <2>1 DEF ClientRecords, ClientStates
  <2>3. GoesOn(c)
    BY <1>1, <1>6, <2>1 DEF GoesOn, Sends, ToServer, AnswerOf, Current, FromClients, ClientRecords
  <2>4. QED
    BY <1>1, <1>6, <2>1, <2>2, <2>3 DEF ClientStep
<1>7. ASSUME NEW m \in net, HandleVerifyConnect(c, m)
      PROVE  /\ UNCHANGED serverVars
             /\ client' \in [Clients -> ClientRecords]
             /\ \A d \in Clients : d # c => client'[d] = client[d]
             /\ ClientStep(c)
  <2>1. m \in Verifies /\ m.attempt \in Attempts
    BY <1>7, Commands DEF HandleVerifyConnect
  <2>2. m.attempt = <<m.attempt[1], m.attempt[2]>>
    BY <2>1 DEF Attempts
  <2>3. CASE m.attempt[2] = client[c].attempt
    <3>1. client' = [client EXCEPT ![c].state = "CONNECTED", ![c].peer = m.peer,
                                   ![c].in = m.in, ![c].out = m.out]
      BY <1>7, <2>3 DEF HandleVerifyConnect
    <3>2. client' \in [Clients -> ClientRecords]
      BY <1>1, <2>1, <3>1 DEF ClientRecords, ClientStates, Verifies
    <3>3. m.attempt = Current(c)
      BY <1>7, <2>2, <2>3 DEF HandleVerifyConnect, Current
    <3>4. /\ client'[c].state = "CONNECTED" /\ client'[c].attempt = client[c].attempt
          /\ client'[c].peer = m.peer /\ client'[c].in = m.in /\ client'[c].out = m.out
      BY <1>1, <3>1 DEF ClientRecords
    <3>5. Accepts(c, m)
      BY <1>7, <2>3, <3>3, <3>4 DEF HandleVerifyConnect, Accepts, ToServer, AnswerOf, Current
    <3>6. QED
      BY <1>1, <1>7, <3>1, <3>2, <3>5 DEF HandleVerifyConnect, ClientStep
  <2>4. CASE m.attempt[2] # client[c].attempt
    <3>1. client' = [client EXCEPT ![c].state = "ZOMBIE"] /\ UNCHANGED <<verified, net>>
      BY <1>7, <2>4 DEF HandleVerifyConnect
    <3>2. client' \in [Clients -> ClientRecords]
      BY <1>1, <3>1 DEF ClientRecords, ClientStates
    <3>3. GoesOn(c)
      BY <1>1, <1>7, <3>1 DEF HandleVerifyConnect, GoesOn, ClientRecords
    <3>4. QED
      BY <1>1, <1>7, <3>1, <3>2, <3>3 DEF HandleVerifyConnect, ClientStep
  <2>5. QED
    BY <2>3, <2>4
<1>8. CASE DisconnectNow(c) \/ ClientEnds(c) \/ \E m \in net : HandleDisconnected(c, m)
  BY <1>6, <1>8 DEF DisconnectNow, ClientEnds, HandleDisconnected
<1>9. QED
  BY <1>3, <1>4, <1>5, <1>7, <1>8, <1>10 DEF ClientNext

-------------------------------------------------------------------------------
(***************************************************************************)
(* What the steps of the server's host come to: a peer is taken, reported  *)
(* connected, given a packet, has it reported, or goes on to its end.      *)
(***************************************************************************)

\* What the server has told clients, and what they have sent to peers.
Told == {v \in net : v.command = "VERIFY_CONNECT"}
Sent == {m \in net : m.command \in FromClients}

Takes(s, m) ==
    /\ m \in net /\ m.command = "CONNECT"
    /\ \A t \in Slots : slot[t].state # "DISCONNECTED" => slot[t].attempt # m.attempt
    /\ slot[s].state = "DISCONNECTED" /\ slot'[s].state = "ACKNOWLEDGING_CONNECT"
    /\ slot'[s].attempt = m.attempt /\ slot'[s].incoming = 0 /\ slot'[s].queued = None
    /\ slot'[s].in = NextSession(m.out, slot[s].in)
    /\ uses < MaxUses /\ uses' = uses + 1
    /\ EndKnown(m.attempt[1], s, slot'[s].in)
    /\ \E in \in Sessions :
           net' = StillArrives(m.attempt[1], s, slot'[s].in)
                  \cup {[command |-> "VERIFY_CONNECT", attempt |-> m.attempt, peer |-> s,
                         in |-> in, out |-> slot'[s].in]}
    /\ UNCHANGED <<opened, reported>>

\* A peer stays with its attempt.
Same(s) == slot'[s].attempt = slot[s].attempt /\ slot'[s].in = slot[s].in

Opens(s, m) ==
    /\ m \in Sent /\ m.command = "ACKNOWLEDGE" /\ Accepted(m, s)
    /\ slot[s].state = "ACKNOWLEDGING_CONNECT" /\ slot'[s].state = "CONNECTED"
    /\ Same(s) /\ slot'[s].incoming = slot[s].incoming /\ slot'[s].queued = slot[s].queued
    /\ opened' = opened \cup {slot[s].attempt}
    /\ UNCHANGED <<uses, net, reported>>

Queues(s, m) ==
    /\ m \in Sent /\ m.command = "SEND_RELIABLE" /\ Accepted(m, s)
    /\ slot[s].state = "CONNECTED" /\ slot'[s].state = "CONNECTED"
    /\ Same(s) /\ slot[s].incoming = 0 /\ slot'[s].incoming = 1 /\ slot'[s].queued = m.attempt
    /\ UNCHANGED <<uses, net, opened, reported>>

Reports(s) ==
    /\ slot[s].state = "CONNECTED" /\ slot'[s].state = "CONNECTED"
    /\ Same(s) /\ slot[s].queued # None /\ slot'[s].queued = None
    /\ slot'[s].incoming = slot[s].incoming
    /\ reported' = reported \cup {slot[s].queued}
    /\ UNCHANGED <<uses, net, opened>>

Leaves(s) ==
    /\ slot[s].state # "DISCONNECTED"
    /\ slot'[s].state \in {"DISCONNECTED", "ACKNOWLEDGING_DISCONNECT", "ZOMBIE"}
    /\ slot[s].state = "ACKNOWLEDGING_CONNECT" => slot'[s].state = "DISCONNECTED"
    /\ Same(s)
    /\ Told' = Told /\ Sent' = Sent /\ net' \subseteq net \cup Ends
    /\ UNCHANGED <<uses, opened, reported>>

ServerStep(s) ==
    \/ \E m \in net : Takes(s, m) \/ Opens(s, m) \/ Queues(s, m)
    \/ Reports(s) \/ Leaves(s)

\* connectedPeers follows the state of s.
CountStep(s) ==
    connectedPeers' =
        IF slot[s].state # "CONNECTED" /\ slot'[s].state = "CONNECTED" THEN connectedPeers + 1
        ELSE IF slot[s].state = "CONNECTED" /\ slot'[s].state # "CONNECTED" THEN connectedPeers - 1
        ELSE connectedPeers

ServerSteps(s) ==
    /\ UNCHANGED clientVars
    /\ slot' \in [Slots -> SlotRecords]
    /\ \A t \in Slots : t # s => slot'[t] = slot[t]
    /\ CountStep(s)
    /\ ServerStep(s)

LEMMA TakesStep ==
    ASSUME Typing, NEW s \in Slots, NEW m \in net, HandleConnect(m, s) PROVE ServerSteps(s)
<1>1. slot \in [Slots -> SlotRecords] /\ slot[s] \in SlotRecords
  BY DEF Typing
<1>2. m \in Connects /\ m.attempt \in Attempts
  BY Commands DEF HandleConnect
<1>3. PICK in \in Sessions, out \in Sessions :
          in = NextSession(m.out, slot[s].in) /\ out = NextSession(m.in, slot[s].out)
  <2>1. m.in \in Sessions /\ m.out \in Sessions /\ slot[s].in \in Sessions
        /\ slot[s].out \in Sessions
    BY <1>1, <1>2 DEF Connects, SlotRecords
  <2>2. QED
    BY <2>1, SessionsNext
<1>4. /\ slot' = [slot EXCEPT ![s] = [state |-> "ACKNOWLEDGING_CONNECT", attempt |-> m.attempt,
                                      in |-> in, out |-> out, incoming |-> 0, queued |-> None]]
      /\ EndKnown(m.attempt[1], s, in)
      /\ net' = StillArrives(m.attempt[1], s, in)
                \cup {[command |-> "VERIFY_CONNECT", attempt |-> m.attempt, peer |-> s,
                       in |-> out, out |-> in]}
      /\ m.command = "CONNECT" /\ slot[s].state = "DISCONNECTED"
      /\ \A t \in Slots : slot[t].state # "DISCONNECTED" => slot[t].attempt # m.attempt
      /\ uses < MaxUses /\ uses' = uses + 1
      /\ UNCHANGED <<clientVars, connectedPeers, opened, reported>>
  BY <1>3 DEF HandleConnect
<1>5. slot' \in [Slots -> SlotRecords]
  BY <1>1, <1>2, <1>4 DEF SlotRecords, SlotStates
<1>6. /\ slot'[s].state = "ACKNOWLEDGING_CONNECT" /\ slot'[s].attempt = m.attempt
      /\ slot'[s].incoming = 0 /\ slot'[s].queued = None /\ slot'[s].in = in
      /\ \A t \in Slots : t # s => slot'[t] = slot[t]
  BY <1>1, <1>4
<1>7. Takes(s, m)
  BY <1>3, <1>4, <1>6 DEF Takes
<1>8. CountStep(s)
  BY <1>4, <1>6 DEF CountStep
<1>9. QED
  BY <1>4, <1>5, <1>6, <1>7, <1>8 DEF ServerSteps, ServerStep

LEMMA OpensStep ==
    ASSUME Typing, NEW s \in Slots, NEW m \in net, HandleAcknowledge(m, s) PROVE ServerSteps(s)
<1>1. slot \in [Slots -> SlotRecords] /\ slot[s] \in SlotRecords
  BY DEF Typing
<1>2. /\ slot' = [slot EXCEPT ![s].state = "CONNECTED"] /\ connectedPeers' = connectedPeers + 1
      /\ UNCHANGED <<clientVars, uses, net, reported>>
      /\ slot[s].state = "ACKNOWLEDGING_CONNECT"
      /\ m.command = "ACKNOWLEDGE" /\ Accepted(m, s) /\ opened' = opened \cup {slot[s].attempt}
  BY DEF HandleAcknowledge
<1>3. slot' \in [Slots -> SlotRecords]
  BY <1>1, <1>2 DEF SlotRecords, SlotStates
<1>4. /\ slot'[s].state = "CONNECTED" /\ Same(s)
      /\ slot'[s].incoming = slot[s].incoming /\ slot'[s].queued = slot[s].queued
      /\ \A t \in Slots : t # s => slot'[t] = slot[t]
  BY <1>1, <1>2 DEF SlotRecords, Same
<1>5. m \in Sent
  BY <1>2 DEF Sent, FromClients
<1>6. Opens(s, m) /\ CountStep(s)
  BY <1>2, <1>4, <1>5 DEF Opens, CountStep
<1>7. QED
  BY <1>2, <1>3, <1>4, <1>6 DEF ServerSteps, ServerStep

LEMMA PacketStep ==
    ASSUME Typing, NEW s \in Slots,
           (\E m \in net : HandleSendReliable(m, s)) \/ ReportPacket(s)
    PROVE  ServerSteps(s)
<1>1. slot \in [Slots -> SlotRecords] /\ slot[s] \in SlotRecords
  BY DEF Typing
<1>2. ASSUME NEW m \in net, HandleSendReliable(m, s) PROVE ServerSteps(s)
  <2>1. /\ slot' = [slot EXCEPT ![s].incoming = 1, ![s].queued = m.attempt]
        /\ UNCHANGED <<clientVars, uses, net, connectedPeers, opened, reported>>
        /\ slot[s].state = "CONNECTED" /\ slot[s].incoming = 0
        /\ m.command = "SEND_RELIABLE" /\ Accepted(m, s)
    BY <1>2 DEF HandleSendReliable
  <2>2. m.attempt \in Attempts
    BY Commands
  <2>3. slot' \in [Slots -> SlotRecords]
    BY <1>1, <2>1, <2>2 DEF SlotRecords, SlotStates
  <2>4. /\ slot'[s].state = "CONNECTED" /\ Same(s)
        /\ slot'[s].incoming = 1 /\ slot'[s].queued = m.attempt
        /\ \A t \in Slots : t # s => slot'[t] = slot[t]
    BY <1>1, <2>1 DEF SlotRecords, Same
  <2>5. m \in Sent
    BY <2>1 DEF Sent, FromClients
  <2>6. Queues(s, m) /\ CountStep(s)
    BY <2>1, <2>4, <2>5 DEF Queues, CountStep
  <2>7. QED
    BY <2>1, <2>3, <2>4, <2>6 DEF ServerSteps, ServerStep
<1>3. CASE ReportPacket(s)
  <2>1. /\ slot' = [slot EXCEPT ![s].queued = None]
        /\ UNCHANGED <<clientVars, uses, net, connectedPeers, opened>>
        /\ slot[s].state = "CONNECTED" /\ slot[s].queued # None
        /\ reported' = reported \cup {slot[s].queued}
    BY <1>3 DEF ReportPacket
  <2>2. slot' \in [Slots -> SlotRecords]
    BY <1>1, <2>1 DEF SlotRecords, SlotStates
  <2>3. /\ slot'[s].state = "CONNECTED" /\ Same(s)
        /\ slot'[s].incoming = slot[s].incoming /\ slot'[s].queued = None
        /\ \A t \in Slots : t # s => slot'[t] = slot[t]
    BY <1>1, <2>1 DEF SlotRecords, Same
  <2>4. Reports(s) /\ CountStep(s)
    BY <2>1, <2>3 DEF Reports, CountStep
  <2>5. QED
    BY <2>1, <2>2, <2>3, <2>4 DEF ServerSteps, ServerStep
<1>4. QED
  BY <1>2, <1>3

\* What is left of the datagrams: no answer and nothing told is lost.
LEMMA NetKept ==
    ASSUME \/ UNCHANGED net
           \/ \E e \in Ends : net' = net \cup {e}
    PROVE  Told' = Told /\ Sent' = Sent /\ net' \subseteq net \cup Ends
<1>1. CASE UNCHANGED net
  BY <1>1 DEF Told, Sent
<1>2. CASE \E e \in Ends : net' = net \cup {e}
  BY <1>2 DEF Told, Sent, Ends, FromClients
<1>3. QED
  BY <1>1, <1>2

LEMMA LeavesStep ==
    ASSUME Typing, Taking, NEW s \in Slots,
           \/ \E m \in net : HandleDisconnect(m, s)
           \/ SendAcknowledgement(s) \/ ReportDisconnect(s) \/ TimeOut(s)
    PROVE  ServerSteps(s)
<1>1. slot \in [Slots -> SlotRecords] /\ slot[s] \in SlotRecords
  BY DEF Typing
<1>2. PICK state \in {"DISCONNECTED", "ACKNOWLEDGING_DISCONNECT", "ZOMBIE"} :
          /\ \/ slot' = [slot EXCEPT ![s].state = state, ![s].queued = None]
             \/ slot' = [slot EXCEPT ![s].queued = None, ![s].state = state]
             \/ slot' = [slot EXCEPT ![s].state = state]
          /\ slot[s].state = "ACKNOWLEDGING_CONNECT" => state = "DISCONNECTED"
          /\ slot[s].state # "DISCONNECTED"
          /\ \/ connectedPeers' = CountedOut(s)
             \/ UNCHANGED connectedPeers /\ slot[s].state = "ACKNOWLEDGING_DISCONNECT"
          /\ UNCHANGED <<clientVars, uses, opened, reported>>
  <2>1. CASE \E m \in net : HandleDisconnect(m, s)
    BY <2>1 DEF HandleDisconnect, Reset
  <2>2. CASE SendAcknowledgement(s)
    BY <2>2 DEF SendAcknowledgement
  <2>3. CASE ReportDisconnect(s)
    BY <2>3 DEF ReportDisconnect, Reset
  <2>4. CASE TimeOut(s)
    BY <2>4 DEF TimeOut, MayTimeOut, Reset
  <2>5. QED
    BY <2>1, <2>2, <2>3, <2>4
<1>3. slot' \in [Slots -> SlotRecords]
  BY <1>1, <1>2 DEF SlotRecords, SlotStates
<1>4. /\ slot'[s].state = state /\ Same(s)
      /\ \A t \in Slots : t # s => slot'[t] = slot[t]
  BY <1>1, <1>2 DEF SlotRecords, Same
<1>5. CountStep(s)
  BY <1>2, <1>4 DEF CountStep, CountedOut
<1>6. \/ UNCHANGED net
      \/ \E e \in Ends : net' = net \cup {e}
  <2>1. CASE (\E m \in net : HandleDisconnect(m, s)) \/ ReportDisconnect(s) \/ TimeOut(s)
    BY <2>1 DEF HandleDisconnect, ReportDisconnect, TimeOut
  <2>2. CASE SendAcknowledgement(s)
    <3>1. [command |-> "ACKNOWLEDGE_DISCONNECT", attempt |-> slot[s].attempt,
           session |-> slot[s].out] \in Ends
      BY <1>1, <2>2 DEF SendAcknowledgement, Taking, SlotRecords, Ends
    <3>2. QED
      BY <2>2, <3>1 DEF SendAcknowledgement
  <2>3. QED
    BY <2>1, <2>2
<1>7. Leaves(s)
  BY <1>2, <1>4, <1>6, NetKept DEF Leaves
<1>8. QED
  BY <1>2, <1>3, <1>4, <1>5, <1>7 DEF ServerSteps, ServerStep

LEMMA ServerDoes ==
    ASSUME Typing, Taking, NEW s \in Slots, ServerNext(s) PROVE ServerSteps(s)
  BY TakesStep, OpensStep, PacketStep, LeavesStep DEF ServerNext

-------------------------------------------------------------------------------
(* The types are kept.                                                     *)

LEMMA AnswerIsDatagram ==
    ASSUME NEW command \in FromClients, NEW a \in Attempts, NEW p \in Slots, NEW x \in Sessions
    PROVE  AnswerOf(command, a, p, x) \in Answers
  BY DEF AnswerOf, Answers

LEMMA CurrentIsAttempt ==
    ASSUME Typing, Taking, NEW c \in Clients, client[c].state # "DISCONNECTED"
    PROVE  Current(c) \in Attempts
<1>1. client[c].attempt \in 0 .. MaxAttempts /\ client[c].attempt > 0
  BY DEF Typing, Taking, ClientRecords
<1>2. QED
  BY <1>1, Numbers DEF Current, Attempts

LEMMA ClientKeepsTypes ==
    ASSUME TypeInv, NEW c \in Clients, ClientNext(c) PROVE TypeInv'
<1>1. Typing /\ Taking /\ Counted
  BY DEF TypeInv
<1>2. /\ UNCHANGED <<slot, uses, connectedPeers, opened, reported>>
      /\ client' \in [Clients -> ClientRecords]
      /\ \A d \in Clients : d # c => client'[d] = client[d]
      /\ ClientStep(c)
  BY <1>1, ClientSteps DEF serverVars
<1>3. client[c] \in ClientRecords /\ client'[c] \in ClientRecords
  BY <1>1, <1>2 DEF Typing
<1>4. Counted'
  BY <1>1, <1>2 DEF Counted, ConnectedSlots
<1>5. CASE Starts(c)
  <2>1. [command |-> "CONNECT", attempt |-> <<c, client[c].attempt + 1>>,
         in |-> client[c].in, out |-> client[c].out] \in Connects
    BY <1>3, <1>5 DEF Starts, Connects, ClientRecords, Attempts
  <2>2. net' \subseteq Datagrams
    BY <1>1, <1>5, <2>1 DEF Starts, Typing, Datagrams
  <2>3. Typing'
    BY <1>1, <1>2, <1>5, <2>2 DEF Typing, Starts
  <2>4. client'[c].attempt > 0 /\ client'[c].state = "CONNECTING"
    BY <1>3, <1>5 DEF Starts, ClientRecords
  <2>5. Taking'
    BY <1>1, <1>2, <2>4 DEF Taking
  <2>6. QED
    BY <1>4, <2>3, <2>5 DEF TypeInv
<1>6. ASSUME NEW v \in net, Accepts(c, v) PROVE TypeInv'
  <2>1. v \in Verifies /\ client[c].state = "CONNECTING"
    BY <1>1, <1>6, Commands DEF Accepts
  <2>2. Current(c) \in Attempts
    BY <1>1, <2>1, CurrentIsAttempt
  <2>3. AnswerOf("ACKNOWLEDGE", Current(c), v.peer, v.out) \in Answers
    BY <2>1, <2>2, AnswerIsDatagram DEF Verifies, FromClients
  <2>4. net' \subseteq Datagrams /\ verified' \subseteq Attempts
    BY <1>1, <1>6, <2>2, <2>3 DEF Accepts, Typing, Datagrams
  <2>5. Typing'
    BY <1>1, <1>2, <2>4 DEF Typing
  <2>6. client'[c].attempt > 0 /\ client'[c].peer \in Slots
    BY <1>1, <1>6, <2>1 DEF Accepts, Taking, Verifies
  <2>7. Taking'
    BY <1>1, <1>2, <2>6 DEF Taking
  <2>8. QED
    BY <1>4, <2>5, <2>7 DEF TypeInv
<1>7. CASE GoesOn(c)
  <2>1. net' \subseteq Datagrams
    <3>1. CASE UNCHANGED net
      BY <1>1, <3>1 DEF Typing
    <3>2. ASSUME NEW command \in FromClients, Sends(c, command)
          PROVE  net' \subseteq Datagrams
      <4>1. Current(c) \in Attempts /\ client[c].peer \in Slots /\ client[c].out \in Sessions
        BY <1>1, <1>3, <3>2, CurrentIsAttempt DEF Sends, Taking, ClientRecords
      <4>2. AnswerOf(command, Current(c), client[c].peer, client[c].out) \in Answers
        BY <4>1, AnswerIsDatagram
      <4>3. QED
        BY <1>1, <3>2, <4>2 DEF Sends, Typing, Datagrams
    <3>3. QED
      BY <1>7, <3>1, <3>2 DEF GoesOn
  <2>2. Typing'
    BY <1>1, <1>2, <1>7, <2>1 DEF Typing, GoesOn
  <2>3. /\ client'[c].attempt > 0
        /\ client'[c].state \in {"CONNECTED", "DISCONNECTING"} => client'[c].peer \in Slots
    BY <1>1, <1>7 DEF GoesOn, Taking
  <2>4. Taking'
    BY <1>1, <1>2, <2>3 DEF Taking
  <2>5. QED
    BY <1>4, <2>2, <2>4 DEF TypeInv
<1>8. QED
  BY <1>2, <1>5, <1>6, <1>7 DEF ClientStep

LEMMA CountKept ==
    ASSUME Typing, Counted, NEW s \in Slots, CountStep(s),
           slot' \in [Slots -> SlotRecords], \A t \in Slots : t # s => slot'[t] = slot[t]
    PROVE  Counted'
<1>1. IsFiniteSet(ConnectedSlots) /\ Cardinality(ConnectedSlots) \in Nat
  <2>1. PICK a \in Int, b \in Int : a = 0 /\ b = SlotCount - 1
    BY Numbers
  <2>2. ConnectedSlots \in SUBSET (a .. b) /\ IsFiniteSet(a .. b)
    BY <2>1, FS_Interval DEF ConnectedSlots, Slots
  <2>3. IsFiniteSet(ConnectedSlots)
    BY <2>2, FS_Subset
  <2>4. QED
    BY <2>3, FS_CardinalityType
<1>2. CASE slot[s].state # "CONNECTED" /\ slot'[s].state = "CONNECTED"
  <2>1. ConnectedSlots' = ConnectedSlots \cup {s} /\ s \notin ConnectedSlots
    BY <1>2 DEF ConnectedSlots
  <2>2. Cardinality(ConnectedSlots') = Cardinality(ConnectedSlots) + 1
    BY <1>1, <2>1, FS_AddElement
  <2>3. QED
    BY <1>2, <2>2 DEF Counted, CountStep
<1>3. CASE slot[s].state = "CONNECTED" /\ slot'[s].state # "CONNECTED"
  <2>1. ConnectedSlots' = ConnectedSlots \ {s} /\ s \in ConnectedSlots
    BY <1>3 DEF ConnectedSlots
  <2>2. Cardinality(ConnectedSlots') = Cardinality(ConnectedSlots) - 1
    BY <1>1, <2>1, FS_RemoveElement
  <2>3. QED
    BY <1>3, <2>2 DEF Counted, CountStep
<1>4. CASE slot[s].state = "CONNECTED" <=> slot'[s].state = "CONNECTED"
  <2>1. ConnectedSlots' = ConnectedSlots
    BY <1>4 DEF ConnectedSlots
  <2>2. QED
    BY <1>4, <2>1 DEF Counted, CountStep
<1>5. QED
  BY <1>2, <1>3, <1>4

LEMMA ServerKeepsTypes ==
    ASSUME TypeInv, NEW s \in Slots, ServerNext(s) PROVE TypeInv'
<1>1. Typing /\ Taking /\ Counted
  BY DEF TypeInv
<1>2. /\ UNCHANGED <<client, verified>>
      /\ slot' \in [Slots -> SlotRecords]
      /\ \A t \in Slots : t # s => slot'[t] = slot[t]
      /\ CountStep(s)
      /\ ServerStep(s)
  BY <1>1, ServerDoes DEF ServerSteps, clientVars
<1>3. Counted'
  BY <1>1, <1>2, CountKept
<1>4. slot[s] \in SlotRecords /\ slot'[s] \in SlotRecords
  BY <1>1, <1>2 DEF Typing
<1>5. /\ uses' \in 0 .. MaxUses /\ net' \subseteq Datagrams
      /\ opened' \subseteq Attempts /\ reported' \subseteq Attempts
      /\ slot'[s].state # "DISCONNECTED" => slot'[s].attempt \in Attempts
  <2>1. ASSUME NEW m \in net, Takes(s, m)
        PROVE  /\ uses' \in 0 .. MaxUses /\ net' \subseteq Datagrams
               /\ opened' \subseteq Attempts /\ reported' \subseteq Attempts
               /\ slot'[s].state # "DISCONNECTED" => slot'[s].attempt \in Attempts
    <3>1. m.attempt \in Attempts /\ slot'[s].in \in Sessions
      BY <1>1, <1>4, Commands DEF SlotRecords
    <3>2. net' \subseteq Datagrams
      <4>1. PICK in \in Sessions :
                net' = StillArrives(m.attempt[1], s, slot'[s].in)
                       \cup {[command |-> "VERIFY_CONNECT", attempt |-> m.attempt, peer |-> s,
                              in |-> in, out |-> slot'[s].in]}
        BY <2>1 DEF Takes
      <4>2. [command |-> "VERIFY_CONNECT", attempt |-> m.attempt, peer |-> s,
             in |-> in, out |-> slot'[s].in] \in Verifies
        BY <3>1 DEF Verifies
      <4>3. StillArrives(m.attempt[1], s, slot'[s].in) \subseteq net
        BY DEF StillArrives
      <4>4. QED
        BY <1>1, <4>1, <4>2, <4>3 DEF Typing, Datagrams
    <3>3. uses' \in 0 .. MaxUses
      BY <1>1, <2>1, Numbers DEF Takes, Typing
    <3>4. QED
      BY <1>1, <2>1, <3>1, <3>2, <3>3 DEF Takes, Typing
  <2>2. ASSUME NEW m \in net, Opens(s, m) \/ Queues(s, m)
        PROVE  /\ uses' \in 0 .. MaxUses /\ net' \subseteq Datagrams
               /\ opened' \subseteq Attempts /\ reported' \subseteq Attempts
               /\ slot'[s].state # "DISCONNECTED" => slot'[s].attempt \in Attempts
    <3>1. slot[s].attempt \in Attempts
      BY <1>1, <2>2 DEF Opens, Queues, Taking
    <3>2. QED
      BY <1>1, <2>2, <3>1 DEF Opens, Queues, Same, Typing
  <2>3. CASE Reports(s)
    <3>1. slot[s].attempt \in Attempts
      BY <1>1, <2>3 DEF Reports, Taking
    <3>2. slot[s].queued \in Attempts
      BY <1>4, <2>3 DEF Reports, SlotRecords
    <3>3. QED
      BY <1>1, <2>3, <3>1, <3>2 DEF Reports, Same, Typing
  <2>4. CASE Leaves(s)
    <3>1. slot[s].attempt \in Attempts
      BY <1>1, <2>4 DEF Leaves, Taking
    <3>2. QED
      BY <1>1, <2>4, <3>1 DEF Leaves, Same, Typing, Datagrams
  <2>5. QED
    BY <1>2, <2>1, <2>2, <2>3, <2>4 DEF ServerStep
<1>6. Typing'
  BY <1>1, <1>2, <1>5 DEF Typing
<1>7. Taking'
  BY <1>1, <1>2, <1>5 DEF Taking
<1>8. QED
  BY <1>3, <1>6, <1>7 DEF TypeInv

LEMMA TypesUnchanged == ASSUME TypeInv, UNCHANGED peersVars PROVE TypeInv'
<1>1. UNCHANGED <<client, verified, slot, uses, connectedPeers, opened, reported, net>>
  BY DEF peersVars, clientVars, serverVars
<1>2. QED
  BY <1>1 DEF TypeInv, Typing, Taking, Counted, ConnectedSlots

LEMMA StepTypes == ASSUME TypeInv, [PeersNext]_peersVars PROVE TypeInv'
  BY ClientKeepsTypes, ServerKeepsTypes, TypesUnchanged DEF PeersNext

LEMMA AlwaysTypes == PeersSpec => []TypeInv
<1>1. TypeInv /\ [PeersNext]_peersVars => TypeInv'
  BY StepTypes
<1>2. QED
  BY <1>1, InitTypes, PTL DEF PeersSpec

\* The peers keep their types, and connectedPeers counts the connected ones, however their
\* connections end.
THEOREM PeersTypeCorrect == PeersSpec => []PeersTypeOK
<1>1. QED
  BY AlwaysTypes, TypesGiven, PTL

-------------------------------------------------------------------------------
(***************************************************************************)
(* What the session IDs are for: a datagram that a peer accepts was sent   *)
(* for the attempt the peer has.  Whoever names a peer and a session of it *)
(* means that attempt; and while the attempt is not reported connected but *)
(* was once before, on a peer a late CONNECT has made, nobody names it.    *)
(***************************************************************************)

\* What opens a peer, or is reported.
Claims == {m \in Sent : m.command \in {"ACKNOWLEDGE", "SEND_RELIABLE"}}

\* Peer p is taken by the client of attempt a, under session x.
Names(p, a, x) ==
    slot[p].state # "DISCONNECTED" /\ slot[p].attempt[1] = a[1] /\ slot[p].in = x

Meant(p, a, x) == Names(p, a, x) => slot[p].attempt = a

\* It will not be reported connected a second time.
Unspent(p, a, x) ==
    Names(p, a, x) /\ slot[p].state = "ACKNOWLEDGING_CONNECT" => slot[p].attempt \notin opened

Matched ==
    /\ \A v \in Told : Meant(v.peer, v.attempt, v.out)
    /\ \A m \in Claims : /\ Meant(m.peer, m.attempt, m.session)
                         /\ Unspent(m.peer, m.attempt, m.session)
    /\ \A c \in Clients : client[c].state = "CONNECTED" =>
           /\ Meant(client[c].peer, Current(c), client[c].out)
           /\ Unspent(client[c].peer, Current(c), client[c].out)

\* No two peers have one attempt.
Apart ==
    \A s, t \in Slots :
        s # t /\ slot[s].state # "DISCONNECTED" /\ slot[t].state # "DISCONNECTED"
        => slot[s].attempt # slot[t].attempt

\* A client is told of an attempt once, before it sends anything for it.
Knows ==
    /\ \A c \in Clients : client[c].state = "CONNECTING" => Current(c) \notin verified
    /\ \A c \in Clients : client[c].state = "CONNECTED" => Current(c) \in verified
    /\ \A a \in verified : a[2] <= client[a[1]].attempt
    /\ \A m \in Claims : m.attempt \in verified

\* A connection has a packet to report once at most.
OnceAt(s) ==
    /\ slot[s].state = "ACKNOWLEDGING_CONNECT" => slot[s].incoming = 0 /\ slot[s].queued = None
    /\ slot[s].state = "CONNECTED" =>
           /\ slot[s].attempt \in opened
           /\ slot[s].queued # None => slot[s].queued = slot[s].attempt /\ slot[s].incoming = 1
           /\ slot[s].incoming = 0 \/ slot[s].queued # None => slot[s].attempt \notin reported

Once == opened \subseteq verified /\ reported \subseteq opened /\ \A s \in Slots : OnceAt(s)

SessionInv == TypeInv /\ Matched /\ Apart /\ Knows /\ Once

LEMMA InitSession == PeersInit => SessionInv
<1> SUFFICES ASSUME PeersInit PROVE SessionInv
  OBVIOUS
<1>1. Told = {} /\ Claims = {}
  BY DEF PeersInit, Told, Sent, Claims
<1>2. Matched /\ Apart /\ Knows
  BY <1>1 DEF PeersInit, Matched, Apart, Knows
<1>3. Once
  BY DEF PeersInit, Once, OnceAt
<1>4. QED
  BY <1>2, <1>3, InitTypes DEF SessionInv

\* The session a peer gets when it is taken is another one.
LEMMA SessionChanges ==
    ASSUME NEW a \in Sessions, NEW h \in Sessions PROVE NextSession(a, h) # h
<1>1. PICK n : n = ((IF a = -1 THEN h ELSE a) + 1) % 4
  OBVIOUS
<1>2. n \in 0 .. 3
  BY <1>1 DEF Sessions
<1>3. ((n + 1) % 4) # n
  BY <1>2
<1>4. NextSession(a, h) = IF n = h THEN (n + 1) % 4 ELSE n
  BY <1>1 DEF NextSession
<1>5. QED
  BY <1>3, <1>4

-------------------------------------------------------------------------------
(* A client's steps keep the invariant.                                    *)

\* What the steps of a client add to what the server told and what clients claim.
LEMMA ClientAdds ==
    ASSUME NEW c \in Clients, ClientStep(c)
    PROVE  /\ Told' = Told
           /\ \A m \in Claims' :
                  \/ m \in Claims
                  \/ /\ client[c].state = "CONNECTED"
                     /\ m.attempt = Current(c) /\ m.peer = client[c].peer
                     /\ m.session = client[c].out
                  \/ \E v \in net :
                         Accepts(c, v) /\ m.attempt = Current(c)
                         /\ m.peer = v.peer /\ m.session = v.out
<1>1. CASE Starts(c)
  BY <1>1 DEF Starts, Told, Sent, Claims, FromClients
<1>2. CASE \E v \in net : Accepts(c, v)
  <2>1. PICK v \in net : Accepts(c, v)
    BY <1>2
  <2>2. PICK e : e = AnswerOf("ACKNOWLEDGE", Current(c), v.peer, v.out)
    OBVIOUS
  <2>3. /\ net' = net \cup {e} /\ e.command = "ACKNOWLEDGE" /\ e.attempt = Current(c)
        /\ e.peer = v.peer /\ e.session = v.out
    BY <2>1, <2>2 DEF Accepts, AnswerOf
  <2>4. Told' = Told
    BY <2>3 DEF Told
  <2>5. \A m \in Claims' : m \in Claims \/ m = e
    BY <2>3 DEF Claims, Sent
  <2>6. QED
    BY <2>1, <2>3, <2>4, <2>5
<1>3. CASE GoesOn(c)
  <2>1. CASE UNCHANGED net
    BY <2>1 DEF Told, Sent, Claims
  <2>2. ASSUME NEW command \in FromClients, Sends(c, command)
        PROVE  /\ Told' = Told
               /\ \A m \in Claims' :
                      \/ m \in Claims
                      \/ /\ client[c].state = "CONNECTED"
                         /\ m.attempt = Current(c) /\ m.peer = client[c].peer
                         /\ m.session = client[c].out
    <3>1. PICK e : e = AnswerOf(command, Current(c), client[c].peer, client[c].out)
      OBVIOUS
    <3>2. /\ net' = net \cup {e} /\ e.command = command /\ e.attempt = Current(c)
          /\ e.peer = client[c].peer /\ e.session = client[c].out
          /\ command # "DISCONNECT" => client[c].state = "CONNECTED"
      BY <2>2, <3>1 DEF Sends, AnswerOf
    <3>3. Told' = Told
      BY <3>2 DEF Told, FromClients
    <3>4. \A m \in Claims' : m \in Claims \/ (m = e /\ command # "DISCONNECT")
      BY <3>2 DEF Claims, Sent
    <3>5. QED
      BY <3>2, <3>3, <3>4
  <2>3. QED
    BY <1>3, <2>1, <2>2 DEF GoesOn
<1>4. QED
  BY <1>1, <1>2, <1>3 DEF ClientStep

\* What a client accepts names no peer that was reported connected for the attempt before.
LEMMA AcceptedIsNew ==
    ASSUME Matched, Knows, Once, NEW c \in Clients, NEW v \in net, Accepts(c, v)
    PROVE  Meant(v.peer, Current(c), v.out) /\ Unspent(v.peer, Current(c), v.out)
<1>1. v \in Told /\ v.attempt = Current(c) /\ client[c].state = "CONNECTING"
  BY DEF Accepts, Told
<1>2. Meant(v.peer, Current(c), v.out)
  BY <1>1 DEF Matched
<1>3. Current(c) \notin opened
  BY <1>1 DEF Knows, Once
<1>4. QED
  BY <1>2, <1>3 DEF Meant, Unspent

\* After a client's step, who is connected was so before or has just accepted an attempt.
LEMMA StillConnected ==
    ASSUME NEW c \in Clients, ClientStep(c), client'[c].state = "CONNECTED"
    PROVE  \/ client'[c] = client[c]
           \/ \E v \in net : /\ Accepts(c, v) /\ client'[c].attempt = client[c].attempt
                             /\ client'[c].peer = v.peer /\ client'[c].out = v.out
<1>1. CASE Starts(c)
  BY <1>1 DEF Starts
<1>2. CASE \E v \in net : Accepts(c, v)
  BY <1>2 DEF Accepts
<1>3. CASE GoesOn(c)
  BY <1>3 DEF GoesOn
<1>4. QED
  BY <1>1, <1>2, <1>3 DEF ClientStep

LEMMA ClientKeepsMatched ==
    ASSUME Matched, Knows, Once, NEW c \in Clients, UNCHANGED serverVars, ClientStep(c),
           \A d \in Clients : d # c => client'[d] = client[d]
    PROVE  Matched'
<1>1. \A p, a, x : /\ Meant(p, a, x)' <=> Meant(p, a, x)
                   /\ Unspent(p, a, x)' <=> Unspent(p, a, x)
  BY DEF Meant, Unspent, Names, serverVars
<1>2. \A v \in Told' : Meant(v.peer, v.attempt, v.out)
  BY ClientAdds DEF Matched
<1>3. \A m \in Claims' : /\ Meant(m.peer, m.attempt, m.session)
                        /\ Unspent(m.peer, m.attempt, m.session)
  <2>1. SUFFICES ASSUME NEW m \in Claims'
                 PROVE  /\ Meant(m.peer, m.attempt, m.session)
                        /\ Unspent(m.peer, m.attempt, m.session)
    OBVIOUS
  <2>2. CASE m \in Claims
    BY <2>2 DEF Matched
  <2>3. CASE /\ client[c].state = "CONNECTED"
             /\ m.attempt = Current(c) /\ m.peer = client[c].peer /\ m.session = client[c].out
    BY <2>3 DEF Matched
  <2>4. CASE \E v \in net : /\ Accepts(c, v) /\ m.attempt = Current(c)
                            /\ m.peer = v.peer /\ m.session = v.out
    BY <2>4, AcceptedIsNew
  <2>5. QED
    BY <2>2, <2>3, <2>4, ClientAdds
<1>4. ASSUME NEW d \in Clients, client'[d].state = "CONNECTED"
      PROVE  /\ Meant(client'[d].peer, Current(d)', client'[d].out)
             /\ Unspent(client'[d].peer, Current(d)', client'[d].out)
  <2>1. CASE client'[d] = client[d]
    <3>1. Current(d)' = Current(d)
      BY <2>1 DEF Current
    <3>2. QED
      BY <1>4, <2>1, <3>1 DEF Matched
  <2>2. CASE client'[d] # client[d]
    <3>1. d = c
      BY <2>2
    <3>2. PICK v \in net : /\ Accepts(c, v) /\ client'[c].attempt = client[c].attempt
                           /\ client'[c].peer = v.peer /\ client'[c].out = v.out
      BY <1>4, <2>2, <3>1, StillConnected
    <3>3. Current(c)' = Current(c)
      BY <3>2 DEF Current
    <3>4. QED
      BY <3>1, <3>2, <3>3, AcceptedIsNew
  <2>3. QED
    BY <2>1, <2>2
<1>5. QED
  BY <1>1, <1>2, <1>3, <1>4 DEF Matched

LEMMA ClientKeepsKnows ==
    ASSUME Typing, Knows, NEW c \in Clients, ClientStep(c), client' \in [Clients -> ClientRecords],
           \A d \in Clients : d # c => client'[d] = client[d]
    PROVE  Knows'
<1>1. \A d \in Clients : d # c => Current(d)' = Current(d) /\ Current(d) # Current(c)
  BY DEF Current
<1>2. \A d \in Clients : client[d].attempt \in Int /\ client'[d].attempt \in Int
  BY DEF Typing, ClientRecords
<1>3. /\ verified \subseteq verified' /\ \A a \in verified : a[1] \in Clients /\ a[2] \in Int
      /\ \A a \in verified' :
             a \in verified \/ (a = Current(c) /\ client'[c].attempt = client[c].attempt)
      /\ \A d \in Clients : client[d].attempt <= client'[d].attempt
  <2>1. \A a \in verified : a[1] \in Clients /\ a[2] \in Int
    BY DEF Typing, Attempts
  <2>2. CASE Starts(c)
    BY <1>2, <2>1, <2>2 DEF Starts
  <2>3. CASE \E v \in net : Accepts(c, v)
    BY <1>2, <2>1, <2>3 DEF Accepts
  <2>4. CASE GoesOn(c)
    BY <1>2, <2>1, <2>4 DEF GoesOn
  <2>5. QED
    BY <2>2, <2>3, <2>4 DEF ClientStep
<1>4. \A a \in verified' : a[2] <= client'[a[1]].attempt
  <2>1. SUFFICES ASSUME NEW a \in verified' PROVE a[2] <= client'[a[1]].attempt
    OBVIOUS
  <2>2. CASE a \in verified
    <3>1. a[2] <= client[a[1]].attempt /\ a[1] \in Clients /\ a[2] \in Int
      BY <1>3, <2>2 DEF Knows
    <3>2. PICK d \in Clients : d = a[1]
      BY <3>1
    <3>3. client[d].attempt <= client'[d].attempt
      BY <1>3
    <3>4. QED
      BY <1>2, <3>1, <3>2, <3>3
  <2>3. CASE a = Current(c) /\ client'[c].attempt = client[c].attempt
    BY <1>2, <2>3 DEF Current
  <2>4. QED
    BY <1>3, <2>2, <2>3
<1>5. \A m \in Claims' : m.attempt \in verified'
  <2>1. SUFFICES ASSUME NEW m \in Claims' PROVE m.attempt \in verified'
    OBVIOUS
  <2>2. CASE m \in Claims
    BY <1>3, <2>2 DEF Knows
  <2>3. CASE client[c].state = "CONNECTED" /\ m.attempt = Current(c)
    BY <1>3, <2>3 DEF Knows
  <2>4. CASE \E v \in net : Accepts(c, v) /\ m.attempt = Current(c)
    BY <2>4 DEF Accepts
  <2>5. QED
    BY <2>2, <2>3, <2>4, ClientAdds
<1>6. ASSUME NEW d \in Clients, client'[d].state = "CONNECTED" PROVE Current(d)' \in verified'
  <2>1. CASE client'[d] = client[d]
    BY <1>3, <1>6, <2>1 DEF Knows, Current
  <2>2. CASE client'[d] # client[d]
    <3>1. d = c
      BY <2>2
    <3>2. PICK v \in net : Accepts(c, v) /\ client'[c].attempt = client[c].attempt
      BY <1>6, <2>2, <3>1, StillConnected
    <3>3. QED
      BY <3>1, <3>2 DEF Accepts, Current
  <2>3. QED
    BY <2>1, <2>2
<1>7. ASSUME NEW d \in Clients, client'[d].state = "CONNECTING" PROVE Current(d)' \notin verified'
  <2>1. CASE d # c
    BY <1>1, <1>3, <1>7, <2>1 DEF Knows
  <2>2. CASE d = c /\ Starts(c)
    <3>1. verified' = verified /\ Current(c)' = <<c, client[c].attempt + 1>>
      BY <2>2 DEF Starts, Current
    <3>2. Current(c)' \notin verified
      <4>1. SUFFICES ASSUME <<c, client[c].attempt + 1>> \in verified PROVE FALSE
        BY <3>1
      <4>2. client[c].attempt + 1 <= client[c].attempt
        BY <4>1 DEF Knows
      <4>3. QED
        BY <1>2, <4>2
    <3>3. QED
      BY <2>2, <3>1, <3>2
  <2>3. CASE d = c /\ \E v \in net : Accepts(c, v)
    BY <1>7, <2>3 DEF Accepts
  <2>4. CASE d = c /\ GoesOn(c)
    <3>1. client'[c] = client[c] /\ verified' = verified /\ Current(c)' = Current(c)
      BY <1>7, <2>4 DEF GoesOn, Current
    <3>2. QED
      BY <1>7, <2>4, <3>1 DEF Knows
  <2>5. QED
    BY <2>1, <2>2, <2>3, <2>4 DEF ClientStep
<1>8. QED
  BY <1>4, <1>5, <1>6, <1>7 DEF Knows

LEMMA ClientKeepsSession ==
    ASSUME SessionInv, NEW c \in Clients, ClientNext(c) PROVE SessionInv'
<1>1. TypeInv /\ Typing /\ Matched /\ Apart /\ Knows /\ Once
  BY DEF SessionInv, TypeInv
<1>2. /\ UNCHANGED serverVars
      /\ client' \in [Clients -> ClientRecords]
      /\ \A d \in Clients : d # c => client'[d] = client[d]
      /\ ClientStep(c)
  BY <1>1, ClientSteps
<1>3. TypeInv'
  BY <1>1, ClientKeepsTypes
<1>4. Matched'
  BY <1>1, <1>2, ClientKeepsMatched
<1>5. Knows'
  BY <1>1, <1>2, ClientKeepsKnows
<1>6. verified \subseteq verified'
  BY <1>2 DEF ClientStep, Starts, Accepts, GoesOn
<1>7. Apart' /\ Once'
  BY <1>1, <1>2, <1>6 DEF Apart, Once, OnceAt, serverVars
<1>8. QED
  BY <1>3, <1>4, <1>5, <1>7 DEF SessionInv

-------------------------------------------------------------------------------
(* The server's steps keep it.                                             *)

\* When a peer is taken, nothing that was told or sent before names the session it gets, and
\* no client that is connected: that is assumed of the network and of the clients.
LEMMA NobodyNames ==
    ASSUME Typing, NEW s \in Slots, NEW m \in net, Takes(s, m), UNCHANGED client
    PROVE  /\ \A v \in Told' : \/ v.peer = s /\ v.attempt = slot'[s].attempt
                               \/ v \in Told /\ (v.peer = s => ~Names(s, v.attempt, v.out)')
           /\ \A n \in Claims' : /\ n \in Claims
                                 /\ n.peer = s => ~Names(s, n.attempt, n.session)'
           /\ \A c \in Clients : client[c].state = "CONNECTED" /\ client[c].peer = s
                                 => ~Names(s, Current(c), client[c].out)'
<1>1. PICK x \in Sessions : x = slot'[s].in /\ x # slot[s].in
  <2>1. m \in Connects
    BY Commands DEF Takes
  <2>2. m.out \in Sessions /\ slot[s].in \in Sessions
    BY <2>1 DEF Typing, SlotRecords, Connects
  <2>3. NextSession(m.out, slot[s].in) \in Sessions /\ NextSession(m.out, slot[s].in) # slot[s].in
    BY <2>2, SessionsNext, SessionChanges
  <2>4. QED
    BY <2>3 DEF Takes
<1>2. PICK c : c = m.attempt[1] /\ c = slot'[s].attempt[1]
  BY DEF Takes
<1>3. PICK e : /\ net' = StillArrives(c, s, x) \cup {e}
               /\ e.command = "VERIFY_CONNECT" /\ e.attempt = m.attempt /\ e.peer = s
  <2>1. PICK in \in Sessions :
            net' = StillArrives(c, s, x)
                   \cup {[command |-> "VERIFY_CONNECT", attempt |-> m.attempt, peer |-> s,
                          in |-> in, out |-> x]}
    BY <1>1, <1>2 DEF Takes
  <2>2. PICK e : e = [command |-> "VERIFY_CONNECT", attempt |-> m.attempt, peer |-> s,
                      in |-> in, out |-> x]
    OBVIOUS
  <2>3. QED
    BY <2>1, <2>2
<1>4. \A n \in net' : n = e \/ (n \in net /\ ~UnderSession(n, c, s, x))
  BY <1>1, <1>3 DEF StillArrives
<1>5. \A a, y : Names(s, a, y)' => a[1] = c /\ y = x
  BY <1>1, <1>2 DEF Names
<1>6. ASSUME NEW v \in Told'
      PROVE  \/ v.peer = s /\ v.attempt = slot'[s].attempt
             \/ v \in Told /\ (v.peer = s => ~Names(s, v.attempt, v.out)')
  <2>1. v \in net' /\ v.command = "VERIFY_CONNECT"
    BY <1>6 DEF Told
  <2>2. CASE v = e
    BY <1>3, <2>2 DEF Takes
  <2>3. CASE v \in net /\ ~UnderSession(v, c, s, x)
    BY <1>5, <2>1, <2>3 DEF Told, UnderSession
  <2>4. QED
    BY <1>4, <2>1, <2>2, <2>3
<1>7. ASSUME NEW n \in Claims'
      PROVE  n \in Claims /\ (n.peer = s => ~Names(s, n.attempt, n.session)')
  <2>1. n \in net' /\ n.command \in FromClients /\ n.command \in {"ACKNOWLEDGE", "SEND_RELIABLE"}
    BY <1>7 DEF Claims, Sent
  <2>2. n \in net /\ ~UnderSession(n, c, s, x)
    BY <1>3, <1>4, <2>1
  <2>3. QED
    BY <1>5, <2>1, <2>2 DEF Claims, Sent, UnderSession
<1>8. ASSUME NEW d \in Clients, client[d].state = "CONNECTED", client[d].peer = s
      PROVE  ~Names(s, Current(d), client[d].out)'
  <2>1. EndKnown(c, s, x)
    BY <1>1, <1>2 DEF Takes
  <2>2. SUFFICES ASSUME Names(s, Current(d), client[d].out)' PROVE FALSE
    OBVIOUS
  <2>3. d = c /\ client[d].out = x
    BY <1>5, <2>2 DEF Current
  <2>4. QED
    BY <1>1, <1>8, <2>1, <2>3 DEF EndKnown
<1>9. QED
  BY <1>6, <1>7, <1>8

\* Every other step leaves the peer with its attempt, and nothing new is told or claimed.
Stays(s) ==
    /\ Same(s) /\ slot[s].state # "DISCONNECTED" /\ slot'[s].state # "ACKNOWLEDGING_CONNECT"
    /\ Told' = Told /\ Claims' = Claims

LEMMA TakesOrStays ==
    ASSUME NEW s \in Slots, ServerStep(s) PROVE (\E m \in net : Takes(s, m)) \/ Stays(s)
<1>1. CASE \E m \in net : Opens(s, m) \/ Queues(s, m)
  BY <1>1 DEF Opens, Queues, Stays, Told, Sent, Claims
<1>2. CASE Reports(s)
  BY <1>2 DEF Reports, Stays, Told, Sent, Claims
<1>3. CASE Leaves(s)
  BY <1>3 DEF Leaves, Stays, Claims
<1>4. QED
  BY <1>1, <1>2, <1>3 DEF ServerStep

\* A peer whose session is claimed has the attempt it is claimed for.
LEMMA ClaimIsOwn ==
    ASSUME Matched, NEW s \in Slots, NEW m \in Claims, Accepted(m, s)
    PROVE  Names(s, m.attempt, m.session) /\ m.peer = s /\ m.attempt = slot[s].attempt
<1>1. Names(s, m.attempt, m.session) /\ m.peer = s
  BY DEF Accepted, Names
<1>2. QED
  BY <1>1 DEF Matched, Meant

\* An attempt that a peer is about to be reported connected to was not reported before.
LEMMA OpensNew ==
    ASSUME Matched, Knows, NEW s \in Slots, NEW m \in net, Opens(s, m)
    PROVE  slot[s].attempt \in verified \ opened
<1>1. m \in Claims /\ Accepted(m, s) /\ slot[s].state = "ACKNOWLEDGING_CONNECT"
  BY DEF Opens, Claims
<1>2. Names(s, m.attempt, m.session) /\ m.peer = s /\ m.attempt = slot[s].attempt
  BY <1>1, ClaimIsOwn
<1>3. slot[s].attempt \in verified
  BY <1>1, <1>2 DEF Knows
<1>4. slot[s].attempt \notin opened
  BY <1>1, <1>2 DEF Matched, Unspent
<1>5. QED
  BY <1>3, <1>4

\* The attempts reported connected grow by the one of the peer that moves.
LEMMA OpenedGrows ==
    ASSUME NEW s \in Slots, ServerStep(s)
    PROVE  \/ opened' = opened
           \/ slot[s].state # "DISCONNECTED" /\ opened' = opened \cup {slot[s].attempt}
  BY DEF ServerStep, Takes, Opens, Queues, Reports, Leaves

LEMMA ServerKeepsApart ==
    ASSUME Apart, NEW s \in Slots, ServerSteps(s) PROVE Apart'
<1>1. ServerStep(s) /\ \A t \in Slots : t # s => slot'[t] = slot[t]
  BY DEF ServerSteps
<1>2. CASE \E m \in net : Takes(s, m)
  BY <1>1, <1>2 DEF Takes, Apart
<1>3. CASE Stays(s)
  BY <1>1, <1>3 DEF Stays, Same, Apart
<1>4. QED
  BY <1>1, <1>2, <1>3, TakesOrStays

\* The peers that do not move.
LEMMA OthersMatched ==
    ASSUME Apart, NEW s \in Slots, ServerSteps(s), NEW t \in Slots, t # s, NEW a, NEW x
    PROVE  /\ Meant(t, a, x) => Meant(t, a, x)'
           /\ Unspent(t, a, x) => Unspent(t, a, x)'
<1>1. slot'[t] = slot[t] /\ ServerStep(s)
  BY DEF ServerSteps
<1>2. Meant(t, a, x)' <=> Meant(t, a, x)
  BY <1>1 DEF Meant, Names
<1>3. slot[t].state # "DISCONNECTED" => (slot[t].attempt \in opened' <=> slot[t].attempt \in opened)
  BY <1>1, OpenedGrows DEF Apart
<1>4. QED
  BY <1>1, <1>2, <1>3 DEF Unspent, Names

\* The peer that moves, when it keeps its attempt.
LEMMA OwnMatched ==
    ASSUME NEW s \in Slots, Stays(s), NEW a, NEW x
    PROVE  (Meant(s, a, x) => Meant(s, a, x)') /\ Unspent(s, a, x)'
  BY DEF Stays, Same, Meant, Unspent, Names

LEMMA ServerKeepsMatched ==
    ASSUME Typing, Taking, Apart, Matched, NEW s \in Slots, ServerSteps(s) PROVE Matched'
<1>1. ServerStep(s) /\ UNCHANGED <<client, verified>> /\ \A c \in Clients : Current(c)' = Current(c)
  BY DEF ServerSteps, clientVars, Current
<1>2. /\ \A v \in Told : v.peer \in Slots
      /\ \A n \in Claims : n.peer \in Slots
      /\ \A c \in Clients : client[c].state = "CONNECTED" => client[c].peer \in Slots
  <2>1. \A v \in Told : v.peer \in Slots
    BY Commands DEF Told, Verifies
  <2>2. \A n \in Claims : n.peer \in Slots
    BY Commands DEF Claims, Sent, Answers
  <2>3. QED
    BY <2>1, <2>2 DEF Taking
<1>3. ASSUME NEW p \in Slots, NEW a, NEW x,
             p = s => (Meant(s, a, x) /\ Stays(s)) \/ ~Names(s, a, x)'
      PROVE  /\ Meant(p, a, x) => Meant(p, a, x)'
             /\ Unspent(p, a, x) => Unspent(p, a, x)'
  <2>1. CASE p # s
    BY <1>3, <2>1, OthersMatched
  <2>2. CASE p = s /\ Stays(s)
    BY <2>2, OwnMatched
  <2>3. CASE p = s /\ ~Names(s, a, x)'
    BY <2>3 DEF Meant, Unspent
  <2>4. QED
    BY <1>3, <2>1, <2>2, <2>3
<1>4. CASE Stays(s)
  <2>1. Told' = Told /\ Claims' = Claims
    BY <1>4 DEF Stays
  <2>2. \A v \in Told : Meant(v.peer, v.attempt, v.out)'
    BY <1>2, <1>3, <1>4 DEF Matched
  <2>3. \A m \in Claims : /\ Meant(m.peer, m.attempt, m.session)'
                         /\ Unspent(m.peer, m.attempt, m.session)'
    BY <1>2, <1>3, <1>4 DEF Matched
  <2>4. \A c \in Clients : client[c].state = "CONNECTED" =>
            /\ Meant(client[c].peer, Current(c), client[c].out)'
            /\ Unspent(client[c].peer, Current(c), client[c].out)'
    BY <1>1, <1>2, <1>3, <1>4 DEF Matched
  <2>5. QED
    BY <1>1, <2>1, <2>2, <2>3, <2>4 DEF Matched
<1>5. CASE \E m \in net : Takes(s, m)
  <2>1. PICK m \in net : Takes(s, m)
    BY <1>5
  <2>2. \A v \in Told' : Meant(v.peer, v.attempt, v.out)'
    BY <1>1, <1>2, <1>3, <2>1, NobodyNames DEF Matched, Meant
  <2>3. \A n \in Claims' : /\ Meant(n.peer, n.attempt, n.session)'
                          /\ Unspent(n.peer, n.attempt, n.session)'
    BY <1>1, <1>2, <1>3, <2>1, NobodyNames DEF Matched
  <2>4. \A c \in Clients : client[c].state = "CONNECTED" =>
            /\ Meant(client[c].peer, Current(c), client[c].out)'
            /\ Unspent(client[c].peer, Current(c), client[c].out)'
    BY <1>1, <1>2, <1>3, <2>1, NobodyNames DEF Matched
  <2>5. QED
    BY <1>1, <2>2, <2>3, <2>4 DEF Matched
<1>6. QED
  BY <1>1, <1>4, <1>5, TakesOrStays

\* Nothing that clients know changes.
LEMMA ServerKeepsKnows ==
    ASSUME Typing, Knows, NEW s \in Slots, ServerSteps(s) PROVE Knows'
<1>1. UNCHANGED <<client, verified>> /\ \A c \in Clients : Current(c)' = Current(c)
  BY DEF ServerSteps, clientVars, Current
<1>2. Claims' \subseteq Claims
  BY <1>1, TakesOrStays, NobodyNames DEF ServerSteps, Stays
<1>3. QED
  BY <1>1, <1>2 DEF Knows

LEMMA ServerKeepsOnce ==
    ASSUME Matched, Apart, Knows, Once, NEW s \in Slots, ServerSteps(s)
    PROVE  Once'
<1>1. /\ ServerStep(s) /\ UNCHANGED verified
      /\ \A t \in Slots : t # s => slot'[t] = slot[t]
  BY DEF ServerSteps, clientVars
<1>2. slot'[s].incoming \in {0, 1}
  BY DEF ServerSteps, SlotRecords
<1>3. ASSUME opened \subseteq opened', reported' \subseteq reported \cup {slot[s].attempt},
             slot[s].state # "DISCONNECTED" \/ reported' = reported
      PROVE  \A t \in Slots : t # s => OnceAt(t)'
  <2>1. SUFFICES ASSUME NEW t \in Slots, t # s PROVE OnceAt(t)'
    OBVIOUS
  <2>2. OnceAt(t)
    BY DEF Once, OnceAt
  <2>3. slot[t].state = "CONNECTED" /\ slot[t].attempt \in reported'
        => slot[t].attempt \in reported
    BY <1>3, <2>1 DEF Apart
  <2>4. QED
    BY <1>1, <1>3, <2>1, <2>2, <2>3 DEF OnceAt
<1>4. CASE \E m \in net : Takes(s, m)
  <2>1. OnceAt(s)' /\ opened' = opened /\ reported' = reported
    BY <1>4 DEF Takes, OnceAt
  <2>2. QED
    BY <1>1, <1>3, <2>1 DEF Once, OnceAt
<1>5. CASE \E m \in net : Opens(s, m)
  <2>1. PICK m \in net : Opens(s, m)
    BY <1>5
  <2>2. slot[s].attempt \in verified \ opened /\ slot[s].incoming = 0 /\ slot[s].queued = None
    BY <2>1, OpensNew DEF Opens, Once, OnceAt
  <2>3. opened' = opened \cup {slot[s].attempt} /\ reported' = reported
    BY <2>1 DEF Opens
  <2>4. OnceAt(s)'
    BY <2>1, <2>2, <2>3 DEF Opens, Same, OnceAt, Once
  <2>5. opened' \subseteq verified' /\ reported' \subseteq opened'
    BY <1>1, <2>2, <2>3 DEF Once
  <2>6. QED
    BY <1>3, <2>3, <2>4, <2>5 DEF Once, OnceAt
<1>6. CASE \E m \in net : Queues(s, m)
  <2>1. PICK m \in net : Queues(s, m)
    BY <1>6
  <2>2. m \in Claims /\ Accepted(m, s)
    BY <2>1 DEF Queues, Claims
  <2>3. slot'[s].queued = slot[s].attempt /\ opened' = opened /\ reported' = reported
    BY <2>1, <2>2, ClaimIsOwn DEF Queues
  <2>4. OnceAt(s)'
    BY <2>1, <2>3 DEF Queues, Same, OnceAt, Once
  <2>5. QED
    BY <1>1, <1>3, <2>3, <2>4 DEF Once, OnceAt
<1>7. CASE Reports(s)
  <2>1. slot[s].queued = slot[s].attempt /\ slot[s].incoming = 1 /\ slot[s].attempt \in opened
    BY <1>7 DEF Reports, Once, OnceAt
  <2>2. opened' = opened /\ reported' = reported \cup {slot[s].attempt}
    BY <1>7, <2>1 DEF Reports
  <2>3. OnceAt(s)'
    BY <1>7, <2>1, <2>2 DEF Reports, Same, OnceAt
  <2>4. slot[s].state # "DISCONNECTED"
    BY <1>7 DEF Reports
  <2>5. QED
    BY <1>1, <1>3, <2>1, <2>2, <2>3, <2>4 DEF Once, OnceAt
<1>8. CASE Leaves(s)
  <2>1. OnceAt(s)' /\ opened' = opened /\ reported' = reported
    BY <1>8 DEF Leaves, OnceAt
  <2>2. QED
    BY <1>1, <1>3, <2>1 DEF Once, OnceAt
<1>9. QED
  BY <1>1, <1>4, <1>5, <1>6, <1>7, <1>8 DEF ServerStep

LEMMA ServerKeepsSession ==
    ASSUME SessionInv, NEW s \in Slots, ServerNext(s) PROVE SessionInv'
<1>1. TypeInv /\ Typing /\ Taking /\ Matched /\ Apart /\ Knows /\ Once
  BY DEF SessionInv, TypeInv
<1>2. ServerSteps(s)
  BY <1>1, ServerDoes
<1>3. TypeInv'
  BY <1>1, ServerKeepsTypes
<1>4. Matched' /\ Apart'
  BY <1>1, <1>2, ServerKeepsMatched, ServerKeepsApart
<1>5. Knows' /\ Once'
  BY <1>1, <1>2, ServerKeepsKnows, ServerKeepsOnce
<1>6. QED
  BY <1>3, <1>4, <1>5 DEF SessionInv

LEMMA SessionUnchanged == ASSUME SessionInv, UNCHANGED peersVars PROVE SessionInv'
<1>1. UNCHANGED <<client, verified, slot, uses, connectedPeers, opened, reported, net>>
  BY DEF peersVars, clientVars, serverVars
<1>2. Told' = Told /\ Claims' = Claims /\ \A c \in Clients : Current(c)' = Current(c)
  BY <1>1 DEF Told, Sent, Claims, Current
<1>3. TypeInv'
  BY TypesUnchanged DEF SessionInv
<1>4. Matched'
  BY <1>1, <1>2 DEF SessionInv, Matched, Meant, Unspent, Names
<1>5. Apart' /\ Knows' /\ Once'
  BY <1>1, <1>2 DEF SessionInv, Apart, Knows, Once, OnceAt
<1>6. QED
  BY <1>3, <1>4, <1>5 DEF SessionInv

LEMMA StepSession == ASSUME SessionInv, [PeersNext]_peersVars PROVE SessionInv'
  BY ClientKeepsSession, ServerKeepsSession, SessionUnchanged DEF PeersNext

LEMMA AlwaysSession == PeersSpec => []SessionInv
<1>1. SessionInv /\ [PeersNext]_peersVars => SessionInv'
  BY StepSession
<1>2. QED
  BY <1>1, InitSession, PTL DEF PeersSpec

\* The server is told of no connection that the client has not accepted: no acknowledgement of
\* an earlier attempt counts for it, however often the session IDs of a peer come around, as
\* long as none does while the network or the client still has it.
THEOREM OpensOnlyVerified == PeersSpec => []OpenedIsVerified
<1>1. SessionInv => OpenedIsVerified
  BY DEF SessionInv, Once, OpenedIsVerified
<1>2. QED
  BY <1>1, AlwaysSession, PTL

-------------------------------------------------------------------------------
(***************************************************************************)
(* The events: every step reports a connection, a packet, an end or        *)
(* nothing, of one peer.                                                   *)
(***************************************************************************)
HolderOf(s) ==
    IF slot[s].state \in {"DISCONNECTED", "ACKNOWLEDGING_CONNECT"} THEN None ELSE slot[s].attempt
Holders == [s \in Slots |-> HolderOf(s)]

LEMMA InitEvents == PeersInit => Events!EventsInit
  BY DEF PeersInit, Events!EventsInit

\* A step of the events, from what the peer that moves holds before and after it.
Event(s) ==
    \/ /\ HolderOf(s) = None /\ HolderOf(s)' \in Attempts \ opened
       /\ opened' = opened \cup {HolderOf(s)'} /\ UNCHANGED reported
    \/ /\ HolderOf(s) \in Attempts \ reported /\ HolderOf(s)' = HolderOf(s)
       /\ reported' = reported \cup {HolderOf(s)} /\ UNCHANGED opened
    \/ /\ HolderOf(s) # None /\ HolderOf(s)' = None
       /\ UNCHANGED <<opened, reported>>
    \/ /\ HolderOf(s)' = HolderOf(s)
       /\ UNCHANGED <<opened, reported>>

LEMMA EventOfStep ==
    ASSUME SessionInv, NEW s \in Slots, ServerSteps(s) PROVE Event(s)
<1>1. Typing /\ Taking /\ Matched /\ Knows /\ Once
  BY DEF SessionInv, TypeInv
<1>2. slot[s].state # "DISCONNECTED" => slot[s].attempt \in Attempts /\ slot[s].attempt # None
  BY <1>1, Numbers DEF Taking
<1>3. CASE \E m \in net : Takes(s, m)
  BY <1>3 DEF Takes, HolderOf, Event
<1>4. CASE \E m \in net : Opens(s, m)
  <2>1. slot[s].attempt \in Attempts \ opened
    BY <1>1, <1>2, <1>4, OpensNew DEF Opens
  <2>2. QED
    BY <1>4, <2>1 DEF Opens, Same, HolderOf, Event
<1>5. CASE \E m \in net : Queues(s, m)
  BY <1>5 DEF Queues, Same, HolderOf, Event
<1>6. CASE Reports(s)
  <2>1. slot[s].queued = slot[s].attempt /\ slot[s].attempt \in Attempts \ reported
    BY <1>1, <1>2, <1>6 DEF Reports, Once, OnceAt
  <2>2. QED
    BY <1>6, <2>1 DEF Reports, Same, HolderOf, Event
<1>7. CASE Leaves(s)
  BY <1>2, <1>7 DEF Leaves, Same, HolderOf, Event
<1>8. QED
  BY <1>3, <1>4, <1>5, <1>6, <1>7 DEF ServerSteps, ServerStep

LEMMA StepEvents ==
    ASSUME SessionInv, [PeersNext]_peersVars
    PROVE  [\E s \in Slots : Events!Connected(s) \/ Events!Received(s) \/ Events!Disconnected(s)]_
               (Events!eventVars)
<1>1. CASE UNCHANGED serverVars
  BY <1>1 DEF serverVars, Events!eventVars
<1>2. ASSUME NEW s \in Slots, ServerNext(s)
      PROVE  [Events!Connected(s) \/ Events!Received(s) \/ Events!Disconnected(s)]_
                 (Events!eventVars)
  <2>1. ServerSteps(s) /\ Event(s)
    BY <1>2, ServerDoes, EventOfStep DEF SessionInv, TypeInv
  <2>2. PICK h, k : h = Holders /\ k = Holders'
    OBVIOUS
  <2>3. h[s] = HolderOf(s) /\ k = [h EXCEPT ![s] = HolderOf(s)']
    <3>1. \A t \in Slots : t # s => HolderOf(t)' = HolderOf(t)
      BY <2>1 DEF ServerSteps, HolderOf
    <3>2. QED
      BY <2>2, <3>1 DEF Holders
  <2>4. CASE /\ HolderOf(s) = None /\ HolderOf(s)' \in Attempts \ opened
             /\ opened' = opened \cup {HolderOf(s)'} /\ UNCHANGED reported
    BY <2>2, <2>3, <2>4 DEF Holders, HolderOf, Events!Connected
  <2>5. CASE /\ HolderOf(s) \in Attempts \ reported /\ HolderOf(s)' = HolderOf(s)
             /\ reported' = reported \cup {HolderOf(s)} /\ UNCHANGED opened
    BY <2>2, <2>3, <2>5 DEF Holders, HolderOf, Events!Received
  <2>6. CASE /\ HolderOf(s) # None /\ HolderOf(s)' = None
             /\ UNCHANGED <<opened, reported>>
    BY <2>2, <2>3, <2>6 DEF Holders, HolderOf, Events!Disconnected
  <2>7. CASE /\ HolderOf(s)' = HolderOf(s)
             /\ UNCHANGED <<opened, reported>>
    BY <2>2, <2>3, <2>7 DEF Holders, HolderOf, Events!eventVars
  <2>8. QED
    BY <2>1, <2>4, <2>5, <2>6, <2>7 DEF Event
<1>3. ASSUME NEW c \in Clients, ClientNext(c) PROVE UNCHANGED serverVars
  BY <1>3, ClientSteps DEF SessionInv, TypeInv
<1>4. QED
  BY <1>1, <1>2, <1>3 DEF PeersNext, peersVars

\* The peers of the server implement what the event loop is promised about them, for any
\* number of connections: none and no packet is reported twice, and none reaches a peer that
\* has another connection by then.
THEOREM PeersImplementEvents == PeersSpec => ImplementsEvents
<1>1. SessionInv /\ [PeersNext]_peersVars =>
          [\E s \in Slots : Events!Connected(s) \/ Events!Received(s) \/ Events!Disconnected(s)]_
              (Events!eventVars)
  BY StepEvents
<1>2. QED
  BY <1>1, InitEvents, AlwaysSession, PTL DEF PeersSpec, ImplementsEvents, Events!EventsSpec
===============================================================================
