-------------------------------- MODULE EnetPeers --------------------------------
(***************************************************************************)
(* How ENet peers connect and disconnect: the peers of a server's host,    *)
(* and clients with one peer each, as the same library runs them.          *)
(*                                                                         *)
(* A client connects several times, one attempt after the other.  The      *)
(* network keeps the datagrams: one may arrive late, never, more than once *)
(* and in any order.  The session IDs of a peer have 2 bits and come       *)
(* around as it is taken again and again.  One thing is assumed of that:   *)
(* neither a datagram nor a client's end of a connection outlives the      *)
(* return of the session ID it has (StillArrives, EndKnown).               *)
(*                                                                         *)
(* A server's host is serviced with an event (Server.cpp), so connections  *)
(* and time-outs are reported at once, and the server ends no connection   *)
(* itself.  Channels are EnetReliable's: here an attempt sends one packet. *)
(***************************************************************************)
EXTENDS Integers, FiniteSets

CONSTANTS
    Clients,
    SlotCount,   \* peerCount of the server's host
    MaxAttempts, \* bound: attempts of the clients together
    MaxUses      \* bound: how often peers of the server are taken, a late CONNECT included

ASSUME PeersAssumption ==
    IsFiniteSet(Clients) /\ SlotCount \in Nat \ {0} /\ MaxAttempts \in Nat /\ MaxUses \in Nat

VARIABLES
    slot,           \* the server's peers: state, attempt (address and connectID), session
                    \* IDs, incoming (number of the last packet), queued (not reported)
    connectedPeers, \* of the server's host
    client,         \* each client's peer: state, attempt, outgoingPeerID, session IDs
    uses,           \* how often peers of the server were taken
    net,            \* the datagrams that may still arrive
    verified,       \* history: the attempts a client was told are connected
    opened,         \* history: the attempts the server was told are connected
    reported        \* history: the packets the server was given

clientVars == <<client, verified>>
serverVars == <<slot, uses, connectedPeers, opened, reported>>
peersVars == <<clientVars, serverVars, net>>

Slots == 0 .. SlotCount - 1
None == <<>>
Attempts == Clients \X (1 .. MaxAttempts)
Sessions == -1 .. 3  \* -1: 0xFF, no session yet

\* connectedPeers counts the connected peers, however their connections ended.
PeersTypeOK ==
    /\ slot \in [Slots -> [state : {"DISCONNECTED", "ACKNOWLEDGING_CONNECT", "CONNECTED",
                                    "ACKNOWLEDGING_DISCONNECT", "ZOMBIE"},
                           attempt : Attempts \cup {None}, in : Sessions, out : Sessions,
                           incoming : {0, 1}, queued : Attempts \cup {None}]]
    /\ connectedPeers = Cardinality({s \in Slots : slot[s].state = "CONNECTED"})
    /\ uses \in 0 .. MaxUses
    /\ client \in [Clients -> [state : {"DISCONNECTED", "CONNECTING", "CONNECTED",
                                        "DISCONNECTING", "ZOMBIE"},
                               attempt : 0 .. MaxAttempts, peer : Slots \cup {-1},
                               in : Sessions, out : Sessions]]
    /\ verified \subseteq Attempts /\ opened \subseteq Attempts /\ reported \subseteq Attempts

PeersInit ==
    /\ slot = [s \in Slots |-> [state |-> "DISCONNECTED", attempt |-> None, in |-> -1, out |-> -1,
                                incoming |-> 0, queued |-> None]]
    /\ connectedPeers = 0 /\ uses = 0
    /\ client = [c \in Clients |-> [state |-> "DISCONNECTED", attempt |-> 0, peer |-> -1,
                                    in |-> -1, out |-> -1]]
    /\ net = {} /\ verified = {} /\ opened = {} /\ reported = {}

\* What a client sends to the peer it was told of, with the session of the receiver.
FromClients == {"ACKNOWLEDGE", "SEND_RELIABLE", "DISCONNECT", "DISCONNECT_UNSEQUENCED"}

ToServer(c, command) ==
    [command |-> command, attempt |-> <<c, client[c].attempt>>,
     peer |-> client[c].peer, session |-> client[c].out]

-------------------------------------------------------------------------------
(* Clients.                                                                *)

\* enet_host_connect
Connect(c) ==
    /\ client[c].state = "DISCONNECTED"
    /\ Cardinality({a \in Attempts : a[2] <= client[a[1]].attempt}) < MaxAttempts
    /\ client' = [client EXCEPT ![c].state = "CONNECTING", ![c].attempt = @ + 1]
    /\ net' = net \cup {[command |-> "CONNECT", attempt |-> <<c, client[c].attempt + 1>>,
                         in |-> client[c].in, out |-> client[c].out]}
    /\ UNCHANGED <<verified, serverVars>>

\* enet_peer_reset keeps the session IDs.
ClientReset(c) == client' = [client EXCEPT ![c].state = "DISCONNECTED", ![c].peer = -1]

\* enet_protocol_handle_verify_connect
HandleVerifyConnect(c, m) ==
    /\ m.command = "VERIFY_CONNECT" /\ m.attempt[1] = c
    /\ client[c].state = "CONNECTING"
    /\ IF m.attempt[2] = client[c].attempt
       THEN /\ client' = [client EXCEPT ![c].state = "CONNECTED", ![c].peer = m.peer,
                                        ![c].in = m.in, ![c].out = m.out]
            /\ verified' = verified \cup {m.attempt}
            /\ net' = net \cup {ToServer(c, "ACKNOWLEDGE")'}
       ELSE client' = [client EXCEPT ![c].state = "ZOMBIE"] /\ UNCHANGED <<verified, net>>
    /\ UNCHANGED serverVars

\* A peer that is connected only acknowledges the command, of whatever attempt it is.
AcknowledgeAgain(c, m) ==
    /\ m.command = "VERIFY_CONNECT" /\ m.attempt[1] = c
    /\ client[c].state = "CONNECTED"
    /\ m.in = client[c].in
    /\ net' = net \cup {ToServer(c, "ACKNOWLEDGE")}
    /\ UNCHANGED <<clientVars, serverVars>>

SendPacket(c) ==
    /\ client[c].state = "CONNECTED"
    /\ net' = net \cup {ToServer(c, "SEND_RELIABLE")}
    /\ UNCHANGED <<clientVars, serverVars>>

\* enet_peer_disconnect of a connected peer, and the command sent again
Disconnect(c) ==
    /\ client[c].state \in {"CONNECTED", "DISCONNECTING"}
    /\ client' = [client EXCEPT ![c].state = "DISCONNECTING"]
    /\ net' = net \cup {ToServer(c, "DISCONNECT")}
    /\ UNCHANGED <<verified, serverVars>>

\* enet_peer_disconnect_now, and enet_peer_disconnect while connecting: what that sends
\* has no peer ID yet, and the server drops it.
DisconnectNow(c) ==
    /\ client[c].state \in {"CONNECTING", "CONNECTED"}
    /\ ClientReset(c)
    /\ net' = IF client[c].state = "CONNECTED"
              THEN net \cup {ToServer(c, "DISCONNECT_UNSEQUENCED")} ELSE net
    /\ UNCHANGED <<verified, serverVars>>

\* The server has acknowledged DISCONNECT.
HandleDisconnected(c, m) ==
    /\ m.command = "ACKNOWLEDGE_DISCONNECT" /\ m.attempt[1] = c
    /\ client[c].state = "DISCONNECTING"
    /\ m.session = client[c].in
    /\ ClientReset(c)
    /\ UNCHANGED <<verified, serverVars, net>>

\* The server has not answered for too long, or the client dispatches the end of the attempt.
ClientEnds(c) ==
    /\ client[c].state # "DISCONNECTED"
    /\ ClientReset(c)
    /\ UNCHANGED <<verified, serverVars, net>>

-------------------------------------------------------------------------------
(* The server's host.                                                      *)

\* Mutant of NextSession: the session stays what it was.
SameSession(asked, held) == IF held = -1 THEN 0 ELSE held

\* The session ID of a new connection: after the client's last one, and not the peer's.
NextSession(asked, held) ==
    LET next == ((IF asked = -1 THEN held ELSE asked) + 1) % 4
    IN IF next = held THEN (next + 1) % 4 ELSE next

\* What client c and peer s told each other under a session ID of the peer.
UnderSession(m, c, s, session) ==
    /\ m.attempt[1] = c
    /\ \/ m.command = "VERIFY_CONNECT" /\ m.peer = s /\ m.out = session
       \/ m.command \in FromClients /\ m.peer = s /\ m.session = session

\* When a peer gets an ID back that it had before its last one, the network holds nothing
\* of the client's any more that carries it ...
StillArrives(c, s, session) ==
    {m \in net : UnderSession(m, c, s, session) => session = slot[s].in}

\* ... and the client does not take itself to be connected under it any more.
EndKnown(c, s, session) ==
    client[c].state = "CONNECTED" /\ client[c].peer = s /\ client[c].out = session
    => session = slot[s].in

\* enet_protocol_handle_connect: the first free peer is taken, unless the command is a
\* duplicate of the one that made a peer.
HandleConnect(m, s) ==
    LET in == NextSession(m.out, slot[s].in)
        out == NextSession(m.in, slot[s].out)
    IN
    /\ m.command = "CONNECT"
    /\ \A t \in Slots : slot[t].state # "DISCONNECTED" => slot[t].attempt # m.attempt
    /\ slot[s].state = "DISCONNECTED"
    /\ EndKnown(m.attempt[1], s, in)
    /\ uses < MaxUses
    /\ uses' = uses + 1
    /\ \A t \in 0 .. s - 1 : slot[t].state # "DISCONNECTED"
    /\ slot' = [slot EXCEPT ![s] = [state |-> "ACKNOWLEDGING_CONNECT", attempt |-> m.attempt,
                                    in |-> in, out |-> out, incoming |-> 0, queued |-> None]]
    /\ net' = StillArrives(m.attempt[1], s, in)
              \cup {[command |-> "VERIFY_CONNECT", attempt |-> m.attempt, peer |-> s,
                     in |-> out, out |-> in]}
    /\ UNCHANGED <<clientVars, connectedPeers, opened, reported>>

\* Mutant of Accepted: the session is not tested.
AcceptedOfAnySession(m, s) ==
    /\ slot[s].state \notin {"DISCONNECTED", "ZOMBIE"}
    /\ slot[s].attempt[1] = m.attempt[1]
    /\ m.peer = s

\* enet_protocol_handle_incoming_commands: whether a peer takes a datagram.
Accepted(m, s) ==
    /\ slot[s].state \notin {"DISCONNECTED", "ZOMBIE"}
    /\ slot[s].attempt[1] = m.attempt[1]
    /\ m.peer = s /\ m.session = slot[s].in

\* The client has acknowledged VERIFY_CONNECT: the connection is reported.
HandleAcknowledge(m, s) ==
    /\ m.command = "ACKNOWLEDGE" /\ Accepted(m, s)
    /\ slot[s].state = "ACKNOWLEDGING_CONNECT"
    /\ slot' = [slot EXCEPT ![s].state = "CONNECTED"]
    /\ connectedPeers' = connectedPeers + 1
    /\ opened' = opened \cup {slot[s].attempt}
    /\ UNCHANGED <<clientVars, uses, net, reported>>

\* enet_protocol_handle_send_reliable
HandleSendReliable(m, s) ==
    /\ m.command = "SEND_RELIABLE" /\ Accepted(m, s)
    /\ slot[s].state = "CONNECTED"
    /\ slot[s].incoming = 0
    /\ slot' = [slot EXCEPT ![s].incoming = 1, ![s].queued = m.attempt]
    /\ UNCHANGED <<clientVars, uses, net, connectedPeers, opened, reported>>

\* Mutant of CountedOut: a peer that was reported disconnected is counted out once more.
CountedOutTwice(s) ==
    IF slot[s].state \in {"CONNECTED", "ZOMBIE"} THEN connectedPeers - 1 ELSE connectedPeers

\* enet_peer_on_disconnect: connectedPeers once s leaves its state.
CountedOut(s) ==
    IF slot[s].state = "CONNECTED" THEN connectedPeers - 1 ELSE connectedPeers

Reset(s) ==
    /\ slot' = [slot EXCEPT ![s].state = "DISCONNECTED", ![s].queued = None]
    /\ connectedPeers' = CountedOut(s)

\* enet_protocol_handle_disconnect: packets not reported yet are dropped, and a connection
\* not reported yet ends without a report.
HandleDisconnect(m, s) ==
    /\ m.command \in {"DISCONNECT", "DISCONNECT_UNSEQUENCED"} /\ Accepted(m, s)
    /\ \/ slot[s].state = "ACKNOWLEDGING_CONNECT" /\ Reset(s)
       \/ /\ slot[s].state = "CONNECTED"
          /\ slot' = [slot EXCEPT ![s].queued = None,
                                  ![s].state = IF m.command = "DISCONNECT"
                                               THEN "ACKNOWLEDGING_DISCONNECT" ELSE "ZOMBIE"]
          /\ connectedPeers' = CountedOut(s)
    /\ UNCHANGED <<clientVars, uses, net, opened, reported>>

\* enet_protocol_send_acknowledgements: once DISCONNECT is acknowledged the peer is dead.
SendAcknowledgement(s) ==
    /\ slot[s].state = "ACKNOWLEDGING_DISCONNECT"
    /\ slot' = [slot EXCEPT ![s].state = "ZOMBIE"]
    /\ net' = net \cup {[command |-> "ACKNOWLEDGE_DISCONNECT", attempt |-> slot[s].attempt,
                         session |-> slot[s].out]}
    /\ UNCHANGED <<clientVars, uses, connectedPeers, opened, reported>>

\* enet_protocol_dispatch_incoming_commands: a packet, or the end of a connection
ReportPacket(s) ==
    /\ slot[s].state = "CONNECTED" /\ slot[s].queued # None
    /\ slot' = [slot EXCEPT ![s].queued = None]
    /\ reported' = reported \cup {slot[s].queued}
    /\ UNCHANGED <<clientVars, uses, net, connectedPeers, opened>>

ReportDisconnect(s) ==
    /\ slot[s].state = "ZOMBIE"
    /\ Reset(s)
    /\ UNCHANGED <<clientVars, uses, net, opened, reported>>

\* Mutant of MayTimeOut: only connections that were reported time out.
MayTimeOutConnected(s) == slot[s].state = "CONNECTED"

\* VERIFY_CONNECT, a packet or a ping waits for its acknowledgement.
MayTimeOut(s) == slot[s].state \in {"ACKNOWLEDGING_CONNECT", "CONNECTED"}

\* enet_protocol_notify_disconnect_timeout; the end is reported if the connection was.
TimeOut(s) ==
    /\ MayTimeOut(s)
    /\ Reset(s)
    /\ UNCHANGED <<clientVars, uses, net, opened, reported>>

-------------------------------------------------------------------------------
ClientNext(c) ==
    \/ Connect(c) \/ SendPacket(c) \/ Disconnect(c) \/ DisconnectNow(c) \/ ClientEnds(c)
    \/ \E m \in net :
        HandleVerifyConnect(c, m) \/ AcknowledgeAgain(c, m) \/ HandleDisconnected(c, m)

ServerNext(s) ==
    \/ \E m \in net :
        \/ HandleConnect(m, s) \/ HandleAcknowledge(m, s)
        \/ HandleSendReliable(m, s) \/ HandleDisconnect(m, s)
    \/ SendAcknowledgement(s) \/ ReportPacket(s) \/ ReportDisconnect(s) \/ TimeOut(s)

PeersNext == (\E c \in Clients : ClientNext(c)) \/ (\E s \in Slots : ServerNext(s))

\* The client is done with the attempt that made this peer, and answers nothing it sends.
Gone(s) ==
    LET a == slot[s].attempt IN
    /\ slot[s].state # "DISCONNECTED"
    /\ client[a[1]].attempt = a[2] => client[a[1]].state = "DISCONNECTED"

\* The event loop goes round forever, and a peer nobody answers times out.
Finish(s) ==
    \/ SendAcknowledgement(s) \/ ReportDisconnect(s)
    \/ Gone(s) /\ TimeOut(s)

PeersSpec ==
    PeersInit /\ [][PeersNext]_peersVars /\ \A s \in Slots : WF_peersVars(Finish(s))

-------------------------------------------------------------------------------
(* Properties.                                                             *)

\* The events of a peer: connected, the packets of that client, the end; a late or
\* duplicate CONNECT, ACKNOWLEDGE or packet never opens a connection twice and never
\* reaches the connection that has the peer now.
Events == INSTANCE PeerEvents WITH
    holder <- [s \in Slots |-> IF slot[s].state \in {"DISCONNECTED", "ACKNOWLEDGING_CONNECT"}
                               THEN None ELSE slot[s].attempt]
ImplementsEvents == Events!EventsSpec

\* The server is told of a connection only after the client has accepted that attempt:
\* no acknowledgement of an earlier attempt counts for it.
OpenedIsVerified == opened \subseteq verified

\* A peer does not stay taken once its client is done with the attempt, even one that a
\* late CONNECT command has made.
SlotsFreed == \A s \in Slots : Gone(s) ~> slot[s].state = "DISCONNECTED"
===============================================================================
