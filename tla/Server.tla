-------------------------------- MODULE Server --------------------------------
(***************************************************************************)
(* The part of class Server that MainServer and SessionServer inherit: the *)
(* peers ENet reports as connected and the two identity tables.  The       *)
(* handlers that use it are in the modules that extend this one.           *)
(*                                                                         *)
(* A peer is one of the ENetPeer slots that enet_host_create allocates     *)
(* once: its address stays valid for the life of the host and is handed to *)
(* a new client after the old one is gone.                                 *)
(***************************************************************************)
EXTENDS Naturals, FiniteSets

CONSTANTS
    Peers,      \* the ENetPeer slots of the host
    Uids,       \* user ids
    NoPeer,     \* no entry in uidToPeerTable
    NoUid       \* no entry in peerToUidTable

ASSUME PeerAssumption == NoPeer \notin Peers
ASSUME UidAssumption == NoUid \notin Uids

VARIABLES
    connected,  \* peers between their CONNECT event and the end of the connection
    peerToUid,  \* peerToUidTable, NoUid where there is no entry
    uidToPeer,  \* uidToPeerTable, NoPeer where there is no entry
    claimed     \* history: the uid last set over the peer's current connection

serverVars == <<connected, peerToUid, uidToPeer, claimed>>

ServerTypeOK ==
    /\ connected \subseteq Peers
    /\ peerToUid \in [Peers -> Uids \cup {NoUid}]
    /\ uidToPeer \in [Uids -> Peers \cup {NoPeer}]
    /\ claimed \in [Peers -> Uids \cup {NoUid}]

ServerInit ==
    /\ connected = {}
    /\ peerToUid = [p \in Peers |-> NoUid]
    /\ uidToPeer = [u \in Uids |-> NoPeer]
    /\ claimed = [p \in Peers |-> NoUid]

-------------------------------------------------------------------------------
(* The events of the run loop, as far as ENet and the base class go.       *)

\* ENet gives a free slot to a new client; the handler of CONNECT only logs.
PeerConnects(p) ==
    /\ p \notin connected
    /\ connected' = connected \cup {p}
    /\ claimed' = [claimed EXCEPT ![p] = NoUid]

\* The slot is reset, and so free again, before the event reaches the loop.
PeerLeaves(p) ==
    /\ p \in connected
    /\ connected' = connected \ {p}
    /\ claimed' = [claimed EXCEPT ![p] = NoUid]

\* A peer whose acknowledgements stop is reported as DISCONNECT_TIMEOUT, which
\* the switch of Server::run sends to "default": no disconnection handler runs.
PeerTimesOut(p) ==
    /\ PeerLeaves(p)
    /\ UNCHANGED <<peerToUid, uidToPeer>>

-------------------------------------------------------------------------------
(* The identity tables.                                                    *)

SetPeerUid(p, u) ==
    /\ peerToUid' = [peerToUid EXCEPT ![p] = u]
    /\ uidToPeer' = [uidToPeer EXCEPT ![u] = p]

\* Mutant of RemovePeer: only one of the two entries is erased.
RemoveUidOnly(u) ==
    /\ uidToPeer' = [uidToPeer EXCEPT ![u] = NoPeer]
    /\ UNCHANGED peerToUid

\* removePeer(uid): the peer erased is the one uid has now, which need not be
\* the peer whose disconnection brought us here.
RemovePeer(u) ==
    \/ /\ uidToPeer[u] # NoPeer
       /\ peerToUid' = [peerToUid EXCEPT ![uidToPeer[u]] = NoUid]
       /\ uidToPeer' = [uidToPeer EXCEPT ![u] = NoPeer]
    \/ /\ uidToPeer[u] = NoPeer
       /\ UNCHANGED <<peerToUid, uidToPeer>>
===============================================================================
