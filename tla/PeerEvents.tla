------------------------------- MODULE PeerEvents -------------------------------
(***************************************************************************)
(* What the event loop of a server is promised about its peers: a peer is  *)
(* reported connected, then its packets, then its end; a client's attempt  *)
(* to connect is reported at most once, on one peer, and the packets it    *)
(* sent on that peer only, once.                                           *)
(***************************************************************************)
CONSTANTS Slots, Attempts, None

VARIABLES
    holder,  \* the attempt each peer is reported connected to
    opened,  \* the attempts reported so far
    reported \* the attempts whose packet was reported

eventVars == <<holder, opened, reported>>

EventsInit == holder = [s \in Slots |-> None] /\ opened = {} /\ reported = {}

Connected(s) == \E a \in Attempts \ opened :
    /\ holder[s] = None
    /\ holder' = [holder EXCEPT ![s] = a]
    /\ opened' = opened \cup {a}
    /\ UNCHANGED reported

Received(s) ==
    /\ holder[s] \in Attempts \ reported
    /\ reported' = reported \cup {holder[s]}
    /\ UNCHANGED <<holder, opened>>

Disconnected(s) ==
    /\ holder[s] # None
    /\ holder' = [holder EXCEPT ![s] = None]
    /\ UNCHANGED <<opened, reported>>

EventsSpec ==
    EventsInit /\ [][\E s \in Slots : Connected(s) \/ Received(s) \/ Disconnected(s)]_eventVars
===============================================================================
