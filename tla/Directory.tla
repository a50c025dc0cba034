-------------------------------- MODULE Directory --------------------------------
(***************************************************************************)
(* What the manager of session servers promises, without its loops: a      *)
(* session gets one place that is free, on a server of its own type, keeps *)
(* it until it ends, and whoever asked for the session is told that place; *)
(* or he is told that there is none, and then the session has none.        *)
(***************************************************************************)
EXTENDS Naturals

CONSTANTS
    Ids,        \* the sessions
    Servers,
    Numbers,
    Types,
    NoType,     \* the type of a server that does not exist yet
    Nowhere,    \* the place of a session that has none
    Refused     \* the answer to a request that is not granted

VARIABLES
    kind,       \* the type asked for, once a session has been asked for
    place,      \* where each session is, or was when it ended
    live,       \* the sessions that have a place and have not ended
    hosted,     \* the type of the sessions of each server
    answer,     \* what the client that asked for each session was told
    alive       \* FALSE once the process has failed; nothing is promised after

directoryVars == <<kind, place, live, hosted, answer, alive>>

DirectoryInit ==
    /\ kind = [id \in Ids |-> NoType]
    /\ place = [id \in Ids |-> Nowhere]
    /\ live = {}
    /\ hosted = [s \in Servers |-> NoType]
    /\ answer = [id \in Ids |-> Nowhere]
    /\ alive = TRUE

Free(s, n) == \A id \in live : place[id] # <<s, n>>

Ask(id) ==
    /\ kind[id] = NoType
    /\ \E t \in Types : kind' = [kind EXCEPT ![id] = t]
    /\ UNCHANGED <<place, live, hosted, answer, alive>>

Host(s) ==
    /\ hosted[s] = NoType
    /\ \E t \in Types : hosted' = [hosted EXCEPT ![s] = t]
    /\ UNCHANGED <<kind, place, live, answer, alive>>

Place(id) ==
    /\ kind[id] # NoType /\ place[id] = Nowhere /\ answer[id] = Nowhere
    /\ \E s \in Servers, n \in Numbers :
         /\ hosted[s] = kind[id]
         /\ Free(s, n)
         /\ place' = [place EXCEPT ![id] = <<s, n>>]
    /\ live' = live \cup {id}
    /\ UNCHANGED <<kind, hosted, answer, alive>>

End(id) ==
    /\ live' = live \ {id}
    /\ UNCHANGED <<kind, place, hosted, answer, alive>>

Tell(id) ==
    /\ kind[id] # NoType /\ answer[id] = Nowhere
    /\ answer' = [answer EXCEPT ![id] = IF place[id] = Nowhere THEN Refused ELSE place[id]]
    /\ UNCHANGED <<kind, place, live, hosted, alive>>

Fail == alive' = FALSE

DirectoryNext ==
    /\ alive
    /\ \/ Fail
       \/ \E s \in Servers : Host(s)
       \/ \E id \in Ids : Ask(id) \/ Place(id) \/ End(id) \/ Tell(id)

DirectorySpec == DirectoryInit /\ [][DirectoryNext]_directoryVars
===============================================================================
