--------------------------------- MODULE Rooms ---------------------------------
(***************************************************************************)
(* What a session server promises, without its tables: users are in at     *)
(* most one room, they enter rooms that are open, and a room is closed by  *)
(* its last user leaving and by nothing else.  SessionServer implements    *)
(* Spec for orderly clients, and LaxSpec whatever clients do.              *)
(***************************************************************************)
EXTENDS Naturals

CONSTANTS
    Users,
    RoomNumbers,
    Nowhere     \* the room of a user who is in none

VARIABLES
    room,   \* the room each user is in
    open,   \* the rooms that exist
    alive   \* FALSE once the server has failed; nothing is promised after

roomsVars == <<room, open, alive>>

RoomsTypeOK ==
    /\ room \in [Users -> RoomNumbers \cup {Nowhere}]
    /\ open \subseteq RoomNumbers
    /\ alive \in BOOLEAN

RoomsInit ==
    /\ room = [u \in Users |-> Nowhere]
    /\ open = {}
    /\ alive = TRUE

Open ==
    /\ \E n \in RoomNumbers \ open : open' = open \cup {n}
    /\ UNCHANGED <<room, alive>>

Enter(u) ==
    /\ room[u] = Nowhere
    /\ \E n \in open : room' = [room EXCEPT ![u] = n]
    /\ UNCHANGED <<open, alive>>

Alone(u) == \A v \in Users \ {u} : room[v] # room[u]

Leave(u) ==
    /\ room[u] # Nowhere
    /\ room' = [room EXCEPT ![u] = Nowhere]
    /\ open' = IF Alone(u) THEN open \ {room[u]} ELSE open
    /\ UNCHANGED alive

\* A room may outlive its last user.
LeaveOpen(u) ==
    /\ room[u] # Nowhere
    /\ room' = [room EXCEPT ![u] = Nowhere]
    /\ UNCHANGED <<open, alive>>

\* room' and open' are left free: a process that failed promises nothing.
Fail == alive' = FALSE

StrictNext == alive /\ (Open \/ \E u \in Users : Enter(u) \/ Leave(u))

LaxNext == alive /\ (Open \/ Fail \/ \E u \in Users : Enter(u) \/ Leave(u) \/ LeaveOpen(u))

StrictSpec == RoomsInit /\ [][StrictNext]_roomsVars

LaxSpec == RoomsInit /\ [][LaxNext]_roomsVars
===============================================================================
