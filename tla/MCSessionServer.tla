---------------------------- MODULE MCSessionServer ----------------------------
(***************************************************************************)
(* Instances of SessionServer for TLC.  The bound in Join, MaxHeads, also  *)
(* bounds the copies of a uid in a vector.                                 *)
(***************************************************************************)
EXTENDS SessionServer, TLC

Clients == Permutations(Peers) \cup Permutations(Uids)
===============================================================================
