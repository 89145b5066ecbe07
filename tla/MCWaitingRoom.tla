---------------------------- MODULE MCWaitingRoom ----------------------------
(***************************************************************************)
(* TLC instance of WaitingRoom.  The hosts are interchangeable: no         *)
(* definition chooses one, and the run checks no liveness.                 *)
(***************************************************************************)
EXTENDS WaitingRoom, TLC

Symmetry == Permutations(Hosts)
===============================================================================
