------------------------------ MODULE MCSwarm ------------------------------
(***************************************************************************)
(* A small instance of Swarm: a cell inside and one at the border, waves   *)
(* of two ships; a lightning pays for a ship what a laser pays for a shot. *)
(***************************************************************************)
EXTENDS Swarm

MCShootCost == [m \in Modules |-> IF m = "EMP" THEN 2 ELSE 1]
=============================================================================
