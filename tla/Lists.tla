-------------------------------- MODULE Lists --------------------------------
(***************************************************************************)
(* How the game takes something out of a list whose order does not matter: *)
(* the last one is put in its place, and the list is shortened             *)
(* (orbital.js, Enemy.js).                                                 *)
(***************************************************************************)
EXTENDS Integers, Sequences

SwapRemove(q, i) ==
  [j \in 1 .. Len(q) - 1 |-> IF j = i THEN q[Len(q)] ELSE q[j]]
=============================================================================
