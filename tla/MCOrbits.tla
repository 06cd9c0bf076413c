------------------------------ MODULE MCOrbits ------------------------------
(***************************************************************************)
(* A small instance of Orbits: the planet of the base, with a moon or      *)
(* without, two mining stations and what is built up to six orbitals.      *)
(***************************************************************************)
EXTENDS Orbits

MCBlueprints == {SATELLITE, DEFENSE}
=============================================================================
