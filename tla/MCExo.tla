------------------------------- MODULE MCExo -------------------------------
(***************************************************************************)
(* A small instance of Exo: two buttons, of which one soon costs too much, *)
(* a planet and another body, three missions.                              *)
(***************************************************************************)
EXTENDS Exo

Satellite == [what |-> "SATELLITE", module |-> Null]
Mining == [what |-> "MINING", module |-> Null]

MCButtons == {Satellite, Mining}

MCMissions ==
  <<[event |-> "INTRO", auto |-> TRUE, end |-> FALSE],
    [event |-> "BUILD", auto |-> FALSE, end |-> FALSE],
    [event |-> "BUILD", auto |-> FALSE, end |-> TRUE]>>
=============================================================================
