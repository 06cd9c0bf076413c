------------------------------- MODULE MCPage -------------------------------
(***************************************************************************)
(* A small instance of Page: a track of two channels, two sounds of one,   *)
(* a text of one sentence and one of two.                                  *)
(***************************************************************************)
EXTENDS Page

MCChannels == [p \in Players |-> IF p \in Tracks THEN 2 ELSE 1]
MCSentences == [t \in Texts |-> IF t = "welcome" THEN 1 ELSE 2]
=============================================================================
