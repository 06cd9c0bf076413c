----------------------------- MODULE MCFastCgi ------------------------------
(***************************************************************************)
(* A small instance of FastCgi: records of at most three bytes, "Status: " *)
(* one byte long, an int of four bits and a long of five.                  *)
(***************************************************************************)
EXTENDS FastCgi

\* A header section in one record, in several, none; a status at the start,
\* inside or past the first record.
MCScripts ==
  {[header |-> h, status |-> s] : h \in {0, 2, 5}, s \in {Null, 0, 2}}
=============================================================================
