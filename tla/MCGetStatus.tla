---------------------------- MODULE MCGetStatus -----------------------------
(***************************************************************************)
(* Every combination of header fields with a few Range fields, and one     *)
(* combination of the others with every Range field of at most two specs.  *)
(* An int is four bits and a long six: 9 does not fit an int, 40 a long.   *)
(***************************************************************************)
EXTENDS GetStatus

MCNumber == {-3, 0, 1, 3, 9, 40}

FewRanges ==
  {<<>>,
   <<[first |-> 0, dash |-> TRUE, last |-> 0]>>,
   <<[first |-> 1, dash |-> TRUE, last |-> 3]>>,
   <<[first |-> Null, dash |-> TRUE, last |-> 3]>>}

AllRanges == UNION {[1 .. n -> Spec_t] : n \in 0 .. 2}

Plain ==
  [method |-> "GET", version |-> "HTTP/1.1", connection |-> "none",
   content_length |-> FALSE, transfer_encoding |-> FALSE, host |-> TRUE,
   referer |-> "none", accepts |-> TRUE, range |-> Null]

MCRequests == Trees(FewRanges) \cup {[Plain EXCEPT !.range = f] : f \in AllRanges}
=============================================================================
