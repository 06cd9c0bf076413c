------------------------------ MODULE Grammar -------------------------------
(***************************************************************************)
(* Expressions of a grammar, and the language they denote in ABNF.         *)
(*                                                                         *)
(* A text is a sequence of symbols: a character, or a word (a header       *)
(* field's name, a coding, ...), which stands for its letters in any case. *)
(* A position is the number of symbols before it, as in the C code.        *)
(***************************************************************************)
EXTENDS Integers, Sequences, FiniteSets

Chars(S) == [op |-> "chars", set |-> S]          \* one symbol of S
c & d == [op |-> "seq", first |-> c, second |-> d]
c | d == [op |-> "alt", first |-> c, second |-> d]
Star(e) == [op |-> "star", body |-> e]
Opt(e) == [op |-> "opt", body |-> e]

Sym(x) == Chars({x})
Plus(e) == e & Star(e)

RECURSIVE Times(_, _)
Times(n, e) == IF n = 1 THEN e ELSE Times(n - 1, e) & e

\* n of them at most, then last.
RECURSIVE UpTo(_, _, _)
UpTo(n, e, last) == IF n = 0 THEN last ELSE last | (e & UpTo(n - 1, e, last))

-----------------------------------------------------------------------------
At(s, i) == IF i < Len(s) THEN s[i + 1] ELSE "out"

\* The ends of all that e denotes in s from position i.
RECURSIVE Ends(_, _, _)
Ends(e, s, i) ==
  CASE e.op = "chars" -> IF At(s, i) \in e.set THEN {i + 1} ELSE {}
    [] e.op = "seq" -> UNION {Ends(e.second, s, j) : j \in Ends(e.first, s, i)}
    [] e.op = "alt" -> Ends(e.first, s, i) \cup Ends(e.second, s, i)
    [] e.op = "opt" -> {i} \cup Ends(e.body, s, i)
    [] e.op = "star" ->
         LET RECURSIVE Closure(_, _)
             Closure(done, new) ==
               IF new = {} THEN done
               ELSE LET next == UNION {Ends(e.body, s, j) : j \in new} IN
                    Closure(done \cup new, next \ (done \cup new))
         IN Closure({}, {i})

\* e denotes s from i to j.
Denotes(e, s, i, j) == j \in Ends(e, s, i)
=============================================================================
