-------------------------------- MODULE Calls --------------------------------
(***************************************************************************)
(* What the functions of parser.c are made of.  Each is called with the    *)
(* node it adds to, its parent, and reads the text from get_start(parent): *)
(* where the parent starts, and how long it is so far.  Here it is a       *)
(* function e of those two numbers, and e[start][length] says how long the *)
(* parent is when it returns, or None.                                     *)
(*                                                                         *)
(* Starts and lengths are uint16_t, LenMod their number of values; their   *)
(* sum is an int.  The text is ended by a zero byte; rest is what the      *)
(* process happens to have after it.                                       *)
(***************************************************************************)
EXTENDS Integers, Sequences, Alphabet

CONSTANT LenMod

ASSUME LenModAssumption == LenMod \in Nat \ {0}

VARIABLES text, rest

Lengths == 0 .. LenMod - 1

At(i) ==
  IF i < Len(text) THEN text[i + 1]
  ELSE IF i = Len(text) THEN Nul
  ELSE IF i <= Len(text) + Len(rest) THEN rest[i - Len(text)]
  ELSE "out"

-----------------------------------------------------------------------------
None == -1       \* NULL
Overflow == -2   \* childs_count, a uint16_t as well, is one child short of them

\* length: of the parent, then; children: the parent was given; nodes: those added
\* that are looked up, or talked about here; marks: what became of nodes and arrays
\* that should not.
Goes(n) == [length |-> n, children |-> 0, nodes |-> {}, marks |-> {}]
Hit(n) == [Goes(n) EXCEPT !.children = 1]
Miss == Goes(None)
Found(r) == r.length >= 0

\* What a function that fails added to the tree is freed by a caller.
Then(r1, r2) ==
  [length |-> r2.length,
   children |-> r1.children + r2.children,
   nodes |-> IF Found(r2) THEN r1.nodes \cup r2.nodes ELSE {},
   marks |-> r1.marks \cup r2.marks]

\* check_sa(), and what tests a character: a child of one symbol.
Chars(S) ==
  [start \in Lengths |-> [length \in Lengths |->
     IF At(start + length) \in S THEN Hit((length + 1) % LenMod) ELSE Miss]]
\* A child of two, compared at once.
Pair(x, y) ==
  [start \in Lengths |-> [length \in Lengths |->
     IF At(start + length) = x /\ At(start + length + 1) = y
     THEN Hit((length + 2) % LenMod) ELSE Miss]]
Sym(x) == Chars({x})
Fail == Chars({})

\* A look at the symbol, which is not taken.
NotAt(x) ==
  [start \in Lengths |-> [length \in Lengths |->
     IF At(start + length) = x THEN Miss ELSE Goes(length)]]

Mark(m) ==
  [start \in Lengths |-> [length \in Lengths |-> [Goes(length) EXCEPT !.marks = {m}]]]

c & d ==
  [start \in Lengths |-> [length \in Lengths |->
     LET r == c[start][length] IN
     IF Found(r) THEN Then(r, d[start][r.length]) ELSE r]]

\* What one function has failed on is tried with the other.
c | d ==
  [start \in Lengths |-> [length \in Lengths |->
     LET r == c[start][length] IN
     IF r.length = None THEN Then(r, d[start][length]) ELSE r]]

Opt(e) ==
  [start \in Lengths |-> [length \in Lengths |->
     LET r == e[start][length] IN
     IF r.length = None THEN Then(r, Goes(length)) ELSE r]]

\* A loop ends where e fails.  One that takes more than LenMod turns adds more
\* children than can be counted, one a turn at least.
Turns(e, start) ==
  LET turns[n \in Nat] ==
        [length \in Lengths |->
           LET r == e[start][length] IN
           IF r.length = None THEN Then(r, Goes(length))
           ELSE IF ~Found(r) THEN r
           ELSE Then(r, IF n = 0 THEN Goes(Overflow) ELSE turns[n - 1][r.length])]
  IN turns
Star(e) == [start \in Lengths |-> Turns(e, start)[LenMod]]
Plus(e) == e & Star(e)

-----------------------------------------------------------------------------
Searched ==
  {"method", "request_target", "absolute_path", "HTTP_version", "uri_host",
   "Connection", "Content_Length", "field_name", "field_value", "message_body"}
Kept == Searched \cup {"header_field"}

\* A node of its own, that starts where the parent ends so far and is as long as
\* its children together; both are cut to 16 bits.  When there are LenMod of them
\* their array has been freed and the last was written before it: from there on
\* the behaviour is undefined (it crashes, or does not return).  A function that
\* fails has added its node for a time: with LenMod - 1 children before it the array
\* is freed then, which is not followed.
\* Here the children are moved to the parent, when all of it matched.
Tmp(e) ==
  [start \in Lengths |-> [length \in Lengths |->
     LET r == e[(start + length) % LenMod][0] IN
     IF r.children >= LenMod THEN [r EXCEPT !.length = Overflow]
     ELSE IF Found(r) THEN [r EXCEPT !.length = (length + @) % LenMod]
     ELSE [r EXCEPT !.children = 0]]]

\* Here the node is the parent's child.
Rule_Wide(name, e) ==
  [start \in Lengths |-> [length \in Lengths |->
     LET r == Tmp(e)[start][length]
         node == [name |-> name, start |-> start + length,
                  length |-> (r.length - length) % LenMod]
     IN IF Found(r)
        THEN [r EXCEPT !.children = 1,
                       !.nodes = IF name \in Kept THEN @ \cup {node} ELSE @]
        ELSE r]]
Rule(name, e) ==
  [start \in Lengths |-> [length \in Lengths |->
     LET r == Tmp(e)[start][length]
         node == [name |-> name, start |-> (start + length) % LenMod,
                  length |-> (r.length - length) % LenMod]
     IN IF Found(r)
        THEN [r EXCEPT !.children = 1,
                       !.nodes = IF name \in Kept THEN @ \cup {node} ELSE @]
        ELSE r]]
=============================================================================
