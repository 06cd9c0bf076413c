------------------------------- MODULE Parser -------------------------------
(***************************************************************************)
(* parseur(): HTTP_message() over the text of a request, one action per    *)
(* part of it.                                                             *)
(***************************************************************************)
EXTENDS Productions

CONSTANT Inputs   \* [text, rest]: the requests, and what is in memory after them

Input == [text : Seq(Octets), rest : Seq(Octets \cup {Nul})]
ASSUME InputsAssumption == Inputs \subseteq Input

VARIABLES
  pc,
  len,       \* node_HTTP_message->length_string
  nodes,     \* the nodes of the tree that are looked up, or talked about here
  marks      \* what became of nodes and arrays that should not

vars == <<text, rest, pc, len, nodes, marks>>

-----------------------------------------------------------------------------
Init ==
  /\ \E input \in Inputs : text = input.text /\ rest = input.rest
  /\ pc = "start_line"
  /\ len = 0
  /\ nodes = {}
  /\ marks = {}

\* A function called with node_HTTP_message, which starts at 0, as the parent.  An
\* array freed twice is undefined behaviour: malloc notices it and aborts, or the
\* parse goes on.
Call(e, found, missed) ==
  LET r == e[0][len] IN
  /\ marks' = marks \cup r.marks
  /\ \/ /\ Found(r)
        /\ len' = r.length
        /\ nodes' = nodes \cup r.nodes
        /\ pc' = found
     \/ /\ r.length = Overflow
        /\ pc' = "overflow"
        /\ UNCHANGED <<len, nodes>>
     \/ /\ r.length = None
        /\ nodes' = IF missed = "refused" THEN {} ELSE nodes
        /\ pc' = missed
        /\ UNCHANGED len
     \/ /\ FreedTwice \in r.marks
        /\ pc' = "aborted"
        /\ UNCHANGED <<len, nodes>>
  /\ UNCHANGED <<text, rest>>

StartLine ==
  /\ pc = "start_line"
  /\ Call(start_line, "header_field", "refused")

\* A field without the end of its line is given back, and is the end of the loop.
HeaderField_NoEnd ==
  /\ pc = "header_field"
  /\ Call(Opt(Tmp(header_field & CRLF)), "header_field", "CRLF")
HeaderField ==
  /\ pc = "header_field"
  /\ Call(Tmp(header_field & CRLF), "header_field", "CRLF")

EmptyLine ==
  /\ pc = "CRLF"
  /\ Call(CRLF, "message_body", "refused")

MessageBody ==
  /\ pc = "message_body"
  /\ Call(message_body, "accepted", "accepted")

Next == StartLine \/ HeaderField \/ EmptyLine \/ MessageBody

Spec == Init /\ [][Next]_vars

-----------------------------------------------------------------------------
TypeOK ==
  /\ text \in Seq(Octets) /\ rest \in Seq(Octets \cup {Nul})
  /\ pc \in {"start_line", "header_field", "CRLF", "message_body",
             "accepted", "refused", "aborted", "overflow"}
  /\ len \in Lengths
  /\ nodes \subseteq
       [name : Kept, start : Lengths, length : Lengths]
  /\ marks \subseteq
       {FreedTwice, Lost("ls32"), Lost("IPv6address"), Lost("Transfert_encoding")}

Accepted == pc = "accepted"

\* Positions in the request, and in what is after it, are lengths.
Memory == Len(text) + 1 + Len(rest)
Short == Memory < LenMod

IsCRLF(i) == At(i) = CR /\ At(i + 1) = LF

\* The header section is whole in the text.
Whole ==
  \E i \in 0 .. Len(text) - 4 : IsCRLF(i) /\ IsCRLF(i + 2)

Covers(n, i) == n.start <= i /\ i < n.start + n.length

\* The zero byte is passed where strchr() finds it, in a name, a target or a
\* specific field, and so only in a request that came without all its header
\* fields; never in a version, a length or the value of another field.
ReadsPastTheEnd ==
  Accepted /\ Short =>
    /\ \A n \in nodes :
         n.name \in {"HTTP_version", "Content_Length", "field_value", "message_body"}
           => ~Covers(n, Len(text))
    /\ (\E n \in nodes : Covers(n, Len(text))) <=> ~Whole

\* Every loop takes at least a symbol each turn, and no node is given more than
\* two children for a symbol (an empty segment after every "/", an empty node before
\* every "-" of a host's name): below 2^15 bytes no count of them overflows.
ChildrenAreCounted == 2 * Memory + 2 < LenMod => pc # "overflow"

\* While fields follow one another, each is read after the one before it: the
\* loop over them ends. Past 2^16 bytes it may come back to what it has read.
NeverReadAgain == [][Short /\ pc' = pc => len' > len]_vars
=============================================================================
