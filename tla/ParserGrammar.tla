--------------------------- MODULE ParserGrammar ----------------------------
(***************************************************************************)
(* The parser compared with the rules of allrfc.abnf that it implements.   *)
(***************************************************************************)
EXTENDS Parser

A == INSTANCE Abnf WITH HexLetters <- Hex \cup LowerHex
U == INSTANCE Abnf WITH HexLetters <- Hex

IsBlank(i) == At(i) \in {" ", Tab}

\* Where a header field starts.
FieldStarts ==
  {i \in 2 .. Len(text) :
     /\ IsCRLF(i - 2)
     /\ ~IsCRLF(i) /\ ~IsBlank(i)
     /\ \A j \in 0 .. i - 2 : ~(IsCRLF(j) /\ IsCRLF(j + 2))}

\* The rules of allrfc.abnf, and with the letters HEXDIG takes here.
Rules ==
  [method |-> A!token, field_name |-> A!token, request_target |-> A!origin_form,
   absolute_path |-> A!absolute_path, HTTP_version |-> A!HTTP_version,
   uri_host |-> A!host, Connection |-> A!Connection,
   Content_Length |-> A!Content_Length, header_field |-> A!header_field,
   field_value |-> A!field_value, message_body |-> A!message_body]

\* What the rest of the server takes from the tree is what the rule of that name
\* in allrfc.abnf denotes.  Only the protocol's name is taken in any case, where
\* the rule has its four letters.
NodesAreTheirRules ==
  Accepted /\ Whole /\ Short =>
    \A n \in nodes :
      \/ n.name = "HTTP_version" /\ At(n.start) = "http"
      \/ A!Denotes(Rules[n.name], text, n.start, n.start + n.length)

\* The line of the field at i starts with what e denotes, or consists of it.
Begins(e, i) == U!Ends(e, text, i) # {}
Fills(e, i) == \E j \in U!Ends(e, text, i) : IsCRLF(j) /\ ~IsBlank(j + 2)

\* A known field whose value goes on after what its own production takes: the
\* other production of header_field() is not tried again.
CutShort(i) ==
  \/ Begins(U!SpecificHeader, i) /\ ~Fills(U!SpecificHeader, i)
  \/ Begins(U!IPv4Header, i) /\ ~Fills(U!IPv4Header, i)
  \/ Begins(U!CodingGoesOn, i)

\* A message of allrfc.abnf is accepted, but for two things: letters of HEXDIG
\* are taken in upper case only, and a field may be cut short.
WellFormedIsAccepted ==
  /\ pc = "refused"
  /\ Short
  /\ U!Denotes(U!HTTP_message, text, 0, Len(text))
  => \E i \in FieldStarts : CutShort(i)

\* parseur() follows allrfc.abnf: it accepts what the rules do, but for the
\* exceptions above, and its nodes are what their rules denote (parser.c).
ParsesTheGrammar == NodesAreTheirRules /\ WellFormedIsAccepted

\* All that is allocated while parsing is freed once, in a tree or with it, but
\* for hosts given as an IPv6 address and for Transfer-Encoding; and an array is
\* freed twice exactly for an address of one to six groups that ends in "::".
HeapHandled ==
  Whole /\ Short =>
    /\ FreedTwice \in marks => \E i \in FieldStarts : Begins(U!TrailingColons, i)
    /\ Lost("Transfert_encoding") \in marks =>
         \E i \in FieldStarts : Begins(U!CodingField, i)
    /\ Lost("IPv6address") \in marks \/ Lost("ls32") \in marks =>
         \E i \in FieldStarts : Begins(U!HostLiteral, i)
    /\ Accepted /\ (\E i \in FieldStarts : Begins(U!TrailingColons, i)) =>
         FreedTwice \in marks
=============================================================================
