------------------------------ MODULE Semantic ------------------------------
(***************************************************************************)
(* The semantic checks of a request that parsed: getstatus() and the check *)
(* and populate functions it calls (src/semantic.c,                        *)
(* src/populate_headers.c).                                                *)
(*                                                                         *)
(* A parse tree is abstracted to what these functions look for.  A lookup  *)
(* is by the name of a grammar rule, and finds a node only if some rule of *)
(* src/parser.c creates nodes of that name: the names a lookup asks for    *)
(* are kept, those that no rule creates included.                          *)
(***************************************************************************)
EXTENDS Http, CTypes, Sequences

CONSTANT Number   \* the numbers a Range field holds, negative after a second '-'

ASSUME NumberAssumption == Number \subseteq Int

(***************************************************************************)
(* One byte-range-spec as written.  first is Null when the text starts     *)
(* with '-' or has no digit; last is Null when nothing follows the '-'.    *)
(***************************************************************************)
Spec_t == [first : {n \in Number : n >= 0} \cup {Null}, dash : BOOLEAN,
           last : Number \cup {Null}]

\* The versions the code knows.
Known == {"HTTP/1.0", "HTTP/1.1"}

(***************************************************************************)
(* The trees.  range is what stands at offset 6 of the Range field; the    *)
(* code does not look at the six characters before, nor whether there are  *)
(* six.                                                                    *)
(***************************************************************************)
Trees(RangeFields) ==
  [method : Methode \cup {"other"},
   version : Known \cup {"HTTP/0.9", "HTTP/2.0", "other"}, \* other: there is no such
   connection : {"close", "keep-alive", "other", "none"},
   content_length : BOOLEAN,     \* a Content-Length field
   transfer_encoding : BOOLEAN,  \* a Transfer-Encoding field
   host : BOOLEAN,
   referer : {"plain", "marked", "none"}, \* marked: it holds '#' or '@'
   accepts : BOOLEAN,            \* the Accept field admits the file's type
   range : RangeFields \cup {Null}]

\* The rules that created nodes in the tree, among those looked for.
NodeNames(tree) ==
  {"method", "HTTP_version"}
    \cup (IF tree.connection # "none" THEN {"Connection"} ELSE {})
    \cup (IF tree.content_length THEN {"Content_Length"} ELSE {})
    \cup (IF tree.transfer_encoding THEN {"Transfert_encoding"} ELSE {})
    \cup (IF tree.host THEN {"uri_host"} ELSE {})

\* searchTree(root, name) != NULL
Found(tree, name) == name \in NodeNames(tree)

-----------------------------------------------------------------------------
(***************************************************************************)
(* headers_request, as the populate functions fill it: a field that is     *)
(* already set is not looked up again.                                     *)
(***************************************************************************)
ZeroRequest ==
  [methode |-> Unset, version |-> Unset, connection |-> Unset,
   content_length |-> FALSE, initialized |-> FALSE, isPresent |-> FALSE,
   host |-> FALSE, ranges |-> Null]

populate_method(tree, r) ==
  IF r.methode = Unset /\ tree.method # "other"
    THEN [r EXCEPT !.methode = tree.method] ELSE r

populate_version(tree, r) ==
  IF r.version # Unset THEN r
  ELSE [r EXCEPT !.version = CASE tree.version = "HTTP/1.1" -> "HTTP1_1"
                               [] tree.version = "HTTP/1.0" -> "HTTP1_0"
                               [] OTHER -> Unset]

populate_connection(tree, r) ==
  IF r.connection # Unset \/ ~Found(tree, "Connection") THEN r
  ELSE [r EXCEPT !.connection = CASE tree.connection = "close" -> "CLOSE"
                                  [] tree.connection = "keep-alive" -> "KEEP_ALIVE"
                                  [] OTHER -> Unset]

populate_content_length(tree, r) ==
  [r EXCEPT !.content_length = @ \/ Found(tree, "Content-Length")]

populate_transfert_encoding(tree, r) ==
  IF r.initialized THEN r
  ELSE [r EXCEPT !.initialized = TRUE,
                 !.isPresent = Found(tree, "Transfer-Encoding")]

populate_host(tree, r) == [r EXCEPT !.host = @ \/ Found(tree, "uri_host")]

-----------------------------------------------------------------------------
(***************************************************************************)
(* populate_ranges()                                                       *)
(***************************************************************************)

\* The first '-' at or after spec i; strchr does not stop at a comma.
DashFrom(specs, i) == {j \in i .. Len(specs) : specs[j].dash}

\* atoi(start_str): of a text that starts with '-', the number after it is read
\* as negative, and every negative start becomes -1.
StartText(spec) ==
  CASE spec.first # Null -> AtoI(spec.first)
    [] spec.first = Null /\ spec.dash /\ spec.last # Null /\ spec.last >= 0
         -> AtoI(-spec.last)
    [] OTHER -> 0

StartValue(spec) == IF StartText(spec) < 0 THEN -1 ELSE StartText(spec)

\* atoi(end_str + 1): 0, or nothing after the '-', becomes -1.
EndText(spec) == IF spec.last = Null THEN 0 ELSE AtoI(spec.last)

EndValue(spec) == IF EndText(spec) = 0 THEN -1 ELSE EndText(spec)

\* RangeFrom if the end were looked for from the end of the field.
RangeFrom_LastDash(specs, i) ==
  IF DashFrom(specs, i) = {} THEN [start |-> 0, end |-> 0]
  ELSE LET j == CHOOSE j \in DashFrom(specs, i) :
                  \A k \in DashFrom(specs, i) : j >= k
       IN  [start |-> StartValue(specs[i]), end |-> EndValue(specs[j])]

\* The range read from spec i.  Without a '-' the node keeps the zeros of
\* calloc.
RangeFrom(specs, i) ==
  IF DashFrom(specs, i) = {} THEN [start |-> 0, end |-> 0]
  ELSE LET j == CHOOSE j \in DashFrom(specs, i) :
                  \A k \in DashFrom(specs, i) : j <= k
       IN  [start |-> StartValue(specs[i]), end |-> EndValue(specs[j])]

\* The head of the list.  An empty text has no spec to start from.
FirstRange(specs) ==
  IF specs = <<>> THEN [start |-> 0, end |-> 0] ELSE RangeFrom(specs, 1)

\* The rest of the list is built too, and only walked again to be freed.
populate_ranges(tree, r) ==
  IF r.ranges # Null \/ tree.range = Null THEN r
  ELSE [r EXCEPT !.ranges = FirstRange(tree.range)]

-----------------------------------------------------------------------------
(***************************************************************************)
(* getstatus(): the checks in order, each on the record the one before     *)
(* left; the first that refuses gives the status.                          *)
(***************************************************************************)
Verdict(status, r) == [status |-> status, request |-> r]

checkVersion(tree, r) ==
  LET v == populate_version(tree, r)
  IN  Verdict(IF v.version = Unset THEN 505 ELSE 0, v)

\* checkConnection if HTTP/1.0 without a Connection field were left as it is.
checkConnection_LeftUnset(tree, r) ==
  LET c == populate_transfert_encoding(tree,
             populate_content_length(tree, populate_connection(tree, r)))
  IN  CASE c.version = "HTTP1_1" /\ c.connection # "CLOSE" ->
             Verdict(0, [c EXCEPT !.connection = "KEEP_ALIVE"])
        [] c.version = "HTTP1_0" /\ c.connection = "KEEP_ALIVE" -> Verdict(400, c)
        [] OTHER -> Verdict(0, c)

checkConnection(tree, r) ==
  LET c == populate_transfert_encoding(tree,
             populate_content_length(tree, populate_connection(tree, r)))
  IN  CASE c.version = "HTTP1_1" /\ c.connection # "CLOSE" ->
             IF ~c.initialized /\ ~c.content_length THEN Verdict(400, c)
             ELSE Verdict(0, [c EXCEPT !.connection = "KEEP_ALIVE"])
        [] c.version = "HTTP1_0" /\ c.connection = "KEEP_ALIVE" ->
             Verdict(IF Found(tree, "Content-Length") THEN 0 ELSE 400, c)
        [] c.version = "HTTP1_0" /\ c.connection # "KEEP_ALIVE" ->
             Verdict(0, [c EXCEPT !.connection = "CLOSE"])
        [] OTHER -> Verdict(0, c)

\* checkHostHeader if it asked a host of every version.
checkHostHeader_AnyVersion(tree, r) ==
  LET h == populate_host(tree, populate_version(tree, r))
  IN  Verdict(IF ~h.host THEN 400 ELSE 0, h)

checkHostHeader(tree, r) ==
  LET h == populate_host(tree, populate_version(tree, r))
  IN  Verdict(IF h.version = "HTTP1_1" /\ ~h.host THEN 400 ELSE 0, h)

checkTransfertEncoding(tree, r) ==
  LET t == populate_transfert_encoding(tree, r)
  IN  Verdict(IF t.isPresent /\ t.version = "HTTP1_0" THEN 400 ELSE 0, t)

checkReferer(tree, r) ==
  Verdict(IF tree.referer = "marked" THEN 400 ELSE 0, r)

getstatus(tree) ==
  LET m == populate_method(tree, ZeroRequest)
      v == checkVersion(tree, m)
      c == checkConnection(tree, v.request)
      h == checkHostHeader(tree, c.request)
      t == checkTransfertEncoding(tree, h.request)
      f == checkReferer(tree, t.request)
  IN  IF m.methode = Unset THEN Verdict(501, m)
      ELSE IF v.status > 0 THEN v
      ELSE IF c.status > 0 THEN c
      ELSE IF h.status > 0 THEN h
      ELSE IF t.status > 0 THEN t
      ELSE IF f.status > 0 THEN f
      ELSE Verdict(0, populate_ranges(tree, f.request))

\* The request send_data() is called with.
RequestOf(tree) ==
  LET r == getstatus(tree).request
  IN  [methode |-> r.methode, version |-> r.version,
       connection |-> r.connection, accepts |-> tree.accepts,
       ranges |-> r.ranges]
=============================================================================
