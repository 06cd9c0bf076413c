----------------------------- MODULE GetStatus ------------------------------
(***************************************************************************)
(* One call of getstatus() on any tree, and what the caller may rely on    *)
(* when it returns 0.                                                      *)
(***************************************************************************)
EXTENDS Semantic

CONSTANT Requests_t   \* the trees getstatus() is called on

ASSUME GetStatusAssumption == Requests_t \subseteq Trees(Seq(Spec_t))

VARIABLES tree, verdict

judging == <<tree, verdict>>

JudgeInit ==
  /\ tree \in Requests_t
  /\ verdict = Null

\* getstatus(root, &headers_request)
Judge ==
  /\ verdict = Null
  /\ verdict' = getstatus(tree)
  /\ UNCHANGED tree

JudgeSpec == JudgeInit /\ [][Judge]_judging

Judged == verdict # Null
Accepted == Judged /\ verdict.status = 0

-----------------------------------------------------------------------------
\* What send_data() and the main loop rely on: every enumeration they switch on
\* is set, so that a Connection field is printed and obeyed; HTTP/1.0 is always
\* closed, HTTP/1.1 has a host and stays open unless the client closes; a range
\* starts at -1 or at a position, and its end is 0 only where the field has no
\* '-'.
AcceptedIsServable ==
  Accepted =>
    LET r == RequestOf(tree) IN
    /\ r.methode \in Methode
    /\ r.version \in HTTP_version
    /\ r.connection \in Connection
    /\ r.version = "HTTP1_0" => r.connection = "CLOSE"
    /\ r.version = "HTTP1_1" =>
         /\ verdict.request.host
         /\ r.connection = "CLOSE" <=> tree.connection = "close"
    /\ r.ranges # Null =>
         /\ r.ranges.start \in -1 .. IntMax
         /\ r.ranges.end \in -IntMax - 1 .. IntMax
         /\ r.ranges.end = 0 => r.ranges.start = 0

\* The status rulesSemantic.md asks for, by its lines, in their order.  Its rules on
\* what a tree leaves out (the values of fields but Referer's, a field that comes
\* twice, the authority of a target) are not looked at by the code either; :62 gives
\* no status, and is a bad request like the rules next to it.
Ruling(t) ==
  LET delimited == t.content_length \/ t.transfer_encoding IN
  IF t.method = "other" THEN 501                                           \* :2
  ELSE IF t.version = "other" THEN 400                                     \* :5
  ELSE IF t.version = "HTTP/2.0" THEN 505                                  \* :7
  ELSE IF \/ t.version = "HTTP/1.0" /\ t.transfer_encoding                 \* :32
          \/ t.referer = "marked"                                          \* :39
          \/ t.content_length /\ t.transfer_encoding                       \* :62
          \/ t.version = "HTTP/1.1" /\ ~t.host                             \* :68
          \/ t.version = "HTTP/1.0" /\ t.connection = "keep-alive"         \* :76
               /\ ~delimited
          \/ t.version = "HTTP/1.1" /\ t.connection # "close"              \* :78
               /\ ~delimited
         THEN 400
  ELSE 0

\* Where the code departs from it.  Every version but two is an unsupported one,
\* HTTP/0.9 and those that do not exist included.
CalledUnsupported(t) == t.method # "other" /\ t.version \in {"HTTP/0.9", "other"}

\* A length is looked for under a name no node has (semantic.c:74): HTTP/1.0 is
\* never kept alive.
LengthUnseen(t) ==
  /\ t.method # "other" /\ t.version = "HTTP/1.0" /\ t.connection = "keep-alive"
  /\ t.content_length /\ ~t.transfer_encoding /\ t.referer # "marked"

\* A coding too (populate_headers.c:43): nobody minds it in HTTP/1.0, or beside a
\* length; and HTTP/1.1 is taken to have one as soon as it was looked for
\* (semantic.c:67).  The other faults are seen all the same.
CodingUnseen(t) ==
  /\ t.method # "other" /\ t.referer # "marked"
  /\ \/ t.version = "HTTP/1.0" /\ t.connection # "keep-alive" /\ t.transfer_encoding
     \/ /\ t.version = "HTTP/1.1" /\ t.host
        /\ \/ t.content_length /\ t.transfer_encoding
           \/ ~t.content_length /\ ~t.transfer_encoding /\ t.connection # "close"

\* The status is the one the rules ask for, and of several the first, but in these
\* cases exactly: there it is 505, 400, and none.
StatusFollowsRules ==
  Judged =>
    LET departs == CalledUnsupported(tree) \/ LengthUnseen(tree) \/ CodingUnseen(tree) IN
    /\ departs <=> verdict.status # Ruling(tree)
    /\ CalledUnsupported(tree) => verdict.status = 505
    /\ LengthUnseen(tree) => verdict.status = 400
    /\ CodingUnseen(tree) => verdict.status = 0

\* The first range is served as it was asked, when it gives two positions an int
\* can hold and the second is not 0; the ranges after it change nothing.
RangeAsAsked ==
  Accepted /\ tree.range # Null /\ tree.range # <<>> =>
    LET spec == tree.range[1] IN
    spec.dash /\ spec.first # Null /\ spec.last # Null =>
      (spec.first <= IntMax /\ spec.last \in 1 .. IntMax =>
         RequestOf(tree).ranges = [start |-> spec.first, end |-> spec.last])

=============================================================================
