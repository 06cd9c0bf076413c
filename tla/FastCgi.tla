------------------------------ MODULE FastCgi -------------------------------
(***************************************************************************)
(* The FastCGI client of utils/fastcgi.c: sendFCGI(), which forwards one   *)
(* request to php-fpm and its answer to the HTTP client.  One action per   *)
(* system call: socket and connect, every write of writeSocket, every      *)
(* record of readData, every piece of a buffered answer, shutdown.  What   *)
(* the code computes between two calls belongs to the action of the call   *)
(* before.                                                                 *)
(*                                                                         *)
(* php-fpm is external.  It may refuse the connection, die at any point,   *)
(* and answer with any sequence of STDOUT and other records.  What the     *)
(* script prints is abstracted to byte counts: a CGI header section of     *)
(* script.header bytes, its blank line included, then a body.  A byte is   *)
(* known by its position, so that bytes lost, repeated or out of order     *)
(* show.                                                                   *)
(*                                                                         *)
(* Begin and End stand for the main loop; Server replaces them.            *)
(***************************************************************************)
EXTENDS CTypes, Sequences

CONSTANTS
  Null,
  MaxFds,       \* bound: descriptors the process may still open
  HeaderSize,   \* FCGI_HEADER_SIZE, also the size of FCGI_BeginRequestBody
  MaxContent,   \* FASTCGILENGTH
  StatusText,   \* the length of "Status: "
  ParamSizes,   \* the sizes fill_headers() gives the PARAMS content
  Declared,     \* the numbers a Content-Length field holds
  Bodies,       \* the lengths of a message body
  Scripts,      \* what scripts print, see Script
  RecordSizes,  \* the content lengths of STDOUT records
  MaxRecords,   \* bound: records php-fpm sends for a request
  Overread,     \* bound: how far strstr() runs past a buffer without blank line
  MaxRequests   \* bound: requests forwarded

\* status: the position of the first "Status: " in the output, Null if none.
Script == [header : Nat, status : Nat \cup {Null}]

ASSUME FastCgiAssumption ==
  /\ Null \notin Int
  /\ {HeaderSize, MaxContent, StatusText} \subseteq Nat \ {0}
  /\ HeaderSize + MaxContent <= IntMax /\ HeaderSize <= MaxContent
  /\ {MaxFds, MaxRecords, Overread, MaxRequests} \subseteq Nat
  /\ Declared \cup Bodies \subseteq Nat
  /\ RecordSizes \cup ParamSizes \subseteq 0 .. MaxContent
  /\ Scripts \subseteq Script

VARIABLES
  pc,          \* the system call about to be made
  req,         \* the request forwarded
  script,      \* what the script that runs it prints
  fd,          \* the socket: "none" before socket(), "failed" for -1, "open"
  fds,         \* descriptors the process holds
  todo,        \* contents of the messages still to be written
  left,        \* len of the writeSocket() under way, an unsigned int
  peer,        \* php-fpm's end of the connection is open
  records,     \* records read
  stdout,      \* STDOUT bytes received
  opening,     \* bytes of the first STDOUT record; 0 while first is true
  list,        \* response_list, as a sequence
  tail,        \* current_response is not NULL
  keepalive,
  reply,       \* what has been written to the HTTP client
  taken        \* requests begun

vars == <<pc, req, script, fd, fds, todo, left, peer, records, stdout, opening,
          list, tail, keepalive, reply, taken>>

request == <<req, script, taken>>
socket == <<fd, fds, todo, left, peer>>
answer == <<records, stdout, opening, list, tail, keepalive, reply>>

Forwarding == {"socket", "write", "read", "length", "flush", "shutdown"}
Labels == Forwarding \cup {"idle", "answered", "crashed"}

Request ==
  [version : {"HTTP/1.0", "HTTP/1.1", "other"}, close : BOOLEAN,
   declared : Declared \cup {Null}, body : Bodies, params : ParamSizes]

NoRequest ==
  [version |-> "other", close |-> FALSE, declared |-> Null, body |-> 0,
   params |-> 0]

NoScript == [header |-> 0, status |-> Null]

\* Some bytes of the script's output: n of them, from position at.
Piece == [at : Nat, n : Nat]

(***************************************************************************)
(* The HTTP client's side.  prefix: "HTTP/1.x " was written; status: who   *)
(* gave the rest of the status line; announced: the Content-length added;  *)
(* next: the position after the last output byte written; torn: an output  *)
(* byte was lost, repeated or out of order.                                *)
(***************************************************************************)
Reply ==
  [prefix : BOOLEAN, status : {"none", "server", "script"},
   announced : Int \cup {Null}, next : Nat, torn : BOOLEAN]

NoReply ==
  [prefix |-> FALSE, status |-> "none", announced |-> Null, next |-> 0,
   torn |-> FALSE]

Write(r, piece) ==
  [r EXCEPT !.next = piece.at + piece.n, !.torn = @ \/ piece.at # r.next]

UIntMod == 2 * (IntMax + 1)

-----------------------------------------------------------------------------
TypeOK ==
  /\ pc \in Labels
  /\ req \in Request \cup {NoRequest}
  /\ script \in Script
  /\ fd \in {"none", "failed", "open"}
  /\ fds \in Nat
  /\ todo \in Seq(0 .. MaxContent)
  /\ left \in 0 .. UIntMod - 1
  /\ peer \in BOOLEAN
  /\ records \in Nat
  /\ stdout \in Nat
  /\ opening \in Nat
  /\ list \in Seq(Piece)
  /\ tail \in BOOLEAN
  /\ keepalive \in BOOLEAN
  /\ reply \in Reply
  /\ taken \in Nat

Init ==
  /\ pc = "idle"
  /\ req = NoRequest
  /\ script = NoScript
  /\ fd = "none"
  /\ fds = 0
  /\ todo = <<>>
  /\ left = 0
  /\ peer = FALSE
  /\ records = 0
  /\ stdout = 0
  /\ opening = 0
  /\ list = <<>>
  /\ tail = FALSE
  /\ keepalive = FALSE
  /\ reply = NoReply
  /\ taken = 0

\* sendFCGI() is entered for request r.
Enter(r) ==
  /\ req' = r
  /\ script' \in Scripts
  /\ pc' = "socket"

Begin ==
  /\ pc = "idle"
  /\ taken < MaxRequests
  /\ taken' = taken + 1
  /\ \E r \in Request : Enter(r)
  /\ UNCHANGED <<socket, answer>>

-----------------------------------------------------------------------------
(***************************************************************************)
(* The request: BEGIN_REQUEST, PARAMS, an empty PARAMS, the body when      *)
(* there is a Content-Length, and an empty STDIN.                          *)
(***************************************************************************)

\* sscanf "%d" into an int, passed as an unsigned int.
StdinLength(r) == AtoI(r.declared) % UIntMod

\* sendWebData() sends nothing when the length is above FASTCGILENGTH.
SendsBody(r) == r.declared # Null /\ StdinLength(r) <= MaxContent

Contents(r) ==
  <<HeaderSize, r.params, 0>>
    \o (IF SendsBody(r) THEN <<StdinLength(r)>> ELSE <<>>) \o <<0>>

\* Bytes copied to STDIN from past the end of the message body.
Stray(r) ==
  IF SendsBody(r) THEN MaxOf(0, StdinLength(r) - r.body) ELSE 0

\* createSocket(): socket() fails when no descriptor is left; a socket whose
\* connect() fails is not closed.
NoSocket ==
  /\ fds >= MaxFds
  /\ fd' = "failed"
  /\ peer' = FALSE
  /\ fds' = fds

Refused ==
  /\ fds < MaxFds
  /\ fd' = "failed"
  /\ peer' = FALSE
  /\ fds' = fds + 1

\* Connected at the second try, with another socket.
Connected_SecondTry ==
  /\ fds + 1 < MaxFds
  /\ fd' = "open"
  /\ peer' = TRUE
  /\ fds' = fds + 2

Connected ==
  /\ fds < MaxFds
  /\ fd' = "open"
  /\ peer' = TRUE
  /\ fds' = fds + 1

CreateSocket ==
  /\ pc = "socket"
  /\ NoSocket \/ Refused \/ Connected
  /\ left' = HeaderSize + Head(Contents(req))
  /\ todo' = Tail(Contents(req))
  /\ pc' = "write"
  /\ UNCHANGED <<request, answer>>

\* The rest of a message when a failed write leaves len as it is.
Rests_IgnoresErrors == IF fd = "open" /\ peer THEN 0 .. left - 1 ELSE {left}

\* write() takes some of the bytes, or fails with -1, which makes len grow.
Rests == IF fd = "open" /\ peer THEN 0 .. left - 1 ELSE {(left + 1) % UIntMod}

MoreToWrite ==
  /\ \E l \in Rests \ {0} : left' = l
  /\ UNCHANGED <<pc, fd, fds, todo, peer, answer>>

\* The copy of the body reads past its end: a fault, or some other bytes.
NextMessage ==
  /\ 0 \in Rests
  /\ todo # <<>>
  /\ left' = HeaderSize + Head(todo)
  /\ todo' = Tail(todo)
  /\ \/ pc' = "write"
     \/ Stray(req) > 0 /\ Len(todo) = 2 /\ pc' = "crashed"
  /\ UNCHANGED <<fd, fds, peer, answer>>

\* LastWritten if every client that does not ask to close were kept.
LastWritten_AnyVersion ==
  /\ 0 \in Rests
  /\ todo = <<>>
  /\ left' = 0
  /\ keepalive' = ~req.close
  /\ reply' = [reply EXCEPT !.prefix = (req.version # "other")]
  /\ pc' = "read"
  /\ UNCHANGED <<fd, fds, todo, peer, records, stdout, opening, list, tail>>

\* The request is sent.  Its version is echoed to the client and decides whether
\* the connection is kept; no value of a Connection field but close matters.
LastWritten ==
  /\ 0 \in Rests
  /\ todo = <<>>
  /\ left' = 0
  /\ keepalive' = (req.version = "HTTP/1.1" /\ ~req.close)
  /\ reply' = [reply EXCEPT !.prefix = (req.version # "other")]
  /\ pc' = "read"
  /\ UNCHANGED <<fd, fds, todo, peer, records, stdout, opening, list, tail>>

\* One write() of writeSocket().
WriteSocket ==
  /\ pc = "write"
  /\ MoreToWrite \/ NextMessage \/ LastWritten
  /\ UNCHANGED request

-----------------------------------------------------------------------------
(***************************************************************************)
(* The answer: readData() until END_REQUEST or a read that falls short.    *)
(***************************************************************************)

\* strstr(h.contentData, "Status: ") in the first n bytes of the output.  What it
\* would find past them, in PARAMS still in the buffer or in a STDERR record, is
\* taken to hold no "Status: ".
HasStatus(n) == script.status # Null /\ script.status + StatusText <= n

\* The first eight bytes of the record are taken for "Status: ", wherever it is.
FirstWithStatus(n) ==
  /\ opening = 0
  /\ HasStatus(n)
  /\ reply' =
       Write(IF script.status = 0
               THEN [reply EXCEPT !.status = "script", !.next = StatusText]
               ELSE reply,
             [at |-> StatusText, n |-> n - StatusText])
  /\ UNCHANGED <<list, tail, pc>>

\* FirstBuffered if current_response were not set.
FirstBuffered_NoTail(n) ==
  /\ opening = 0
  /\ ~HasStatus(n)
  /\ keepalive
  /\ reply' = [reply EXCEPT !.status = "server"]
  /\ list' = <<[at |-> stdout, n |-> n]>>
  /\ UNCHANGED <<pc, tail>>

FirstBuffered(n) ==
  /\ opening = 0
  /\ ~HasStatus(n)
  /\ keepalive
  /\ reply' = [reply EXCEPT !.status = "server"]
  /\ list' = <<[at |-> stdout, n |-> n]>>
  /\ tail' = TRUE
  /\ UNCHANGED pc

FirstForwarded(n) ==
  /\ opening = 0
  /\ ~HasStatus(n)
  /\ ~keepalive
  /\ reply' = Write([reply EXCEPT !.status = "server"], [at |-> stdout, n |-> n])
  /\ UNCHANGED <<list, tail, pc>>

\* LaterBuffered if the new element were linked in front of the list.
LaterBuffered_InFront(n) ==
  /\ opening > 0
  /\ keepalive
  /\ tail
  /\ list' = <<[at |-> stdout, n |-> n]>> \o list
  /\ UNCHANGED <<reply, tail, pc>>

LaterBuffered(n) ==
  /\ opening > 0
  /\ keepalive
  /\ tail
  /\ list' = Append(list, [at |-> stdout, n |-> n])
  /\ UNCHANGED <<reply, tail, pc>>

\* current_response->next when the first record was not buffered.
LaterNull ==
  /\ opening > 0
  /\ keepalive
  /\ ~tail
  /\ pc' = "crashed"
  /\ UNCHANGED <<list, reply, tail>>

LaterForwarded(n) ==
  /\ opening > 0
  /\ ~keepalive
  /\ reply' = Write(reply, [at |-> stdout, n |-> n])
  /\ UNCHANGED <<list, tail, pc>>

\* The first record is not empty: a script prints a header section.
ReadStdout ==
  /\ pc = "read"
  /\ fd = "open"
  /\ records < MaxRecords
  /\ records' = records + 1
  /\ \E n \in RecordSizes :
       /\ opening = 0 => n > 0
       /\ \/ FirstWithStatus(n) \/ FirstBuffered(n) \/ FirstForwarded(n)
          \/ LaterBuffered(n) \/ LaterNull \/ LaterForwarded(n)
       /\ stdout' = stdout + n
       /\ opening' = IF opening = 0 THEN n ELSE opening
  /\ UNCHANGED <<request, socket, keepalive>>

\* STDERR, and any other type.
ReadOther ==
  /\ pc = "read"
  /\ fd = "open"
  /\ records < MaxRecords
  /\ records' = records + 1
  /\ UNCHANGED <<pc, request, socket, stdout, opening, list, tail, keepalive,
                 reply>>

EndRequest ==
  /\ pc = "read"
  /\ fd = "open"
  /\ pc' = "length"
  /\ UNCHANGED <<request, socket, answer>>

\* A header or a content that does not come whole: len stays 0.
ReadShort ==
  /\ pc = "read"
  /\ fd = "failed" \/ ~peer
  /\ pc' = "length"
  /\ UNCHANGED <<request, socket, answer>>

-----------------------------------------------------------------------------
(***************************************************************************)
(* The end: a buffered answer is written after its length.                 *)
(***************************************************************************)

\* get_http_body_length(): -1, or whatever a search past the end of the buffer
\* finds, when the first record does not hold the blank line.
BodyLengths(total, buffered) ==
  IF script.header \in 1 .. buffered THEN {total - script.header}
  ELSE {-1} \cup {total - end : end \in buffered + 1 .. buffered + Overread}

SendLength ==
  /\ pc = "length"
  /\ IF keepalive /\ list # <<>>
       THEN /\ \E n \in BodyLengths(AsInt(stdout), opening) :
                 reply' = [reply EXCEPT !.announced = n]
            /\ pc' = "flush"
       ELSE /\ pc' = "shutdown"
            /\ UNCHANGED reply
  /\ UNCHANGED <<request, socket, records, stdout, opening, list, tail,
                 keepalive>>

Flush ==
  /\ pc = "flush"
  /\ reply' = Write(reply, Head(list))
  /\ list' = Tail(list)
  /\ pc' = IF Tail(list) = <<>> THEN "shutdown" ELSE "flush"
  /\ UNCHANGED <<request, socket, records, stdout, opening, tail, keepalive>>

\* shutdown(fd, SHUT_RDWR), without close(fd)
Shutdown ==
  /\ pc = "shutdown"
  /\ peer' = FALSE
  /\ pc' = "answered"
  /\ UNCHANGED <<request, fd, fds, todo, left, answer>>

End ==
  /\ pc = "answered"
  /\ pc' = "idle"
  /\ req' = NoRequest
  /\ script' = NoScript
  /\ fd' = "none"
  /\ records' = 0
  /\ stdout' = 0
  /\ opening' = 0
  /\ list' = <<>>
  /\ tail' = FALSE
  /\ keepalive' = FALSE
  /\ reply' = NoReply
  /\ UNCHANGED <<fds, todo, left, peer, taken>>

\* php-fpm dies, or closes the connection.
PeerGone ==
  /\ peer
  /\ pc \in {"write", "read"}
  /\ peer' = FALSE
  /\ UNCHANGED <<pc, request, fd, fds, todo, left, answer>>

\* The steps the server takes alone, and those php-fpm supplies.
Own == CreateSocket \/ WriteSocket \/ ReadShort \/ SendLength \/ Flush \/ Shutdown
Php == ReadStdout \/ ReadOther \/ EndRequest

Next == Begin \/ Own \/ Php \/ End \/ PeerGone

\* The server is one thread, so its own steps are taken.  A read has no timeout:
\* that it ends is assumed of php-fpm, which ends a request or its connection.
Fairness ==
  /\ WF_vars(Own \/ End)
  /\ WF_vars(EndRequest \/ PeerGone)

Spec == Init /\ [][Next]_vars /\ Fairness

-----------------------------------------------------------------------------
(***************************************************************************)
(* Properties.                                                             *)
(***************************************************************************)

\* The position up to which the output received has been written or buffered.
Upto == IF list = <<>> THEN reply.next ELSE list[Len(list)].at + list[Len(list)].n

\* The client gets the script's output byte for byte, in order, through the
\* buffer or around it: what was received is written or in the list, and all of
\* it is written at the end.  Only a "Status: " that is not at the very start of
\* the first record costs bytes.
OutputInOrder ==
  pc \in Forwarding \cup {"answered"} =>
    /\ Upto = stdout
    /\ reply.torn => script.status # 0 /\ HasStatus(opening)
    /\ pc = "answered" => reply.next = stdout

\* The client gets a whole status line, version and code, before the output,
\* unless the version is unknown, nothing came from php-fpm, or the status is not
\* where the code takes it to be.
StatusLineWhole ==
  pc = "answered" =>
    (reply.prefix /\ reply.status # "none" <=>
       req.version # "other" /\ opening > 0
         /\ (HasStatus(opening) => script.status = 0))

\* The client of a connection that stays open is told the length of the body it
\* gets.  It is not when nothing came from php-fpm, when the script sets its
\* status, when its header section does not end in the first record, and past
\* the range of an int.
KeptReplyDelimited ==
  pc = "answered" /\ keepalive /\ reply.announced # stdout - script.header
  => \/ opening = 0
     \/ HasStatus(opening)
     \/ script.header \notin 1 .. opening
     \/ stdout > IntMax

\* The client gets the script's reply: its output in order after a status line,
\* and its length where the connection is kept (fastcgi.c:331-384).
ReplyIsWhole == OutputInOrder /\ StatusLineWhole /\ KeptReplyDelimited

\* The process dies only of a second record after a first one with a status, on
\* a connection to be kept, or of a body shorter than its Content-Length.
CrashesExplained ==
  pc = "crashed" => Stray(req) > 0 \/ (keepalive /\ HasStatus(opening))

\* A request forwarded is answered, whatever becomes of php-fpm: the write loop
\* that a dead connection turns into 2^32 failing calls ends too.
EventuallyAnswered == pc = "socket" ~> pc \in {"answered", "crashed"}
=============================================================================
