------------------------------- MODULE Server -------------------------------
(***************************************************************************)
(* The main loop of src/server.c, composed of the static file service      *)
(* (StaticFile) and the FastCGI client (FastCgi), which share the process  *)
(* and its descriptors.  One request at a time: taken from librequest,     *)
(* refused, forwarded to php-fpm or served from a file, ended, and its     *)
(* connection kept or closed.                                              *)
(*                                                                         *)
(* librequest is external.  Of it, only what lib/request.h says is used: a *)
(* slot per client, getRequest() that takes a request from a ready one,    *)
(* endWriteDirectClient() and requestShutdownSocket().                     *)
(***************************************************************************)
EXTENDS Semantic

CONSTANTS
  Clients,      \* the slots of librequest, at most MAXCLIENT
  Messages_t,   \* the messages getRequest() delivers
  MaxTaken,     \* bound: requests taken
  \* StaticFile
  Buffer, BigBuffer, MaxStream, DirTell, MaxFds, Sizes, Ranges, MaxRequests,
  MaxChurn,
  \* FastCgi
  HeaderSize, MaxContent, StatusText, ParamSizes, Declared, Bodies, Scripts,
  RecordSizes, MaxRecords, Overread

VARIABLES
  main,      \* where the main loop stands
  client,    \* requete->clientId
  msg,       \* the message
  slot,      \* librequest's slot of each client
  gone,      \* the client being served has left
  sockets,   \* history: the calls of socket() that succeeded
  taken,     \* requests taken
  spc, req, disk, file, resp, out, waiting, churn, stale, unclosed,  \* StaticFile
  cpc, creq, script, fd, todo, left, peer, records, stdout, opening, list, tail,
  keepalive, reply,                                                  \* FastCgi
  fds        \* shared: descriptors the process holds

SF == INSTANCE StaticFile WITH pc <- spc, served <- 0
FC == INSTANCE FastCgi WITH pc <- cpc, req <- creq, taken <- 0

loop == <<main, client, msg, slot, gone, sockets, taken>>
static == <<spc, req, disk, file, resp, out, waiting, churn, stale, unclosed>>
cgi == <<cpc, creq, script, fd, todo, left, peer, records, stdout, opening,
         list, tail, keepalive, reply>>
vars == <<loop, static, cgi, fds>>

(***************************************************************************)
(* A message: whether parseur() accepts it, whether its absolute_path      *)
(* holds ".php", its tree, and what the FastCGI client reads of it.        *)
(***************************************************************************)
Message ==
  [parsed : BOOLEAN, php : BOOLEAN, tree : Trees(Seq(Spec_t)),
   declared : Declared \cup {Null}, body : Bodies, params : ParamSizes]

ASSUME ServerAssumption ==
  /\ Messages_t \subseteq Message
  /\ MaxTaken \in Nat

\* What the two services ask of their constants.
ASSUME ServicesAssumption ==
  /\ {Buffer, BigBuffer, MaxStream, HeaderSize, MaxContent, StatusText}
       \subseteq Nat \ {0}
  /\ {DirTell, MaxFds, MaxRequests, MaxChurn, MaxRecords, Overread} \subseteq Nat
  /\ Sizes \cup Declared \cup Bodies \subseteq Nat
  /\ Ranges \subseteq Range_t
  /\ HeaderSize + MaxContent <= IntMax /\ HeaderSize <= MaxContent
  /\ RecordSizes \cup ParamSizes \subseteq 0 .. MaxContent
  /\ Scripts \subseteq FC!Script

CgiRequest(m) ==
  [version |-> IF m.tree.version \in Known THEN m.tree.version ELSE "other",
   close |-> m.tree.connection = "close",
   declared |-> m.declared, body |-> m.body, params |-> m.params]

Stages == {"getRequest", "bad", "refused", "static", "cgi", "ending"}

TypeOK ==
  /\ main \in Stages
  /\ slot \in [Clients -> {"free", "ready", "busy"}]
  /\ gone \in BOOLEAN
  /\ {sockets, taken} \subseteq Nat
  /\ main # "getRequest" => client \in Clients /\ msg \in Messages_t
  /\ main = "static" <=> spc # "idle"
  /\ main = "cgi" <=> cpc # "idle"
  /\ SF!TypeOK
  /\ FC!TypeOK

Init ==
  /\ main = "getRequest"
  /\ client = Null
  /\ msg = Null
  /\ slot = [c \in Clients |-> "free"]
  /\ gone = FALSE
  /\ sockets = 0
  /\ taken = 0
  /\ SF!Init
  /\ FC!Init

-----------------------------------------------------------------------------
(***************************************************************************)
(* The clients.                                                            *)
(***************************************************************************)
up == cpc # "crashed"

Connect(c) ==
  /\ up
  /\ slot[c] = "free"
  /\ slot' = [slot EXCEPT ![c] = "ready"]
  /\ UNCHANGED <<main, client, msg, gone, sockets, taken, static, cgi, fds>>

Disconnect(c) ==
  /\ slot[c] = "ready"
  /\ slot' = [slot EXCEPT ![c] = "free"]
  /\ UNCHANGED <<main, client, msg, gone, sockets, taken, static, cgi, fds>>

\* The client being served leaves; what is still written to it is lost.
Leave ==
  /\ main # "getRequest"
  /\ ~gone
  /\ gone' = TRUE
  /\ UNCHANGED <<main, client, msg, slot, sockets, taken, static, cgi, fds>>

-----------------------------------------------------------------------------
(***************************************************************************)
(* One turn of the loop.                                                   *)
(***************************************************************************)

\* getstatus() refuses: what the headers of the answer are printed from.
RefusedResponse(status) ==
  [EmptyResponse EXCEPT !.version = "HTTP1_0", !.connection = "CLOSE",
                        !.status_code = status]

\* The message is dispatched: a request for a .php path skips getstatus().
Dispatch(m) ==
  CASE ~m.parsed ->
         main' = "bad" /\ UNCHANGED <<static, cgi>>
    [] m.parsed /\ m.php ->
         /\ main' = "cgi"
         /\ FC!Enter(CgiRequest(m))
         /\ UNCHANGED <<static, fd, todo, left, peer, records, stdout, opening,
                        list, tail, keepalive, reply>>
    [] m.parsed /\ ~m.php /\ getstatus(m.tree).status >= 300 ->
         /\ main' = "refused"
         /\ resp' = RefusedResponse(getstatus(m.tree).status)
         /\ UNCHANGED <<spc, req, disk, file, out, waiting, churn, stale, unclosed,
                        cgi>>
    [] OTHER ->
         /\ main' = "static"
         /\ SF!Enter(RequestOf(m.tree))
         /\ UNCHANGED <<disk, file, out, waiting, churn, stale, unclosed, cgi>>

\* getRequest(), parseur(), and what decides which way the request goes.
GetRequest(c) ==
  /\ up
  /\ main = "getRequest"
  /\ slot[c] = "ready"
  /\ taken < MaxTaken
  /\ taken' = taken + 1
  /\ slot' = [slot EXCEPT ![c] = "busy"]
  /\ client' = c
  /\ \E m \in Messages_t : msg' = m /\ Dispatch(m)
  /\ UNCHANGED <<gone, sockets, fds>>

\* BadRequest if its connection were ended without an answer.
BadRequest_Ends ==
  /\ main = "bad"
  /\ main' = "ending"
  /\ UNCHANGED <<client, msg, slot, gone, sockets, taken, static, cgi, fds>>

\* It does not parse: a status line and nothing else.
BadRequest ==
  /\ main = "bad"
  /\ out' = StatusLine(out, 400)
  /\ main' = "ending"
  /\ UNCHANGED <<client, msg, slot, gone, sockets, taken, spc, req, disk, file,
                 resp, waiting, churn, stale, unclosed, cgi, fds>>

\* send_headers(), then send_end().
Refuse ==
  /\ main = "refused"
  /\ resp' = SentResponse(resp)
  /\ out' = Payload(SendHeaders(out, resp), 4)
  /\ main' = "ending"
  /\ UNCHANGED <<client, msg, slot, gone, sockets, taken, spc, req, disk, file,
                 waiting, churn, stale, unclosed, cgi, fds>>

ServeStatic ==
  /\ main = "static"
  /\ SF!Step
  /\ UNCHANGED <<loop, cgi>>

\* sendFCGI(): its own calls, and the records it waits for.  socket() succeeds while
\* a descriptor is left.
Forward ==
  /\ main = "cgi"
  /\ FC!Own
  /\ sockets' = IF cpc = "socket" /\ fds < MaxFds THEN sockets + 1 ELSE sockets
  /\ UNCHANGED <<main, client, msg, slot, gone, taken, static>>

Await ==
  /\ main = "cgi"
  /\ FC!Php
  /\ UNCHANGED <<loop, static>>

\* The connection is to be kept.
Keeps ==
  CASE main = "static" -> resp.connection # "CLOSE"
    [] main = "cgi" -> keepalive
    [] OTHER -> FALSE

\* EndRequest if endWriteDirectClient() were not called.
EndRequest_Unended ==
  /\ main' = "getRequest"
  /\ slot' = slot
  /\ client' = Null
  /\ msg' = Null
  /\ gone' = FALSE
  /\ UNCHANGED <<sockets, taken>>

\* endWriteDirectClient(), and requestShutdownSocket() unless it is kept.  A slot
\* whose client has left is freed by librequest.
EndRequest ==
  /\ main' = "getRequest"
  /\ slot' = [slot EXCEPT ![client] = IF Keeps /\ ~gone THEN "ready" ELSE "free"]
  /\ client' = Null
  /\ msg' = Null
  /\ gone' = FALSE
  /\ UNCHANGED <<sockets, taken>>

EndRefused ==
  /\ main = "ending"
  /\ EndRequest
  /\ out' = EmptyStream
  /\ resp' = EmptyResponse
  /\ UNCHANGED <<spc, req, disk, file, waiting, churn, stale, unclosed, cgi, fds>>

EndStatic ==
  /\ main = "static"
  /\ SF!End
  /\ EndRequest
  /\ UNCHANGED cgi

\* EndCgi if what sendFCGI() knows of a request were not local to it.
EndCgi_Statics ==
  /\ main = "cgi"
  /\ cpc = "answered"
  /\ EndRequest
  /\ UNCHANGED <<static, cgi, fds>>

EndCgi ==
  /\ main = "cgi"
  /\ FC!End
  /\ EndRequest
  /\ UNCHANGED static

Loop == BadRequest \/ Refuse \/ EndRefused \/ EndStatic \/ EndCgi

\* The files change, php-fpm goes away.
Others ==
  \/ (SF!Replace \/ SF!Resize) /\ UNCHANGED <<loop, cgi>>
  \/ FC!PeerGone /\ UNCHANGED <<loop, static>>

Next ==
  \/ \E c \in Clients : Connect(c) \/ Disconnect(c) \/ GetRequest(c)
  \/ Leave \/ Loop \/ ServeStatic \/ Forward \/ Await \/ Others

\* The one thread takes its steps; php-fpm ends the requests it is given.
Fairness ==
  /\ WF_vars(Loop \/ ServeStatic \/ Forward)
  /\ WF_vars((main = "cgi" /\ FC!EndRequest /\ UNCHANGED <<loop, static>>)
              \/ (FC!PeerGone /\ UNCHANGED <<loop, static>>))

Spec == Init /\ [][Next]_vars /\ Fairness

-----------------------------------------------------------------------------
(***************************************************************************)
(* Properties.                                                             *)
(***************************************************************************)

\* The main loop does what it promises: one request at a time, each answered
\* once, its connection kept or freed, and every one taken answered unless
\* sendFCGI() crashes.
HS == INSTANCE HttpService WITH conn <- slot
ImplementsHttpService == HS!Spec

\* The two services share the descriptors, and neither loses or closes one of the
\* other: what the process holds is every socket sendFCGI() was ever given, the files
\* 416 answers left open, and the file being served.  A request takes one at most,
\* so that as many requests as there are descriptors find one left.
DescriptorsAccounted ==
  /\ fds = sockets + unclosed + (IF SF!InHand THEN 1 ELSE 0)
  /\ fds <= taken

\* Whichever service answers, a connection is kept only for a client that speaks
\* HTTP/1.1 and did not ask to close: the decision of getstatus() and that of
\* sendFCGI(), taken apart, agree.
KeptAsAsked ==
  [][\A c \in Clients :
       slot[c] = "busy" /\ slot'[c] = "ready" =>
         /\ msg.parsed
         /\ msg.tree.version = "HTTP/1.1"
         /\ msg.tree.connection # "close"]_vars

Complete == main = "ending" \/ spc = "answered" \/ cpc = "answered"
Silent == out = EmptyStream /\ reply = FC!NoReply

\* A request is ended without a byte written to its client only if it is for
\* php-fpm, which gave nothing, and its version is unknown.
NeverSilent ==
  Complete /\ Silent => main = "cgi" /\ opening = 0 /\ msg.tree.version \notin Known

-----------------------------------------------------------------------------
(***************************************************************************)
(* What the repository's documents say, and the code does not do.          *)
(***************************************************************************)

\* README.md section 3, "fermeture de la socket fcgi": however many requests
\* php-fpm has answered, and no 416 having left a file open, a file that nobody
\* touches is still served.
FilesStillServed ==
  spc = "answered" /\ churn = 0 /\ unclosed = 0 /\ req.methode # "POST"
    => resp.status_code # 0
=============================================================================
