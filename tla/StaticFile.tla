----------------------------- MODULE StaticFile -----------------------------
(***************************************************************************)
(* The static file service of src/answer.c: send_data() and, when it       *)
(* answers false, send_response().  One action per system call, because    *)
(* the file may be removed, created, truncated or extended between two of  *)
(* them: access, fopen, fseek/ftell, every fread.  What the code computes  *)
(* or writes between two calls belongs to the action of the call before.   *)
(*                                                                         *)
(* Begin and End stand for the main loop around one request, so that the   *)
(* module can be checked alone over a sequence of requests; Server         *)
(* replaces them.                                                          *)
(***************************************************************************)
EXTENDS Http, CTypes

CONSTANTS
  Buffer,      \* BUFFER_SIZE
  BigBuffer,   \* BIG_BUFFER_SIZE
  MaxStream,   \* MAX_STREAM_SIZE
  DirTell,     \* what ftell answers at the end of a directory
  MaxFds,      \* bound: descriptors the process may still open
  Sizes,       \* the sizes a file takes
  Ranges,      \* the ranges populate_ranges() yields
  MaxRequests, \* bound: requests served
  MaxChurn     \* bound: changes of the file by others

ASSUME StaticFileAssumption ==
  /\ {Buffer, BigBuffer, MaxStream} \subseteq Nat \ {0}
  /\ {DirTell, MaxFds, MaxRequests, MaxChurn} \subseteq Nat
  /\ Sizes \subseteq Nat
  /\ Ranges \subseteq Range_t

VARIABLES
  pc,          \* the system call about to be made
  req,         \* headers_request
  disk,        \* the file at the request's path, Null when there is none
  file,        \* the FILE opened by send_data
  fds,         \* descriptors the process holds
  resp,        \* response.headers_response
  out,         \* what has been written to the client
  waiting,     \* waiting_bytes
  served,      \* requests begun
  churn,       \* changes of the file by others
  stale,       \* the open file changed since its size was read or assumed
  unclosed     \* responses that left a FILE open

vars == <<pc, req, disk, file, fds, resp, out, waiting, served, churn, stale,
          unclosed>>

(***************************************************************************)
(* tell is the offset of the end of the file, data the bytes a read can    *)
(* deliver.  They differ for a directory, which fopen "rb" opens: a read   *)
(* fails and its end is wherever the file system says.                     *)
(***************************************************************************)
Node == [tell : Nat, data : Nat]
Regular(n) == [tell |-> n, data |-> n]
Directory == [tell |-> DirTell, data |-> 0]
Nodes == {Regular(n) : n \in Sizes} \cup {Directory}

\* linked: the path still names the file that is open.
FileState == [open : BOOLEAN, node : Node, pos : Int, linked : BOOLEAN]
NoFile == [open |-> FALSE, node |-> Directory, pos |-> 0, linked |-> FALSE]

Serving == {"access", "fopen", "ftell", "dispatch", "range", "chunked",
            "identity", "send_response"}
Labels == Serving \cup {"idle", "answered"}

\* fread(buffer, 1, n, file)
BytesRead(n) ==
  IF file.pos < file.node.data THEN MinOf(n, file.node.data - file.pos) ELSE 0

Closed == [file EXCEPT !.open = FALSE]

-----------------------------------------------------------------------------
TypeOK ==
  /\ pc \in Labels
  /\ req \in HeadersRequest
  /\ disk \in Node \cup {Null}
  /\ file \in FileState
  /\ fds \in Nat
  /\ resp \in HeadersResponse
  /\ out \in Stream
  /\ waiting \in Nat
  /\ served \in Nat
  /\ churn \in Nat
  /\ stale \in BOOLEAN
  /\ unclosed \in Nat

\* getstatus() closes every HTTP/1.0 connection it does not refuse.
Requests ==
  {r \in [methode : Methode, version : HTTP_version, connection : Connection,
          accepts : BOOLEAN, ranges : Ranges \cup {Null}] :
     r.version = "HTTP1_0" => r.connection = "CLOSE"}

\* populateRespFromReq()
PopulateRespFromReq(r) ==
  [EmptyResponse EXCEPT
     !.version = r.version,
     !.connection = r.connection,
     !.transfert_encoding =
        IF r.ranges = Null /\ r.version = "HTTP1_1" THEN "CHUNKED"
                                                    ELSE "IDENTITY"]

\* The locals of the main loop between two requests.
NoRequest ==
  [methode |-> "GET", version |-> "HTTP1_0", connection |-> "CLOSE",
   accepts |-> TRUE, ranges |-> Null]

Init ==
  /\ pc = "idle"
  /\ req = NoRequest
  /\ disk \in Nodes \cup {Null}
  /\ file = NoFile
  /\ fds = 0
  /\ resp = EmptyResponse
  /\ out = EmptyStream
  /\ waiting = 0
  /\ served = 0
  /\ churn = 0
  /\ stale = FALSE
  /\ unclosed = 0

\* The request r has passed getstatus(); send_data() is entered.
Enter(r) ==
  /\ req' = r
  /\ resp' = PopulateRespFromReq(r)
  /\ pc' = "access"

Begin ==
  /\ pc = "idle"
  /\ served < MaxRequests
  /\ served' = served + 1
  /\ \E r \in Requests : Enter(r)
  /\ UNCHANGED <<disk, file, fds, out, waiting, churn, stale, unclosed>>

-----------------------------------------------------------------------------
(***************************************************************************)
(* POST: the answer is written at once, whatever the path.                 *)
(***************************************************************************)
Post ==
  /\ pc = "access"
  /\ req.methode = "POST"
  /\ resp' = [resp EXCEPT !.connection = "CLOSE"]
  /\ out' = EndOfHeaders(StatusLine(out, 405))
  /\ pc' = "answered"
  /\ UNCHANGED <<req, disk, file, fds, waiting, served, churn, stale, unclosed>>

\* Access if the 404 path did not set connection to CLOSE.
Access_KeptOpen ==
  /\ pc = "access"
  /\ req.methode \in {"GET", "HEAD"}
  /\ \/ /\ disk = Null
        /\ resp' = [resp EXCEPT !.status_code = 404]
        /\ pc' = "send_response"
     \/ /\ disk # Null
        /\ resp' = [resp EXCEPT !.content_type = TRUE]
        /\ pc' = "fopen"
  /\ UNCHANGED <<req, disk, file, fds, out, waiting, served, churn, stale,
                 unclosed>>

\* access(url, F_OK | R_OK), then isAccepted()
Access ==
  /\ pc = "access"
  /\ req.methode \in {"GET", "HEAD"}
  /\ \/ /\ disk = Null
        /\ resp' = [resp EXCEPT !.status_code = 404, !.connection = "CLOSE"]
        /\ pc' = "send_response"
     \/ /\ disk # Null
        /\ ~req.accepts
        /\ resp' = [resp EXCEPT !.status_code = 415]
        /\ pc' = "send_response"
     \/ /\ disk # Null
        /\ req.accepts
        /\ resp' = [resp EXCEPT !.content_type = TRUE]
        /\ pc' = "fopen"
  /\ UNCHANGED <<req, disk, file, fds, out, waiting, served, churn, stale,
                 unclosed>>

\* fopen(url, "rb"): the file may be gone, or no descriptor may be left.
FopenFails ==
  /\ pc = "fopen"
  /\ disk = Null \/ fds >= MaxFds
  /\ pc' = "send_response"
  /\ UNCHANGED <<req, disk, file, fds, resp, out, waiting, served, churn, stale,
                 unclosed>>

Fopen ==
  /\ pc = "fopen"
  /\ disk # Null
  /\ fds < MaxFds
  /\ file' = [open |-> TRUE, node |-> disk, pos |-> 0, linked |-> TRUE]
  /\ fds' = fds + 1
  /\ pc' = IF resp.transfert_encoding = "CHUNKED" THEN "dispatch" ELSE "ftell"
  /\ UNCHANGED <<req, disk, resp, out, waiting, served, churn, stale, unclosed>>

\* fseek(file, 0L, SEEK_END); file_size = ftell(file)
Ftell ==
  /\ pc = "ftell"
  /\ file' = [file EXCEPT !.pos = file.node.tell]
  /\ resp' = [resp EXCEPT !.content_length = file.node.tell]
  /\ stale' = FALSE
  /\ pc' = "dispatch"
  /\ UNCHANGED <<req, disk, fds, out, waiting, served, churn, unclosed>>

\* Head if it returned without fclose.
Head_Unclosed ==
  /\ pc = "dispatch"
  /\ req.methode = "HEAD"
  /\ resp' = [resp EXCEPT !.status_code = 200]
  /\ pc' = "send_response"
  /\ UNCHANGED <<req, disk, file, fds, out, waiting, served, churn, stale,
                 unclosed>>

\* HEAD: the headers are left to send_response().
Head ==
  /\ pc = "dispatch"
  /\ req.methode = "HEAD"
  /\ resp' = [resp EXCEPT !.status_code = 200]
  /\ file' = Closed
  /\ fds' = fds - 1
  /\ pc' = "send_response"
  /\ UNCHANGED <<req, disk, out, waiting, served, churn, stale, unclosed>>

\* GET without a range: the headers, then the body from the file's position.
WholeFile ==
  /\ pc = "dispatch"
  /\ req.methode = "GET"
  /\ req.ranges = Null
  /\ resp' = SentResponse([resp EXCEPT !.status_code = 200])
  /\ out' = SendHeaders(out, [resp EXCEPT !.status_code = 200])
  /\ pc' = IF resp.transfert_encoding = "CHUNKED" THEN "chunked" ELSE "identity"
  /\ UNCHANGED <<req, disk, file, fds, waiting, served, churn, stale, unclosed>>

-----------------------------------------------------------------------------
(***************************************************************************)
(* GET with a range.  -1 stands for an end the request does not give; the  *)
(* start is -1 for a suffix range, which is served from 0.                 *)
(***************************************************************************)
StartOf(r) == IF r.start = -1 THEN 0 ELSE r.start

EndOf(r, size) ==
  IF r.end = -1 THEN MinOf(AsInt(StartOf(r) + MaxStream), size) ELSE r.end

Unsatisfiable(r, size) ==
  \/ r.start < -1
  \/ r.end # -1 /\ r.end > size

\* 416: send_data() returns without fclose(file).
RangeRefused ==
  /\ pc = "dispatch"
  /\ req.methode = "GET"
  /\ req.ranges # Null
  /\ Unsatisfiable(req.ranges, resp.content_length)
  /\ resp' = [resp EXCEPT !.status_code = 416,
                !.range = [start |-> -1, end |-> -1,
                           size |-> resp.content_length]]
  /\ unclosed' = unclosed + 1
  /\ pc' = "send_response"
  /\ UNCHANGED <<req, disk, file, fds, out, waiting, served, churn, stale>>

\* RangeServed if it did not seek to the start of the range.
RangeServed_NoSeek ==
  /\ pc = "dispatch"
  /\ req.methode = "GET"
  /\ req.ranges # Null
  /\ ~Unsatisfiable(req.ranges, resp.content_length)
  /\ LET ready == [resp EXCEPT !.status_code = 206,
                     !.range = [start |-> StartOf(req.ranges),
                                end |-> EndOf(req.ranges, resp.content_length),
                                size |-> resp.content_length]]
     IN  /\ resp' = SentResponse(ready)
         /\ out' = SendHeaders(out, ready)
         /\ waiting' = AsUnsigned(ready.range.end - ready.range.start + 1)
  /\ pc' = "range"
  /\ UNCHANGED <<req, disk, file, fds, served, churn, stale, unclosed>>

\* 206: send_headers(), fseek(file, start, SEEK_SET)
RangeServed ==
  /\ pc = "dispatch"
  /\ req.methode = "GET"
  /\ req.ranges # Null
  /\ ~Unsatisfiable(req.ranges, resp.content_length)
  /\ LET start == StartOf(req.ranges)
         end   == EndOf(req.ranges, resp.content_length)
         ready == [resp EXCEPT !.status_code = 206,
                     !.range = [start |-> start, end |-> end,
                                size |-> resp.content_length]]
     IN  /\ resp' = SentResponse(ready)
         /\ out' = SendHeaders(out, ready)
         /\ file' = [file EXCEPT !.pos = start]
         /\ waiting' = AsUnsigned(end - start + 1)
  /\ pc' = "range"
  /\ UNCHANGED <<req, disk, fds, served, churn, stale, unclosed>>

-----------------------------------------------------------------------------
\* A fread that delivers n > 0 bytes, which are written to the client.
Deliver(n) ==
  /\ file' = [file EXCEPT !.pos = @ + n]
  /\ out' = Payload(out, n)
  /\ UNCHANGED <<pc, req, disk, fds, resp, served, churn, stale, unclosed>>

\* Finish if send_data() answered false after the body.
Finish_AnswersFalse ==
  /\ file' = Closed
  /\ fds' = fds - 1
  /\ pc' = "send_response"
  /\ UNCHANGED <<req, disk, resp, waiting, served, churn, stale, unclosed>>

\* fclose(file); return true
Finish ==
  /\ file' = Closed
  /\ fds' = fds - 1
  /\ pc' = "answered"
  /\ UNCHANGED <<req, disk, resp, waiting, served, churn, stale, unclosed>>

\* ReadRange if the end of the file did not end the loop.
ReadRange_UntilSent ==
  LET n == BytesRead(MinOf(BigBuffer, waiting)) IN
  /\ pc = "range"
  /\ \/ /\ waiting > 0
        /\ Deliver(n)
        /\ waiting' = IF waiting > n THEN waiting - n ELSE 0
     \/ /\ waiting = 0
        /\ Finish
        /\ out' = out

ReadRange ==
  LET n == BytesRead(MinOf(BigBuffer, waiting)) IN
  /\ pc = "range"
  /\ \/ /\ waiting > 0
        /\ n > 0
        /\ Deliver(n)
        /\ waiting' = IF waiting > n THEN waiting - n ELSE 0
     \/ /\ waiting = 0 \/ n = 0
        /\ Finish
        /\ out' = out

\* sendChunkedBody(): a chunk per fread, the last chunk at the end of file.
ReadChunk ==
  LET n == BytesRead(Buffer) IN
  /\ pc = "chunked"
  /\ \/ /\ n > 0
        /\ Deliver(n)
        /\ UNCHANGED waiting
     \/ /\ n = 0
        /\ Finish
        /\ out' = LastChunk(out)

\* sendIdentity()
ReadIdentity ==
  LET n == BytesRead(Buffer) IN
  /\ pc = "identity"
  /\ \/ /\ n > 0
        /\ Deliver(n)
        /\ UNCHANGED waiting
     \/ /\ n = 0
        /\ Finish
        /\ out' = out

\* SendResponse if a refusal closed the connection after its headers.
SendResponse_ClosesAfter ==
  /\ pc = "send_response"
  /\ resp' = [SentResponse(resp) EXCEPT !.connection = "CLOSE"]
  /\ out' = SendHeaders(out, resp)
  /\ pc' = "answered"
  /\ UNCHANGED <<req, disk, file, fds, waiting, served, churn, stale, unclosed>>

\* send_data() answered false: send_response(); response->body is NULL.
SendResponse ==
  /\ pc = "send_response"
  /\ resp' = SentResponse(resp)
  /\ out' = SendHeaders(out, resp)
  /\ pc' = "answered"
  /\ UNCHANGED <<req, disk, file, fds, waiting, served, churn, stale, unclosed>>

End ==
  /\ pc = "answered"
  /\ pc' = "idle"
  /\ req' = NoRequest
  /\ file' = NoFile
  /\ resp' = EmptyResponse
  /\ out' = EmptyStream
  /\ waiting' = 0
  /\ stale' = FALSE
  /\ UNCHANGED <<disk, fds, served, churn, unclosed>>

Step ==
  \/ Post \/ Access \/ FopenFails \/ Fopen \/ Ftell \/ Head \/ WholeFile
  \/ RangeRefused \/ RangeServed \/ ReadRange \/ ReadChunk \/ ReadIdentity
  \/ SendResponse

-----------------------------------------------------------------------------
(***************************************************************************)
(* Others change the file while it is served.                              *)
(***************************************************************************)
Churn ==
  /\ churn < MaxChurn
  /\ churn' = churn + 1
  /\ UNCHANGED <<pc, req, fds, resp, out, waiting, served, unclosed>>

\* unlink, or a rename over the path: the open file keeps its content.
Replace ==
  /\ Churn
  /\ disk' \in Nodes \cup {Null}
  /\ file' = [file EXCEPT !.linked = FALSE]
  /\ stale' = stale

\* The file is truncated or extended in place.
Resize ==
  /\ Churn
  /\ disk # Null
  /\ disk # Directory
  /\ \E n \in Sizes :
       /\ disk' = Regular(n)
       /\ n # disk.data
       /\ file' = IF file.linked THEN [file EXCEPT !.node = Regular(n)] ELSE file
       /\ stale' = (stale \/ (file.open /\ file.linked))

Next == Begin \/ Step \/ End \/ Replace \/ Resize

\* The server is one thread that never waits here: each of its steps is
\* eventually taken.  Nothing is assumed of the others.
Fairness == WF_vars(Step \/ End)

Spec == Init /\ [][Next]_vars /\ Fairness

-----------------------------------------------------------------------------
(***************************************************************************)
(* Properties.                                                             *)
(***************************************************************************)

\* send_data() holds the FILE it opened.
InHand == pc \in {"ftell", "dispatch", "range", "chunked", "identity"}

\* Every descriptor the process holds is the FILE being served or one that a
\* 416 answer left open: no other path of send_data() loses one.
OpenFiles == fds = unclosed + (IF InHand THEN 1 ELSE 0)

\* The tokens written form one HTTP response, status line first and one header
\* section, on every path but the one where fopen fails after access succeeded:
\* its status_code is still 0 and send_headers() prints no status line.
WellFormedResponse ==
  pc = "answered" =>
    (out.malformed <=> resp.status_code = 0 /\ req.methode # "POST")

\* A range whose last position exists, in a regular file nobody changed.
Honoured ==
  /\ resp.range.start <= resp.range.end + 1
  /\ resp.range.end < resp.range.size
  /\ file.node # Directory
  /\ ~stale

\* A connection left open is left at the end of a response: the client knows
\* where the body ends without a close.  The exceptions are exactly the paths
\* that announce a body they do not send: 415 and 416, a failed fopen, and a
\* 206 whose range does not lie in the file as it is read.
KeepAliveDelimited ==
  pc = "answered" /\ resp.connection = "KEEP_ALIVE"
    /\ ~Delimited(out, req.methode)
  => \/ resp.status_code \in {0, 415, 416}
     \/ resp.status_code = 206 /\ ~Honoured

\* The client is told what becomes of the connection: the Connection field it
\* received is the decision the main loop reads after the response, and where
\* there is none (the 405 of a POST) the connection is closed.
ConnectionAnnounced ==
  pc = "answered" =>
    resp.connection = IF out.connection = Unset THEN "CLOSE" ELSE out.connection

\* A 206 never sends more bytes than it announces, whatever happens to the file
\* between the fread calls: the surplus would be read as the next response.
RangeNoOverrun ==
  resp.status_code = 206 /\ out.length >= 0 => out.body <= out.length

\* The bytes of a 206 come from the announced positions, in order: the position
\* in the file is the start of the range plus what was sent.
RangePosition ==
  pc = "range" => file.pos = resp.range.start + out.body

\* The chunks of a chunked body are the file from its first byte up to the
\* position reached, and the last chunk is written once, after all of them,
\* also when the file grows or shrinks meanwhile.
ChunksFollowFile ==
  out.framing = "chunked" /\ resp.status_code = 200 /\ req.methode = "GET"
  => /\ out.body = file.pos
     /\ out.last = (IF pc = "chunked" THEN 0 ELSE 1)

\* The bytes of a body are those of the file, from the position announced, in
\* order and never more than announced, whatever others do to the file between
\* two fread calls (answer.c:211-223, 317).
BodyFollowsFile == RangeNoOverrun /\ RangePosition /\ ChunksFollowFile

\* Every request entered is answered, under the fairness of the one thread.
EventuallyAnswered == pc = "access" ~> pc = "answered"

-----------------------------------------------------------------------------
(***************************************************************************)
(* What the repository's documents say of these responses, and the code    *)
(* does not do.                                                            *)
(***************************************************************************)

\* rfc7230.txt 3.3.2: the Content-Length of a 200 is the number of octets of
\* its payload body.
LengthIsBodyLength ==
  pc = "answered" /\ resp.status_code = 200 /\ req.methode = "GET"
    /\ out.framing = "length" /\ file.node # Directory /\ ~stale
  => out.body = out.length
=============================================================================
