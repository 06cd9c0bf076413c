-------------------------------- MODULE Http --------------------------------
(***************************************************************************)
(* The vocabulary shared by the server's modules: the enumerations of      *)
(* utils/structures.h, the response header record that answer.c fills and  *)
(* response_headers.c prints, and the byte stream a client receives.       *)
(*                                                                         *)
(* The stream is abstracted to what an HTTP client distinguishes: status   *)
(* line, header fields that frame the body, end of the header section,     *)
(* payload bytes, last chunk.  Every writeDirectClient call of the code is *)
(* one of the token operators below.                                       *)
(***************************************************************************)
EXTENDS Integers

CONSTANT Null      \* the NULL pointer

\* Value 0 of an enumeration in the C code: not initialised.
Unset == "unset"

Methode == {"GET", "POST", "HEAD"}
HTTP_version == {"HTTP1_0", "HTTP1_1"}
Connection == {"KEEP_ALIVE", "CLOSE"}

\* The values populateRespFromReq gives to transfert_encoding.
Encoding == {"CHUNKED", "IDENTITY"}

\* A byte range, and the range of a response with the size it refers to.
Range_t == [start : Int, end : Int]
ContentRange == [start : Int, end : Int, size : Int]

ASSUME NullAssumption ==
  Null \notin Int /\ Null \notin Range_t /\ Null \notin ContentRange

\* The request header record, once getstatus() has accepted the request.
\* accepts is the result isAccepted() gives for the file's mime type.
HeadersRequest ==
  [methode : Methode, version : HTTP_version, connection : Connection,
   accepts : BOOLEAN, ranges : Range_t \cup {Null}]

HeadersResponse ==
  [version : HTTP_version \cup {Unset}, connection : Connection \cup {Unset},
   content_length : Int \cup {Null}, status_code : Nat,
   content_type : BOOLEAN, transfert_encoding : Encoding \cup {Unset},
   range : ContentRange \cup {Null}]

\* _Response response = {0};
EmptyResponse ==
  [version |-> Unset, connection |-> Unset, content_length |-> Null,
   status_code |-> 0, content_type |-> FALSE, transfert_encoding |-> Unset,
   range |-> Null]

-----------------------------------------------------------------------------
(***************************************************************************)
(* What has been written to the client for the current request.           *)
(*   stage     "start", "fields" (after a status line), "body" (after the  *)
(*             blank line)                                                 *)
(*   malformed a token was written where an HTTP response has no place     *)
(*             for it                                                      *)
(*   status    the status code of the status line                          *)
(*   framing   the field that frames the body, and length its value        *)
(*   connection what the Connection field says                             *)
(*   body      payload bytes written; last  last chunks written            *)
(***************************************************************************)
Framing == {"none", "length", "chunked", "identity"}

Stream ==
  [stage : {"start", "fields", "body"}, malformed : BOOLEAN, status : Nat,
   framing : Framing, length : Int, connection : Connection \cup {Unset},
   body : Nat, last : Nat]

EmptyStream ==
  [stage |-> "start", malformed |-> FALSE, status |-> 0,
   framing |-> "none", length |-> 0, connection |-> Unset,
   body |-> 0, last |-> 0]

StatusLine(s, code) ==
  [s EXCEPT !.stage = "fields", !.status = code,
            !.malformed = @ \/ s.stage # "start"]

\* A header line that does not frame the body.
Field(s) == [s EXCEPT !.malformed = @ \/ s.stage # "fields"]

FramingField(s, f, n) == [Field(s) EXCEPT !.framing = f, !.length = n]

ConnectionField(s, c) == [Field(s) EXCEPT !.connection = c]

EndOfHeaders(s) ==
  [s EXCEPT !.stage = "body", !.malformed = @ \/ s.stage # "fields"]

Payload(s, n) ==
  [s EXCEPT !.body = @ + n, !.malformed = @ \/ s.stage # "body"]

LastChunk(s) ==
  [s EXCEPT !.last = @ + 1, !.malformed = @ \/ s.stage # "body"]

\* The client of a connection that stays open sees where the response ends.
Delimited(s, methode) ==
  /\ s.stage = "body"
  /\ ~s.malformed
  /\ \/ methode = "HEAD"
     \/ s.framing = "length" /\ s.body = s.length
     \/ s.framing = "chunked" /\ s.last = 1

-----------------------------------------------------------------------------
(***************************************************************************)
(* send_headers(): the response record after the call, and the stream.     *)
(***************************************************************************)
HasStatusLine(r) == r.version # Unset /\ r.status_code > 0

\* A range that can be served replaces the Content-Length by its own.
SentResponse(r) ==
  IF r.range # Null /\ r.range.start >= 0
    THEN [r EXCEPT !.content_length = r.range.end - r.range.start + 1]
    ELSE IF r.content_length = Null /\ r.transfert_encoding = Unset
      THEN [r EXCEPT !.transfert_encoding = "IDENTITY"]
      ELSE r

SendHeaders(s, r) ==
  LET sent  == SentResponse(r)
      begun == IF HasStatusLine(r) THEN StatusLine(s, r.status_code) ELSE s
      typed == IF r.content_type THEN Field(begun) ELSE begun
      framed ==
        IF sent.content_length # Null
          THEN FramingField(typed, "length", sent.content_length)
          ELSE FramingField(typed,
                 IF sent.transfert_encoding = "CHUNKED" THEN "chunked"
                                                         ELSE "identity", 0)
  IN  EndOfHeaders(ConnectionField(framed, r.connection))
=============================================================================
