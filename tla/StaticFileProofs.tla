-------------------------- MODULE StaticFileProofs --------------------------
(***************************************************************************)
(* Proofs about StaticFile for every value of its constants.               *)
(***************************************************************************)
EXTENDS StaticFile, TLAPS

Before == {"access", "fopen", "ftell", "dispatch"}

(***************************************************************************)
(* The inductive invariant: the properties, with what ties the program     *)
(* counter to what has been written, to the response record and to the     *)
(* FILE.                                                                   *)
(***************************************************************************)

\* Nothing has been written while send_data() may still answer false.
StreamInv ==
  /\ pc \in Before \cup {"idle", "send_response"} => out = EmptyStream
  /\ pc \in Before => resp.status_code = 0 /\ resp.range = Null
  /\ pc \in Before \cup {"send_response"} => resp.version \in HTTP_version
  /\ pc = "idle" => resp = EmptyResponse

\* The size of the file is known exactly when the body is not chunked.
EncodingInv ==
  /\ pc \in Before => resp.transfert_encoding \in Encoding
  /\ pc \in Before /\ req.ranges # Null => resp.transfert_encoding = "IDENTITY"
  /\ pc \in {"access", "fopen", "ftell"} => resp.content_length = Null
  /\ pc = "ftell" => resp.transfert_encoding = "IDENTITY"
  /\ pc = "dispatch" =>
       /\ resp.content_length = Null <=> resp.transfert_encoding = "CHUNKED"
       /\ resp.transfert_encoding = "CHUNKED" => file.pos = 0
  /\ pc \in {"fopen", "ftell", "dispatch"} => req.methode \in {"GET", "HEAD"}

\* What is left to send_response().
RefusedInv ==
  pc = "send_response" =>
    /\ req.methode \in {"GET", "HEAD"}
    /\ resp.status_code # 206
    /\ req.methode = "GET" => resp.status_code # 200

\* What holds while a body is written.
BodyInv ==
  /\ pc \in {"range", "chunked", "identity"} =>
       req.methode = "GET" /\ out.stage = "body" /\ ~out.malformed
  /\ pc = "range" =>
       /\ resp.status_code = 206
       /\ resp.range # Null
       /\ out.framing = "length"
       /\ out.length >= 0 => out.body + waiting <= out.length
  /\ pc \in {"chunked", "identity"} => resp.status_code = 200
  /\ pc = "identity" => out.framing = "length"
  /\ pc = "answered" => out.stage = "body"

IInv ==
  /\ TypeOK
  /\ OpenFiles
  /\ StreamInv
  /\ EncodingInv
  /\ RefusedInv
  /\ BodyInv
  /\ WellFormedResponse
  /\ RangeNoOverrun
  /\ RangePosition
  /\ ChunksFollowFile

\* What each token does to the stream.
LEMMA EmptyStreamShape ==
  /\ EmptyStream \in Stream
  /\ EmptyStream.stage = "start" /\ ~EmptyStream.malformed
  /\ EmptyStream.body = 0 /\ EmptyStream.last = 0
  /\ EmptyStream.framing = "none" /\ EmptyStream.length = 0
BY DEF EmptyStream, Stream, Framing

LEMMA StatusLineShape ==
  ASSUME NEW s \in Stream, NEW code \in Nat
  PROVE  LET e == StatusLine(s, code) IN
         /\ e \in Stream
         /\ e.stage = "fields" /\ e.framing = s.framing /\ e.length = s.length
         /\ e.body = s.body /\ e.last = s.last
         /\ e.malformed <=> s.malformed \/ s.stage # "start"
BY DEF StatusLine, Stream

LEMMA EndOfHeadersShape ==
  ASSUME NEW s \in Stream
  PROVE  LET e == EndOfHeaders(s) IN
         /\ e \in Stream
         /\ e.stage = "body" /\ e.framing = s.framing /\ e.length = s.length
         /\ e.body = s.body /\ e.last = s.last
         /\ e.malformed <=> s.malformed \/ s.stage # "fields"
BY DEF EndOfHeaders, Stream

LEMMA PayloadShape ==
  ASSUME NEW s \in Stream, NEW n \in Nat
  PROVE  LET e == Payload(s, n) IN
         /\ e \in Stream
         /\ e.stage = s.stage /\ e.framing = s.framing /\ e.length = s.length
         /\ e.body = s.body + n /\ e.last = s.last
         /\ e.malformed <=> s.malformed \/ s.stage # "body"
<1>1. s.body \in Nat /\ s.body + n \in Nat
  BY DEF Stream
<1>2. Payload(s, n) \in Stream
  BY <1>1 DEF Payload, Stream
<1>3. QED
  BY <1>1, <1>2 DEF Payload, Stream

LEMMA LastChunkShape ==
  ASSUME NEW s \in Stream
  PROVE  LET e == LastChunk(s) IN
         /\ e \in Stream
         /\ e.stage = s.stage /\ e.framing = s.framing /\ e.length = s.length
         /\ e.body = s.body /\ e.last = s.last + 1
         /\ e.malformed <=> s.malformed \/ s.stage # "body"
<1>1. s.last \in Nat /\ s.last + 1 \in Nat
  BY DEF Stream
<1>2. LastChunk(s) \in Stream
  BY <1>1 DEF LastChunk, Stream
<1>3. QED
  BY <1>1, <1>2 DEF LastChunk, Stream

\* The last header field and the blank line, whatever was written before them.
LEMMA FramedHeaders ==
  ASSUME NEW s \in Stream, NEW f \in Framing, NEW n \in Int,
         NEW c \in Connection \cup {Unset}
  PROVE  LET e == EndOfHeaders(ConnectionField(FramingField(s, f, n), c)) IN
         /\ e \in Stream
         /\ e.stage = "body"
         /\ e.body = s.body
         /\ e.last = s.last
         /\ e.framing = f
         /\ e.length = n
         /\ e.connection = c
         /\ e.malformed <=> s.malformed \/ s.stage # "fields"
<1> DEFINE g == FramingField(s, f, n)
<1>1. /\ g \in Stream
      /\ g.stage = s.stage /\ g.body = s.body /\ g.last = s.last
      /\ g.framing = f /\ g.length = n
      /\ g.malformed <=> s.malformed \/ s.stage # "fields"
  BY DEF FramingField, Field, Stream
<1> HIDE DEF g
<1> DEFINE k == ConnectionField(g, c)
<1>2. /\ k \in Stream
      /\ k.stage = g.stage /\ k.body = g.body /\ k.last = g.last
      /\ k.framing = g.framing /\ k.length = g.length /\ k.connection = c
      /\ k.malformed <=> g.malformed \/ g.stage # "fields"
  BY <1>1 DEF ConnectionField, Field, Stream
<1> HIDE DEF k
<1>3. LET e == EndOfHeaders(k) IN
      /\ e \in Stream
      /\ e.stage = "body"
      /\ e.body = k.body /\ e.last = k.last
      /\ e.framing = k.framing
      /\ e.length = k.length
      /\ e.connection = k.connection
      /\ e.malformed <=> k.malformed \/ k.stage # "fields"
  BY <1>2 DEF EndOfHeaders, Stream
<1>4. QED
  BY <1>1, <1>2, <1>3 DEF g, k

\* What send_headers() writes when nothing has been written before it: one
\* header section, which a status line opens unless status_code is 0.
LEMMA SendHeadersShape ==
  ASSUME NEW r \in HeadersResponse,
         r.version \in HTTP_version
  PROVE  /\ SendHeaders(EmptyStream, r) \in Stream
         /\ SentResponse(r) \in HeadersResponse
         /\ SendHeaders(EmptyStream, r).stage = "body"
         /\ SendHeaders(EmptyStream, r).body = 0
         /\ SendHeaders(EmptyStream, r).last = 0
         /\ SendHeaders(EmptyStream, r).malformed <=> r.status_code = 0
         /\ SentResponse(r).status_code = r.status_code
         /\ SentResponse(r).connection = r.connection
         /\ SendHeaders(EmptyStream, r).connection = r.connection
         /\ SentResponse(r).range = r.range
         /\ SentResponse(r).content_length # Null =>
              /\ SendHeaders(EmptyStream, r).framing = "length"
              /\ SendHeaders(EmptyStream, r).length = SentResponse(r).content_length
         /\ SentResponse(r).content_length = Null =>
              /\ SendHeaders(EmptyStream, r).framing \in {"chunked", "identity"}
              /\ r.transfert_encoding = "CHUNKED" =>
                   SendHeaders(EmptyStream, r).framing = "chunked"
<1> DEFINE sent == SentResponse(r)
<1>1. /\ sent \in HeadersResponse
      /\ sent.status_code = r.status_code
      /\ sent.connection = r.connection
      /\ sent.range = r.range
      /\ r.transfert_encoding = "CHUNKED" => sent.transfert_encoding = "CHUNKED"
  BY DEF SentResponse, HeadersResponse, ContentRange, Encoding, Unset
<1> DEFINE begun == IF HasStatusLine(r) THEN StatusLine(EmptyStream, r.status_code)
                                        ELSE EmptyStream
           typed == IF r.content_type THEN Field(begun) ELSE begun
<1>2. /\ begun \in Stream /\ begun.body = 0 /\ begun.last = 0
      /\ ~begun.malformed
      /\ begun.stage = IF r.status_code = 0 THEN "start" ELSE "fields"
  <2>1. r.status_code \in Nat /\ r.version # Unset
    BY DEF HeadersResponse, HTTP_version, Unset
  <2>2. EmptyStream \in Stream /\ EmptyStream.body = 0 /\ EmptyStream.last = 0
        /\ EmptyStream.malformed = FALSE /\ EmptyStream.stage = "start"
    BY DEF EmptyStream, Stream, Framing
  <2>3. CASE r.status_code = 0
    BY <2>1, <2>2, <2>3 DEF HasStatusLine
  <2>4. CASE r.status_code # 0
    <3>1. begun = StatusLine(EmptyStream, r.status_code)
      BY <2>1, <2>4 DEF HasStatusLine
    <3>2. StatusLine(EmptyStream, r.status_code) =
            [EmptyStream EXCEPT !.stage = "fields", !.status = r.status_code,
                                !.malformed = FALSE]
      BY <2>2 DEF StatusLine
    <3>3. QED
      BY <2>1, <2>2, <2>4, <3>1, <3>2 DEF Stream
  <2>5. QED
    BY <2>3, <2>4
<1>3. /\ typed \in Stream /\ typed.body = 0 /\ typed.last = 0
      /\ typed.malformed => r.status_code = 0
      /\ typed.stage = IF r.status_code = 0 THEN "start" ELSE "fields"
  BY <1>2 DEF Field, Stream, HeadersResponse
<1>4. CASE sent.content_length # Null
  <2>1. sent.content_length \in Int
    BY <1>1, <1>4 DEF HeadersResponse
  <2>2. SendHeaders(EmptyStream, r) =
          EndOfHeaders(ConnectionField(
            FramingField(typed, "length", sent.content_length), r.connection))
    BY <1>4 DEF SendHeaders
  <2> DEFINE n == sent.content_length
  <2> HIDE DEF typed, begun, sent
  <2>3. LET e == EndOfHeaders(ConnectionField(FramingField(typed, "length", n),
                                              r.connection)) IN
         /\ e \in Stream
         /\ e.stage = "body"
         /\ e.body = typed.body
         /\ e.last = typed.last
         /\ e.framing = "length"
         /\ e.length = n
         /\ e.connection = r.connection
         /\ e.malformed <=> typed.malformed \/ typed.stage # "fields"
    <3>1. "length" \in Framing /\ r.connection \in Connection \cup {Unset}
      BY DEF Framing, HeadersResponse
    <3>2. QED
      BY <1>3, <2>1, <3>1, FramedHeaders
  <2>4. QED
    BY <1>1, <1>3, <1>4, <2>1, <2>2, <2>3 DEF sent
<1>5. CASE sent.content_length = Null
  <2> DEFINE f == IF sent.transfert_encoding = "CHUNKED" THEN "chunked" ELSE "identity"
  <2>1. SendHeaders(EmptyStream, r) =
          EndOfHeaders(ConnectionField(FramingField(typed, f, 0), r.connection))
    BY <1>5 DEF SendHeaders
  <2>2. /\ f \in {"chunked", "identity"} /\ f \in Framing
        /\ r.transfert_encoding = "CHUNKED" => f = "chunked"
        /\ r.connection \in Connection \cup {Unset}
    BY <1>1 DEF Framing, HeadersResponse
  <2> HIDE DEF f, typed, begun
  <2>3. LET e == EndOfHeaders(ConnectionField(FramingField(typed, f, 0),
                                              r.connection)) IN
         /\ e \in Stream
         /\ e.stage = "body"
         /\ e.body = typed.body
         /\ e.last = typed.last
         /\ e.framing = f
         /\ e.connection = r.connection
         /\ e.malformed <=> typed.malformed \/ typed.stage # "fields"
    BY <1>3, <2>2, FramedHeaders
  <2>4. QED
    BY <1>1, <1>3, <1>5, <2>1, <2>2, <2>3
<1>6. QED
  BY <1>4, <1>5

-----------------------------------------------------------------------------
(***************************************************************************)
(* The arithmetic of a range and of a read.                                *)
(***************************************************************************)
LEMMA RangeArithmetic ==
  ASSUME NEW x \in Int
  PROVE  /\ AsInt(x) \in Int
         /\ AsUnsigned(x) \in Nat
         /\ x >= 0 => AsUnsigned(x) = x
<1>1. IntMax \in Nat /\ LongMod \in Nat /\ LongMod > 0
  BY WidthAssumption
<1>2. x % LongMod \in Nat
  BY <1>1
<1>3. AsInt(x) \in Int
  <2>1. 2 * (IntMax + 1) \in Nat /\ 2 * (IntMax + 1) > 0
    BY <1>1
  <2>2. (x + IntMax + 1) % (2 * (IntMax + 1)) \in Int
    BY <1>1, <2>1
  <2>3. QED
    BY <1>1, <2>2 DEF AsInt
<1>4. QED
  BY <1>2, <1>3 DEF AsUnsigned

LEMMA ReadBound ==
  ASSUME file \in FileState, NEW n \in Nat
  PROVE  BytesRead(n) \in Nat /\ BytesRead(n) <= n
BY DEF BytesRead, MinOf, FileState, Node

LEMMA NodesType ==
  /\ Nodes \subseteq Node
  /\ \A n \in Sizes : Regular(n) \in Node
<1>1. DirTell \in Nat /\ Sizes \subseteq Nat
  BY StaticFileAssumption
<1>2. \A n \in Sizes : Regular(n) \in Node
  BY <1>1 DEF Regular, Node
<1>3. Directory \in Node
  BY <1>1 DEF Directory, Node
<1>4. QED
  BY <1>2, <1>3 DEF Nodes

LEMMA InitInv == Init => IInv
<1> SUFFICES ASSUME Init PROVE IInv
  OBVIOUS
<1>1. TypeOK
  <2>1. NoRequest \in HeadersRequest
    BY DEF NoRequest, HeadersRequest, Methode, HTTP_version, Connection
  <2>2. NoFile \in FileState
    BY StaticFileAssumption DEF NoFile, FileState, Node, Directory
  <2>3. EmptyResponse \in HeadersResponse /\ EmptyStream \in Stream
    BY DEF EmptyResponse, HeadersResponse, EmptyStream, Stream, Framing
  <2>4. QED
    BY <2>1, <2>2, <2>3, NodesType DEF Init, TypeOK, Labels
<1>2. OpenFiles
  BY DEF Init, OpenFiles, InHand
<1>3. StreamInv /\ EncodingInv /\ RefusedInv /\ BodyInv
  BY DEF Init, StreamInv, EncodingInv, RefusedInv, BodyInv, Before
<1>4. WellFormedResponse /\ RangeNoOverrun /\ RangePosition /\ ChunksFollowFile
  BY DEF Init, WellFormedResponse, RangeNoOverrun, RangePosition,
         ChunksFollowFile, EmptyResponse
<1>5. QED
  BY <1>1, <1>2, <1>3, <1>4 DEF IInv

LEMMA RequestsType ==
  Requests \subseteq HeadersRequest
BY StaticFileAssumption DEF Requests, HeadersRequest

LEMMA PopulateType ==
  ASSUME NEW r \in HeadersRequest
  PROVE  /\ PopulateRespFromReq(r) \in HeadersResponse
         /\ PopulateRespFromReq(r).version = r.version
         /\ PopulateRespFromReq(r).transfert_encoding \in Encoding
         /\ r.ranges # Null =>
              PopulateRespFromReq(r).transfert_encoding = "IDENTITY"
         /\ PopulateRespFromReq(r).content_length = Null
         /\ PopulateRespFromReq(r).status_code = 0
         /\ PopulateRespFromReq(r).range = Null
BY DEF PopulateRespFromReq, EmptyResponse, HeadersResponse, HeadersRequest,
       Encoding, Unset

\* A request enters send_data(), whoever lets it in.
LEMMA EnterInv ==
  ASSUME IInv, pc = "idle", NEW r \in HeadersRequest, Enter(r),
         UNCHANGED <<disk, file, fds, out, waiting, churn, stale, unclosed>>,
         served' \in Nat
  PROVE  IInv'
<1> USE DEF IInv
<1>1. pc' = "access" /\ req' = r /\ resp' = PopulateRespFromReq(r)
  BY DEF Enter
<1>2. TypeOK'
  BY <1>1, PopulateType DEF TypeOK, Labels, Serving
<1>3. out = EmptyStream
  BY DEF StreamInv
<1>4. OpenFiles' /\ StreamInv' /\ EncodingInv' /\ RefusedInv'
  BY <1>1, <1>3, PopulateType
     DEF OpenFiles, InHand, StreamInv, EncodingInv, RefusedInv, Before,
         HeadersRequest
<1>5. BodyInv' /\ WellFormedResponse' /\ RangeNoOverrun' /\ RangePosition'
      /\ ChunksFollowFile'
  BY <1>1, <1>3, PopulateType
     DEF BodyInv, WellFormedResponse, RangeNoOverrun, RangePosition,
         ChunksFollowFile
<1>6. QED
  BY <1>2, <1>4, <1>5

LEMMA BeginInv == IInv /\ Begin => IInv'
<1> SUFFICES ASSUME IInv, Begin PROVE IInv'
  OBVIOUS
<1>1. PICK r \in Requests : Enter(r)
  BY DEF Begin
<1>2. r \in HeadersRequest
  BY RequestsType
<1>3. /\ pc = "idle" /\ served' \in Nat
      /\ UNCHANGED <<disk, file, fds, out, waiting, churn, stale, unclosed>>
  BY DEF Begin, IInv, TypeOK
<1>4. QED
  BY <1>1, <1>2, <1>3, EnterInv

LEMMA PostInv == IInv /\ Post => IInv'
<1> SUFFICES ASSUME IInv, Post PROVE IInv'
  OBVIOUS
<1> USE DEF IInv
<1> DEFINE o == EndOfHeaders(StatusLine(out, 405))
<1>1. /\ pc = "access" /\ pc' = "answered"
      /\ req.methode = "POST"
      /\ out = EmptyStream
      /\ resp.status_code = 0
      /\ UNCHANGED <<req, disk, file, fds, waiting, served, churn, stale, unclosed>>
  BY DEF Post, StreamInv, Before
<1>2. /\ resp' \in HeadersResponse
      /\ resp'.status_code = 0
  BY <1>1 DEF Post, TypeOK, HeadersResponse, Connection
<1>3. /\ o \in Stream /\ o.stage = "body" /\ o.body = 0 /\ o.framing = "none"
      /\ ~o.malformed
  BY <1>1, EmptyStreamShape, StatusLineShape, EndOfHeadersShape
<1>4. out' = o
  BY DEF Post
<1> HIDE DEF o
<1>5. TypeOK'
  BY <1>1, <1>2, <1>3, <1>4 DEF TypeOK, Labels, Serving
<1>6. OpenFiles' /\ StreamInv' /\ EncodingInv' /\ RefusedInv'
  BY <1>1 DEF OpenFiles, InHand, StreamInv, EncodingInv, RefusedInv, Before
<1>7. BodyInv' /\ WellFormedResponse' /\ RangeNoOverrun' /\ RangePosition'
      /\ ChunksFollowFile'
  BY <1>1, <1>2, <1>3, <1>4
     DEF BodyInv, WellFormedResponse, RangeNoOverrun, RangePosition,
         ChunksFollowFile
<1>8. QED
  BY <1>5, <1>6, <1>7

LEMMA AccessInv == IInv /\ Access => IInv'
<1> SUFFICES ASSUME IInv, Access PROVE IInv'
  OBVIOUS
<1> USE DEF IInv
<1>1. /\ pc = "access" /\ pc' \in {"send_response", "fopen"}
      /\ req.methode \in {"GET", "HEAD"}
      /\ out = EmptyStream
      /\ UNCHANGED <<req, disk, file, fds, out, waiting, served, churn, stale,
                     unclosed>>
  BY DEF Access, StreamInv, Before
<1>2. /\ resp' \in HeadersResponse
      /\ resp'.version = resp.version /\ resp'.range = resp.range
      /\ resp'.transfert_encoding = resp.transfert_encoding
      /\ resp'.content_length = resp.content_length
      /\ resp'.status_code \in {0, 404, 415}
      /\ pc' = "fopen" => resp'.status_code = 0
  <2>1. resp \in HeadersResponse /\ resp.status_code = 0
    BY <1>1 DEF TypeOK, StreamInv, Before
  <2>2. \/ resp' = [resp EXCEPT !.status_code = 404, !.connection = "CLOSE"]
           /\ pc' = "send_response"
        \/ resp' = [resp EXCEPT !.status_code = 415] /\ pc' = "send_response"
        \/ resp' = [resp EXCEPT !.content_type = TRUE] /\ pc' = "fopen"
    BY DEF Access
  <2>3. CASE resp' = [resp EXCEPT !.status_code = 404, !.connection = "CLOSE"]
              /\ pc' = "send_response"
    <3> DEFINE c == 404
               k == "CLOSE"
    <3>1. c \in Nat /\ k \in Connection \cup {Unset}
      BY DEF Connection
    <3>2. resp' = [resp EXCEPT !.status_code = c, !.connection = k]
      BY <2>3
    <3> HIDE DEF c, k
    <3>3. /\ resp' \in HeadersResponse /\ resp'.status_code = c
          /\ resp'.version = resp.version /\ resp'.range = resp.range
          /\ resp'.transfert_encoding = resp.transfert_encoding
          /\ resp'.content_length = resp.content_length
      BY <2>1, <3>1, <3>2 DEF HeadersResponse
    <3>4. QED
      BY <2>3, <3>3 DEF c
  <2>4. CASE resp' = [resp EXCEPT !.status_code = 415] /\ pc' = "send_response"
    BY <2>1, <2>4 DEF HeadersResponse
  <2>5. CASE resp' = [resp EXCEPT !.content_type = TRUE] /\ pc' = "fopen"
    BY <2>1, <2>5 DEF HeadersResponse
  <2>6. QED
    BY <2>2, <2>3, <2>4, <2>5
<1>3. TypeOK'
  BY <1>1, <1>2 DEF TypeOK, Labels, Serving
<1>4. OpenFiles' /\ StreamInv' /\ EncodingInv' /\ RefusedInv'
  BY <1>1, <1>2 DEF OpenFiles, InHand, StreamInv, EncodingInv, RefusedInv, Before
<1>5. BodyInv' /\ WellFormedResponse' /\ RangeNoOverrun' /\ RangePosition'
      /\ ChunksFollowFile'
  BY <1>1, <1>2
     DEF BodyInv, WellFormedResponse, RangeNoOverrun, RangePosition,
         ChunksFollowFile, EmptyStream
<1>6. QED
  BY <1>3, <1>4, <1>5

LEMMA FopenInv == IInv /\ (Fopen \/ FopenFails) => IInv'
<1> SUFFICES ASSUME IInv, Fopen \/ FopenFails PROVE IInv'
  OBVIOUS
<1> USE DEF IInv
<1>1. /\ pc = "fopen" /\ out = EmptyStream /\ resp.status_code = 0
      /\ resp.version \in HTTP_version /\ resp.range = Null
      /\ resp.content_length = Null /\ req.methode \in {"GET", "HEAD"}
      /\ resp.transfert_encoding \in Encoding
      /\ req.ranges # Null => resp.transfert_encoding = "IDENTITY"
      /\ fds = unclosed
      /\ UNCHANGED <<req, disk, resp, out, waiting, served, churn, stale, unclosed>>
  <2>1. /\ pc = "fopen"
        /\ UNCHANGED <<req, disk, resp, out, waiting, served, churn, stale, unclosed>>
    BY DEF Fopen, FopenFails
  <2>2. out = EmptyStream /\ resp.status_code = 0 /\ resp.range = Null
        /\ resp.version \in HTTP_version
    BY <2>1 DEF StreamInv, Before
  <2>3. /\ resp.content_length = Null /\ req.methode \in {"GET", "HEAD"}
        /\ resp.transfert_encoding \in Encoding
        /\ req.ranges # Null => resp.transfert_encoding = "IDENTITY"
    BY <2>1 DEF EncodingInv, Before
  <2>4. fds = unclosed
    BY <2>1 DEF OpenFiles, InHand, TypeOK
  <2>5. QED
    BY <2>1, <2>2, <2>3, <2>4
<1>2. CASE FopenFails
  BY <1>1, <1>2
     DEF FopenFails, TypeOK, Labels, Serving, OpenFiles, InHand, StreamInv,
         EncodingInv, RefusedInv, BodyInv, WellFormedResponse, RangeNoOverrun,
         RangePosition, ChunksFollowFile, Before
<1>3. CASE Fopen
  <2>1. /\ pc' = IF resp.transfert_encoding = "CHUNKED" THEN "dispatch" ELSE "ftell"
        /\ fds' = fds + 1
        /\ file'.pos = 0
        /\ file' \in FileState
    BY <1>3 DEF Fopen, TypeOK, FileState
  <2>2. TypeOK'
    BY <1>1, <2>1 DEF TypeOK, Labels, Serving
  <2>3. OpenFiles' /\ StreamInv' /\ EncodingInv' /\ RefusedInv'
    BY <1>1, <2>1
       DEF OpenFiles, InHand, StreamInv, EncodingInv, RefusedInv, Before, TypeOK,
           Encoding
  <2>4. BodyInv' /\ WellFormedResponse' /\ RangeNoOverrun' /\ RangePosition'
        /\ ChunksFollowFile'
    BY <1>1, <2>1
       DEF BodyInv, WellFormedResponse, RangeNoOverrun, RangePosition,
           ChunksFollowFile
  <2>5. QED
    BY <2>2, <2>3, <2>4
<1>4. QED
  BY <1>2, <1>3

LEMMA FtellInv == IInv /\ Ftell => IInv'
<1> SUFFICES ASSUME IInv, Ftell PROVE IInv'
  OBVIOUS
<1> USE DEF IInv
<1> DEFINE size == file.node.tell
<1>1. /\ pc = "ftell" /\ pc' = "dispatch"
      /\ resp' = [resp EXCEPT !.content_length = size]
      /\ file' = [file EXCEPT !.pos = size]
      /\ stale' = FALSE
      /\ UNCHANGED <<req, disk, fds, out, waiting, served, churn, unclosed>>
  BY DEF Ftell
<1>2. size \in Nat
  BY DEF TypeOK, FileState, Node
<1>3. /\ out = EmptyStream /\ resp.status_code = 0 /\ resp.range = Null
      /\ resp.version \in HTTP_version
      /\ resp.transfert_encoding = "IDENTITY"
      /\ req.methode \in {"GET", "HEAD"}
  BY <1>1 DEF StreamInv, EncodingInv, Before
<1> HIDE DEF size
<1>4. /\ resp' \in HeadersResponse
      /\ resp'.content_length = size
      /\ resp'.status_code = resp.status_code /\ resp'.range = resp.range
      /\ resp'.version = resp.version
      /\ resp'.transfert_encoding = resp.transfert_encoding
  BY <1>1, <1>2 DEF TypeOK, HeadersResponse
<1>5. TypeOK'
  <2>1. file' \in FileState
    BY <1>1, <1>2 DEF TypeOK, FileState
  <2>2. QED
    BY <1>1, <1>4, <2>1 DEF TypeOK, Labels, Serving
<1>6. resp'.content_length # Null
  BY <1>2, <1>4, NullAssumption
<1>7. OpenFiles' /\ StreamInv' /\ EncodingInv' /\ RefusedInv'
  BY <1>1, <1>3, <1>4, <1>6
     DEF OpenFiles, InHand, StreamInv, EncodingInv, RefusedInv, Before, Encoding
<1>8. BodyInv' /\ WellFormedResponse' /\ RangeNoOverrun' /\ RangePosition'
      /\ ChunksFollowFile'
  BY <1>1, <1>3, <1>4, EmptyStreamShape
     DEF BodyInv, WellFormedResponse, RangeNoOverrun, RangePosition,
         ChunksFollowFile
<1>9. QED
  BY <1>5, <1>7, <1>8

LEMMA HeadInv == IInv /\ Head => IInv'
<1> SUFFICES ASSUME IInv, Head PROVE IInv'
  OBVIOUS
<1> USE DEF IInv
<1>1. /\ pc = "dispatch" /\ pc' = "send_response" /\ req.methode = "HEAD"
      /\ resp' = [resp EXCEPT !.status_code = 200]
      /\ file' = Closed /\ fds' = fds - 1
      /\ UNCHANGED <<req, disk, out, waiting, served, churn, stale, unclosed>>
  BY DEF Head
<1>2. out = EmptyStream /\ resp.version \in HTTP_version
  BY <1>1 DEF StreamInv, Before
<1>3. /\ resp' \in HeadersResponse
      /\ resp'.status_code = 200 /\ resp'.version = resp.version
  BY <1>1 DEF TypeOK, HeadersResponse
<1>4. fds = unclosed + 1 /\ unclosed \in Nat
  BY <1>1 DEF OpenFiles, InHand, TypeOK
<1>5. file' \in FileState
  BY <1>1 DEF Closed, TypeOK, FileState
<1>6. TypeOK'
  BY <1>1, <1>3, <1>4, <1>5 DEF TypeOK, Labels, Serving
<1>7. OpenFiles' /\ StreamInv' /\ EncodingInv' /\ RefusedInv'
  BY <1>1, <1>2, <1>3, <1>4
     DEF OpenFiles, InHand, StreamInv, EncodingInv, RefusedInv, Before
<1>8. BodyInv' /\ WellFormedResponse' /\ RangeNoOverrun' /\ RangePosition'
      /\ ChunksFollowFile'
  BY <1>1, <1>2, <1>3, EmptyStreamShape
     DEF BodyInv, WellFormedResponse, RangeNoOverrun, RangePosition,
         ChunksFollowFile
<1>9. QED
  BY <1>6, <1>7, <1>8

LEMMA WholeFileInv == IInv /\ WholeFile => IInv'
<1> SUFFICES ASSUME IInv, WholeFile PROVE IInv'
  OBVIOUS
<1> USE DEF IInv
<1> DEFINE r == [resp EXCEPT !.status_code = 200]
<1>1. /\ pc = "dispatch" /\ req.methode = "GET"
      /\ resp' = SentResponse(r) /\ out' = SendHeaders(out, r)
      /\ pc' = IF resp.transfert_encoding = "CHUNKED" THEN "chunked" ELSE "identity"
      /\ UNCHANGED <<req, disk, file, fds, waiting, served, churn, stale, unclosed>>
  BY DEF WholeFile
<1>2. /\ out = EmptyStream /\ resp.version \in HTTP_version
      /\ resp.range = Null
  BY <1>1 DEF StreamInv, Before
<1>3. /\ resp.content_length = Null <=> resp.transfert_encoding = "CHUNKED"
      /\ resp.transfert_encoding = "CHUNKED" => file.pos = 0
  BY <1>1 DEF EncodingInv
<1>4. /\ r \in HeadersResponse
      /\ r.status_code = 200 /\ r.version = resp.version /\ r.range = resp.range
      /\ r.content_length = resp.content_length
  BY DEF TypeOK, HeadersResponse
<1> HIDE DEF r
<1>5. r.content_length # Null => SentResponse(r).content_length # Null
  BY <1>2, <1>4 DEF SentResponse
<1>6. /\ out' \in Stream /\ resp' \in HeadersResponse
      /\ out'.stage = "body" /\ out'.body = 0 /\ out'.last = 0
      /\ ~out'.malformed /\ resp'.status_code = 200
      /\ resp.content_length # Null => out'.framing = "length"
  <2>1. r.version \in HTTP_version /\ out' = SendHeaders(EmptyStream, r)
    BY <1>1, <1>2, <1>4
  <2>2. QED
    BY <1>1, <1>4, <1>5, <2>1, SendHeadersShape
<1>7. /\ pc' \in {"chunked", "identity"}
      /\ pc' = "identity" => resp.content_length # Null
      /\ pc' = "chunked" => file.pos = 0
  BY <1>1, <1>3
<1>8. TypeOK'
  BY <1>1, <1>6, <1>7 DEF TypeOK, Labels, Serving
<1>9. OpenFiles' /\ StreamInv' /\ EncodingInv' /\ RefusedInv'
  BY <1>1, <1>7
     DEF OpenFiles, InHand, StreamInv, EncodingInv, RefusedInv, Before
<1>10. BodyInv' /\ WellFormedResponse' /\ RangeNoOverrun' /\ RangePosition'
      /\ ChunksFollowFile'
  <2>1. BodyInv' /\ WellFormedResponse'
    BY <1>1, <1>6, <1>7 DEF BodyInv, WellFormedResponse
  <2>2. RangeNoOverrun' /\ RangePosition'
    BY <1>6, <1>7 DEF RangeNoOverrun, RangePosition
  <2>3. ChunksFollowFile'
    <3>1. CASE pc' = "chunked"
      BY <1>1, <1>6, <1>7, <3>1 DEF ChunksFollowFile
    <3>2. CASE pc' = "identity"
      BY <1>6, <1>7, <3>2 DEF ChunksFollowFile
    <3>3. QED
      BY <1>7, <3>1, <3>2
  <2>4. QED
    BY <2>1, <2>2, <2>3
<1>11. QED
  BY <1>8, <1>9, <1>10

LEMMA RangeRefusedInv == IInv /\ RangeRefused => IInv'
<1> SUFFICES ASSUME IInv, RangeRefused PROVE IInv'
  OBVIOUS
<1> USE DEF IInv
<1> DEFINE c == 416
           g == [start |-> -1, end |-> -1, size |-> resp.content_length]
<1>1. /\ pc = "dispatch" /\ pc' = "send_response" /\ req.methode = "GET"
      /\ req.ranges # Null
      /\ resp' = [resp EXCEPT !.status_code = c, !.range = g]
      /\ unclosed' = unclosed + 1
      /\ UNCHANGED <<req, disk, file, fds, out, waiting, served, churn, stale>>
  BY DEF RangeRefused
<1>2. out = EmptyStream /\ resp.version \in HTTP_version
  BY <1>1 DEF StreamInv, Before
<1>3. resp.content_length \in Int
  BY <1>1 DEF EncodingInv, Before, TypeOK, HeadersResponse
<1>4. c \in Nat /\ g \in ContentRange \cup {Null}
  BY <1>3 DEF ContentRange
<1> HIDE DEF c, g
<1>5. /\ resp' \in HeadersResponse
      /\ resp'.status_code = c /\ resp'.version = resp.version
  BY <1>1, <1>4 DEF TypeOK, HeadersResponse
<1>6. fds = unclosed + 1 /\ unclosed \in Nat
  BY <1>1 DEF OpenFiles, InHand, TypeOK
<1>7. TypeOK'
  BY <1>1, <1>5, <1>6 DEF TypeOK, Labels, Serving
<1>8. OpenFiles' /\ StreamInv' /\ EncodingInv' /\ RefusedInv'
  BY <1>1, <1>2, <1>5, <1>6
     DEF OpenFiles, InHand, StreamInv, EncodingInv, RefusedInv, Before, c
<1>9. BodyInv' /\ WellFormedResponse' /\ RangeNoOverrun' /\ RangePosition'
      /\ ChunksFollowFile'
  BY <1>1, <1>2, <1>5, EmptyStreamShape
     DEF BodyInv, WellFormedResponse, RangeNoOverrun, RangePosition,
         ChunksFollowFile, c
<1>10. QED
  BY <1>7, <1>8, <1>9

\* What a 206 announces, and what is left to send.
LEMMA RangeServedShape ==
  ASSUME IInv, RangeServed
  PROVE  /\ pc = "dispatch" /\ pc' = "range" /\ req.methode = "GET"
         /\ UNCHANGED <<req, disk, fds, served, churn, stale, unclosed>>
         /\ resp.content_length \in Int
         /\ resp' \in HeadersResponse
         /\ resp'.status_code = 206 /\ resp'.connection = resp.connection
         /\ resp'.range \in ContentRange
         /\ resp'.range.size = resp.content_length
         /\ out' \in Stream
         /\ out'.stage = "body" /\ out'.body = 0 /\ ~out'.malformed
         /\ out'.framing = "length"
         /\ out'.length = resp'.range.end - resp'.range.start + 1
         /\ out'.connection = resp'.connection
         /\ waiting' \in Nat
         /\ out'.length >= 0 => waiting' = out'.length
         /\ file' \in FileState /\ file'.pos = resp'.range.start
         /\ file'.node = file.node /\ file'.open = file.open
         /\ file'.linked = file.linked
<1> USE DEF IInv
<1> DEFINE start == StartOf(req.ranges)
           end == EndOf(req.ranges, resp.content_length)
           c == 206
           g == [start |-> start, end |-> end, size |-> resp.content_length]
           r == [resp EXCEPT !.status_code = c, !.range = g]
<1>1. /\ pc = "dispatch" /\ pc' = "range" /\ req.methode = "GET"
      /\ req.ranges # Null
      /\ resp' = SentResponse(r) /\ out' = SendHeaders(out, r)
      /\ file' = [file EXCEPT !.pos = start]
      /\ waiting' = AsUnsigned(end - start + 1)
      /\ UNCHANGED <<req, disk, fds, served, churn, stale, unclosed>>
  BY DEF RangeServed
<1>2. out = EmptyStream /\ resp.version \in HTTP_version
  BY <1>1 DEF StreamInv, Before
<1>3. resp.content_length \in Int
  BY <1>1 DEF EncodingInv, Before, TypeOK, HeadersResponse
<1>4. start \in Int /\ end \in Int
  <2>1. req.ranges \in Range_t
    BY <1>1 DEF TypeOK, HeadersRequest
  <2>2. req.ranges.start \in Int /\ req.ranges.end \in Int
    BY <2>1 DEF Range_t
  <2>3. start \in Int
    BY <2>2 DEF StartOf
  <2>4. MaxStream \in Nat
    BY StaticFileAssumption
  <2>5. AsInt(start + MaxStream) \in Int
    BY <2>3, <2>4, RangeArithmetic
  <2>6. QED
    BY <1>3, <2>2, <2>3, <2>5 DEF EndOf, MinOf
<1> HIDE DEF start, end
<1>5. /\ c \in Nat /\ g \in ContentRange
      /\ g.start = start /\ g.end = end /\ g.size = resp.content_length
  BY <1>3, <1>4 DEF ContentRange
<1> HIDE DEF c, g
<1>6. g # Null
  BY <1>5, NullAssumption
<1>7. start >= 0
  <2>1. req.ranges.start \in Int
    BY <1>1 DEF TypeOK, HeadersRequest, Range_t
  <2>2. ~(req.ranges.start < -1)
    BY DEF RangeServed, Unsatisfiable
  <2>3. QED
    BY <2>1, <2>2 DEF StartOf, start
<1>8. /\ r \in HeadersResponse
      /\ r.status_code = c /\ r.version = resp.version /\ r.range = g
      /\ r.connection = resp.connection
  BY <1>5 DEF TypeOK, HeadersResponse
<1> HIDE DEF r
<1>9. SentResponse(r).content_length = end - start + 1
  <2>1. SentResponse(r) = [r EXCEPT !.content_length = g.end - g.start + 1]
    BY <1>5, <1>6, <1>7, <1>8 DEF SentResponse
  <2>2. QED
    BY <1>5, <1>8, <2>1 DEF HeadersResponse
<1>10. end - start + 1 \in Int /\ end - start + 1 # Null
  BY <1>4, NullAssumption
<1>11. /\ out' \in Stream /\ resp' \in HeadersResponse
       /\ out'.stage = "body" /\ out'.body = 0
       /\ ~out'.malformed
       /\ resp'.status_code = 206
       /\ resp'.range = g
       /\ resp'.connection = resp.connection
       /\ out'.connection = resp.connection
       /\ out'.framing = "length" /\ out'.length = end - start + 1
  <2>1. r.version \in HTTP_version /\ out' = SendHeaders(EmptyStream, r)
    BY <1>1, <1>2, <1>8
  <2>2. c = 206
    BY DEF c
  <2>3. QED
    BY <1>1, <1>8, <1>9, <1>10, <2>1, <2>2, SendHeadersShape
<1>12. waiting' \in Nat /\ (end - start + 1 >= 0 => waiting' = end - start + 1)
  BY <1>1, <1>10, RangeArithmetic
<1>13. /\ file' \in FileState /\ file'.pos = start
       /\ file'.node = file.node /\ file'.open = file.open
       /\ file'.linked = file.linked
  BY <1>1, <1>4 DEF TypeOK, FileState
<1>14. QED
  BY <1>1, <1>3, <1>5, <1>10, <1>11, <1>12, <1>13

LEMMA RangeServedInv == IInv /\ RangeServed => IInv'
<1> SUFFICES ASSUME IInv, RangeServed PROVE IInv'
  OBVIOUS
<1>1. /\ pc = "dispatch" /\ pc' = "range" /\ req.methode = "GET"
      /\ UNCHANGED <<req, disk, fds, served, churn, stale, unclosed>>
      /\ resp' \in HeadersResponse /\ resp'.status_code = 206
      /\ resp'.range \in ContentRange
      /\ out' \in Stream
      /\ out'.stage = "body" /\ out'.body = 0 /\ ~out'.malformed
      /\ out'.framing = "length"
      /\ waiting' \in Nat
      /\ out'.length >= 0 => waiting' = out'.length
      /\ file' \in FileState /\ file'.pos = resp'.range.start
  BY RangeServedShape
<1>2. TypeOK'
  BY <1>1 DEF IInv, TypeOK, Labels, Serving
<1>3. OpenFiles' /\ StreamInv' /\ EncodingInv' /\ RefusedInv'
  BY <1>1 DEF IInv, OpenFiles, InHand, StreamInv, EncodingInv, RefusedInv, Before
<1>4. BodyInv'
  <2>1. resp'.range # Null
    BY <1>1, NullAssumption
  <2>2. out'.length \in Int
    BY <1>1 DEF Stream
  <2>3. out'.length >= 0 => out'.body + waiting' <= out'.length
    BY <1>1, <2>2
  <2>4. QED
    BY <1>1, <2>1, <2>3 DEF BodyInv
<1>5. WellFormedResponse' /\ RangeNoOverrun' /\ RangePosition' /\ ChunksFollowFile'
  BY <1>1
     DEF WellFormedResponse, RangeNoOverrun, RangePosition, ChunksFollowFile,
         ContentRange
<1>6. QED
  BY <1>2, <1>3, <1>4, <1>5 DEF IInv

-----------------------------------------------------------------------------
(***************************************************************************)
(* The three body loops.                                                   *)
(***************************************************************************)
LEMMA DeliverShape ==
  ASSUME TypeOK, NEW n \in Nat, Deliver(n)
  PROVE  /\ file' \in FileState /\ file'.pos = file.pos + n
         /\ out' \in Stream
         /\ out'.stage = out.stage /\ out'.framing = out.framing
         /\ out'.length = out.length
         /\ out'.body = out.body + n /\ out'.last = out.last
         /\ out'.malformed <=> out.malformed \/ out.stage # "body"
<1>1. file \in FileState /\ out \in Stream
  BY DEF TypeOK
<1>2. file' = [file EXCEPT !.pos = file.pos + n] /\ out' = Payload(out, n)
  BY DEF Deliver
<1>3. file.pos \in Int /\ file.pos + n \in Int
  BY <1>1 DEF FileState
<1>4. file' \in FileState /\ file'.pos = file.pos + n
  BY <1>1, <1>2, <1>3 DEF FileState
<1>5. QED
  BY <1>1, <1>2, <1>4, PayloadShape

LEMMA FinishShape ==
  ASSUME IInv, Finish, pc \in {"range", "chunked", "identity"}
  PROVE  /\ file' \in FileState /\ file'.pos = file.pos
         /\ fds' = unclosed /\ fds' \in Nat
<1>1. file' \in FileState /\ file'.pos = file.pos
  BY DEF Finish, Closed, IInv, TypeOK, FileState
<1>2. fds = unclosed + 1 /\ unclosed \in Nat
  BY DEF IInv, TypeOK, OpenFiles, InHand
<1>3. QED
  BY <1>1, <1>2 DEF Finish

LEMMA ReadRangeInv == IInv /\ ReadRange => IInv'
<1> SUFFICES ASSUME IInv, ReadRange PROVE IInv'
  OBVIOUS
<1> DEFINE n == BytesRead(MinOf(BigBuffer, waiting))
<1>1. TypeOK /\ pc = "range"
  BY DEF IInv, ReadRange
<1>2. /\ req.methode = "GET" /\ out.stage = "body" /\ ~out.malformed
      /\ resp.status_code = 206 /\ resp.range # Null /\ out.framing = "length"
      /\ out.length >= 0 => out.body + waiting <= out.length
  BY <1>1 DEF IInv, BodyInv
<1>3. file.pos = resp.range.start + out.body
  BY <1>1 DEF IInv, RangePosition
<1>4. out.body \in Nat /\ waiting \in Nat /\ out.length \in Int
      /\ resp.range.start \in Int
  BY <1>1, <1>2 DEF TypeOK, Stream, HeadersResponse, ContentRange
<1>5. n \in Nat /\ n <= waiting
  <2> DEFINE m == MinOf(BigBuffer, waiting)
  <2>1. m \in Nat /\ m <= waiting
    BY <1>4, StaticFileAssumption DEF MinOf
  <2> HIDE DEF m
  <2>2. BytesRead(m) \in Nat /\ BytesRead(m) <= m
    BY <1>1, <2>1, ReadBound DEF TypeOK
  <2>3. QED
    BY <1>4, <2>1, <2>2 DEF m
<1>6. CASE Deliver(n) /\ waiting' = IF waiting > n THEN waiting - n ELSE 0
  <2>1. /\ file' \in FileState /\ file'.pos = file.pos + n
        /\ out' \in Stream
        /\ out'.stage = "body" /\ out'.framing = "length"
        /\ out'.length = out.length
        /\ out'.body = out.body + n
        /\ ~out'.malformed
    BY <1>1, <1>2, <1>5, <1>6, DeliverShape
  <2>2. UNCHANGED <<pc, req, disk, fds, resp, served, churn, stale, unclosed>>
    BY <1>6 DEF Deliver
  <2> HIDE DEF n
  <2>3. waiting' = waiting - n /\ waiting' \in Nat
    BY <1>4, <1>5, <1>6
  <2>4. TypeOK'
    BY <1>1, <2>1, <2>2, <2>3 DEF TypeOK
  <2>5. OpenFiles' /\ StreamInv' /\ EncodingInv' /\ RefusedInv'
    BY <1>1, <2>2
       DEF IInv, OpenFiles, InHand, StreamInv, EncodingInv, RefusedInv, Before
  <2>6. out'.length >= 0 => out'.body + waiting' <= out'.length
    BY <1>2, <1>4, <1>5, <2>1, <2>3
  <2>7. BodyInv'
    BY <1>1, <1>2, <2>1, <2>2, <2>6 DEF BodyInv
  <2>8. RangePosition'
    BY <1>3, <1>4, <1>5, <2>1, <2>2 DEF RangePosition
  <2>9. RangeNoOverrun'
    <3>1. out'.body \in Nat
      BY <2>1 DEF Stream
    <3>2. QED
      BY <1>4, <2>1, <2>3, <2>6, <3>1 DEF RangeNoOverrun
  <2>10. WellFormedResponse' /\ ChunksFollowFile'
    BY <1>1, <1>2, <2>1, <2>2 DEF WellFormedResponse, ChunksFollowFile
  <2>11. QED
    BY <2>4, <2>5, <2>7, <2>8, <2>9, <2>10 DEF IInv
<1>7. CASE Finish /\ out' = out
  <2>1. /\ pc' = "answered"
        /\ UNCHANGED <<req, disk, resp, waiting, served, churn, stale, unclosed>>
    BY <1>7 DEF Finish
  <2>2. file' \in FileState /\ fds' = unclosed /\ fds' \in Nat
    BY <1>1, <1>7, FinishShape
  <2>3. TypeOK'
    BY <1>1, <1>7, <2>1, <2>2 DEF TypeOK, Labels
  <2>4. OpenFiles' /\ StreamInv' /\ EncodingInv' /\ RefusedInv' /\ BodyInv'
    BY <1>2, <1>7, <2>1, <2>2
       DEF OpenFiles, InHand, StreamInv, EncodingInv, RefusedInv, BodyInv, Before
  <2>5. RangeNoOverrun' /\ RangePosition' /\ WellFormedResponse'
        /\ ChunksFollowFile'
    BY <1>2, <1>7, <2>1
       DEF IInv, RangeNoOverrun, RangePosition, WellFormedResponse,
           ChunksFollowFile
  <2>6. QED
    BY <2>3, <2>4, <2>5 DEF IInv
<1>8. QED
  BY <1>6, <1>7 DEF ReadRange

\* A body loop that goes round, or stops, without a range.
LEMMA ReadBodyInv == IInv /\ (ReadChunk \/ ReadIdentity) => IInv'
<1> SUFFICES ASSUME IInv, ReadChunk \/ ReadIdentity PROVE IInv'
  OBVIOUS
<1> DEFINE n == BytesRead(Buffer)
<1>1. TypeOK /\ pc \in {"chunked", "identity"}
  BY DEF IInv, ReadChunk, ReadIdentity
<1>2. /\ req.methode = "GET" /\ out.stage = "body" /\ ~out.malformed
      /\ resp.status_code = 200
      /\ pc = "identity" => out.framing = "length"
  BY <1>1 DEF IInv, BodyInv
<1>3. /\ out.framing = "chunked" => out.body = file.pos
      /\ out.framing = "chunked" /\ pc = "chunked" => out.last = 0
  BY <1>1, <1>2 DEF IInv, ChunksFollowFile
<1>4. out.body \in Nat /\ out.last \in Nat /\ file.pos \in Int
  BY <1>1 DEF TypeOK, Stream, FileState
<1>5. n \in Nat
  BY <1>1, ReadBound, StaticFileAssumption DEF TypeOK
<1>6. CASE Deliver(n) /\ UNCHANGED waiting
  <2>1. /\ file' \in FileState /\ file'.pos = file.pos + n
        /\ out' \in Stream
        /\ out'.stage = "body" /\ out'.framing = out.framing
        /\ out'.body = out.body + n /\ out'.last = out.last
        /\ ~out'.malformed
    BY <1>1, <1>2, <1>5, <1>6, DeliverShape
  <2>2. UNCHANGED <<pc, req, disk, fds, resp, waiting, served, churn, stale,
                    unclosed>>
    BY <1>6 DEF Deliver
  <2> HIDE DEF n
  <2>3. TypeOK'
    BY <1>1, <2>1, <2>2 DEF TypeOK
  <2>4. OpenFiles' /\ StreamInv' /\ EncodingInv' /\ RefusedInv'
    BY <1>1, <2>2
       DEF IInv, OpenFiles, InHand, StreamInv, EncodingInv, RefusedInv, Before
  <2>5. BodyInv'
    BY <1>1, <1>2, <2>1, <2>2 DEF BodyInv
  <2>6. RangePosition' /\ RangeNoOverrun' /\ WellFormedResponse'
    BY <1>1, <1>2, <2>2 DEF RangePosition, RangeNoOverrun, WellFormedResponse
  <2>7. ChunksFollowFile'
    <3>1. CASE out.framing = "chunked"
      <4>1. out'.body = file'.pos
        BY <1>3, <2>1, <3>1
      <4>2. pc = "chunked"
        BY <1>1, <1>2, <3>1
      <4>3. QED
        BY <1>3, <2>1, <2>2, <3>1, <4>1, <4>2 DEF ChunksFollowFile
    <3>2. CASE out.framing # "chunked"
      BY <2>1, <3>2 DEF ChunksFollowFile
    <3>3. QED
      BY <3>1, <3>2
  <2>8. QED
    BY <2>3, <2>4, <2>5, <2>6, <2>7 DEF IInv
<1>7. CASE /\ Finish
           /\ \/ pc = "chunked" /\ out' = LastChunk(out)
              \/ pc = "identity" /\ out' = out
  <2>1. /\ pc' = "answered"
        /\ UNCHANGED <<req, disk, resp, waiting, served, churn, stale, unclosed>>
    BY <1>7 DEF Finish
  <2>2. /\ file' \in FileState /\ file'.pos = file.pos
        /\ fds' = unclosed /\ fds' \in Nat
    BY <1>1, <1>7, FinishShape
  <2>3. /\ out' \in Stream /\ ~out'.malformed /\ out'.stage = "body"
        /\ out'.framing = out.framing /\ out'.body = out.body
        /\ out.framing = "chunked" => out'.last = 1
    <3>1. CASE pc = "chunked"
      BY <1>1, <1>2, <1>3, <1>7, <3>1, LastChunkShape DEF TypeOK
    <3>2. CASE pc = "identity"
      BY <1>1, <1>2, <1>7, <3>2 DEF TypeOK
    <3>3. QED
      BY <1>1, <3>1, <3>2
  <2>4. TypeOK'
    BY <1>1, <2>1, <2>2, <2>3 DEF TypeOK, Labels
  <2>5. OpenFiles' /\ StreamInv' /\ EncodingInv' /\ RefusedInv' /\ BodyInv'
    BY <1>2, <2>1, <2>2, <2>3
       DEF OpenFiles, InHand, StreamInv, EncodingInv, RefusedInv, BodyInv, Before
  <2>6. RangeNoOverrun' /\ RangePosition' /\ WellFormedResponse'
        /\ ChunksFollowFile'
    BY <1>2, <1>3, <2>1, <2>2, <2>3
       DEF RangeNoOverrun, RangePosition, WellFormedResponse, ChunksFollowFile
  <2>7. QED
    BY <2>4, <2>5, <2>6 DEF IInv
<1>8. QED
  BY <1>6, <1>7 DEF ReadChunk, ReadIdentity

LEMMA SendResponseInv == IInv /\ SendResponse => IInv'
<1> SUFFICES ASSUME IInv, SendResponse PROVE IInv'
  OBVIOUS
<1>1. /\ TypeOK /\ pc = "send_response" /\ pc' = "answered"
      /\ resp' = SentResponse(resp) /\ out' = SendHeaders(out, resp)
      /\ UNCHANGED <<req, disk, file, fds, waiting, served, churn, stale, unclosed>>
  BY DEF IInv, SendResponse
<1>2. out = EmptyStream /\ resp.version \in HTTP_version
  BY <1>1 DEF IInv, StreamInv
<1>3. /\ req.methode \in {"GET", "HEAD"} /\ resp.status_code # 206
      /\ req.methode = "GET" => resp.status_code # 200
  BY <1>1 DEF IInv, RefusedInv
<1>4. /\ out' \in Stream /\ out'.stage = "body" /\ resp' \in HeadersResponse
      /\ resp'.status_code = resp.status_code
      /\ out'.malformed <=> resp.status_code = 0
  <2>1. resp \in HeadersResponse /\ out' = SendHeaders(EmptyStream, resp)
    BY <1>1, <1>2 DEF TypeOK
  <2>2. QED
    BY <1>1, <1>2, <2>1, SendHeadersShape
<1>5. TypeOK'
  BY <1>1, <1>4 DEF TypeOK, Labels
<1>6. OpenFiles' /\ StreamInv' /\ EncodingInv' /\ RefusedInv' /\ BodyInv'
  BY <1>1, <1>4
     DEF IInv, OpenFiles, InHand, StreamInv, EncodingInv, RefusedInv, BodyInv,
         Before
<1>7. RangeNoOverrun' /\ RangePosition' /\ WellFormedResponse'
      /\ ChunksFollowFile'
  BY <1>1, <1>3, <1>4
     DEF RangeNoOverrun, RangePosition, WellFormedResponse, ChunksFollowFile
<1>8. QED
  BY <1>5, <1>6, <1>7 DEF IInv

LEMMA EndInv == IInv /\ End => IInv'
<1> SUFFICES ASSUME IInv, End PROVE IInv'
  OBVIOUS
<1>1. /\ TypeOK /\ pc = "answered" /\ pc' = "idle" /\ req' = NoRequest
      /\ file' = NoFile /\ resp' = EmptyResponse /\ out' = EmptyStream
      /\ waiting' = 0 /\ stale' = FALSE
      /\ UNCHANGED <<disk, fds, served, churn, unclosed>>
  BY DEF IInv, End
<1>2. /\ NoRequest \in HeadersRequest /\ NoFile \in FileState
      /\ EmptyResponse \in HeadersResponse /\ EmptyStream \in Stream
  BY StaticFileAssumption
     DEF NoRequest, HeadersRequest, Methode, HTTP_version, Connection, NoFile,
         FileState, Node, Directory, EmptyResponse, HeadersResponse, EmptyStream,
         Stream, Framing
<1>3. resp'.status_code = 0
  BY <1>1 DEF EmptyResponse
<1>4. TypeOK'
  BY <1>1, <1>2 DEF TypeOK, Labels
<1>5. OpenFiles' /\ StreamInv' /\ EncodingInv' /\ RefusedInv' /\ BodyInv'
  BY <1>1
     DEF IInv, OpenFiles, InHand, StreamInv, EncodingInv, RefusedInv, BodyInv,
         Before
<1>6. RangeNoOverrun' /\ RangePosition' /\ WellFormedResponse'
      /\ ChunksFollowFile'
  BY <1>1, <1>3
     DEF RangeNoOverrun, RangePosition, WellFormedResponse, ChunksFollowFile
<1>7. QED
  BY <1>4, <1>5, <1>6 DEF IInv

\* Others change the file: its type, and nothing of the server's.
LEMMA ChurnShape ==
  ASSUME TypeOK, Replace \/ Resize
  PROVE  /\ TypeOK' /\ file'.pos = file.pos
         /\ UNCHANGED <<pc, req, fds, resp, out, waiting, served, unclosed>>
<1>1. /\ churn' = churn + 1
      /\ UNCHANGED <<pc, req, fds, resp, out, waiting, served, unclosed>>
  BY DEF Replace, Resize, Churn
<1>2. /\ file' \in FileState /\ file'.pos = file.pos
      /\ disk' \in Node \cup {Null} /\ stale' \in BOOLEAN
  <2>1. file \in FileState /\ stale \in BOOLEAN
    BY DEF TypeOK
  <2>2. CASE Replace
    BY <2>1, <2>2, NodesType DEF Replace, FileState
  <2>3. CASE Resize
    <3>1. PICK n \in Sizes :
            /\ disk' = Regular(n)
            /\ file' = IF file.linked THEN [file EXCEPT !.node = Regular(n)]
                                      ELSE file
            /\ stale' = (stale \/ (file.open /\ file.linked))
      BY <2>3 DEF Resize
    <3>2. Regular(n) \in Node
      BY NodesType
    <3>3. file' \in FileState /\ file'.pos = file.pos
      BY <2>1, <3>1, <3>2 DEF FileState
    <3>4. stale' \in BOOLEAN
      BY <3>1
    <3>5. QED
      BY <3>1, <3>2, <3>3, <3>4
  <2>4. QED
    BY <2>2, <2>3
<1>3. QED
  BY <1>1, <1>2 DEF TypeOK

LEMMA ChurnInv == IInv /\ (Replace \/ Resize) => IInv'
<1> SUFFICES ASSUME IInv, Replace \/ Resize PROVE IInv'
  OBVIOUS
<1>1. /\ TypeOK' /\ file'.pos = file.pos
      /\ UNCHANGED <<pc, req, fds, resp, out, waiting, served, unclosed>>
  BY ChurnShape DEF IInv
<1>2. OpenFiles' /\ StreamInv' /\ EncodingInv' /\ RefusedInv' /\ BodyInv'
  BY <1>1
     DEF IInv, OpenFiles, InHand, StreamInv, EncodingInv, RefusedInv, BodyInv,
         Before
<1>3. WellFormedResponse' /\ RangeNoOverrun' /\ RangePosition'
      /\ ChunksFollowFile'
  BY <1>1
     DEF IInv, WellFormedResponse, RangeNoOverrun, RangePosition,
         ChunksFollowFile
<1>4. QED
  BY <1>1, <1>2, <1>3 DEF IInv

\* Between two requests IInv says no more than the types and the descriptors.
LEMMA IdleInv ==
  ASSUME TypeOK', OpenFiles', pc' = "idle", out' = EmptyStream,
         resp' = EmptyResponse
  PROVE  IInv'
<1>1. StreamInv' /\ EncodingInv' /\ RefusedInv' /\ BodyInv'
  BY DEF StreamInv, EncodingInv, RefusedInv, BodyInv, Before
<1>2. resp'.status_code = 0
  BY DEF EmptyResponse
<1>3. WellFormedResponse' /\ RangeNoOverrun' /\ RangePosition'
      /\ ChunksFollowFile'
  BY <1>2
     DEF WellFormedResponse, RangeNoOverrun, RangePosition, ChunksFollowFile
<1>4. QED
  BY <1>1, <1>3 DEF IInv

\* A descriptor that the rest of the process takes, and keeps.
LEMMA SharedFds ==
  ASSUME IInv, fds' \in Nat, unclosed' \in Nat, served' \in Nat,
         fds' = unclosed' + (fds - unclosed),
         UNCHANGED <<pc, req, disk, file, resp, out, waiting, churn, stale>>
  PROVE  IInv'
<1>1. fds \in Nat /\ unclosed \in Nat
  BY DEF IInv, TypeOK
<1>2. OpenFiles'
  <2> DEFINE n == IF InHand THEN 1 ELSE 0
  <2>1. n \in Nat /\ fds = unclosed + n
    BY DEF IInv, OpenFiles
  <2>2. n = IF InHand' THEN 1 ELSE 0
    BY DEF InHand
  <2> HIDE DEF n
  <2>3. fds - unclosed = n
    BY <1>1, <2>1
  <2>4. QED
    BY <2>2, <2>3 DEF OpenFiles
<1>3. TypeOK'
  BY DEF IInv, TypeOK
<1>4. QED
  BY <1>2, <1>3
     DEF IInv, StreamInv, EncodingInv, RefusedInv, BodyInv, Before,
         WellFormedResponse, RangeNoOverrun, RangePosition, ChunksFollowFile

LEMMA StutterInv == IInv /\ UNCHANGED vars => IInv'
BY DEF vars, IInv, TypeOK, OpenFiles, InHand, StreamInv, EncodingInv, RefusedInv,
       BodyInv, WellFormedResponse, RangeNoOverrun, RangePosition,
       ChunksFollowFile

LEMMA StepInv == IInv /\ [Next]_vars => IInv'
<1>1. IInv /\ Step => IInv'
  BY PostInv, AccessInv, FopenInv, FtellInv, HeadInv, WholeFileInv,
     RangeRefusedInv, RangeServedInv, ReadRangeInv, ReadBodyInv, SendResponseInv
     DEF Step
<1>2. QED
  BY <1>1, BeginInv, EndInv, ChurnInv, StutterInv DEF Next

-----------------------------------------------------------------------------
(***************************************************************************)
(* The theorems.                                                           *)
(***************************************************************************)

\* The inductive invariant holds in every state of every behaviour.
THEOREM Invariance == Spec => []IInv
BY InitInv, StepInv, PTL DEF Spec

\* The variables keep their types: in particular a descriptor count that never
\* becomes negative, whatever the file does while send_data() serves it.
THEOREM TypeCorrect == Spec => []TypeOK
<1>1. IInv => TypeOK
  BY DEF IInv
<1>2. QED
  BY Invariance, <1>1, PTL

\* A descriptor is lost on the 416 paths of send_data() and on no other.
THEOREM DescriptorsAccounted == Spec => []OpenFiles
<1>1. IInv => OpenFiles
  BY DEF IInv
<1>2. QED
  BY Invariance, <1>1, PTL

\* What is written is one HTTP response, but where fopen fails after access.
THEOREM OneWellFormedResponse == Spec => []WellFormedResponse
<1>1. IInv => WellFormedResponse
  BY DEF IInv
<1>2. QED
  BY Invariance, <1>1, PTL

\* A 206 sends no byte past the Content-Length it announced, whatever others do
\* to the file between the fread calls.
THEOREM NoRangeOverrun == Spec => []RangeNoOverrun
<1>1. IInv => RangeNoOverrun
  BY DEF IInv
<1>2. QED
  BY Invariance, <1>1, PTL

\* The bytes of a 206 come from the positions it announced, in order.
THEOREM RangeFromPosition == Spec => []RangePosition
<1>1. IInv => RangePosition
  BY DEF IInv
<1>2. QED
  BY Invariance, <1>1, PTL

\* A chunked body is a prefix of the file, closed by exactly one last chunk.
THEOREM ChunkedBody == Spec => []ChunksFollowFile
<1>1. IInv => ChunksFollowFile
  BY DEF IInv
<1>2. QED
  BY Invariance, <1>1, PTL

-----------------------------------------------------------------------------
(***************************************************************************)
(* The Connection field and the decision.                                  *)
(***************************************************************************)

\* What the client has been told, while the response is under way.
ConnectionInv ==
  /\ pc \in Serving => resp.connection \in Connection
  /\ pc \in {"range", "chunked", "identity"} => out.connection = resp.connection
  /\ ConnectionAnnounced

\* The headers tell what the record says.
LEMMA SendsConnection ==
  ASSUME IInv, pc \in Before \cup {"send_response"},
         NEW r \in HeadersResponse, r.version \in HTTP_version,
         r.connection \in Connection,
         out' = SendHeaders(out, r), resp' = SentResponse(r)
  PROVE  out'.connection = resp'.connection /\ resp'.connection \in Connection
<1>1. out = EmptyStream
  BY DEF IInv, StreamInv
<1>2. QED
  BY <1>1, SendHeadersShape

\* One disjunct of Next at a time.
LEMMA ConnectionStep == IInv /\ IInv' /\ ConnectionInv /\ [Next]_vars => ConnectionInv'
<1> SUFFICES ASSUME IInv, IInv', ConnectionInv, [Next]_vars PROVE ConnectionInv'
  OBVIOUS
<1> USE DEF ConnectionInv, ConnectionAnnounced, Serving
<1>0. /\ TypeOK /\ resp \in HeadersResponse /\ out \in Stream
      /\ \A c \in Connection : c # Unset
  BY DEF IInv, TypeOK, Connection, Unset
<1>1. CASE Begin
  <2>1. PICK r \in Requests : Enter(r)
    BY <1>1 DEF Begin
  <2>2. pc' = "access" /\ resp'.connection = r.connection /\ r.connection \in Connection
    BY <2>1, RequestsType
       DEF Enter, PopulateRespFromReq, EmptyResponse, HeadersRequest
  <2>3. QED
    BY <2>2
<1>2. CASE Post
  <2> DEFINE o == EndOfHeaders(StatusLine(out, 405))
  <2>1. out = EmptyStream
    BY <1>2 DEF Post, IInv, StreamInv, Before
  <2>2. o.connection = Unset
    BY <2>1 DEF EndOfHeaders, StatusLine, EmptyStream
  <2>3. pc' = "answered" /\ out' = o /\ resp'.connection = "CLOSE"
    BY <1>0, <1>2 DEF Post, HeadersResponse
  <2>4. QED
    BY <2>2, <2>3
<1>3. CASE Access
  <2>1. pc = "access" /\ pc' \in {"send_response", "fopen"}
    BY <1>3 DEF Access
  <2>2. resp'.connection \in {resp.connection, "CLOSE"}
    BY <1>0, <1>3 DEF Access, HeadersResponse
  <2>3. QED
    BY <2>1, <2>2 DEF Connection
<1>4. CASE Fopen \/ FopenFails
  BY <1>4 DEF Fopen, FopenFails
<1>5. CASE Ftell \/ Head \/ RangeRefused
  <2>1. pc \in Serving /\ pc' \in {"dispatch", "send_response"}
    BY <1>5 DEF Ftell, Head, RangeRefused
  <2>2. resp'.connection = resp.connection
    BY <1>0, <1>5 DEF Ftell, Head, RangeRefused, HeadersResponse
  <2>3. QED
    BY <2>1, <2>2
<1>6. CASE WholeFile
  <2> DEFINE r == [resp EXCEPT !.status_code = 200]
  <2>1. pc = "dispatch" /\ pc' \in {"chunked", "identity"}
        /\ out' = SendHeaders(out, r) /\ resp' = SentResponse(r)
    BY <1>6 DEF WholeFile
  <2>2. r \in HeadersResponse /\ r.version = resp.version
        /\ r.connection = resp.connection
    BY <1>0 DEF HeadersResponse
  <2>3. r.version \in HTTP_version /\ r.connection \in Connection
    BY <2>1, <2>2 DEF IInv, StreamInv, Before
  <2> HIDE DEF r
  <2>4. out'.connection = resp'.connection /\ resp'.connection \in Connection
    BY <2>1, <2>2, <2>3, SendsConnection DEF Before
  <2>5. QED
    BY <2>1, <2>4
<1>7. CASE RangeServed
  <2>1. /\ pc = "dispatch" /\ pc' = "range"
        /\ resp'.connection = resp.connection
        /\ out'.connection = resp'.connection
    BY <1>7, RangeServedShape
  <2>2. QED
    BY <2>1
<1>8. CASE ReadRange \/ ReadChunk \/ ReadIdentity
  <2>1. pc \in {"range", "chunked", "identity"} /\ resp' = resp
        /\ pc' \in {pc, "answered"}
    BY <1>8 DEF ReadRange, ReadChunk, ReadIdentity, Deliver, Finish
  <2>2. out'.connection = out.connection
    BY <1>0, <1>8
       DEF ReadRange, ReadChunk, ReadIdentity, Deliver, Payload, LastChunk, Stream
  <2>3. QED
    BY <1>0, <2>1, <2>2
<1>9. CASE SendResponse
  <2>1. pc = "send_response" /\ pc' = "answered"
        /\ out' = SendHeaders(out, resp) /\ resp' = SentResponse(resp)
    BY <1>9 DEF SendResponse
  <2>2. resp.version \in HTTP_version /\ resp.connection \in Connection
    BY <2>1 DEF IInv, StreamInv, Before
  <2>3. out'.connection = resp'.connection /\ resp'.connection \in Connection
    BY <1>0, <2>1, <2>2, SendsConnection
  <2>4. QED
    BY <1>0, <2>1, <2>3
<1>10. CASE End
  BY <1>10 DEF End
<1>11. CASE Replace \/ Resize \/ UNCHANGED vars
  BY <1>11 DEF Replace, Resize, Churn, vars
<1>12. QED
  BY <1>1, <1>2, <1>3, <1>4, <1>5, <1>6, <1>7, <1>8, <1>9, <1>10, <1>11
     DEF Next, Step

\* What send_data() decides about the connection, after it was entered, is only
\* ever to close it.
LEMMA OnlyCloses ==
  ASSUME IInv, Step
  PROVE  resp'.connection \in {resp.connection, "CLOSE"}
<1>1. resp \in HeadersResponse
  BY DEF IInv, TypeOK
<1>2. \A r \in HeadersResponse : SentResponse(r).connection = r.connection
  BY DEF SentResponse, HeadersResponse
<1>3. CASE Post \/ Access
  BY <1>1, <1>3 DEF Post, Access, HeadersResponse
<1>4. CASE FopenFails \/ Fopen \/ Ftell \/ Head \/ RangeRefused
  BY <1>1, <1>4 DEF FopenFails, Fopen, Ftell, Head, RangeRefused, HeadersResponse
<1>5. CASE WholeFile
  <2>1. [resp EXCEPT !.status_code = 200] \in HeadersResponse
    BY <1>1 DEF HeadersResponse
  <2>2. [resp EXCEPT !.status_code = 200].connection = resp.connection
    BY <1>1 DEF HeadersResponse
  <2>3. QED
    BY <1>2, <1>5, <2>1, <2>2 DEF WholeFile
<1>6. CASE RangeServed
  BY <1>6, RangeServedShape DEF IInv
<1>7. CASE ReadRange \/ ReadChunk \/ ReadIdentity
  BY <1>7 DEF ReadRange, ReadChunk, ReadIdentity, Deliver, Finish
<1>8. CASE SendResponse
  BY <1>1, <1>2, <1>8 DEF SendResponse
<1>9. QED
  BY <1>3, <1>4, <1>5, <1>6, <1>7, <1>8 DEF Step

\* The connection is kept or closed as the client was told, on every path.
THEOREM ClientIsTold == Spec => []ConnectionAnnounced
<1>1. Init => ConnectionInv
  BY DEF Init, ConnectionInv, ConnectionAnnounced, Serving
<1>2. ConnectionInv => ConnectionAnnounced
  BY DEF ConnectionInv
<1>3. QED
  BY Invariance, <1>1, <1>2, ConnectionStep, PTL DEF Spec

\* Whatever happens to the file, the bytes of a body are its bytes.
THEOREM BodyIsOfTheFile == Spec => []BodyFollowsFile
<1>1. RangeNoOverrun /\ RangePosition /\ ChunksFollowFile => BodyFollowsFile
  BY DEF BodyFollowsFile
<1>2. QED
  BY NoRangeOverrun, RangeFromPosition, ChunkedBody, <1>1, PTL

-----------------------------------------------------------------------------
(***************************************************************************)
(* A connection left open is left at the end of a response.  What          *)
(* KeepAliveDelimited needs beside IInv and ConnectionInv: that the open   *)
(* file is the one at the path until it is replaced, so that no change of  *)
(* the file goes unnoticed; that the size announced is its size; that a    *)
(* response without a length or chunks closes the connection.              *)
(***************************************************************************)
NodeInv ==
  /\ disk \in Nodes \cup {Null}
  /\ file.node \in Nodes
  /\ file.linked => disk = file.node
  /\ InHand => file.open

\* While the range lies in the file as it is read, every byte announced is
\* either sent or waiting, and there to be read.
SizeInv ==
  /\ pc = "dispatch" /\ resp.content_length # Null /\ ~stale =>
       resp.content_length = file.node.tell
  /\ pc = "range" /\ Honoured =>
       /\ resp.range.size = file.node.tell
       /\ out.length = resp.range.end - resp.range.start + 1
       /\ out.body + waiting = out.length

KeptInv ==
  /\ pc \in Serving /\ req.version = "HTTP1_0" => resp.connection = "CLOSE"
  /\ pc \in Before /\ req.ranges = Null /\ req.version = "HTTP1_1" =>
       resp.transfert_encoding = "CHUNKED"
  /\ pc = "chunked" => out.framing = "chunked"
  /\ pc = "identity" => resp.connection = "CLOSE"
  /\ pc = "send_response" =>
       \/ resp.status_code \in {0, 415, 416}
       \/ resp.status_code = 200 /\ req.methode = "HEAD"
       \/ resp.connection = "CLOSE"

DelimitedInv == NodeInv /\ SizeInv /\ KeptInv /\ KeepAliveDelimited

\* A file of the disk that is no directory has its bytes up to its end.
LEMMA RegularNode ==
  ASSUME NEW node \in Nodes, node # Directory
  PROVE  node.data = node.tell
BY DEF Nodes, Regular

LEMMA DelimitedInit == Init => DelimitedInv
<1> SUFFICES ASSUME Init PROVE DelimitedInv
  OBVIOUS
<1>1. NodeInv
  BY DEF Init, NodeInv, NoFile, Nodes, InHand
<1>2. SizeInv /\ KeptInv /\ KeepAliveDelimited
  BY DEF Init, SizeInv, KeptInv, KeepAliveDelimited, Serving, Before
<1>3. QED
  BY <1>1, <1>2 DEF DelimitedInv

\* One disjunct of Next at a time: the FILE.
LEMMA NodeStep == IInv /\ NodeInv /\ [Next]_vars => NodeInv'
<1> SUFFICES ASSUME IInv, NodeInv, [Next]_vars PROVE NodeInv'
  OBVIOUS
<1> USE DEF NodeInv, InHand
<1>0. file \in FileState
  BY DEF IInv, TypeOK
<1>1. CASE Begin \/ Post \/ Access \/ FopenFails
  BY <1>1 DEF Begin, Enter, Post, Access, FopenFails
<1>2. CASE Fopen
  BY <1>2 DEF Fopen
<1>3. CASE Ftell \/ WholeFile
  BY <1>0, <1>3 DEF Ftell, WholeFile, FileState
<1>4. CASE Head
  BY <1>0, <1>4 DEF Head, Closed, FileState
<1>5. CASE RangeRefused \/ SendResponse
  BY <1>5 DEF RangeRefused, SendResponse
<1>6. CASE RangeServed
  BY <1>6, RangeServedShape
<1>7. CASE ReadRange \/ ReadChunk \/ ReadIdentity
  <2>1. pc \in {"range", "chunked", "identity"} /\ disk' = disk
    BY <1>7 DEF ReadRange, ReadChunk, ReadIdentity, Deliver, Finish
  <2>2. file'.node = file.node /\ file'.linked = file.linked
    BY <1>0, <1>7
       DEF ReadRange, ReadChunk, ReadIdentity, Deliver, Finish, Closed, FileState
  <2>3. pc' = "answered" \/ file'.open = file.open
    BY <1>0, <1>7
       DEF ReadRange, ReadChunk, ReadIdentity, Deliver, Finish, FileState
  <2>4. QED
    BY <2>1, <2>2, <2>3
<1>8. CASE End
  BY <1>8 DEF End, NoFile, Nodes
<1>9. CASE Replace
  BY <1>0, <1>9 DEF Replace, Churn, FileState
<1>10. CASE Resize
  <2>1. PICK n \in Sizes :
          /\ disk' = Regular(n)
          /\ file' = IF file.linked THEN [file EXCEPT !.node = Regular(n)]
                                    ELSE file
    BY <1>10 DEF Resize
  <2>2. Regular(n) \in Nodes /\ pc' = pc
    BY <1>10 DEF Nodes, Resize, Churn
  <2>3. QED
    BY <1>0, <2>1, <2>2 DEF FileState
<1>11. CASE UNCHANGED vars
  BY <1>11 DEF vars
<1>12. QED
  BY <1>1, <1>2, <1>3, <1>4, <1>5, <1>6, <1>7, <1>8, <1>9, <1>10, <1>11
     DEF Next, Step

\* A change of the file is noticed while the file is open, and takes no file
\* out of Honoured's exceptions.
LEMMA ChurnKeeps ==
  ASSUME IInv, NodeInv, Replace \/ Resize
  PROVE  /\ InHand /\ ~stale' => ~stale /\ file'.node = file.node
         /\ Honoured' => Honoured
<1>0. file \in FileState /\ stale \in BOOLEAN
  BY DEF IInv, TypeOK
<1>1. CASE Replace
  BY <1>0, <1>1 DEF Replace, Churn, FileState, Honoured
<1>2. CASE Resize
  <2>1. PICK n \in Sizes :
          file' = IF file.linked THEN [file EXCEPT !.node = Regular(n)] ELSE file
    BY <1>2 DEF Resize
  <2>2. /\ disk # Directory /\ UNCHANGED <<pc, resp>>
        /\ stale' = (stale \/ (file.open /\ file.linked))
    BY <1>2 DEF Resize, Churn
  <2>3. CASE file.linked
    <3>1. file.node # Directory
      BY <2>2, <2>3 DEF NodeInv
    <3>2. InHand => stale'
      BY <2>2, <2>3 DEF NodeInv
    <3>3. QED
      BY <2>2, <3>1, <3>2 DEF Honoured
  <2>4. CASE ~file.linked
    BY <2>1, <2>2, <2>4 DEF Honoured
  <2>5. QED
    BY <2>3, <2>4
<1>3. QED
  BY <1>1, <1>2

\* A read of an honoured range that delivers nothing has nothing left to send.
LEMMA HonouredReads ==
  ASSUME IInv, NodeInv, SizeInv, pc = "range", Honoured, waiting > 0
  PROVE  BytesRead(MinOf(BigBuffer, waiting)) > 0
<1>1. /\ resp.range.size = file.node.tell
      /\ out.length = resp.range.end - resp.range.start + 1
      /\ out.body + waiting = out.length
  BY DEF SizeInv
<1>2. file.pos = resp.range.start + out.body
  BY DEF IInv, RangePosition
<1>3. /\ out.body \in Nat /\ waiting \in Nat /\ out.length \in Int
      /\ file \in FileState /\ file.pos \in Int /\ file.node.data \in Nat
      /\ resp.range.start \in Int /\ resp.range.end \in Int
      /\ resp.range.size \in Int
  BY DEF IInv, TypeOK, BodyInv, Stream, HeadersResponse, ContentRange,
         FileState, Node
<1>4. file.node.data = file.node.tell
  BY RegularNode DEF NodeInv, Honoured
<1>5. file.pos < file.node.data
  BY <1>1, <1>2, <1>3, <1>4 DEF Honoured
<1>6. MinOf(BigBuffer, waiting) \in Nat /\ MinOf(BigBuffer, waiting) > 0
  BY <1>3, StaticFileAssumption DEF MinOf
<1> HIDE DEF SizeInv
<1> DEFINE m == MinOf(BigBuffer, waiting)
<1> HIDE DEF m
<1>7. m \in Nat /\ m > 0
  BY <1>6 DEF m
<1>8. BytesRead(m) = MinOf(m, file.node.data - file.pos)
  BY <1>5 DEF BytesRead
<1>9. BytesRead(m) > 0
  BY <1>3, <1>5, <1>7, <1>8 DEF MinOf
<1>10. QED
  BY <1>9 DEF m

LEMMA SizeStep ==
  IInv /\ IInv' /\ NodeInv /\ SizeInv /\ [Next]_vars => SizeInv'
<1> SUFFICES ASSUME IInv, IInv', NodeInv, SizeInv, [Next]_vars PROVE SizeInv'
  OBVIOUS
<1> USE DEF SizeInv
<1>0. /\ file \in FileState /\ resp \in HeadersResponse /\ waiting \in Nat
      /\ stale \in BOOLEAN
  BY DEF IInv, TypeOK
<1>1. CASE Begin \/ Post \/ Access \/ FopenFails
  <2>1. pc' \in {"access", "answered", "send_response", "fopen"}
    BY <1>1 DEF Begin, Enter, Post, Access, FopenFails
  <2>2. QED
    BY <2>1
<1>2. CASE Fopen
  <2>1. /\ pc' \in {"dispatch", "ftell"} /\ resp' = resp
        /\ resp.content_length = Null
    BY <1>2 DEF Fopen, IInv, EncodingInv
  <2>2. QED
    BY <2>1
<1>3. CASE Ftell
  <2>1. /\ pc' = "dispatch" /\ resp'.content_length = file.node.tell
        /\ file'.node = file.node
    BY <1>0, <1>3 DEF Ftell, FileState, HeadersResponse
  <2>2. QED
    BY <2>1
<1>4. CASE Head \/ WholeFile \/ RangeRefused \/ SendResponse \/ End
  <2>1. pc' \in {"send_response", "chunked", "identity", "answered", "idle"}
    BY <1>4 DEF Head, WholeFile, RangeRefused, SendResponse, End
  <2>2. QED
    BY <2>1
<1>5. CASE RangeServed
  <2>1. /\ pc = "dispatch" /\ pc' = "range" /\ stale' = stale
        /\ resp.content_length \in Int
        /\ resp'.range \in ContentRange
        /\ resp'.range.size = resp.content_length
        /\ out'.body = 0
        /\ out'.length = resp'.range.end - resp'.range.start + 1
        /\ out'.length >= 0 => waiting' = out'.length
        /\ file'.node = file.node
    BY <1>5, RangeServedShape
  <2>2. ASSUME Honoured'
        PROVE  /\ resp'.range.size = file'.node.tell
               /\ out'.body + waiting' = out'.length
    <3>1. ~stale /\ resp.content_length # Null
      BY <2>1, <2>2, NullAssumption DEF Honoured
    <3>2. resp.content_length = file.node.tell
      BY <2>1, <3>1
    <3>3. resp'.range.start \in Int /\ resp'.range.end \in Int
          /\ resp'.range.start <= resp'.range.end + 1
      BY <2>1, <2>2 DEF Honoured, ContentRange
    <3>4. out'.length \in Int /\ out'.length >= 0
      BY <2>1, <3>3
    <3>5. QED
      BY <2>1, <3>2, <3>4
  <2>3. QED
    BY <2>1, <2>2
<1>6. CASE ReadRange
  <2> DEFINE n == BytesRead(MinOf(BigBuffer, waiting))
  <2>1. CASE Deliver(n) /\ waiting' = IF waiting > n THEN waiting - n ELSE 0
    <3>1. pc = "range" /\ out \in Stream /\ out.body \in Nat
      BY <1>6 DEF ReadRange, IInv, TypeOK, Stream
    <3>2. n \in Nat /\ n <= waiting
      <4> DEFINE m == MinOf(BigBuffer, waiting)
      <4>1. m \in Nat /\ m <= waiting
        BY <1>0, StaticFileAssumption DEF MinOf
      <4> HIDE DEF m
      <4>2. BytesRead(m) \in Nat /\ BytesRead(m) <= m
        BY <1>0, <4>1, ReadBound
      <4>3. QED
        BY <1>0, <4>1, <4>2 DEF m
    <3>3. /\ out'.length = out.length /\ out'.body = out.body + n
          /\ UNCHANGED <<pc, resp, stale>>
      BY <2>1, <3>2, DeliverShape DEF IInv, Deliver
    <3>4. file'.node = file.node
      BY <1>0, <2>1 DEF Deliver, FileState
    <3> HIDE DEF n
    <3>5. waiting' = waiting - n
      BY <1>0, <2>1, <3>2
    <3>6. Honoured' => Honoured
      BY <3>3, <3>4 DEF Honoured
    <3>7. out'.body + waiting' = out.body + waiting
      BY <1>0, <3>1, <3>2, <3>3, <3>5
    <3>8. QED
      BY <3>1, <3>3, <3>4, <3>6, <3>7
  <2>2. CASE Finish
    BY <2>2 DEF Finish
  <2>3. QED
    BY <1>6, <2>1, <2>2 DEF ReadRange
<1>7. CASE ReadChunk \/ ReadIdentity
  <2>1. pc' \in {"chunked", "identity", "answered"}
    BY <1>7 DEF ReadChunk, ReadIdentity, Deliver, Finish
  <2>2. QED
    BY <2>1
<1>8. CASE Replace \/ Resize
  <2>1. UNCHANGED <<pc, resp, out, waiting>>
    BY <1>8 DEF Replace, Resize, Churn
  <2>2. /\ InHand /\ ~stale' => ~stale /\ file'.node = file.node
        /\ Honoured' => Honoured
    BY <1>8, ChurnKeeps
  <2>3. CASE pc = "dispatch"
    BY <2>1, <2>2, <2>3 DEF InHand
  <2>4. CASE pc = "range"
    BY <2>1, <2>2, <2>4 DEF InHand, Honoured
  <2>5. QED
    BY <2>1, <2>3, <2>4
<1>9. CASE UNCHANGED vars
  BY <1>9 DEF vars, Honoured
<1>10. QED
  BY <1>1, <1>2, <1>3, <1>4, <1>5, <1>6, <1>7, <1>8, <1>9 DEF Next, Step

LEMMA KeptStep == IInv /\ KeptInv /\ [Next]_vars => KeptInv'
<1> SUFFICES ASSUME IInv, KeptInv, [Next]_vars PROVE KeptInv'
  OBVIOUS
<1> USE DEF KeptInv, Serving, Before
<1>0. /\ resp \in HeadersResponse /\ out \in Stream /\ req \in HeadersRequest
      /\ pc \in Before \cup {"send_response"} =>
           out = EmptyStream /\ resp.version \in HTTP_version
      /\ pc \in Before => resp.status_code = 0
  BY DEF IInv, TypeOK, StreamInv
<1>1. CASE Begin
  <2>1. PICK r \in Requests : Enter(r)
    BY <1>1 DEF Begin
  <2>2. /\ pc' = "access" /\ req' = r /\ resp'.connection = r.connection
        /\ r.ranges = Null /\ r.version = "HTTP1_1" =>
             resp'.transfert_encoding = "CHUNKED"
    BY <2>1 DEF Enter, PopulateRespFromReq, EmptyResponse
  <2>3. r.version = "HTTP1_0" => r.connection = "CLOSE"
    BY DEF Requests
  <2>4. QED
    BY <2>2, <2>3
<1>2. CASE Post \/ SendResponse
  BY <1>2 DEF Post, SendResponse
<1>3. CASE Access
  <2>1. /\ pc = "access" /\ req' = req
        /\ resp'.transfert_encoding = resp.transfert_encoding
        /\ \/ pc' = "send_response" /\ resp'.connection = "CLOSE"
           \/ /\ pc' = "send_response" /\ resp'.status_code = 415
              /\ resp'.connection = resp.connection
           \/ pc' = "fopen" /\ resp'.connection = resp.connection
    BY <1>0, <1>3 DEF Access, HeadersResponse
  <2>2. QED
    BY <2>1
<1>4. CASE Fopen \/ FopenFails
  BY <1>0, <1>4 DEF Fopen, FopenFails
<1>5. CASE Ftell
  <2>1. /\ pc = "ftell" /\ pc' = "dispatch" /\ req' = req
        /\ resp'.connection = resp.connection
        /\ resp'.transfert_encoding = resp.transfert_encoding
    BY <1>0, <1>5 DEF Ftell, HeadersResponse
  <2>2. QED
    BY <2>1
<1>6. CASE Head
  <2>1. /\ pc = "dispatch" /\ pc' = "send_response" /\ req' = req
        /\ req.methode = "HEAD"
        /\ resp'.connection = resp.connection /\ resp'.status_code = 200
    BY <1>0, <1>6 DEF Head, HeadersResponse
  <2>2. QED
    BY <2>1
<1>7. CASE WholeFile
  <2> DEFINE r == [resp EXCEPT !.status_code = 200]
  <2>1. /\ pc = "dispatch" /\ req.ranges = Null /\ req' = req
        /\ resp' = SentResponse(r) /\ out' = SendHeaders(out, r)
        /\ pc' = IF resp.transfert_encoding = "CHUNKED" THEN "chunked"
                                                       ELSE "identity"
    BY <1>7 DEF WholeFile
  <2>2. /\ r \in HeadersResponse /\ r.version = resp.version
        /\ r.connection = resp.connection /\ r.range = resp.range
        /\ r.content_length = resp.content_length
        /\ r.transfert_encoding = resp.transfert_encoding
    BY <1>0 DEF HeadersResponse
  <2> HIDE DEF r
  <2>3. /\ resp'.connection = resp.connection
        /\ SentResponse(r).content_length = Null
              /\ resp.transfert_encoding = "CHUNKED"
            => out'.framing = "chunked"
    BY <1>0, <2>1, <2>2, SendHeadersShape
  <2>4. CASE resp.transfert_encoding = "CHUNKED"
    <3>1. resp.content_length = Null /\ resp.range = Null
      BY <2>1, <2>4 DEF IInv, EncodingInv, StreamInv
    <3>2. SentResponse(r).content_length = Null
      BY <2>2, <2>4, <3>1 DEF SentResponse, Unset
    <3>3. QED
      BY <2>1, <2>3, <2>4, <3>2
  <2>5. CASE resp.transfert_encoding # "CHUNKED"
    <3>1. req.version = "HTTP1_0"
      BY <1>0, <2>1, <2>5 DEF HeadersRequest, HTTP_version
    <3>2. resp'.connection = "CLOSE"
      BY <2>1, <2>3, <3>1
    <3>3. QED
      BY <2>1, <2>5, <3>2
  <2>6. QED
    BY <2>4, <2>5
<1>8. CASE RangeRefused
  <2> DEFINE c == 416
             g == [start |-> -1, end |-> -1, size |-> resp.content_length]
  <2>1. /\ pc = "dispatch" /\ pc' = "send_response" /\ req' = req
        /\ resp' = [resp EXCEPT !.status_code = c, !.range = g]
    BY <1>8 DEF RangeRefused
  <2> HIDE DEF g
  <2>2. resp'.connection = resp.connection /\ resp'.status_code = 416
    BY <1>0, <2>1 DEF HeadersResponse
  <2>3. QED
    BY <2>1, <2>2
<1>9. CASE RangeServed
  BY <1>9, RangeServedShape
<1>10. CASE ReadRange \/ ReadChunk \/ ReadIdentity
  <2>1. /\ pc \in {"range", "chunked", "identity"} /\ pc' \in {pc, "answered"}
        /\ UNCHANGED <<req, resp>>
    BY <1>10 DEF ReadRange, ReadChunk, ReadIdentity, Deliver, Finish
  <2>2. out'.framing = out.framing
    BY <1>0, <1>10
       DEF ReadRange, ReadChunk, ReadIdentity, Deliver, Payload, LastChunk, Stream
  <2>3. QED
    BY <2>1, <2>2
<1>11. CASE End
  BY <1>11 DEF End
<1>12. CASE Replace \/ Resize \/ UNCHANGED vars
  BY <1>12 DEF Replace, Resize, Churn, vars
<1>13. QED
  BY <1>1, <1>2, <1>3, <1>4, <1>5, <1>6, <1>7, <1>8, <1>9, <1>10, <1>11, <1>12
     DEF Next, Step

LEMMA DelimitedStep ==
  IInv /\ IInv' /\ DelimitedInv /\ [Next]_vars => DelimitedInv'
<1> SUFFICES ASSUME IInv, IInv', DelimitedInv, [Next]_vars PROVE DelimitedInv'
  OBVIOUS
<1>0. /\ NodeInv /\ SizeInv /\ KeptInv /\ KeepAliveDelimited
      /\ NodeInv' /\ SizeInv' /\ KeptInv'
  BY NodeStep, SizeStep, KeptStep DEF DelimitedInv
<1>1. resp \in HeadersResponse /\ out \in Stream /\ req \in HeadersRequest
  BY DEF IInv, TypeOK
<1> USE DEF KeepAliveDelimited
<1>2. CASE Post
  <2>1. resp'.connection = "CLOSE"
    BY <1>1, <1>2 DEF Post, HeadersResponse
  <2>2. QED
    BY <1>0, <2>1 DEF DelimitedInv
<1>3. CASE ReadRange /\ pc' = "answered"
  <2>1. /\ pc = "range" /\ UNCHANGED <<req, resp, stale, waiting>> /\ out' = out
        /\ waiting = 0 \/ BytesRead(MinOf(BigBuffer, waiting)) = 0
    BY <1>3 DEF ReadRange, Finish, Deliver
  <2>2. /\ req.methode = "GET" /\ out.stage = "body" /\ ~out.malformed
        /\ resp.status_code = 206 /\ out.framing = "length"
        /\ out.body \in Nat /\ out.length \in Int /\ waiting \in Nat
    BY <2>1 DEF IInv, BodyInv, TypeOK, Stream
  <2>3. ASSUME Honoured' PROVE Delimited(out', req'.methode)
    <3>1. file'.node = file.node
      BY <1>3 DEF ReadRange, Finish, Closed, IInv, TypeOK, FileState, Deliver
    <3>2. Honoured
      BY <2>1, <2>3, <3>1 DEF Honoured
    <3>3. waiting = 0
      BY <1>0, <2>1, <2>2, <3>2, HonouredReads
    <3>4. out.body = out.length
      BY <1>0, <2>1, <2>2, <3>2, <3>3 DEF SizeInv
    <3>5. QED
      BY <2>1, <2>2, <3>4 DEF Delimited
  <2>4. QED
    BY <1>0, <2>1, <2>2, <2>3 DEF DelimitedInv
<1>4. CASE ReadChunk /\ pc' = "answered"
  <2>1. out'.framing = "chunked" /\ resp'.status_code = 200 /\ req'.methode = "GET"
        /\ out'.stage = "body"
    <3>1. pc = "chunked" /\ out' = LastChunk(out) /\ UNCHANGED <<req, resp>>
      BY <1>4 DEF ReadChunk, Finish, Deliver
    <3>2. QED
      BY <1>0, <1>1, <3>1, LastChunkShape DEF IInv, BodyInv, KeptInv
  <2>2. out'.last = 1
    BY <1>4, <2>1 DEF IInv, ChunksFollowFile
  <2>3. ~out'.malformed
    BY <1>4, <2>1 DEF IInv, WellFormedResponse
  <2>4. Delimited(out', req'.methode)
    BY <2>1, <2>2, <2>3 DEF Delimited
  <2>5. QED
    BY <1>0, <2>4 DEF DelimitedInv
<1>5. CASE ReadIdentity
  <2>1. pc = "identity" /\ resp' = resp
    BY <1>5 DEF ReadIdentity, Deliver, Finish
  <2>2. resp'.connection = "CLOSE"
    BY <1>0, <2>1 DEF KeptInv
  <2>3. QED
    BY <1>0, <2>2 DEF DelimitedInv
<1>6. CASE SendResponse
  <2>1. /\ pc = "send_response" /\ pc' = "answered" /\ req' = req
        /\ resp' = SentResponse(resp) /\ out' = SendHeaders(out, resp)
        /\ out = EmptyStream /\ resp.version \in HTTP_version
    BY <1>6 DEF SendResponse, IInv, StreamInv
  <2>2. /\ resp'.status_code = resp.status_code
        /\ resp'.connection = resp.connection
        /\ out'.stage = "body" /\ (out'.malformed <=> resp.status_code = 0)
    BY <1>1, <2>1, SendHeadersShape
  <2>3. \/ resp'.status_code \in {0, 415, 416}
        \/ resp'.status_code = 200 /\ req'.methode = "HEAD"
        \/ resp'.connection = "CLOSE"
    BY <1>0, <2>1, <2>2 DEF KeptInv
  <2>4. resp'.status_code = 200 /\ req'.methode = "HEAD" =>
          Delimited(out', req'.methode)
    BY <2>2 DEF Delimited
  <2>5. KeepAliveDelimited'
    BY <2>3, <2>4
  <2>6. QED
    BY <1>0, <2>5 DEF DelimitedInv
<1>7. CASE Replace \/ Resize
  <2>1. /\ UNCHANGED <<pc, req, resp, out>>
        /\ Honoured' => Honoured
    BY <1>0, <1>7, ChurnKeeps DEF Replace, Resize, Churn
  <2>2. QED
    BY <1>0, <2>1 DEF DelimitedInv
<1>8. CASE UNCHANGED vars
  BY <1>0, <1>8 DEF vars, Honoured, DelimitedInv
<1>9. CASE pc' # "answered"
  BY <1>0, <1>9 DEF DelimitedInv
<1>10. CASE /\ pc' = "answered"
            /\ Begin \/ Access \/ FopenFails \/ Fopen \/ Ftell \/ Head \/ WholeFile
                 \/ RangeRefused \/ RangeServed \/ End
  BY <1>10 DEF Begin, Enter, Access, FopenFails, Fopen, Ftell, Head, WholeFile,
               RangeRefused, RangeServed, End
<1>11. QED
  BY <1>2, <1>3, <1>4, <1>5, <1>6, <1>7, <1>8, <1>9, <1>10 DEF Next, Step

\* Whatever becomes of the file, a connection is left open only at the end of a
\* response, but on the paths that announce a body they do not send.
THEOREM KeptConnectionIsDelimited == Spec => []KeepAliveDelimited
<1>1. DelimitedInv => KeepAliveDelimited
  BY DEF DelimitedInv
<1>2. QED
  BY Invariance, DelimitedInit, <1>1, DelimitedStep, PTL DEF Spec
=============================================================================
