--------------------------- MODULE FastCgiProofs ----------------------------
(***************************************************************************)
(* Proofs about FastCgi for every value of its constants.                  *)
(***************************************************************************)
EXTENDS FastCgi, TLAPS

Sent == {"read", "length", "flush", "shutdown", "answered"}

(***************************************************************************)
(* The inductive invariant: the properties, with what ties the buffer, the *)
(* output received and what the client got to one another.                 *)
(***************************************************************************)

\* Nothing is known of an answer while the request is written.
FreshInv ==
  pc \in {"idle", "socket", "write"} =>
    /\ stdout = 0 /\ opening = 0
    /\ list = <<>> /\ ~tail /\ ~keepalive
    /\ reply = NoReply

\* The list follows what was written, without a gap, up to what was received.
BufferInv ==
  pc \in Sent =>
    /\ Upto = stdout
    /\ list # <<>> => list[1].at = reply.next
    /\ \A i \in 1 .. Len(list) - 1 : list[i + 1].at = list[i].at + list[i].n
    /\ reply.torn => script.status # 0 /\ HasStatus(opening)
    /\ opening = 0 => stdout = 0 /\ list = <<>> /\ reply.status = "none"
    /\ opening <= stdout

\* When there is a list, and whether it is all written.
ListInv ==
  /\ pc \in Sent /\ ~keepalive => list = <<>>
  /\ pc \in {"read", "length"} /\ tail => list # <<>>
  /\ pc \in Sent /\ opening > 0 /\ keepalive /\ ~tail => HasStatus(opening)
  /\ pc = "flush" => list # <<>>
  /\ pc \in {"shutdown", "answered"} => list = <<>>

\* Who gave the client its status line.
StatusInv ==
  pc \in Sent =>
    /\ reply.prefix <=> req.version # "other"
    /\ reply.status # "none" <=>
         opening > 0 /\ (HasStatus(opening) => script.status = 0)

\* The length announced, once it is.
AnnouncedInv ==
  pc \in {"flush", "shutdown", "answered"} /\ keepalive /\ opening > 0
    /\ ~HasStatus(opening) /\ script.header \in 1 .. opening /\ stdout <= IntMax
  => reply.announced = stdout - script.header

OrderInv == FreshInv /\ BufferInv /\ ListInv
IInv ==
  /\ TypeOK /\ OrderInv /\ StatusInv /\ AnnouncedInv
  /\ CrashesExplained

-----------------------------------------------------------------------------
(***************************************************************************)
(* Lemmas on the operators.                                                *)
(***************************************************************************)

\* What a write of output bytes changes in what the client got.
LEMMA WriteShape ==
  ASSUME NEW r \in Reply, NEW piece \in Piece
  PROVE  LET w == Write(r, piece) IN
         /\ w \in Reply
         /\ w.prefix = r.prefix /\ w.status = r.status
         /\ w.announced = r.announced
         /\ w.next = piece.at + piece.n
         /\ w.torn <=> r.torn \/ piece.at # r.next
<1> DEFINE e == piece.at + piece.n
           b == (r.torn \/ piece.at # r.next)
<1>1. e \in Nat /\ b \in BOOLEAN
  BY DEF Piece, Reply
<1>2. Write(r, piece) = [r EXCEPT !.next = e, !.torn = b]
  BY DEF Write
<1> HIDE DEF e, b
<1>3. LET w == [r EXCEPT !.next = e, !.torn = b] IN
      /\ w \in Reply
      /\ w.prefix = r.prefix /\ w.status = r.status
      /\ w.announced = r.announced /\ w.next = e /\ w.torn = b
  BY <1>1 DEF Reply
<1>4. QED
  BY <1>2, <1>3 DEF e, b

\* The version echoed, the length announced, the status given.
LEMMA PrefixShape ==
  ASSUME NEW r \in Reply, NEW b \in BOOLEAN
  PROVE  LET w == [r EXCEPT !.prefix = b] IN
         /\ w \in Reply /\ w.prefix = b
         /\ w.status = r.status /\ w.announced = r.announced
         /\ w.next = r.next /\ w.torn = r.torn
BY DEF Reply

LEMMA LengthShape ==
  ASSUME NEW r \in Reply, NEW n \in Int
  PROVE  LET w == [r EXCEPT !.announced = n] IN
         /\ w \in Reply /\ w.announced = n
         /\ w.prefix = r.prefix /\ w.status = r.status
         /\ w.next = r.next /\ w.torn = r.torn
BY DEF Reply

LEMMA ServerStatus ==
  ASSUME NEW r \in Reply
  PROVE  LET w == [r EXCEPT !.status = "server"] IN
         /\ w \in Reply /\ w.status = "server"
         /\ w.prefix = r.prefix /\ w.announced = r.announced
         /\ w.next = r.next /\ w.torn = r.torn
BY DEF Reply

LEMMA ScriptStatus ==
  ASSUME NEW r \in Reply
  PROVE  LET w == [r EXCEPT !.status = "script", !.next = StatusText] IN
         /\ w \in Reply /\ w.status = "script" /\ w.next = StatusText
         /\ w.prefix = r.prefix /\ w.announced = r.announced
         /\ w.torn = r.torn
<1>1. StatusText \in Nat
  BY FastCgiAssumption
<1>2. QED
  BY <1>1 DEF Reply

LEMMA HeadTail ==
  ASSUME NEW S, NEW s \in Seq(S), s # <<>>
  PROVE  Head(s) \in S /\ Tail(s) \in Seq(S)
OBVIOUS

LEMMA EmptyReply ==
  /\ NoReply \in Reply
  /\ ~NoReply.prefix /\ NoReply.status = "none" /\ NoReply.next = 0
  /\ ~NoReply.torn
BY DEF NoReply, Reply

LEMMA SizesFit ==
  /\ HeaderSize \in Nat /\ MaxContent \in Nat /\ StatusText \in Nat
  /\ IntMax \in Nat /\ StatusText > 0 /\ HeaderSize > 0
  /\ HeaderSize \in 0 .. MaxContent
  /\ \A n \in 0 .. MaxContent : HeaderSize + n \in 0 .. UIntMod - 1
BY FastCgiAssumption, WidthAssumption DEF UIntMod

\* AsInt and a remainder by UIntMod stay in their types.
LEMMA IntCasts ==
  ASSUME NEW x \in Int
  PROVE  /\ AsInt(x) \in Int
         /\ x \in 0 .. IntMax => AsInt(x) = x
         /\ x % UIntMod \in 0 .. UIntMod - 1
<1>1. IntMax \in Nat /\ UIntMod \in Nat /\ UIntMod > 0
  BY WidthAssumption DEF UIntMod
<1>2. \A y \in Int : y % UIntMod \in 0 .. UIntMod - 1
  BY <1>1
<1>3. AsInt(x) = ((x + IntMax + 1) % UIntMod) - (IntMax + 1)
  BY DEF AsInt, UIntMod
<1>4. x \in 0 .. IntMax => x + IntMax + 1 \in 0 .. UIntMod - 1
  BY <1>1 DEF UIntMod
<1>5. \A y \in 0 .. UIntMod - 1 : y % UIntMod = y
  BY <1>1
<1> HIDE DEF UIntMod
<1>6. QED
  BY <1>1, <1>2, <1>3, <1>4, <1>5

\* Every message fits a record.
LEMMA ContentsFit ==
  ASSUME NEW r \in Request \cup {NoRequest}
  PROVE  /\ Contents(r) \in Seq(0 .. MaxContent)
         /\ Contents(r) # <<>>
<1>1. r.params \in 0 .. MaxContent
  BY FastCgiAssumption, SizesFit DEF Request, NoRequest
<1>2. <<HeaderSize, r.params, 0>> \in Seq(0 .. MaxContent)
  BY <1>1, SizesFit
<1>3. SendsBody(r) => StdinLength(r) \in 0 .. MaxContent
  <2> SUFFICES ASSUME SendsBody(r) PROVE StdinLength(r) \in 0 .. MaxContent
    OBVIOUS
  <2>1. r.declared \in Int
    BY FastCgiAssumption DEF SendsBody, Request, NoRequest
  <2>2. LongMod \in Nat
    BY WidthAssumption
  <2>3. MaxOf(-(LongMod \div 2), MinOf(r.declared, LongMod \div 2 - 1)) \in Int
    BY <2>1, <2>2 DEF MaxOf, MinOf
  <2>4. AtoI(r.declared) \in Int
    BY <2>3, IntCasts DEF AtoI
  <2>5. StdinLength(r) \in Nat
    BY <2>4, IntCasts DEF StdinLength
  <2>6. QED
    BY <2>5, SizesFit DEF SendsBody
<1> DEFINE body == IF SendsBody(r) THEN <<StdinLength(r)>> ELSE <<>>
<1>4. body \in Seq(0 .. MaxContent)
  <2>1. CASE SendsBody(r)
    <3>1. <<StdinLength(r)>> \in Seq(0 .. MaxContent)
      BY <1>3, <2>1
    <3>2. QED
      BY <2>1, <3>1
  <2>2. CASE ~SendsBody(r)
    BY <2>2
  <2>3. QED
    BY <2>1, <2>2
<1>5. <<0>> \in Seq(0 .. MaxContent)
  BY SizesFit
<1> DEFINE start == <<HeaderSize, r.params, 0>>
<1>6. Contents(r) = (start \o body) \o <<0>>
  BY DEF Contents
<1>7. start \o body \in Seq(0 .. MaxContent) /\ Len(start \o body) >= 3
  <2> HIDE DEF body
  <2>1. Len(start) = 3
    OBVIOUS
  <2> HIDE DEF start
  <2>2. QED
    BY <1>2, <1>4, <2>1 DEF start
<1> HIDE DEF start, body
<1>8. QED
  BY <1>5, <1>6, <1>7

-----------------------------------------------------------------------------
(***************************************************************************)
(* Types.                                                                  *)
(***************************************************************************)

LEMMA RestsType ==
  ASSUME TypeOK
  PROVE  Rests \subseteq 0 .. UIntMod - 1
<1>1. left \in 0 .. UIntMod - 1 /\ left \in Int
  BY DEF TypeOK
<1>2. UIntMod \in Nat
  BY WidthAssumption DEF UIntMod
<1>3. (left + 1) % UIntMod \in 0 .. UIntMod - 1
  BY <1>1, IntCasts
<1> HIDE DEF UIntMod
<1>4. QED
  BY <1>1, <1>2, <1>3 DEF Rests

\* What the branches of ReadStdout do to the list and to the reply.
LEMMA ReadType ==
  ASSUME TypeOK, NEW n \in RecordSizes, pc = "read",
         opening = 0 => n > 0,
         \/ FirstWithStatus(n) \/ FirstBuffered(n) \/ FirstForwarded(n)
         \/ LaterBuffered(n) \/ LaterNull \/ LaterForwarded(n)
  PROVE  /\ pc' \in {"read", "crashed"}
         /\ list' \in Seq(Piece) /\ tail' \in BOOLEAN /\ reply' \in Reply
<1>1. n \in Nat /\ [at |-> stdout, n |-> n] \in Piece
  BY FastCgiAssumption, SizesFit DEF TypeOK, Piece
<1>2. reply \in Reply /\ list \in Seq(Piece) /\ tail \in BOOLEAN
  BY DEF TypeOK
<1>3. CASE FirstWithStatus(n)
  <2>1. n - StatusText \in Nat
    <3>1. script.status \in Nat /\ script.status + StatusText <= n
      BY <1>3 DEF FirstWithStatus, HasStatus, TypeOK, Script
    <3>2. QED
      BY <1>1, <3>1, SizesFit
  <2>2. [at |-> StatusText, n |-> n - StatusText] \in Piece
    BY <2>1, SizesFit DEF Piece
  <2> DEFINE r == IF script.status = 0
                    THEN [reply EXCEPT !.status = "script", !.next = StatusText]
                    ELSE reply
  <2>3. r \in Reply
    BY <1>2, ScriptStatus
  <2>4. reply' = Write(r, [at |-> StatusText, n |-> n - StatusText])
    BY <1>3 DEF FirstWithStatus
  <2> HIDE DEF r
  <2>5. reply' \in Reply
    BY <2>2, <2>3, <2>4, WriteShape
  <2>6. QED
    BY <1>2, <1>3, <2>5 DEF FirstWithStatus
<1>4. CASE FirstBuffered(n)
  BY <1>1, <1>2, <1>4, ServerStatus DEF FirstBuffered
<1>5. CASE FirstForwarded(n)
  <2>1. [reply EXCEPT !.status = "server"] \in Reply
    BY <1>2, ServerStatus
  <2>2. QED
    BY <1>1, <1>2, <1>5, <2>1, WriteShape DEF FirstForwarded
<1>6. CASE LaterBuffered(n)
  BY <1>1, <1>2, <1>6 DEF LaterBuffered
<1>7. CASE LaterNull
  BY <1>2, <1>7 DEF LaterNull
<1>8. CASE LaterForwarded(n)
  BY <1>1, <1>2, <1>8, WriteShape DEF LaterForwarded
<1>9. QED
  BY <1>3, <1>4, <1>5, <1>6, <1>7, <1>8

LEMMA TypeStep ==
  ASSUME TypeOK, ListInv, [Next]_vars
  PROVE  TypeOK'
<1> USE DEF Labels, Forwarding
<1>1. CASE Begin
  <2>1. script' \in Script /\ req' \in Request
    BY <1>1, FastCgiAssumption DEF Begin, Enter
  <2>2. QED
    BY <1>1, <2>1 DEF Begin, Enter, TypeOK, socket, answer
<1>2. CASE CreateSocket
  <2> DEFINE c == Contents(req)
  <2>1. c \in Seq(0 .. MaxContent) /\ c # <<>>
    BY ContentsFit DEF TypeOK
  <2>2. Head(c) \in 0 .. MaxContent /\ Tail(c) \in Seq(0 .. MaxContent)
    BY <2>1, HeadTail
  <2>3. /\ left' \in 0 .. UIntMod - 1
        /\ todo' \in Seq(0 .. MaxContent)
    BY <1>2, <2>2, SizesFit DEF CreateSocket
  <2>4. fd' \in {"failed", "open"} /\ peer' \in BOOLEAN /\ fds' \in Nat
    <3>1. fds \in Nat /\ fds + 1 \in Nat
      BY DEF TypeOK
    <3>2. CASE NoSocket
      BY <3>1, <3>2 DEF NoSocket
    <3>3. CASE Refused
      BY <3>1, <3>3 DEF Refused
    <3>4. CASE Connected
      BY <3>1, <3>4 DEF Connected
    <3>5. QED
      BY <1>2, <3>2, <3>3, <3>4 DEF CreateSocket
  <2>5. QED
    BY <1>2, <2>3, <2>4 DEF CreateSocket, TypeOK, request, answer
<1>3. CASE WriteSocket
  <2>1. CASE MoreToWrite
    <3>1. left' \in 0 .. UIntMod - 1
      BY <2>1, RestsType DEF MoreToWrite
    <3>2. QED
      BY <1>3, <2>1, <3>1
         DEF WriteSocket, MoreToWrite, TypeOK, request, answer
  <2>2. CASE NextMessage
    <3>1. Head(todo) \in 0 .. MaxContent /\ Tail(todo) \in Seq(0 .. MaxContent)
      BY <2>2, HeadTail DEF NextMessage, TypeOK
    <3>2. /\ left' \in 0 .. UIntMod - 1
          /\ todo' \in Seq(0 .. MaxContent)
      BY <2>2, <3>1, SizesFit DEF NextMessage
    <3>3. QED
      BY <1>3, <2>2, <3>2
         DEF WriteSocket, NextMessage, TypeOK, request, answer
  <2>3. CASE LastWritten
    <3>1. reply' \in Reply /\ keepalive' \in BOOLEAN
      <4> DEFINE b == (req.version # "other")
                 k == (req.version = "HTTP/1.1" /\ ~req.close)
      <4>1. b \in BOOLEAN /\ k \in BOOLEAN
        OBVIOUS
      <4>2. reply' = [reply EXCEPT !.prefix = b] /\ keepalive' = k
        BY <2>3 DEF LastWritten
      <4> HIDE DEF b, k
      <4>3. QED
        BY <4>1, <4>2, PrefixShape DEF TypeOK
    <3>2. 0 \in 0 .. UIntMod - 1
      BY WidthAssumption DEF UIntMod
    <3>3. QED
      BY <1>3, <2>3, <3>1, <3>2
         DEF WriteSocket, LastWritten, TypeOK, request
  <2>4. QED
    BY <1>3, <2>1, <2>2, <2>3 DEF WriteSocket
<1>4. CASE ReadStdout
  <2>1. PICK n \in RecordSizes :
          /\ opening = 0 => n > 0
          /\ \/ FirstWithStatus(n) \/ FirstBuffered(n) \/ FirstForwarded(n)
             \/ LaterBuffered(n) \/ LaterNull \/ LaterForwarded(n)
          /\ stdout' = stdout + n
          /\ opening' = IF opening = 0 THEN n ELSE opening
    BY <1>4 DEF ReadStdout
  <2>2. n \in Nat
    BY FastCgiAssumption, SizesFit
  <2>3. /\ pc' \in {"read", "crashed"}
        /\ list' \in Seq(Piece) /\ tail' \in BOOLEAN /\ reply' \in Reply
    BY <1>4, <2>1, ReadType DEF ReadStdout
  <2>4. QED
    BY <1>4, <2>1, <2>2, <2>3
       DEF ReadStdout, TypeOK, request, socket
<1>5. CASE ReadOther
  BY <1>5 DEF ReadOther, TypeOK, request, socket
<1>6. CASE EndRequest
  BY <1>6 DEF EndRequest, TypeOK, request, socket, answer
<1>7. CASE ReadShort
  BY <1>7 DEF ReadShort, TypeOK, request, socket, answer
<1>8. CASE SendLength
  <2>1. reply' \in Reply
    <3>1. CASE keepalive /\ list # <<>>
      <4>1. PICK n \in BodyLengths(AsInt(stdout), opening) :
              reply' = [reply EXCEPT !.announced = n]
        BY <1>8, <3>1 DEF SendLength
      <4>2. AsInt(stdout) \in Int /\ opening \in Nat /\ script.header \in Nat
        BY IntCasts DEF TypeOK, Script
      <4>3. n \in Int
        BY <4>1, <4>2, FastCgiAssumption DEF BodyLengths
      <4>4. QED
        BY <4>1, <4>3, LengthShape DEF TypeOK
    <3>2. CASE ~(keepalive /\ list # <<>>)
      BY <1>8, <3>2 DEF SendLength, TypeOK
    <3>3. QED
      BY <3>1, <3>2
  <2>2. QED
    BY <1>8, <2>1 DEF SendLength, TypeOK, request, socket
<1>9. CASE Flush
  <2>1. list # <<>>
    BY <1>9 DEF Flush, ListInv
  <2>2. Head(list) \in Piece /\ Tail(list) \in Seq(Piece)
    BY <2>1, HeadTail DEF TypeOK
  <2>3. reply' \in Reply
    BY <1>9, <2>2, WriteShape DEF Flush, TypeOK
  <2>4. QED
    BY <1>9, <2>2, <2>3 DEF Flush, TypeOK, request, socket
<1>10. CASE Shutdown
  BY <1>10 DEF Shutdown, TypeOK, request, answer
<1>11. CASE End
  <2>1. NoScript \in Script
    BY DEF NoScript, Script
  <2>2. list' \in Seq(Piece) /\ reply' \in Reply
    BY <1>11, EmptyReply DEF End
  <2>3. QED
    BY <1>11, <2>1, <2>2 DEF End, TypeOK
<1>12. CASE PeerGone
  BY <1>12 DEF PeerGone, TypeOK, request, answer
<1>13. CASE UNCHANGED vars
  BY <1>13 DEF vars, TypeOK
<1>14. QED
  BY <1>1, <1>2, <1>3, <1>4, <1>5, <1>6, <1>7, <1>8, <1>9, <1>10, <1>11, <1>12,
     <1>13 DEF Next, Own, Php

-----------------------------------------------------------------------------
(***************************************************************************)
(* A record of output.                                                     *)
(***************************************************************************)

\* Before the first record the client has been sent no output.
LEMMA BeforeOutput ==
  ASSUME TypeOK, OrderInv, StatusInv, pc = "read", opening = 0
  PROVE  /\ stdout = 0 /\ list = <<>> /\ reply.status = "none"
         /\ reply.next = 0 /\ ~reply.torn
<1>1. stdout = 0 /\ list = <<>> /\ reply.status = "none" /\ Upto = stdout
  BY DEF OrderInv, BufferInv, Sent
<1>2. reply.next = 0
  BY <1>1 DEF Upto
<1>3. ~HasStatus(0)
  <2>1. script.status \in Nat \cup {Null}
    BY DEF TypeOK, Script
  <2>2. QED
    BY <2>1, SizesFit DEF HasStatus
<1>4. ~reply.torn
  BY <1>3 DEF OrderInv, BufferInv, Sent
<1>5. QED
  BY <1>1, <1>2, <1>4

LEMMA FirstRecord ==
  ASSUME TypeOK, OrderInv, StatusInv, pc = "read",
         NEW n \in RecordSizes, n > 0, opening = 0,
         FirstWithStatus(n) \/ FirstBuffered(n) \/ FirstForwarded(n),
         stdout' = stdout + n, opening' = n,
         UNCHANGED <<req, script, keepalive>>
  PROVE  OrderInv' /\ StatusInv' /\ pc' = "read"
<1>1. /\ stdout = 0 /\ list = <<>> /\ reply.status = "none"
      /\ reply.next = 0 /\ ~reply.torn
  BY BeforeOutput
<1>2. /\ n \in Nat /\ reply \in Reply /\ [at |-> 0, n |-> n] \in Piece
      /\ opening' <= stdout'
  BY <1>1, FastCgiAssumption, SizesFit DEF TypeOK, Piece
<1>3. reply.prefix <=> req.version # "other"
  BY DEF StatusInv, Sent
<1>4. pc' = "read"
  BY DEF FirstWithStatus, FirstBuffered, FirstForwarded
<1>5. CASE FirstWithStatus(n)
  <2>1. script.status \in Nat /\ script.status + StatusText <= n /\ HasStatus(n)
    BY <1>5 DEF FirstWithStatus, HasStatus, TypeOK, Script
  <2> DEFINE r == IF script.status = 0
                    THEN [reply EXCEPT !.status = "script", !.next = StatusText]
                    ELSE reply
             piece == [at |-> StatusText, n |-> n - StatusText]
  <2>2. piece \in Piece /\ piece.at = StatusText /\ piece.n = n - StatusText
    BY <1>2, <2>1, SizesFit DEF Piece
  <2>3. /\ r \in Reply /\ r.prefix = reply.prefix /\ ~r.torn
        /\ script.status = 0 => r.status = "script" /\ r.next = StatusText
        /\ script.status # 0 => r.status = "none" /\ r.next = 0
    BY <1>1, <1>2, ScriptStatus
  <2>4. reply' = Write(r, piece)
    BY <1>5 DEF FirstWithStatus
  <2> HIDE DEF r, piece
  <2>5. /\ reply'.next = n /\ reply'.prefix = reply.prefix
        /\ reply'.torn => script.status # 0
        /\ reply'.status # "none" <=> script.status = 0
    BY <1>2, <2>2, <2>3, <2>4, WriteShape, SizesFit
  <2>6. list' = <<>> /\ tail' = tail
    BY <1>1, <1>5 DEF FirstWithStatus
  <2>7. Upto' = stdout' /\ HasStatus(opening)'
    BY <1>1, <1>2, <2>1, <2>5, <2>6 DEF Upto, HasStatus
  <2>8. BufferInv'
    BY <1>2, <1>4, <2>5, <2>6, <2>7 DEF BufferInv
  <2>9. ListInv' /\ FreshInv'
    <3>1. ~tail
      BY <1>1 DEF OrderInv, ListInv
    <3>2. QED
      BY <1>4, <2>6, <2>7, <3>1 DEF ListInv, FreshInv
  <2>10. StatusInv'
    BY <1>2, <1>3, <1>4, <2>5, <2>7 DEF StatusInv
  <2>11. QED
    BY <1>4, <2>8, <2>9, <2>10 DEF OrderInv
<1>6. CASE FirstBuffered(n)
  <2>1. /\ reply'.prefix = reply.prefix /\ reply'.status = "server"
        /\ reply'.next = 0 /\ ~reply'.torn
    BY <1>1, <1>2, <1>6, ServerStatus DEF FirstBuffered
  <2>2. /\ list' = <<[at |-> 0, n |-> n]>> /\ tail' /\ keepalive'
        /\ ~HasStatus(opening)'
    BY <1>1, <1>6 DEF FirstBuffered, HasStatus
  <2>3. Len(list') = 1 /\ list'[1].at = 0 /\ list'[1].n = n /\ list' # <<>>
    BY <2>2
  <2>4. Upto' = stdout'
    BY <1>1, <1>2, <2>3 DEF Upto
  <2>5. BufferInv'
    BY <1>2, <1>4, <2>1, <2>3, <2>4 DEF BufferInv
  <2>6. ListInv' /\ FreshInv' /\ StatusInv'
    BY <1>2, <1>3, <1>4, <2>1, <2>2, <2>3 DEF ListInv, FreshInv, StatusInv
  <2>7. QED
    BY <1>4, <2>5, <2>6 DEF OrderInv
<1>7. CASE FirstForwarded(n)
  <2> DEFINE r == [reply EXCEPT !.status = "server"]
             piece == [at |-> 0, n |-> n]
  <2>1. /\ r \in Reply /\ r.prefix = reply.prefix /\ r.status = "server"
        /\ r.next = 0 /\ ~r.torn
    BY <1>1, <1>2, ServerStatus
  <2>2. piece \in Piece /\ piece.at = 0 /\ piece.n = n
    BY <1>2
  <2>3. reply' = Write(r, piece)
    BY <1>1, <1>7 DEF FirstForwarded
  <2> HIDE DEF r, piece
  <2>4. /\ reply'.prefix = reply.prefix /\ reply'.status = "server"
        /\ reply'.next = n /\ ~reply'.torn
    BY <1>2, <2>1, <2>2, <2>3, WriteShape
  <2>5. /\ list' = <<>> /\ ~keepalive' /\ ~HasStatus(opening)' /\ ~tail'
    BY <1>1, <1>4, <1>7 DEF FirstForwarded, HasStatus, OrderInv, ListInv
  <2>6. Upto' = stdout'
    BY <1>1, <1>2, <2>4, <2>5 DEF Upto
  <2>7. BufferInv'
    BY <1>2, <1>4, <2>4, <2>5, <2>6 DEF BufferInv
  <2>8. ListInv' /\ FreshInv' /\ StatusInv'
    BY <1>2, <1>3, <1>4, <2>4, <2>5 DEF ListInv, FreshInv, StatusInv
  <2>9. QED
    BY <1>4, <2>7, <2>8 DEF OrderInv
<1>8. QED
  BY <1>5, <1>6, <1>7

LEMMA LaterRecord ==
  ASSUME TypeOK, OrderInv, StatusInv, pc = "read",
         NEW n \in RecordSizes, opening > 0,
         LaterBuffered(n) \/ LaterNull \/ LaterForwarded(n),
         stdout' = stdout + n, opening' = opening,
         UNCHANGED <<req, script, keepalive>>
  PROVE  OrderInv' /\ StatusInv'
         /\ (pc' = "read" \/ (pc' = "crashed" /\ CrashesExplained'))
<1>1. /\ Upto = stdout
      /\ list # <<>> => list[1].at = reply.next
      /\ \A i \in 1 .. Len(list) - 1 : list[i + 1].at = list[i].at + list[i].n
      /\ reply.torn => script.status # 0 /\ HasStatus(opening)
  BY DEF OrderInv, BufferInv, Sent
<1>2. n \in Nat /\ reply \in Reply /\ stdout \in Nat /\ opening \in Nat
      /\ list \in Seq(Piece) /\ [at |-> stdout, n |-> n] \in Piece
      /\ opening' <= stdout'
  <2>1. n \in Nat /\ stdout \in Nat /\ opening \in Nat /\ opening <= stdout
    BY FastCgiAssumption, SizesFit DEF TypeOK, OrderInv, BufferInv, Sent
  <2>2. QED
    BY <2>1 DEF TypeOK, Piece
<1>3. HasStatus(opening)' <=> HasStatus(opening)
  BY DEF HasStatus
<1>4. CASE LaterBuffered(n)
  <2> DEFINE piece == [at |-> stdout, n |-> n]
  <2>1. piece \in Piece /\ piece.at = stdout /\ piece.n = n
    BY <1>2
  <2>2. /\ list' = Append(list, piece) /\ keepalive /\ tail
        /\ reply' = reply /\ tail' = tail /\ pc' = pc
    BY <1>4 DEF LaterBuffered
  <2> HIDE DEF piece
  <2>3. /\ Len(list') = Len(list) + 1 /\ list' # <<>>
        /\ list'[Len(list')] = piece
        /\ \A i \in 1 .. Len(list) : list'[i] = list[i]
    BY <1>2, <2>1, <2>2
  <2>4. Upto' = stdout'
    BY <2>1, <2>3 DEF Upto
  <2>5. list'[1].at = reply'.next
    <3>1. CASE list = <<>>
      BY <1>1, <2>1, <2>2, <2>3, <3>1 DEF Upto
    <3>2. CASE list # <<>>
      <4>1. 1 \in 1 .. Len(list)
        BY <1>2, <3>2
      <4>2. QED
        BY <1>1, <2>2, <2>3, <3>2, <4>1
    <3>3. QED
      BY <3>1, <3>2
  <2>6. ASSUME NEW i \in 1 .. Len(list') - 1
        PROVE  list'[i + 1].at = list'[i].at + list'[i].n
    <3>1. i \in 1 .. Len(list) /\ Len(list) \in Nat /\ list'[i] = list[i]
      BY <1>2, <2>3
    <3>2. CASE i = Len(list)
      BY <1>1, <2>1, <2>3, <3>1, <3>2 DEF Upto
    <3>3. CASE i # Len(list)
      BY <1>1, <2>3, <3>1, <3>3
    <3>4. QED
      BY <3>2, <3>3
  <2>7. BufferInv'
    BY <1>1, <1>2, <1>3, <2>2, <2>3, <2>4, <2>5, <2>6 DEF BufferInv
  <2>8. ListInv' /\ FreshInv'
    BY <2>2, <2>3 DEF ListInv, FreshInv
  <2>9. StatusInv'
    BY <1>3, <2>2 DEF StatusInv, Sent
  <2>10. QED
    BY <2>2, <2>7, <2>8, <2>9 DEF OrderInv
<1>5. CASE LaterNull
  <2>1. pc' = "crashed" /\ keepalive /\ HasStatus(opening)
    BY <1>5 DEF LaterNull, OrderInv, ListInv, Sent
  <2>2. QED
    BY <1>3, <2>1
       DEF OrderInv, FreshInv, BufferInv, ListInv, StatusInv, Sent,
           CrashesExplained
<1>6. CASE LaterForwarded(n)
  <2> DEFINE piece == [at |-> stdout, n |-> n]
  <2>1. piece \in Piece /\ piece.at = stdout /\ piece.n = n
    BY <1>2
  <2>2. /\ reply' = Write(reply, piece) /\ ~keepalive
        /\ list' = list /\ tail' = tail /\ pc' = pc
    BY <1>6 DEF LaterForwarded
  <2> HIDE DEF piece
  <2>3. list = <<>> /\ reply.next = stdout
    BY <1>1, <2>2 DEF OrderInv, ListInv, Sent, Upto
  <2>4. /\ reply'.prefix = reply.prefix /\ reply'.status = reply.status
        /\ reply'.next = stdout + n /\ (reply'.torn <=> reply.torn)
    BY <1>2, <2>1, <2>2, <2>3, WriteShape
  <2>5. Upto' = stdout'
    BY <2>2, <2>3, <2>4 DEF Upto
  <2>6. BufferInv'
    BY <1>1, <1>2, <1>3, <2>2, <2>3, <2>4, <2>5 DEF BufferInv
  <2>7. ListInv' /\ FreshInv'
    BY <2>2, <2>3 DEF ListInv, FreshInv, OrderInv
  <2>8. StatusInv'
    BY <1>3, <2>2, <2>4 DEF StatusInv, Sent
  <2>9. QED
    BY <2>2, <2>6, <2>7, <2>8 DEF OrderInv
<1>7. QED
  BY <1>4, <1>5, <1>6

-----------------------------------------------------------------------------
(***************************************************************************)
(* The other steps.                                                        *)
(***************************************************************************)

LEMMA TailShape ==
  ASSUME NEW s \in Seq(Piece), s # <<>>
  PROVE  LET t == Tail(s) IN
         /\ Len(s) \in Nat /\ Len(s) >= 1 /\ Len(t) = Len(s) - 1
         /\ \A i \in 1 .. Len(s) - 1 : t[i] = s[i + 1]
         /\ t = <<>> <=> Len(s) = 1
<1>1. Tail(s) \in Seq(Piece) /\ Len(Tail(s)) = Len(s) - 1
  OBVIOUS
<1>2. Tail(s) = <<>> <=> Len(Tail(s)) = 0
  BY <1>1
<1>3. \A i \in 1 .. Len(s) - 1 : Tail(s)[i] = s[i + 1]
  OBVIOUS
<1>4. QED
  BY <1>1, <1>2, <1>3

\* One element of the list is written: the rest still follows without a gap.
LEMMA FlushStep ==
  ASSUME TypeOK, OrderInv, StatusInv, AnnouncedInv, Flush
  PROVE  OrderInv' /\ StatusInv' /\ AnnouncedInv'
<1>1. /\ pc = "flush" /\ pc \in Sent /\ list # <<>>
      /\ reply' = Write(reply, Head(list)) /\ list' = Tail(list)
      /\ pc' = IF Tail(list) = <<>> THEN "shutdown" ELSE "flush"
      /\ UNCHANGED <<req, script, stdout, opening, tail, keepalive>>
  BY DEF Flush, OrderInv, ListInv, Sent, request
<1>2. /\ Upto = stdout
      /\ list[1].at = reply.next
      /\ \A i \in 1 .. Len(list) - 1 : list[i + 1].at = list[i].at + list[i].n
      /\ reply.torn => script.status # 0 /\ HasStatus(opening)
      /\ opening # 0 /\ opening <= stdout /\ keepalive
  BY <1>1 DEF OrderInv, BufferInv, ListInv
<1>3. list \in Seq(Piece) /\ reply \in Reply /\ opening \in Nat
  BY DEF TypeOK
<1>4. HasStatus(opening)' <=> HasStatus(opening)
  BY <1>1 DEF HasStatus
<1> DEFINE piece == Head(list)
<1>5. /\ piece \in Piece /\ piece = list[1]
      /\ reply' = Write(reply, piece)
  BY <1>1, <1>3
<1> HIDE DEF piece
<1>6. /\ reply'.prefix = reply.prefix /\ reply'.status = reply.status
      /\ reply'.announced = reply.announced
      /\ reply'.next = list[1].at + list[1].n
      /\ (reply'.torn <=> reply.torn)
  BY <1>2, <1>3, <1>5, WriteShape
<1>7. /\ Len(list) \in Nat /\ Len(list) >= 1 /\ Len(list') = Len(list) - 1
      /\ \A i \in 1 .. Len(list) - 1 : list'[i] = list[i + 1]
      /\ list' = <<>> <=> Len(list) = 1
  <2>1. list # <<>> /\ list' = Tail(list)
    BY <1>1
  <2>2. QED
    BY <1>3, <2>1, TailShape
<1>8. Upto' = stdout' /\ (list' # <<>> => list'[1].at = reply'.next)
  <2>1. CASE Len(list) = 1
    BY <1>1, <1>2, <1>6, <1>7, <2>1 DEF Upto
  <2>2. CASE Len(list) > 1
    <3>1. list'[Len(list')] = list[Len(list)] /\ list' # <<>>
          /\ list'[1] = list[2] /\ list[2].at = list[1].at + list[1].n
      BY <1>2, <1>7, <2>2
    <3>2. QED
      BY <1>1, <1>2, <1>6, <3>1 DEF Upto
  <2>3. QED
    BY <1>7, <2>1, <2>2
<1>9. ASSUME NEW i \in 1 .. Len(list') - 1
      PROVE  list'[i + 1].at = list'[i].at + list'[i].n
  <2>1. /\ i \in 1 .. Len(list) - 1 /\ i + 1 \in 1 .. Len(list) - 1
        /\ list'[i] = list[i + 1] /\ list'[i + 1] = list[(i + 1) + 1]
    BY <1>7
  <2>2. QED
    BY <1>2, <2>1
<1>10. BufferInv'
  BY <1>1, <1>2, <1>4, <1>6, <1>8, <1>9 DEF BufferInv
<1>11. ListInv' /\ FreshInv'
  <2>1. ~tail => HasStatus(opening)
    BY <1>1, <1>2, <1>3 DEF OrderInv, ListInv
  <2>2. QED
    BY <1>1, <1>2, <1>4, <2>1 DEF ListInv, FreshInv, Sent
<1>12. StatusInv' /\ AnnouncedInv'
  BY <1>1, <1>4, <1>6 DEF StatusInv, AnnouncedInv, Sent
<1>13. QED
  BY <1>10, <1>11, <1>12 DEF OrderInv

\* The length announced is that of the body when the header section is in the
\* first record, which then started the list.
LEMMA LengthStep ==
  ASSUME TypeOK, OrderInv, StatusInv, SendLength
  PROVE  OrderInv' /\ StatusInv' /\ AnnouncedInv'
<1>1. /\ pc = "length" /\ pc \in Sent /\ pc' \in {"flush", "shutdown"}
      /\ UNCHANGED <<req, script, stdout, opening, list, tail, keepalive>>
  BY DEF SendLength, request, Sent
<1>2. HasStatus(opening)' <=> HasStatus(opening)
  BY <1>1 DEF HasStatus
<1>3. CASE keepalive /\ list # <<>>
  <2>1. PICK n \in BodyLengths(AsInt(stdout), opening) :
          reply' = [reply EXCEPT !.announced = n]
    BY <1>3 DEF SendLength
  <2>2. /\ stdout \in Nat /\ opening \in Nat /\ script.header \in Nat
        /\ reply \in Reply /\ IntMax \in Nat
    BY WidthAssumption DEF TypeOK, Script
  <2>3. AsInt(stdout) \in Int /\ (stdout <= IntMax => AsInt(stdout) = stdout)
    BY <2>2, IntCasts
  <2>4. n \in Int
    BY <2>1, <2>2, <2>3, FastCgiAssumption DEF BodyLengths
  <2>5. /\ reply'.announced = n /\ reply'.prefix = reply.prefix
        /\ reply'.status = reply.status /\ reply'.next = reply.next
        /\ reply'.torn = reply.torn
    BY <2>1, <2>2, <2>4, LengthShape
  <2>6. pc' = "flush"
    BY <1>3 DEF SendLength
  <2>7. AnnouncedInv'
    BY <1>1, <2>1, <2>2, <2>3, <2>5 DEF AnnouncedInv, BodyLengths
  <2>8. OrderInv'
    BY <1>1, <1>2, <1>3, <2>5, <2>6
       DEF OrderInv, FreshInv, BufferInv, ListInv, Upto, Sent
  <2>9. StatusInv'
    BY <1>1, <1>2, <2>5 DEF StatusInv
  <2>10. QED
    BY <2>7, <2>8, <2>9
<1>4. CASE ~(keepalive /\ list # <<>>)
  <2>1. pc' = "shutdown" /\ reply' = reply
    BY <1>4 DEF SendLength
  <2>2. list = <<>>
    BY <1>1, <1>4 DEF OrderInv, ListInv
  <2>3. keepalive /\ opening > 0 => HasStatus(opening)
    BY <1>1, <2>2 DEF OrderInv, ListInv
  <2>4. OrderInv'
    BY <1>1, <1>2, <2>1, <2>2
       DEF OrderInv, FreshInv, BufferInv, ListInv, Upto, Sent
  <2>5. StatusInv' /\ AnnouncedInv'
    BY <1>1, <1>2, <2>1, <2>3 DEF StatusInv, AnnouncedInv
  <2>6. QED
    BY <2>4, <2>5
<1>5. QED
  BY <1>3, <1>4

\* Nothing of the answer changes but the program counter.
LEMMA QuietStep ==
  ASSUME OrderInv, StatusInv, AnnouncedInv,
         UNCHANGED <<req, script, stdout, opening, list, tail, keepalive, reply>>,
         \/ pc' = pc
         \/ pc = "read" /\ pc' = "length"
         \/ pc = "shutdown" /\ pc' = "answered"
         \/ pc = "socket" /\ pc' = "write"
         \/ pc = "write" /\ pc' = "crashed"
  PROVE  OrderInv' /\ StatusInv' /\ AnnouncedInv'
<1>1. HasStatus(opening)' <=> HasStatus(opening)
  BY DEF HasStatus
<1>2. BufferInv'
  BY <1>1 DEF OrderInv, BufferInv, Upto, Sent
<1>3. ListInv' /\ FreshInv'
  BY <1>1 DEF OrderInv, ListInv, FreshInv, Sent
<1>4. StatusInv' /\ AnnouncedInv'
  BY <1>1 DEF StatusInv, AnnouncedInv, Sent
<1>5. QED
  BY <1>2, <1>3, <1>4 DEF OrderInv

\* The request is sent and the answer begins.
LEMMA SentStep ==
  ASSUME TypeOK, OrderInv, WriteSocket, LastWritten
  PROVE  OrderInv' /\ StatusInv' /\ AnnouncedInv' /\ pc' = "read"
<1> DEFINE b == (req.version # "other")
<1>1. /\ pc = "write" /\ pc' = "read" /\ reply' = [reply EXCEPT !.prefix = b]
      /\ UNCHANGED <<req, script, stdout, opening, list, tail>>
  BY DEF WriteSocket, LastWritten, request
<1>2. stdout = 0 /\ opening = 0 /\ list = <<>> /\ ~tail /\ reply = NoReply
  BY <1>1 DEF OrderInv, FreshInv
<1>3. b \in BOOLEAN /\ (b <=> req.version # "other")
  OBVIOUS
<1> HIDE DEF b
<1>4. /\ reply'.prefix = b /\ reply'.status = "none" /\ reply'.next = 0
      /\ ~reply'.torn
  BY <1>1, <1>2, <1>3, EmptyReply, PrefixShape
<1>5. OrderInv'
  BY <1>1, <1>2, <1>4 DEF OrderInv, FreshInv, BufferInv, ListInv, Upto
<1>6. StatusInv' /\ AnnouncedInv'
  <2>1. reply'.prefix <=> req'.version # "other"
    BY <1>1, <1>3, <1>4
  <2>2. QED
    BY <1>1, <1>2, <1>4, <2>1 DEF StatusInv, AnnouncedInv
<1>7. QED
  BY <1>1, <1>5, <1>6

-----------------------------------------------------------------------------
(***************************************************************************)
(* The invariant is inductive.                                             *)
(***************************************************************************)

LEMMA InitInv == Init => IInv
<1> SUFFICES ASSUME Init PROVE IInv
  OBVIOUS
<1>1. NoScript \in Script
  BY DEF NoScript, Script
<1>2. 0 \in 0 .. UIntMod - 1
  BY WidthAssumption DEF UIntMod
<1>3. list \in Seq(Piece) /\ todo \in Seq(0 .. MaxContent)
  BY DEF Init
<1>4. TypeOK
  BY <1>1, <1>2, <1>3, EmptyReply DEF Init, TypeOK, Labels, Forwarding
<1>5. OrderInv
  BY DEF Init, OrderInv, FreshInv, BufferInv, ListInv, Sent
<1>6. StatusInv /\ AnnouncedInv /\ CrashesExplained
  BY DEF Init, StatusInv, AnnouncedInv, CrashesExplained, Sent
<1>7. QED
  BY <1>4, <1>5, <1>6 DEF IInv

LEMMA AnswerStep ==
  ASSUME IInv, [Next]_vars
  PROVE  OrderInv' /\ StatusInv' /\ AnnouncedInv' /\ CrashesExplained'
<1> USE DEF IInv
<1>1. CASE Begin
  <2>1. /\ pc = "idle" /\ pc' = "socket"
        /\ UNCHANGED <<stdout, opening, list, tail, keepalive, reply>>
    BY <1>1 DEF Begin, Enter, answer
  <2>2. QED
    BY <2>1 DEF OrderInv, FreshInv, BufferInv, ListInv, StatusInv,
                AnnouncedInv, CrashesExplained, Sent
<1>2. CASE CreateSocket
  <2>1. /\ pc = "socket" /\ pc' = "write"
        /\ UNCHANGED <<req, script, stdout, opening, list, tail, keepalive,
                       reply>>
    BY <1>2 DEF CreateSocket, request, answer
  <2>2. QED
    BY <2>1, QuietStep DEF CrashesExplained
<1>3. CASE WriteSocket
  <2>1. CASE MoreToWrite
    <3>1. /\ pc' = pc /\ pc = "write"
          /\ UNCHANGED <<req, script, stdout, opening, list, tail, keepalive,
                         reply>>
      BY <1>3, <2>1 DEF WriteSocket, MoreToWrite, request, answer
    <3>2. QED
      BY <3>1, QuietStep DEF CrashesExplained
  <2>2. CASE NextMessage
    <3>1. /\ pc = "write" /\ pc' \in {"write", "crashed"}
          /\ pc' = "crashed" => Stray(req) > 0
          /\ UNCHANGED <<req, script, stdout, opening, list, tail, keepalive,
                         reply>>
      BY <1>3, <2>2 DEF WriteSocket, NextMessage, request, answer
    <3>2. OrderInv' /\ StatusInv' /\ AnnouncedInv'
      BY <3>1, QuietStep
    <3>3. CrashesExplained'
      BY <3>1 DEF CrashesExplained, Stray, SendsBody, StdinLength
    <3>4. QED
      BY <3>2, <3>3
  <2>3. CASE LastWritten
    BY <1>3, <2>3, SentStep DEF CrashesExplained
  <2>4. QED
    BY <1>3, <2>1, <2>2, <2>3 DEF WriteSocket
<1>4. CASE ReadStdout
  <2>1. /\ pc = "read"
        /\ UNCHANGED <<req, script, keepalive>>
    BY <1>4 DEF ReadStdout, request
  <2>2. PICK n \in RecordSizes :
          /\ opening = 0 => n > 0
          /\ \/ FirstWithStatus(n) \/ FirstBuffered(n) \/ FirstForwarded(n)
             \/ LaterBuffered(n) \/ LaterNull \/ LaterForwarded(n)
          /\ stdout' = stdout + n
          /\ opening' = IF opening = 0 THEN n ELSE opening
    BY <1>4 DEF ReadStdout
  <2>3. AnnouncedInv' /\ (pc' = "read" => CrashesExplained')
    BY <2>1, <2>2
       DEF AnnouncedInv, CrashesExplained, FirstWithStatus, FirstBuffered,
           FirstForwarded, LaterBuffered, LaterNull, LaterForwarded
  <2>4. CASE opening = 0
    <3>1. FirstWithStatus(n) \/ FirstBuffered(n) \/ FirstForwarded(n)
      BY <2>2, <2>4 DEF LaterBuffered, LaterNull, LaterForwarded
    <3>2. n > 0 /\ opening' = n
      BY <2>2, <2>4
    <3>3. OrderInv' /\ StatusInv' /\ pc' = "read"
      BY <2>1, <2>2, <2>4, <3>1, <3>2, FirstRecord
    <3>4. QED
      BY <2>3, <3>3
  <2>5. CASE opening # 0
    <3>1. LaterBuffered(n) \/ LaterNull \/ LaterForwarded(n)
      BY <2>2, <2>5 DEF FirstWithStatus, FirstBuffered, FirstForwarded
    <3>2. opening > 0 /\ opening' = opening
      BY <2>2, <2>5 DEF TypeOK
    <3>3. QED
      BY <2>1, <2>2, <2>3, <3>1, <3>2, LaterRecord
  <2>6. QED
    BY <2>4, <2>5
<1>5. CASE ReadOther \/ EndRequest \/ ReadShort \/ Shutdown \/ PeerGone
          \/ UNCHANGED vars
  <2>1. /\ \/ pc' = pc
           \/ pc = "read" /\ pc' = "length"
           \/ pc = "shutdown" /\ pc' = "answered"
        /\ UNCHANGED <<req, script, stdout, opening, list, tail, keepalive,
                       reply>>
    BY <1>5 DEF ReadOther, EndRequest, ReadShort, Shutdown, PeerGone, vars,
                request, socket, answer
  <2>2. CrashesExplained'
    BY <2>1 DEF CrashesExplained, Stray, SendsBody, StdinLength, HasStatus
  <2>3. QED
    BY <2>1, <2>2, QuietStep
<1>6. CASE SendLength
  <2>1. pc' # "crashed"
    BY <1>6 DEF SendLength
  <2>2. QED
    BY <1>6, <2>1, LengthStep DEF CrashesExplained
<1>7. CASE Flush
  <2>1. pc' # "crashed"
    BY <1>7 DEF Flush
  <2>2. QED
    BY <1>7, <2>1, FlushStep DEF CrashesExplained
<1>8. CASE End
  BY <1>8 DEF End, OrderInv, FreshInv, BufferInv, ListInv, StatusInv,
              AnnouncedInv, CrashesExplained, Sent
<1>9. QED
  BY <1>1, <1>2, <1>3, <1>4, <1>5, <1>6, <1>7, <1>8 DEF Next, Own, Php

\* A request enters sendFCGI(), whoever lets it in.
LEMMA EnterInv ==
  ASSUME IInv, pc = "idle", NEW r \in Request, Enter(r),
         UNCHANGED <<socket, answer>>, taken' \in Nat
  PROVE  IInv'
<1>1. pc' = "socket" /\ req' = r /\ script' \in Script
  BY FastCgiAssumption DEF Enter
<1>2. TypeOK'
  BY <1>1 DEF IInv, TypeOK, Labels, Forwarding, socket, answer
<1>3. OrderInv' /\ StatusInv' /\ AnnouncedInv' /\ CrashesExplained'
  BY <1>1
     DEF IInv, OrderInv, FreshInv, BufferInv, ListInv, StatusInv, AnnouncedInv,
         CrashesExplained, Sent, answer
<1>4. QED
  BY <1>2, <1>3 DEF IInv

\* What the rest of the process does with its descriptors is no concern of it.
LEMMA SharedFds ==
  ASSUME IInv, fds' \in Nat,
         UNCHANGED <<pc, request, fd, todo, left, peer, answer>>
  PROVE  IInv'
BY DEF IInv, TypeOK, OrderInv, FreshInv, BufferInv, Upto, ListInv, StatusInv,
       AnnouncedInv, CrashesExplained, HasStatus, Stray, SendsBody, StdinLength,
       request, answer

LEMMA StepInv == IInv /\ [Next]_vars => IInv'
<1> SUFFICES ASSUME IInv, [Next]_vars PROVE IInv'
  OBVIOUS
<1>1. TypeOK'
  BY TypeStep DEF IInv, OrderInv
<1>2. QED
  BY <1>1, AnswerStep DEF IInv

\* The inductive invariant holds in every state of every behaviour.
THEOREM Invariance == Spec => []IInv
BY InitInv, StepInv, PTL DEF Spec

-----------------------------------------------------------------------------
(***************************************************************************)
(* The properties.                                                         *)
(***************************************************************************)

\* The variables keep their types: in particular the length left to write stays
\* an unsigned int, whatever write() returns.
THEOREM TypeCorrect == Spec => []TypeOK
<1>1. IInv => TypeOK
  BY DEF IInv
<1>2. QED
  BY Invariance, <1>1, PTL

\* The three parts of the script's reply follow from the invariant.
LEMMA ReplyFollows == IInv => ReplyIsWhole
<1> SUFFICES ASSUME IInv PROVE ReplyIsWhole
  OBVIOUS
<1>1. OutputInOrder
  <2>1. CASE pc \in Sent
    BY <2>1 DEF IInv, OrderInv, BufferInv, ListInv, OutputInOrder, Upto, Sent
  <2>2. CASE pc \in {"socket", "write"}
    BY <2>2, EmptyReply
       DEF IInv, OrderInv, FreshInv, OutputInOrder, Upto, Forwarding
  <2>3. CASE pc \notin Sent \cup {"socket", "write"}
    BY <2>3 DEF OutputInOrder, Forwarding, Sent
  <2>4. QED
    BY <2>1, <2>2, <2>3
<1>2. StatusLineWhole
  BY DEF IInv, StatusInv, StatusLineWhole, Sent
<1>3. KeptReplyDelimited
  <2>1. opening \in Nat
    BY DEF IInv, TypeOK
  <2>2. stdout <= IntMax <=> ~(stdout > IntMax)
    BY WidthAssumption DEF IInv, TypeOK
  <2>3. QED
    BY <2>1, <2>2 DEF IInv, AnnouncedInv, KeptReplyDelimited
<1>4. QED
  BY <1>1, <1>2, <1>3 DEF ReplyIsWhole

\* The client gets what the script printed, byte for byte and in order, however
\* php-fpm cuts it into records and wherever it stops.
THEOREM OutputDelivered == Spec => []OutputInOrder
<1>1. IInv => OutputInOrder
  BY ReplyFollows DEF ReplyIsWhole
<1>2. QED
  BY Invariance, <1>1, PTL

\* The client gets a whole status line in the cases the code provides for, and
\* in no other.
THEOREM StatusLineGiven == Spec => []StatusLineWhole
<1>1. IInv => StatusLineWhole
  BY ReplyFollows DEF ReplyIsWhole
<1>2. QED
  BY Invariance, <1>1, PTL

\* The length a kept connection announces is that of the body it carries.
THEOREM KeptReplyHasLength == Spec => []KeptReplyDelimited
<1>1. IInv => KeptReplyDelimited
  BY ReplyFollows DEF ReplyIsWhole
<1>2. QED
  BY Invariance, <1>1, PTL

\* sendFCGI() takes the process down in two ways only.
THEOREM TwoCrashes == Spec => []CrashesExplained
<1>1. IInv => CrashesExplained
  BY DEF IInv
<1>2. QED
  BY Invariance, <1>1, PTL

\* The client gets the whole of what php-fpm sent, as the three above say.
THEOREM ReplyDelivered == Spec => []ReplyIsWhole
BY Invariance, ReplyFollows, PTL
=============================================================================
