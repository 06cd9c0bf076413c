---------------------------- MODULE ServerProofs ----------------------------
(***************************************************************************)
(* Proofs about Server for every value of its constants: whatever the two  *)
(* services do, the steps of the main loop are steps of HttpService; and   *)
(* composed in it, where they share descriptors and one thread, the two    *)
(* services keep what was proved of each alone.  And about getstatus(),    *)
(* which it calls, for every tree and every width of an int.               *)
(***************************************************************************)
EXTENDS Server, GetStatus, WellFoundedInduction, TLAPS

(***************************************************************************)
(* What is proved of the parts.  The sockets that sendFCGI() never closes  *)
(* are, for the static file service, descriptors left open.                *)
(***************************************************************************)
SP == INSTANCE StaticFileProofs
        WITH pc <- spc, served <- 0, unclosed <- unclosed + sockets
FP == INSTANCE FastCgiProofs WITH pc <- cpc, req <- creq, taken <- 0

\* The client being served is the one whose slot is busy; the loop is with
\* php-fpm exactly when sendFCGI() is entered.
BusyInv ==
  /\ slot \in [Clients -> {"free", "ready", "busy"}]
  /\ main = "getRequest" => \A c \in Clients : slot[c] # "busy"
  /\ main # "getRequest" =>
       /\ client \in Clients
       /\ \A c \in Clients : slot[c] = "busy" <=> c = client
  /\ main = "cgi" <=> cpc # "idle"

\* What the composed services leave alone.
LEMMA StaticKeepsLoop ==
  ASSUME ServeStatic \/ ((SF!Replace \/ SF!Resize) /\ UNCHANGED <<loop, cgi>>)
  PROVE  UNCHANGED <<main, client, slot, cpc>>
BY DEF ServeStatic, loop, cgi

LEMMA CgiSteps ==
  ASSUME Forward \/ Await \/ (FC!PeerGone /\ UNCHANGED <<loop, static>>)
  PROVE  /\ UNCHANGED <<main, client, slot>>
         /\ cpc \notin {"idle", "crashed"} /\ cpc' # "idle"
<1>1. CASE Forward
  BY <1>1
     DEF Forward, FC!Own, FC!CreateSocket, FC!WriteSocket, FC!MoreToWrite,
         FC!NextMessage, FC!LastWritten, FC!ReadShort, FC!SendLength, FC!Flush,
         FC!Shutdown
<1>2. CASE Await
  BY <1>2
     DEF Await, FC!Php, FC!ReadStdout, FC!FirstWithStatus, FC!FirstBuffered,
         FC!FirstForwarded, FC!LaterBuffered, FC!LaterNull, FC!LaterForwarded,
         FC!ReadOther, FC!EndRequest, loop
<1>3. CASE FC!PeerGone /\ UNCHANGED <<loop, static>>
  BY <1>3 DEF FC!PeerGone, loop
<1>4. QED
  BY <1>1, <1>2, <1>3

\* A request that ends was being served, by a process that is alive.
LEMMA EndSteps ==
  ASSUME BusyInv, EndRefused \/ EndStatic \/ EndCgi
  PROVE  /\ main # "getRequest" /\ main' = "getRequest" /\ up /\ cpc' = "idle"
         /\ \E next \in {"ready", "free"} :
              slot' = [slot EXCEPT ![client] = next]
<1>1. CASE EndRefused
  BY <1>1 DEF EndRefused, EndRequest, BusyInv, up, cgi
<1>2. CASE EndStatic
  BY <1>2 DEF EndStatic, EndRequest, BusyInv, up, cgi
<1>3. CASE EndCgi
  BY <1>3 DEF EndCgi, EndRequest, FC!End, BusyInv, up
<1>4. QED
  BY <1>1, <1>2, <1>3

\* Dispatch enters sendFCGI() or leaves it alone.
LEMMA DispatchEnters ==
  ASSUME NEW m \in Messages_t, Dispatch(m), cpc = "idle"
  PROVE  /\ main' \in {"bad", "cgi", "refused", "static"}
         /\ main' = "cgi" <=> cpc' # "idle"
         /\ cpc' # "crashed"
BY DEF Dispatch, FC!Enter, SF!Enter, cgi

-----------------------------------------------------------------------------
LEMMA BusyInit == Init => BusyInv
BY DEF Init, BusyInv, FC!Init

LEMMA BusyStep ==
  ASSUME BusyInv, [Next]_vars
  PROVE  BusyInv' /\ [HS!Next]_(HS!vars)
<1>1. ASSUME NEW c \in Clients, Connect(c)
      PROVE  BusyInv' /\ HS!Connect(c)
  BY <1>1 DEF Connect, BusyInv, HS!Connect, up, cgi
<1>2. ASSUME NEW c \in Clients, Disconnect(c)
      PROVE  BusyInv' /\ HS!Disconnect(c)
  BY <1>2 DEF Disconnect, BusyInv, HS!Disconnect, up, cgi
<1>3. ASSUME NEW c \in Clients, GetRequest(c)
      PROVE  BusyInv' /\ HS!Take(c)
  <2>1. PICK m \in Messages_t : msg' = m /\ Dispatch(m)
    BY <1>3 DEF GetRequest
  <2>2. /\ main = "getRequest" /\ up /\ slot[c] = "ready"
        /\ slot' = [slot EXCEPT ![c] = "busy"] /\ client' = c
    BY <1>3 DEF GetRequest
  <2>3. cpc = "idle" /\ \A d \in Clients : slot[d] # "busy"
    BY <2>2 DEF BusyInv
  <2>4. /\ main' \in {"bad", "cgi", "refused", "static"}
        /\ main' = "cgi" <=> cpc' # "idle"
        /\ cpc' # "crashed"
    BY <2>1, <2>3, DispatchEnters
  <2>5. \A d \in Clients : slot'[d] = "busy" <=> d = c
    BY <2>2, <2>3 DEF BusyInv
  <2>6. BusyInv'
    BY <2>2, <2>4, <2>5 DEF BusyInv
  <2>7. HS!Take(c)
    BY <2>2, <2>3, <2>4 DEF HS!Take, up
  <2>8. QED
    BY <2>6, <2>7
<1>4. CASE Leave
  BY <1>4 DEF Leave, BusyInv, HS!vars, up, cgi
<1>5. CASE BadRequest \/ Refuse
  BY <1>5 DEF BadRequest, Refuse, BusyInv, HS!vars, up, cgi
<1>6. CASE EndRefused \/ EndStatic \/ EndCgi
  <2>1. PICK next \in {"ready", "free"} :
          slot' = [slot EXCEPT ![client] = next]
    BY <1>6, EndSteps
  <2>2. main # "getRequest" /\ main' = "getRequest" /\ up /\ cpc' = "idle"
    BY <1>6, EndSteps
  <2>3. /\ client \in Clients /\ slot[client] = "busy"
        /\ \A c \in Clients : slot[c] = "busy" <=> c = client
    BY <2>2 DEF BusyInv
  <2>4. BusyInv'
    BY <2>1, <2>2, <2>3 DEF BusyInv
  <2>5. HS!Answer(client)
    BY <2>1, <2>2, <2>3 DEF HS!Answer, up
  <2>6. QED
    BY <2>3, <2>4, <2>5 DEF HS!Next
<1>7. CASE ServeStatic \/ ((SF!Replace \/ SF!Resize) /\ UNCHANGED <<loop, cgi>>)
  BY <1>7, StaticKeepsLoop DEF BusyInv, HS!vars, up
<1>8. CASE Forward \/ Await \/ (FC!PeerGone /\ UNCHANGED <<loop, static>>)
  <2>1. /\ UNCHANGED <<main, client, slot>>
        /\ cpc \notin {"idle", "crashed"} /\ cpc' # "idle"
    BY <1>8, CgiSteps
  <2>2. BusyInv'
    BY <2>1 DEF BusyInv
  <2>3. client \in Clients /\ slot[client] = "busy"
    BY <2>1 DEF BusyInv
  <2>4. CASE cpc' = "crashed"
    <3>1. HS!Die
      BY <2>1, <2>3, <2>4 DEF HS!Die, up
    <3>2. QED
      BY <2>2, <3>1 DEF HS!Next
  <2>5. CASE cpc' # "crashed"
    BY <2>1, <2>2, <2>5 DEF HS!vars, up
  <2>6. QED
    BY <2>4, <2>5
<1>9. CASE UNCHANGED vars
  BY <1>9 DEF vars, loop, cgi, BusyInv, HS!vars, up
<1>10. QED
  BY <1>1, <1>2, <1>3, <1>4, <1>5, <1>6, <1>7, <1>8, <1>9
     DEF Next, Loop, Others, HS!Next

\* The server implements the safety part of HttpService: one request at a time,
\* each answered once by a live process, its connection then kept or freed.
THEOREM Refinement == Spec => HS!Init /\ [][HS!Next]_(HS!vars)
<1>1. Init => HS!Init
  BY DEF Init, FC!Init, HS!Init, up
<1>2. BusyInv /\ [Next]_vars => BusyInv' /\ [HS!Next]_(HS!vars)
  BY BusyStep
<1>3. QED
  BY <1>1, <1>2, BusyInit, PTL DEF Spec

-----------------------------------------------------------------------------
(***************************************************************************)
(* What getstatus() says of a tree, and what the request it accepts is     *)
(* like: for every tree and every width of an int.                         *)
(***************************************************************************)

\* A value kept in an int is an int, and so is what atoi returns.
LEMMA AsIntRange ==
  ASSUME NEW x \in Int
  PROVE  AsInt(x) \in -IntMax - 1 .. IntMax
<1> DEFINE m == 2 * (IntMax + 1)
<1>1. IntMax \in Nat /\ m \in Nat /\ m > 0
  BY WidthAssumption
<1>2. x + IntMax + 1 \in Int
  BY <1>1
<1> HIDE DEF m
<1>3. (x + IntMax + 1) % m \in 0 .. m - 1
  BY <1>1, <1>2
<1>4. AsInt(x) = ((x + IntMax + 1) % m) - (IntMax + 1) /\ m = 2 * (IntMax + 1)
  BY DEF AsInt, m
<1>5. QED
  BY <1>1, <1>3, <1>4

LEMMA AtoIRange ==
  ASSUME NEW x \in Int
  PROVE  AtoI(x) \in -IntMax - 1 .. IntMax
<1> DEFINE h == LongMod \div 2
           y == MaxOf(-h, MinOf(x, h - 1))
<1>1. h \in Int
  BY WidthAssumption
<1>2. y \in Int
  BY <1>1 DEF MaxOf, MinOf
<1> HIDE DEF h, y
<1>3. AtoI(x) = AsInt(y)
  BY DEF AtoI, h, y
<1>4. QED
  BY <1>2, <1>3, AsIntRange

\* The head of the range list.
Served(r) ==
  /\ r.start \in -1 .. IntMax
  /\ r.end \in -IntMax - 1 .. IntMax
  /\ r.end = 0 => r.start = 0

\* The least number of a set of naturals.
LessThan == OpToRel(<, Nat)

LEMMA LeastOf ==
  ASSUME NEW D, D \subseteq Nat, D # {}
  PROVE  \E j \in D : \A k \in D : j <= k
<1>1. IsWellFoundedOn(LessThan, Nat)
  BY NatLessThanWellFounded DEF LessThan
<1>2. \A x, y \in Nat : <<x, y>> \in LessThan <=> x < y
  BY DEF LessThan, OpToRel
<1>3. PICK j \in D : \A k \in D : ~(<<k, j>> \in LessThan)
  BY <1>1, WFMin
<1>4. \A k \in D : j <= k
  <2> SUFFICES ASSUME NEW k \in D PROVE j <= k
    OBVIOUS
  <2>1. j \in Nat /\ k \in Nat /\ ~(k < j)
    BY <1>2, <1>3
  <2>2. QED
    BY <2>1
<1>5. QED
  BY <1>4

LEMMA StartTextRange ==
  ASSUME NEW spec \in Spec_t
  PROVE  StartText(spec) \in -IntMax - 1 .. IntMax
<1>1. IntMax \in Nat /\ Number \subseteq Int
  BY WidthAssumption, NumberAssumption
<1>2. CASE spec.first # Null
  <2>1. spec.first \in Int
    BY <1>1, <1>2 DEF Spec_t
  <2>2. StartText(spec) = AtoI(spec.first)
    BY <1>2 DEF StartText
  <2>3. QED
    BY <2>1, <2>2, AtoIRange
<1>3. CASE spec.first = Null /\ spec.dash /\ spec.last # Null /\ spec.last >= 0
  <2>1. spec.last \in Int
    BY <1>1, <1>3 DEF Spec_t
  <2>2. -spec.last \in Int
    BY <2>1
  <2>3. StartText(spec) = AtoI(-spec.last)
    BY <1>3 DEF StartText
  <2>4. AtoI(-spec.last) \in -IntMax - 1 .. IntMax
    BY <2>2, AtoIRange
  <2>5. QED
    BY <2>3, <2>4
<1>4. CASE spec.first = Null
             /\ ~(spec.dash /\ spec.last # Null /\ spec.last >= 0)
  <2>1. StartText(spec) = 0
    BY <1>4 DEF StartText
  <2>2. QED
    BY <1>1, <2>1
<1>5. QED
  BY <1>2, <1>3, <1>4

LEMMA EndTextRange ==
  ASSUME NEW spec \in Spec_t
  PROVE  EndText(spec) \in -IntMax - 1 .. IntMax
<1>1. IntMax \in Nat /\ Number \subseteq Int
  BY WidthAssumption, NumberAssumption
<1>2. CASE spec.last = Null
  BY <1>1, <1>2 DEF EndText
<1>3. CASE spec.last # Null
  <2>1. spec.last \in Int
    BY <1>1, <1>3 DEF Spec_t
  <2>2. EndText(spec) = AtoI(spec.last)
    BY <1>3 DEF EndText
  <2>3. QED
    BY <2>1, <2>2, AtoIRange
<1>4. QED
  BY <1>2, <1>3

LEMMA FirstRangeServed ==
  ASSUME NEW specs \in Seq(Spec_t)
  PROVE  Served(FirstRange(specs)) /\ FirstRange(specs) \in Range_t
<1>1. IntMax \in Nat
  BY WidthAssumption
<1>2. \A spec \in Spec_t : StartValue(spec) \in -1 .. IntMax
  BY <1>1, StartTextRange DEF StartValue
<1>3. \A spec \in Spec_t :
        EndValue(spec) \in -IntMax - 1 .. IntMax /\ EndValue(spec) # 0
  BY <1>1, EndTextRange DEF EndValue
<1>4. CASE specs = <<>> \/ DashFrom(specs, 1) = {}
  BY <1>1, <1>4 DEF FirstRange, RangeFrom, Served, Range_t
<1>5. CASE specs # <<>> /\ DashFrom(specs, 1) # {}
  <2>1. \E j \in DashFrom(specs, 1) : \A k \in DashFrom(specs, 1) : j <= k
    <3>1. DashFrom(specs, 1) \subseteq Nat
      BY DEF DashFrom
    <3>2. QED
      BY <1>5, <3>1, LeastOf
  <2>2. PICK j \in DashFrom(specs, 1) :
          FirstRange(specs) = [start |-> StartValue(specs[1]), end |-> EndValue(specs[j])]
    BY <1>5, <2>1 DEF FirstRange, RangeFrom
  <2>3. specs[1] \in Spec_t /\ specs[j] \in Spec_t
    BY <1>5 DEF DashFrom
  <2>4. /\ StartValue(specs[1]) \in -1 .. IntMax
        /\ EndValue(specs[j]) \in -IntMax - 1 .. IntMax /\ EndValue(specs[j]) # 0
    BY <1>2, <1>3, <2>3
  <2>5. StartValue(specs[1]) \in Int /\ EndValue(specs[j]) \in Int
    BY <1>1, <2>4
  <2>6. QED
    BY <2>2, <2>4, <2>5 DEF Served, Range_t
<1>6. QED
  BY <1>4, <1>5

-----------------------------------------------------------------------------
(***************************************************************************)
(* The record after each check.                                            *)
(***************************************************************************)
HeadersRequest_t ==
  [methode : Methode \cup {Unset}, version : HTTP_version \cup {Unset},
   connection : Connection \cup {Unset}, content_length : BOOLEAN,
   initialized : BOOLEAN, isPresent : {FALSE}, host : BOOLEAN, ranges : {Null}]

AllTrees == Trees(Seq(Spec_t))

LEMMA MethodPopulated ==
  ASSUME NEW t \in AllTrees
  PROVE  LET r == populate_method(t, ZeroRequest) IN
         /\ r \in HeadersRequest_t
         /\ r.methode = Unset <=> t.method = "other"
         /\ r.version = Unset /\ r.connection = Unset /\ r.host = FALSE
<1>1. /\ ZeroRequest \in HeadersRequest_t
      /\ ZeroRequest.methode = Unset /\ ZeroRequest.version = Unset
      /\ ZeroRequest.connection = Unset /\ ZeroRequest.host = FALSE
  BY DEF ZeroRequest, HeadersRequest_t
<1>2. t.method \in Methode \cup {"other"}
  BY DEF AllTrees, Trees
<1>3. QED
  BY <1>1, <1>2 DEF populate_method, HeadersRequest_t, Methode, Unset

LEMMA VersionChecked ==
  ASSUME NEW t \in AllTrees, NEW r \in HeadersRequest_t, r.version = Unset
  PROVE  LET c == checkVersion(t, r) IN
         /\ c.request \in HeadersRequest_t
         /\ c.request.methode = r.methode
         /\ c.request.connection = r.connection /\ c.request.host = r.host
         /\ c.status = IF t.version \notin Known THEN 505 ELSE 0
         /\ c.status = 0 =>
              /\ c.request.version \in HTTP_version
              /\ c.request.version = "HTTP1_1" <=> t.version = "HTTP/1.1"
<1> DEFINE n == CASE t.version = "HTTP/1.1" -> "HTTP1_1"
                  [] t.version = "HTTP/1.0" -> "HTTP1_0"
                  [] OTHER -> Unset
           v == [r EXCEPT !.version = n]
<1>1. /\ n \in HTTP_version \cup {Unset}
      /\ n = Unset <=> t.version \notin Known
      /\ n = "HTTP1_1" <=> t.version = "HTTP/1.1"
  BY DEF HTTP_version, Unset, Known
<1>2. populate_version(t, r) = v
  BY DEF populate_version
<1> HIDE DEF n
<1>3. /\ v \in HeadersRequest_t /\ v.methode = r.methode /\ v.version = n
      /\ v.connection = r.connection /\ v.host = r.host
  BY <1>1 DEF HeadersRequest_t
<1> HIDE DEF v
<1>4. checkVersion(t, r) = Verdict(IF v.version = Unset THEN 505 ELSE 0, v)
  BY <1>2 DEF checkVersion
<1>5. QED
  BY <1>1, <1>3, <1>4 DEF Verdict

LEMMA TransfertEncodingPopulated ==
  ASSUME NEW t \in AllTrees, NEW r \in HeadersRequest_t
  PROVE  LET e == populate_transfert_encoding(t, r) IN
         /\ e \in HeadersRequest_t /\ e.methode = r.methode
         /\ e.version = r.version /\ e.connection = r.connection
         /\ e.host = r.host /\ e.initialized
<1> DEFINE b == Found(t, "Transfer-Encoding")
<1>1. b = FALSE
  BY DEF Found, NodeNames
<1>2. populate_transfert_encoding(t, r) =
        IF r.initialized THEN r
        ELSE [r EXCEPT !.initialized = TRUE, !.isPresent = b]
  BY DEF populate_transfert_encoding
<1> HIDE DEF b
<1>3. CASE r.initialized
  BY <1>2, <1>3
<1>4. CASE ~r.initialized
  <2>1. populate_transfert_encoding(t, r) =
          [r EXCEPT !.initialized = TRUE, !.isPresent = FALSE]
    BY <1>1, <1>2, <1>4
  <2>2. QED
    BY <2>1 DEF HeadersRequest_t
<1>5. QED
  BY <1>3, <1>4

LEMMA ConnectionSet ==
  ASSUME NEW r \in HeadersRequest_t, NEW n \in Connection
  PROVE  LET e == [r EXCEPT !.connection = n] IN
         /\ e \in HeadersRequest_t /\ e.methode = r.methode
         /\ e.version = r.version /\ e.connection = n /\ e.host = r.host
BY DEF HeadersRequest_t

LEMMA ConnectionChecked ==
  ASSUME NEW t \in AllTrees, NEW r \in HeadersRequest_t,
         r.version \in HTTP_version, r.connection = Unset
  PROVE  LET c == checkConnection(t, r) IN
         /\ c.request \in HeadersRequest_t
         /\ c.request.methode = r.methode /\ c.request.version = r.version
         /\ c.request.host = r.host
         /\ c.status =
              IF r.version = "HTTP1_0" /\ t.connection = "keep-alive" THEN 400
              ELSE 0
         /\ c.status = 0 =>
              /\ c.request.connection \in Connection
              /\ r.version = "HTTP1_0" => c.request.connection = "CLOSE"
              /\ r.version = "HTTP1_1" =>
                   (c.request.connection = "CLOSE" <=> t.connection = "close")
<1> DEFINE k == populate_connection(t, r)
           l == populate_content_length(t, k)
           c == populate_transfert_encoding(t, l)
<1>1. /\ k \in HeadersRequest_t
      /\ k.methode = r.methode /\ k.version = r.version /\ k.host = r.host
      /\ k.connection = CASE t.connection = "close" -> "CLOSE"
                          [] t.connection = "keep-alive" -> "KEEP_ALIVE"
                          [] OTHER -> Unset
  <2> DEFINE n == CASE t.connection = "close" -> "CLOSE"
                    [] t.connection = "keep-alive" -> "KEEP_ALIVE"
                    [] OTHER -> Unset
  <2>1. n \in Connection \cup {Unset}
    BY DEF Connection
  <2>2. Found(t, "Connection") <=> t.connection # "none"
    BY DEF Found, NodeNames
  <2>3. n # Unset => Found(t, "Connection")
    <3>1. t.connection \in {"close", "keep-alive", "other", "none"}
      BY DEF AllTrees, Trees
    <3>2. CASE t.connection = "close" \/ t.connection = "keep-alive"
      BY <3>2, <2>2
    <3>3. CASE t.connection # "close" /\ t.connection # "keep-alive"
      BY <3>3
    <3>4. QED
      BY <3>2, <3>3
  <2>4. k = IF Found(t, "Connection") THEN [r EXCEPT !.connection = n] ELSE r
    BY DEF populate_connection
  <2> HIDE DEF n
  <2>5. QED
    BY <2>1, <2>3, <2>4 DEF HeadersRequest_t, n
<1> HIDE DEF k
<1>2. /\ l \in HeadersRequest_t /\ l.methode = k.methode /\ l.host = k.host
      /\ l.version = k.version /\ l.connection = k.connection
  BY <1>1 DEF populate_content_length, HeadersRequest_t, Found
<1> HIDE DEF l
<1>3. /\ c \in HeadersRequest_t /\ c.methode = l.methode /\ c.host = l.host
      /\ c.version = l.version /\ c.connection = l.connection
      /\ c.initialized
  BY <1>2, TransfertEncodingPopulated
<1>4. checkConnection(t, r) =
        CASE c.version = "HTTP1_1" /\ c.connection # "CLOSE" ->
               IF ~c.initialized /\ ~c.content_length THEN Verdict(400, c)
               ELSE Verdict(0, [c EXCEPT !.connection = "KEEP_ALIVE"])
          [] c.version = "HTTP1_0" /\ c.connection = "KEEP_ALIVE" ->
               Verdict(IF Found(t, "Content-Length") THEN 0 ELSE 400, c)
          [] c.version = "HTTP1_0" /\ c.connection # "KEEP_ALIVE" ->
               Verdict(0, [c EXCEPT !.connection = "CLOSE"])
          [] OTHER -> Verdict(0, c)
  BY DEF checkConnection, k, l
<1> HIDE DEF c
<1>5. CASE c.version = "HTTP1_1" /\ c.connection # "CLOSE"
  <2> DEFINE e == [c EXCEPT !.connection = "KEEP_ALIVE"]
  <2>1. checkConnection(t, r) = Verdict(0, e)
    BY <1>3, <1>4, <1>5
  <2>2. /\ e \in HeadersRequest_t /\ e.methode = c.methode
        /\ e.version = c.version /\ e.connection = "KEEP_ALIVE"
        /\ e.host = c.host
    BY <1>1, <1>2, <1>3, ConnectionSet DEF Connection
  <2> HIDE DEF e
  <2>3. t.connection # "close"
    BY <1>1, <1>2, <1>3, <1>5
  <2>4. QED
    BY <1>1, <1>2, <1>3, <1>5, <2>1, <2>2, <2>3 DEF Verdict, Connection
<1>6. CASE c.version = "HTTP1_1" /\ c.connection = "CLOSE"
  <2>1. checkConnection(t, r) = Verdict(0, c)
    BY <1>4, <1>6
  <2>2. t.connection = "close"
    BY <1>1, <1>2, <1>3, <1>6 DEF Unset
  <2>3. QED
    BY <1>1, <1>2, <1>3, <1>6, <2>1, <2>2 DEF Verdict, Connection
<1>7. CASE c.version = "HTTP1_0" /\ c.connection = "KEEP_ALIVE"
  <2>1. checkConnection(t, r) = Verdict(400, c)
    BY <1>4, <1>7 DEF Found, NodeNames
  <2>2. t.connection = "keep-alive"
    BY <1>1, <1>2, <1>3, <1>7 DEF Unset
  <2>3. QED
    BY <1>1, <1>2, <1>3, <1>7, <2>1, <2>2 DEF Verdict
<1>8. CASE c.version = "HTTP1_0" /\ c.connection # "KEEP_ALIVE"
  <2> DEFINE e == [c EXCEPT !.connection = "CLOSE"]
  <2>1. checkConnection(t, r) = Verdict(0, e)
    BY <1>3, <1>4, <1>8
  <2>2. /\ e \in HeadersRequest_t /\ e.methode = c.methode
        /\ e.version = c.version /\ e.connection = "CLOSE"
        /\ e.host = c.host
    BY <1>1, <1>2, <1>3, ConnectionSet DEF Connection
  <2> HIDE DEF e
  <2>3. t.connection # "keep-alive"
    BY <1>1, <1>2, <1>3, <1>8
  <2>4. QED
    BY <1>1, <1>2, <1>3, <1>8, <2>1, <2>2, <2>3 DEF Verdict, Connection
<1>9. QED
  BY <1>1, <1>2, <1>3, <1>5, <1>6, <1>7, <1>8 DEF HTTP_version

LEMMA HostChecked ==
  ASSUME NEW t \in AllTrees, NEW r \in HeadersRequest_t
  PROVE  LET c == checkHostHeader(t, r) IN
         r.version \in HTTP_version =>
         /\ c.request \in HeadersRequest_t
         /\ c.request.methode = r.methode /\ c.request.version = r.version
         /\ c.request.connection = r.connection
         /\ c.request.host <=> r.host \/ t.host
         /\ c.status =
              IF r.version = "HTTP1_1" /\ ~c.request.host THEN 400 ELSE 0
<1> SUFFICES ASSUME r.version \in HTTP_version
             PROVE  LET c == checkHostHeader(t, r) IN
                    /\ c.request \in HeadersRequest_t
                    /\ c.request.methode = r.methode
                    /\ c.request.version = r.version
                    /\ c.request.connection = r.connection
                    /\ c.request.host <=> r.host \/ t.host
                    /\ c.status =
                         IF r.version = "HTTP1_1" /\ ~c.request.host THEN 400
                         ELSE 0
  OBVIOUS
<1>1. populate_version(t, r) = r
  BY DEF populate_version, HTTP_version, Unset
<1> DEFINE h == populate_host(t, r)
<1>2. /\ h \in HeadersRequest_t /\ h.methode = r.methode
      /\ h.version = r.version /\ h.connection = r.connection
      /\ h.host <=> r.host \/ t.host
  <2> DEFINE b == (r.host \/ Found(t, "uri_host"))
  <2>1. /\ b \in BOOLEAN
        /\ b <=> r.host \/ t.host
    BY DEF Found, NodeNames
  <2>2. h = [r EXCEPT !.host = b]
    BY DEF populate_host
  <2> HIDE DEF b, h
  <2>3. h \in HeadersRequest_t /\ h.host = b /\ h.methode = r.methode
        /\ h.version = r.version /\ h.connection = r.connection
    BY <2>1, <2>2 DEF HeadersRequest_t
  <2>4. QED
    BY <2>1, <2>3
<1>3. checkHostHeader(t, r) =
        Verdict(IF h.version = "HTTP1_1" /\ ~h.host THEN 400 ELSE 0, h)
  BY <1>1 DEF checkHostHeader
<1> HIDE DEF h
<1>4. QED
  BY <1>2, <1>3 DEF Verdict

LEMMA TransfertEncodingChecked ==
  ASSUME NEW t \in AllTrees, NEW r \in HeadersRequest_t
  PROVE  LET c == checkTransfertEncoding(t, r) IN
         /\ c.request \in HeadersRequest_t
         /\ c.request.methode = r.methode /\ c.request.version = r.version
         /\ c.request.connection = r.connection /\ c.request.host = r.host
         /\ c.status = 0
<1> DEFINE e == populate_transfert_encoding(t, r)
<1>1. /\ e \in HeadersRequest_t /\ e.methode = r.methode
      /\ e.version = r.version /\ e.connection = r.connection
      /\ e.host = r.host /\ e.isPresent = FALSE
  BY TransfertEncodingPopulated DEF HeadersRequest_t
<1>2. checkTransfertEncoding(t, r) =
        Verdict(IF e.isPresent /\ e.version = "HTTP1_0" THEN 400 ELSE 0, e)
  BY DEF checkTransfertEncoding
<1> HIDE DEF e
<1>3. checkTransfertEncoding(t, r) = Verdict(0, e)
  BY <1>1, <1>2
<1>4. QED
  BY <1>1, <1>3 DEF Verdict

\* The request of an accepted tree.
LEMMA AcceptedRequest ==
  ASSUME NEW t \in AllTrees, getstatus(t).status = 0
  PROVE  LET r == getstatus(t).request IN
         /\ r.methode \in Methode
         /\ r.version \in HTTP_version
         /\ r.version = "HTTP1_1" <=> t.version = "HTTP/1.1"
         /\ r.connection \in Connection
         /\ r.version = "HTTP1_0" => r.connection = "CLOSE"
         /\ r.version = "HTTP1_1" =>
              r.host /\ (r.connection = "CLOSE" <=> t.connection = "close")
         /\ r.ranges = IF t.range = Null THEN Null ELSE FirstRange(t.range)
<1> DEFINE m == populate_method(t, ZeroRequest)
           v == checkVersion(t, m)
           c == checkConnection(t, v.request)
           h == checkHostHeader(t, c.request)
           e == checkTransfertEncoding(t, h.request)
           f == checkReferer(t, e.request)
           g == populate_ranges(t, f.request)
<1>1. getstatus(t) =
        IF m.methode = Unset THEN Verdict(501, m)
        ELSE IF v.status > 0 THEN v
        ELSE IF c.status > 0 THEN c
        ELSE IF h.status > 0 THEN h
        ELSE IF e.status > 0 THEN e
        ELSE IF f.status > 0 THEN f
        ELSE Verdict(0, g)
  BY DEF getstatus
<1>2. f.request = e.request
  BY DEF checkReferer, Verdict
<1>3. /\ m \in HeadersRequest_t
      /\ m.version = Unset /\ m.connection = Unset /\ m.host = FALSE
  BY MethodPopulated
<1> HIDE DEF m
<1>4. m.methode # Unset
  <2> SUFFICES ASSUME m.methode = Unset PROVE getstatus(t) = Verdict(501, m)
    BY DEF Verdict
  <2> QED
    BY <1>1
<1>5. /\ v.request \in HeadersRequest_t /\ v.request.methode = m.methode
      /\ v.request.connection = Unset
      /\ v.status = 0 \/ v.status > 0
      /\ v.status = 0 =>
           /\ v.request.version \in HTTP_version
           /\ v.request.version = "HTTP1_1" <=> t.version = "HTTP/1.1"
  BY <1>3, VersionChecked
<1> HIDE DEF v
<1>6. v.status = 0
  BY <1>1, <1>4, <1>5
<1>7. /\ c.request \in HeadersRequest_t /\ c.request.methode = m.methode
      /\ c.request.version = v.request.version
      /\ c.status = 0 \/ c.status > 0
      /\ c.status = 0 =>
           /\ c.request.connection \in Connection
           /\ v.request.version = "HTTP1_0" => c.request.connection = "CLOSE"
           /\ v.request.version = "HTTP1_1" =>
                (c.request.connection = "CLOSE" <=> t.connection = "close")
  BY <1>5, <1>6, ConnectionChecked
<1> HIDE DEF c
<1>8. c.status = 0
  BY <1>1, <1>4, <1>6, <1>7
<1>9. /\ h.request \in HeadersRequest_t /\ h.request.methode = m.methode
      /\ h.request.version = v.request.version
      /\ h.request.connection = c.request.connection
      /\ h.status = 0 \/ h.status > 0
      /\ h.status = 0 /\ v.request.version = "HTTP1_1" => h.request.host
  BY <1>5, <1>6, <1>7, HostChecked
<1> HIDE DEF h
<1>10. h.status = 0
  BY <1>1, <1>4, <1>6, <1>8, <1>9
<1>11. /\ e.request \in HeadersRequest_t /\ e.request.methode = m.methode
       /\ e.request.version = v.request.version
       /\ e.request.connection = c.request.connection
       /\ e.request.host = h.request.host
       /\ e.status = 0 \/ e.status > 0
  BY <1>9, TransfertEncodingChecked
<1> HIDE DEF e
<1>12. e.status = 0
  BY <1>1, <1>4, <1>6, <1>8, <1>10, <1>11
<1>13. f.status = 0 \/ f.status > 0
  BY DEF checkReferer, Verdict
<1> HIDE DEF f
<1>14. getstatus(t) = Verdict(0, g)
  BY <1>1, <1>4, <1>6, <1>8, <1>10, <1>12, <1>13
<1>15. /\ g.methode = e.request.methode /\ g.version = e.request.version
       /\ g.connection = e.request.connection /\ g.host = e.request.host
       /\ g.ranges = IF t.range = Null THEN Null ELSE FirstRange(t.range)
  BY <1>2, <1>11 DEF populate_ranges, HeadersRequest_t
<1> HIDE DEF g
<1>16. getstatus(t).request = g
  BY <1>14 DEF Verdict
<1>17. m.methode \in Methode
  BY <1>3, <1>4 DEF HeadersRequest_t
<1>18. QED
  BY <1>5, <1>6, <1>7, <1>8, <1>9, <1>10, <1>11, <1>15, <1>16, <1>17

\* The status of any tree, by the checks in the order they are reached in, each of
\* which finds what it looks for or does not.
StatusOf(t) ==
  IF t.method = "other" THEN 501
  ELSE IF t.version \notin Known THEN 505
  ELSE IF \/ t.version = "HTTP/1.0" /\ t.connection = "keep-alive"
          \/ t.version = "HTTP/1.1" /\ ~t.host
          \/ t.referer = "marked" THEN 400
  ELSE 0

LEMMA StatusGiven ==
  ASSUME NEW t \in AllTrees
  PROVE  getstatus(t).status = StatusOf(t)
<1> DEFINE m == populate_method(t, ZeroRequest)
           v == checkVersion(t, m)
           c == checkConnection(t, v.request)
           h == checkHostHeader(t, c.request)
           e == checkTransfertEncoding(t, h.request)
           f == checkReferer(t, e.request)
           g == populate_ranges(t, f.request)
<1>1. getstatus(t) =
        IF m.methode = Unset THEN Verdict(501, m)
        ELSE IF v.status > 0 THEN v
        ELSE IF c.status > 0 THEN c
        ELSE IF h.status > 0 THEN h
        ELSE IF e.status > 0 THEN e
        ELSE IF f.status > 0 THEN f
        ELSE Verdict(0, g)
  BY DEF getstatus
<1>2. f.status = IF t.referer = "marked" THEN 400 ELSE 0
  BY DEF checkReferer, Verdict
<1>3. /\ m \in HeadersRequest_t
      /\ m.methode = Unset <=> t.method = "other"
      /\ m.version = Unset /\ m.connection = Unset /\ m.host = FALSE
  BY MethodPopulated
<1> HIDE DEF m
<1>4. /\ v.request \in HeadersRequest_t
      /\ v.request.connection = Unset /\ v.request.host = FALSE
      /\ v.status = IF t.version \notin Known THEN 505 ELSE 0
      /\ v.status = 0 =>
           /\ v.request.version \in HTTP_version
           /\ v.request.version = "HTTP1_1" <=> t.version = "HTTP/1.1"
  BY <1>3, VersionChecked
<1> HIDE DEF v, g
<1>5. \A status, r : Verdict(status, r).status = status
  BY DEF Verdict
<1>6. CASE t.method = "other"
  <2>1. getstatus(t) = Verdict(501, m)
    BY <1>1, <1>3, <1>6
  <2>2. StatusOf(t) = 501
    BY <1>6 DEF StatusOf
  <2>3. QED
    BY <1>5, <2>1, <2>2
<1>7. CASE t.method # "other" /\ t.version \notin Known
  <2>1. getstatus(t) = v /\ v.status = 505
    BY <1>1, <1>3, <1>4, <1>7
  <2>2. StatusOf(t) = 505
    BY <1>7 DEF StatusOf
  <2>3. QED
    BY <2>1, <2>2
<1>8. CASE t.method # "other" /\ t.version \in Known
  <2>1. /\ v.status = 0
        /\ v.request.version = "HTTP1_1" <=> t.version = "HTTP/1.1"
        /\ v.request.version = "HTTP1_0" <=> t.version = "HTTP/1.0"
    BY <1>4, <1>8 DEF HTTP_version, Known
  <2>2. /\ c.request \in HeadersRequest_t
        /\ c.request.version = v.request.version
        /\ c.request.host = FALSE
        /\ c.status = IF t.version = "HTTP/1.0" /\ t.connection = "keep-alive"
                       THEN 400 ELSE 0
    BY <1>4, <2>1, ConnectionChecked
  <2> HIDE DEF c
  <2>3. /\ h.request \in HeadersRequest_t
        /\ h.status = IF t.version = "HTTP/1.1" /\ ~t.host THEN 400 ELSE 0
    BY <1>4, <2>1, <2>2, HostChecked
  <2> HIDE DEF h
  <2>4. e.status = 0
    BY <2>3, TransfertEncodingChecked
  <2> HIDE DEF e, f
  <2>5. getstatus(t).status = IF c.status > 0 THEN c.status
                              ELSE IF h.status > 0 THEN h.status
                              ELSE f.status
    <3>1. f.status = 0 \/ f.status > 0
      BY <1>2
    <3>2. QED
      BY <1>1, <1>3, <1>5, <1>8, <2>1, <2>4, <3>1
  <2>6. QED
    BY <1>2, <1>8, <2>2, <2>3, <2>5 DEF StatusOf
<1>9. QED
  BY <1>6, <1>7, <1>8

\* atoi of a number that an int can hold.
LEMMA AtoIExact ==
  ASSUME NEW x \in 0 .. IntMax
  PROVE  AtoI(x) = x
<1> DEFINE h == LongMod \div 2
           m == 2 * (IntMax + 1)
<1>1. IntMax \in Nat /\ LongMod \in Nat /\ m <= LongMod
  BY WidthAssumption
<1>2. h \in Nat /\ IntMax <= h - 1
  BY <1>1
<1> HIDE DEF h
<1>3. MaxOf(-h, MinOf(x, h - 1)) = x
  BY <1>1, <1>2 DEF MaxOf, MinOf
<1>4. AsInt(x) = x
  <2>1. x + IntMax + 1 \in 0 .. m - 1 /\ m \in Nat \ {0}
    BY <1>1
  <2>2. \A n \in Nat \ {0} : \A k \in 0 .. n - 1 : k % n = k
    OBVIOUS
  <2> HIDE DEF m
  <2>3. (x + IntMax + 1) % m = x + IntMax + 1
    BY <2>1, <2>2
  <2>4. QED
    BY <1>1, <2>3 DEF AsInt, m
<1>5. QED
  BY <1>3, <1>4 DEF AtoI, h

\* The first of the specs, when it has a dash and two positions.
LEMMA FirstRangeExact ==
  ASSUME NEW specs \in Seq(Spec_t), specs # <<>>,
         specs[1].dash, specs[1].first # Null, specs[1].last # Null,
         specs[1].first \in 0 .. IntMax, specs[1].last \in 1 .. IntMax
  PROVE  FirstRange(specs) = [start |-> specs[1].first, end |-> specs[1].last]
<1> DEFINE D == DashFrom(specs, 1)
<1>1. 1 \in D /\ \A k \in D : k \in Nat /\ 1 <= k
  BY DEF DashFrom
<1>2. \A j \in D : (\A k \in D : j <= k) => j = 1
  BY <1>1
<1>3. FirstRange(specs) =
        LET j == CHOOSE j \in D : \A k \in D : j <= k
        IN  [start |-> StartValue(specs[1]), end |-> EndValue(specs[j])]
  BY <1>1 DEF FirstRange, RangeFrom
<1> HIDE DEF D
<1>4. FirstRange(specs) =
        [start |-> StartValue(specs[1]), end |-> EndValue(specs[1])]
  <2>1. \E j \in D : \A k \in D : j <= k
    BY <1>1
  <2>2. (CHOOSE j \in D : \A k \in D : j <= k) = 1
    BY <1>2, <2>1
  <2>3. QED
    BY <1>3, <2>2
<1>5. StartValue(specs[1]) = specs[1].first
  <2>1. StartText(specs[1]) = specs[1].first
    BY AtoIExact DEF StartText
  <2>2. QED
    BY <2>1 DEF StartValue
<1>6. EndValue(specs[1]) = specs[1].last
  <2>1. EndText(specs[1]) = specs[1].last
    BY WidthAssumption, AtoIExact DEF EndText
  <2>2. QED
    BY <2>1 DEF EndValue
<1>7. QED
  BY <1>4, <1>5, <1>6

\* What getstatus() says of a message, and the request of one it accepts: it is
\* kept open only for a client that speaks HTTP/1.1 and does not ask to close.
LEMMA MessageJudged ==
  ASSUME NEW m \in Messages_t
  PROVE  LET s == getstatus(m.tree).status
             r == RequestOf(m.tree)
         IN  /\ s \in {0, 400, 501, 505}
             /\ s = 0 =>
                  /\ r \in HeadersRequest
                  /\ r.connection = "CLOSE"
                       \/ (m.tree.version = "HTTP/1.1" /\ m.tree.connection # "close")
<1> DEFINE t == m.tree
           g == getstatus(t).request
           r == RequestOf(t)
<1>1. t \in Trees(Seq(Spec_t)) /\ t \in AllTrees
  BY ServerAssumption DEF Message, AllTrees
<1> HIDE DEF t
<1>2. getstatus(t).status \in {0, 400, 501, 505}
  BY <1>1, StatusGiven DEF StatusOf
<1>3. ASSUME getstatus(t).status = 0
      PROVE  /\ r \in HeadersRequest
             /\ r.connection = "CLOSE"
                  \/ (t.version = "HTTP/1.1" /\ t.connection # "close")
  <2>1. /\ g.methode \in Methode /\ g.version \in HTTP_version
        /\ g.version = "HTTP1_1" <=> t.version = "HTTP/1.1"
        /\ g.connection \in Connection
        /\ g.version = "HTTP1_0" => g.connection = "CLOSE"
        /\ g.version = "HTTP1_1" =>
             (g.connection = "CLOSE" <=> t.connection = "close")
        /\ g.ranges = IF t.range = Null THEN Null ELSE FirstRange(t.range)
    BY <1>1, <1>3, AcceptedRequest
  <2>2. g.ranges \in Range_t \cup {Null}
    <3>1. CASE t.range = Null
      BY <2>1, <3>1
    <3>2. CASE t.range # Null
      <4>1. t.range \in Seq(Spec_t)
        BY <1>1, <3>2 DEF Trees
      <4>2. FirstRange(t.range) \in Range_t
        BY <4>1, FirstRangeServed
      <4>3. QED
        BY <2>1, <3>2, <4>2
    <3>3. QED
      BY <3>1, <3>2
  <2>3. r = [methode |-> g.methode, version |-> g.version,
             connection |-> g.connection, accepts |-> t.accepts,
             ranges |-> g.ranges]
    BY DEF RequestOf
  <2>4. t.accepts \in BOOLEAN
    BY <1>1 DEF Trees
  <2> HIDE DEF g, r
  <2>5. r \in HeadersRequest
    BY <2>1, <2>2, <2>3, <2>4
       DEF HeadersRequest
  <2>6. QED
    BY <2>1, <2>3, <2>5 DEF HTTP_version
<1>4. QED
  BY <1>2, <1>3 DEF t

-----------------------------------------------------------------------------
(***************************************************************************)
(* The steps of the static file service, when the other keeps its sockets. *)
(***************************************************************************)
LEMMA StaticAssumptions ==
  /\ Null \notin Int /\ Null \notin SP!Range_t /\ Null \notin SP!ContentRange
  /\ {IntMax, LongMod} \subseteq Nat \ {0} /\ 2 * (IntMax + 1) <= LongMod
  /\ {Buffer, BigBuffer, MaxStream} \subseteq Nat \ {0}
  /\ {DirTell, MaxFds, MaxRequests, MaxChurn} \subseteq Nat
  /\ Sizes \subseteq Nat
  /\ Ranges \subseteq SP!Range_t
<1>1. Null \notin SP!Range_t /\ Null \notin SP!ContentRange
  BY NullAssumption DEF Range_t, SP!Range_t, ContentRange, SP!ContentRange
<1>2. /\ {Buffer, BigBuffer, MaxStream} \subseteq Nat \ {0}
      /\ {DirTell, MaxFds, MaxRequests, MaxChurn} \subseteq Nat
      /\ Sizes \subseteq Nat
      /\ Ranges \subseteq SP!Range_t
  BY ServicesAssumption DEF Range_t, SP!Range_t
<1>3. QED
  BY <1>1, <1>2, NullAssumption, WidthAssumption

\* What send_headers() makes of a record and of a stream.
LEMMA SameHeaders ==
  ASSUME NEW s, NEW r
  PROVE  /\ SF!SentResponse(r) = SP!SentResponse(r)
         /\ SF!SendHeaders(s, r) = SP!SendHeaders(s, r)
<1>1. \A x : SF!SentResponse(x) = SP!SentResponse(x)
  BY DEF SF!SentResponse, SP!SentResponse, SF!Unset, SP!Unset
<1>2. \A x : SF!HasStatusLine(x) <=> SP!HasStatusLine(x)
  BY DEF SF!HasStatusLine, SP!HasStatusLine, SF!Unset, SP!Unset
<1>3. \A x, c : SF!StatusLine(x, c) = SP!StatusLine(x, c)
  BY DEF SF!StatusLine, SP!StatusLine
<1>4. \A x : SF!Field(x) = SP!Field(x)
  BY DEF SF!Field, SP!Field
<1>5. \A x, f, n : SF!FramingField(x, f, n) = SP!FramingField(x, f, n)
  BY <1>4 DEF SF!FramingField, SP!FramingField
<1>6. \A x, c : SF!ConnectionField(x, c) = SP!ConnectionField(x, c)
  BY <1>4 DEF SF!ConnectionField, SP!ConnectionField
<1>7. \A x : SF!EndOfHeaders(x) = SP!EndOfHeaders(x)
  BY DEF SF!EndOfHeaders, SP!EndOfHeaders
<1>8. QED
  BY <1>1, <1>2, <1>3, <1>4, <1>5, <1>6, <1>7, Zenon
     DEF SF!SendHeaders, SP!SendHeaders

LEMMA LoopHeaders ==
  ASSUME NEW s, NEW r
  PROVE  /\ SentResponse(r) = SP!SentResponse(r)
         /\ SendHeaders(s, r) = SP!SendHeaders(s, r)
<1>1. \A x : SentResponse(x) = SP!SentResponse(x)
  BY DEF SentResponse, SP!SentResponse, Unset, SP!Unset
<1>2. \A x : HasStatusLine(x) <=> SP!HasStatusLine(x)
  BY DEF HasStatusLine, SP!HasStatusLine, Unset, SP!Unset
<1>3. \A x, c : StatusLine(x, c) = SP!StatusLine(x, c)
  BY DEF StatusLine, SP!StatusLine
<1>4. \A x : Field(x) = SP!Field(x)
  BY DEF Field, SP!Field
<1>5. \A x, f, n : FramingField(x, f, n) = SP!FramingField(x, f, n)
  BY <1>4 DEF FramingField, SP!FramingField
<1>6. \A x, c : ConnectionField(x, c) = SP!ConnectionField(x, c)
  BY <1>4 DEF ConnectionField, SP!ConnectionField
<1>7. \A x : EndOfHeaders(x) = SP!EndOfHeaders(x)
  BY DEF EndOfHeaders, SP!EndOfHeaders
<1>8. QED
  BY <1>1, <1>2, <1>3, <1>4, <1>5, <1>6, <1>7, Zenon
     DEF SendHeaders, SP!SendHeaders

LEMMA StaticSteps ==
  ASSUME SF!Step, sockets' = sockets, unclosed \in Nat, sockets \in Nat
  PROVE  SP!Step /\ unclosed' \in Nat
<1>0. unclosed' \in {unclosed, unclosed + 1}
  BY DEF SF!Step, SF!Post, SF!Access, SF!FopenFails, SF!Fopen, SF!Ftell, SF!Head,
         SF!WholeFile, SF!RangeRefused, SF!RangeServed, SF!ReadRange, SF!ReadChunk,
         SF!ReadIdentity, SF!SendResponse, SF!Deliver, SF!Finish
<1>1. SF!Post => SP!Post
  BY DEF SF!Post, SP!Post, SF!EndOfHeaders, SP!EndOfHeaders, SF!StatusLine,
         SP!StatusLine
<1>2. SF!Access => SP!Access
  BY DEF SF!Access, SP!Access
<1>3. SF!FopenFails => SP!FopenFails
  BY DEF SF!FopenFails, SP!FopenFails
<1>4. SF!Fopen => SP!Fopen
  BY DEF SF!Fopen, SP!Fopen
<1>5. SF!Ftell => SP!Ftell
  BY DEF SF!Ftell, SP!Ftell
<1>6. SF!Head => SP!Head
  BY DEF SF!Head, SP!Head, SF!Closed, SP!Closed
<1>7. SF!WholeFile => SP!WholeFile
  BY SameHeaders DEF SF!WholeFile, SP!WholeFile
<1>8. SF!RangeRefused => SP!RangeRefused
  BY DEF SF!RangeRefused, SP!RangeRefused, SF!Unsatisfiable, SP!Unsatisfiable
<1>9. SF!RangeServed => SP!RangeServed
  BY SameHeaders
     DEF SF!RangeServed, SP!RangeServed, SF!Unsatisfiable, SP!Unsatisfiable,
         SF!StartOf, SP!StartOf, SF!EndOf, SP!EndOf, SF!AsUnsigned, SP!AsUnsigned,
         SF!AsInt, SP!AsInt, SF!MinOf, SP!MinOf
<1>10. \A n : /\ SF!BytesRead(n) = SP!BytesRead(n)
              /\ SF!Deliver(n) => SP!Deliver(n)
  BY DEF SF!BytesRead, SP!BytesRead, SF!MinOf, SP!MinOf, SF!Deliver, SP!Deliver,
         SF!Payload, SP!Payload
<1>11. SF!Finish => SP!Finish
  BY DEF SF!Finish, SP!Finish, SF!Closed, SP!Closed
<1>12. SF!ReadRange => SP!ReadRange
  BY <1>10, <1>11 DEF SF!ReadRange, SP!ReadRange, SF!MinOf, SP!MinOf
<1>13. SF!ReadChunk => SP!ReadChunk
  BY <1>10, <1>11 DEF SF!ReadChunk, SP!ReadChunk, SF!LastChunk, SP!LastChunk
<1>14. SF!ReadIdentity => SP!ReadIdentity
  BY <1>10, <1>11 DEF SF!ReadIdentity, SP!ReadIdentity
<1>15. SF!SendResponse => SP!SendResponse
  BY SameHeaders DEF SF!SendResponse, SP!SendResponse
<1>16. QED
  BY <1>0, <1>1, <1>2, <1>3, <1>4, <1>5, <1>6, <1>7, <1>8, <1>9, <1>12, <1>13,
     <1>14, <1>15
     DEF SF!Step, SP!Step

LEMMA StaticOthers ==
  ASSUME sockets' = sockets
  PROVE  /\ SF!End => SP!End
         /\ SF!Replace => SP!Replace
         /\ SF!Resize => SP!Resize
         /\ \A r : SF!Enter(r) => SP!Enter(r)
<1>1. SF!End => SP!End
  BY DEF SF!End, SP!End, SF!NoRequest, SP!NoRequest, SF!NoFile, SP!NoFile,
         SF!Directory, SP!Directory, SF!EmptyResponse, SP!EmptyResponse,
         SF!Unset, SP!Unset, SF!EmptyStream, SP!EmptyStream
<1>2. SF!Replace => SP!Replace
  BY DEF SF!Replace, SP!Replace, SF!Churn, SP!Churn, SF!Nodes, SP!Nodes,
         SF!Regular, SP!Regular, SF!Directory, SP!Directory
<1>3. SF!Resize => SP!Resize
  BY DEF SF!Resize, SP!Resize, SF!Churn, SP!Churn, SF!Regular, SP!Regular,
         SF!Directory, SP!Directory
<1>4. \A r : SF!Enter(r) => SP!Enter(r)
  BY DEF SF!Enter, SP!Enter, SF!PopulateRespFromReq, SP!PopulateRespFromReq,
         SF!EmptyResponse, SP!EmptyResponse, SF!Unset, SP!Unset
<1>5. QED
  BY <1>1, <1>2, <1>3, <1>4

-----------------------------------------------------------------------------
(***************************************************************************)
(* The steps of sendFCGI().                                                *)
(***************************************************************************)
LEMMA CgiAssumptions ==
  /\ {IntMax, LongMod} \subseteq Nat \ {0} /\ 2 * (IntMax + 1) <= LongMod
  /\ Null \notin Int
  /\ {HeaderSize, MaxContent, StatusText} \subseteq Nat \ {0}
  /\ HeaderSize + MaxContent <= IntMax /\ HeaderSize <= MaxContent
  /\ {MaxFds, MaxRecords, Overread, MaxRequests} \subseteq Nat
  /\ Declared \cup Bodies \subseteq Nat
  /\ RecordSizes \cup ParamSizes \subseteq 0 .. MaxContent
  /\ Scripts \subseteq FP!Script
BY NullAssumption, WidthAssumption, ServicesAssumption DEF FC!Script, FP!Script

LEMMA OwnSteps == FC!Own => FP!Own
<1>1. \A r : FC!Contents(r) = FP!Contents(r) /\ FC!Stray(r) = FP!Stray(r)
  BY DEF FC!Contents, FP!Contents, FC!Stray, FP!Stray, FC!SendsBody, FP!SendsBody,
         FC!StdinLength, FP!StdinLength, FC!AtoI, FP!AtoI, FC!AsInt, FP!AsInt,
         FC!MaxOf, FP!MaxOf, FC!MinOf, FP!MinOf, FC!UIntMod, FP!UIntMod
<1>2. FC!CreateSocket => FP!CreateSocket
  BY <1>1
     DEF FC!CreateSocket, FP!CreateSocket, FC!NoSocket, FP!NoSocket, FC!Refused,
         FP!Refused, FC!Connected, FP!Connected, FC!request, FP!request,
         FC!answer, FP!answer
<1>3. FC!Rests = FP!Rests
  BY DEF FC!Rests, FP!Rests, FC!UIntMod, FP!UIntMod
<1>4. FC!WriteSocket => FP!WriteSocket
  BY <1>1, <1>3
     DEF FC!WriteSocket, FP!WriteSocket, FC!MoreToWrite, FP!MoreToWrite,
         FC!NextMessage, FP!NextMessage, FC!LastWritten, FP!LastWritten,
         FC!request, FP!request, FC!answer, FP!answer
<1>5. FC!ReadShort => FP!ReadShort
  BY DEF FC!ReadShort, FP!ReadShort, FC!request, FP!request, FC!answer, FP!answer,
         FC!socket, FP!socket
<1>6. FC!SendLength => FP!SendLength
  BY DEF FC!SendLength, FP!SendLength, FC!BodyLengths, FP!BodyLengths, FC!AsInt,
         FP!AsInt, FC!request, FP!request, FC!socket, FP!socket
<1>7. FC!Flush => FP!Flush
  BY DEF FC!Flush, FP!Flush, FC!Write, FP!Write, FC!request, FP!request,
         FC!socket, FP!socket
<1>8. FC!Shutdown => FP!Shutdown
  BY DEF FC!Shutdown, FP!Shutdown, FC!request, FP!request, FC!answer, FP!answer
<1>9. QED
  BY <1>2, <1>4, <1>5, <1>6, <1>7, <1>8 DEF FC!Own, FP!Own

LEMMA PhpSteps == FC!Php => FP!Php
<1> USE DEF FC!request, FP!request, FC!answer, FP!answer, FC!socket, FP!socket
<1>1. \A n : FC!HasStatus(n) <=> FP!HasStatus(n)
  BY DEF FC!HasStatus, FP!HasStatus
<1>2. \A r, p : FC!Write(r, p) = FP!Write(r, p)
  BY DEF FC!Write, FP!Write
<1>3. \A n : FC!FirstWithStatus(n) => FP!FirstWithStatus(n)
  BY <1>1, <1>2 DEF FC!FirstWithStatus, FP!FirstWithStatus
<1>4. \A n : /\ FC!FirstBuffered(n) => FP!FirstBuffered(n)
             /\ FC!FirstForwarded(n) => FP!FirstForwarded(n)
             /\ FC!LaterBuffered(n) => FP!LaterBuffered(n)
             /\ FC!LaterForwarded(n) => FP!LaterForwarded(n)
  BY <1>1, <1>2
     DEF FC!FirstBuffered, FP!FirstBuffered, FC!FirstForwarded, FP!FirstForwarded,
         FC!LaterBuffered, FP!LaterBuffered, FC!LaterForwarded, FP!LaterForwarded
<1>5. FC!LaterNull => FP!LaterNull
  BY DEF FC!LaterNull, FP!LaterNull
<1>6. FC!ReadStdout => FP!ReadStdout
  BY <1>3, <1>4, <1>5 DEF FC!ReadStdout, FP!ReadStdout
<1>7. FC!ReadOther => FP!ReadOther
  BY DEF FC!ReadOther, FP!ReadOther
<1>8. FC!EndRequest => FP!EndRequest
  BY DEF FC!EndRequest, FP!EndRequest
<1>9. QED
  BY <1>6, <1>7, <1>8 DEF FC!Php, FP!Php

LEMMA CgiOthers ==
  /\ FC!End => FP!End
  /\ FC!PeerGone => FP!PeerGone
  /\ \A r : FC!Enter(r) => FP!Enter(r)
  /\ FC!NoReply = FP!NoReply
<1>1. FC!NoReply = FP!NoReply
  BY DEF FC!NoReply, FP!NoReply
<1>2. FC!End => FP!End
  BY <1>1 DEF FC!End, FP!End, FC!NoRequest, FP!NoRequest, FC!NoScript, FP!NoScript
<1>3. FC!PeerGone => FP!PeerGone
  BY DEF FC!PeerGone, FP!PeerGone, FC!request, FP!request, FC!answer, FP!answer
<1>4. \A r : FC!Enter(r) => FP!Enter(r)
  BY DEF FC!Enter, FP!Enter
<1>5. QED
  BY <1>1, <1>2, <1>3, <1>4
-----------------------------------------------------------------------------
(***************************************************************************)
(* The inductive invariant of the composition: those of the two services,  *)
(* and what ties the loop to them.                                         *)
(***************************************************************************)

\* The client speaks HTTP/1.1 and does not ask to close.
MayKeep(m) ==
  m.parsed /\ m.tree.version = "HTTP/1.1" /\ m.tree.connection # "close"

LoopInv ==
  /\ main \in Stages /\ gone \in BOOLEAN /\ taken \in Nat
  /\ main # "getRequest" => msg \in Messages_t

\* Outside send_data() and send_response() the locals they work on are those of
\* no request, or those of a refusal.
StaticInv ==
  /\ sockets \in Nat /\ unclosed \in Nat
  /\ main = "static" <=> spc # "idle"
  /\ SP!TypeOK /\ SP!OpenFiles
  /\ main \notin {"refused", "ending"} => SP!IInv
  /\ main = "refused" =>
       /\ out = EmptyStream
       /\ \E status \in {400, 501, 505} : resp = RefusedResponse(status)
  /\ main = "ending" => out # EmptyStream

\* sendFCGI() works on the message that the loop took.
CgiInv ==
  /\ FP!IInv
  /\ main = "cgi" => msg.parsed /\ creq = CgiRequest(msg)

\* A connection that may still be kept is one that may be kept at all.
KeepInv ==
  /\ main = "static" => resp.connection = "CLOSE" \/ MayKeep(msg)
  /\ main = "cgi" /\ keepalive => MayKeep(msg)

\* A request takes one descriptor at most: while it may still take it, one of the
\* requests taken has not.
SpentInv ==
  /\ fds <= taken
  /\ spc \in {"access", "fopen"} \/ cpc = "socket" => fds < taken

ServerInv == BusyInv /\ LoopInv /\ StaticInv /\ CgiInv /\ KeepInv /\ SpentInv

\* The answers the loop writes itself.
LEMMA BadAnswer ==
  /\ StatusLine(EmptyStream, 400) \in SP!Stream
  /\ StatusLine(EmptyStream, 400) # EmptyStream
<1>1. EmptyStream = SP!EmptyStream /\ SP!EmptyStream \in SP!Stream
  BY SP!EmptyStreamShape, StaticAssumptions
     DEF EmptyStream, SP!EmptyStream, Unset, SP!Unset
<1>2. StatusLine(EmptyStream, 400) = SP!StatusLine(SP!EmptyStream, 400)
  BY <1>1 DEF StatusLine, SP!StatusLine
<1>3. /\ SP!StatusLine(SP!EmptyStream, 400) \in SP!Stream
      /\ SP!StatusLine(SP!EmptyStream, 400).stage = "fields"
  <2>1. 400 \in Nat
    OBVIOUS
  <2>2. ASSUME NEW x \in SP!Stream, NEW n \in Nat
        PROVE  /\ SP!StatusLine(x, n) \in SP!Stream
               /\ SP!StatusLine(x, n).stage = "fields"
    BY SP!StatusLineShape, StaticAssumptions
  <2>3. QED
    BY <1>1, <2>1, <2>2
<1>4. SP!EmptyStream.stage = "start"
  BY DEF SP!EmptyStream
<1>5. QED
  BY <1>1, <1>2, <1>3, <1>4

LEMMA PayloadInStream ==
  ASSUME NEW s \in SP!Stream, NEW n \in Nat
  PROVE  SP!Payload(s, n) \in SP!Stream /\ SP!Payload(s, n).stage = s.stage
<1>1. s.body \in Nat /\ s.body + n \in Nat
  BY DEF SP!Stream
<1>2. SP!Payload(s, n) \in SP!Stream
  BY <1>1 DEF SP!Payload, SP!Stream
<1>3. QED
  BY <1>1, <1>2 DEF SP!Payload, SP!Stream

LEMMA RefusedType ==
  ASSUME NEW status \in Nat
  PROVE  /\ RefusedResponse(status) \in SP!HeadersResponse
         /\ RefusedResponse(status).version \in SP!HTTP_version
<1>1. EmptyResponse \in SP!HeadersResponse
  BY DEF EmptyResponse, Unset, SP!HeadersResponse, SP!Unset
<1>2. ASSUME NEW e \in SP!HeadersResponse
      PROVE  /\ [e EXCEPT !.version = "HTTP1_0", !.connection = "CLOSE",
                         !.status_code = status] \in SP!HeadersResponse
             /\ [e EXCEPT !.version = "HTTP1_0", !.connection = "CLOSE",
                         !.status_code = status].version = "HTTP1_0"
  BY DEF SP!HeadersResponse, SP!HTTP_version, SP!Connection
<1>3. QED
  BY <1>1, <1>2 DEF RefusedResponse, SP!HTTP_version

LEMMA RefusedAnswer ==
  ASSUME NEW status \in {400, 501, 505}, NEW r, r = RefusedResponse(status)
  PROVE  /\ SentResponse(r) \in SP!HeadersResponse
         /\ Payload(SendHeaders(EmptyStream, r), 4) \in SP!Stream
         /\ Payload(SendHeaders(EmptyStream, r), 4) # EmptyStream
<1>1. /\ EmptyStream = SP!EmptyStream
      /\ SP!EmptyStream.stage = "start"
  BY DEF EmptyStream, SP!EmptyStream, Unset, SP!Unset
<1>2. r \in SP!HeadersResponse /\ r.version \in SP!HTTP_version
  BY RefusedType
<1>3. PICK h \in SP!Stream : h = SP!SendHeaders(SP!EmptyStream, r) /\ h.stage = "body"
  BY <1>2, SP!SendHeadersShape, StaticAssumptions
<1>4. SP!SentResponse(r) \in SP!HeadersResponse
  BY <1>2, SP!SendHeadersShape, StaticAssumptions
<1>5. SP!Payload(h, 4) \in SP!Stream /\ SP!Payload(h, 4).stage = "body"
  BY <1>3, PayloadInStream
<1>6. /\ SendHeaders(EmptyStream, r) = h
      /\ SentResponse(r) = SP!SentResponse(r)
  BY <1>1, <1>3, LoopHeaders
<1>7. Payload(h, 4) = SP!Payload(h, 4)
  BY DEF Payload, SP!Payload
<1>8. QED
  BY <1>1, <1>3, <1>4, <1>5, <1>6, <1>7

-----------------------------------------------------------------------------
(***************************************************************************)
(* What each part of ServerInv owes to the steps of the others.            *)
(***************************************************************************)

\* The loop goes on, and the static file service has no part in it.
LEMMA StaticRests ==
  ASSUME StaticInv, UNCHANGED <<static, sockets, fds>>,
         \/ main' = main
         \/ {main, main'} \subseteq {"getRequest", "bad", "cgi"}
  PROVE  StaticInv'
<1>1. spc' = spc /\ out' = out /\ resp' = resp /\ unclosed' = unclosed
  BY DEF static
<1>2. SP!TypeOK' /\ SP!OpenFiles'
  BY DEF StaticInv, static, SP!TypeOK, SP!OpenFiles, SP!InHand
<1>3. SP!IInv => SP!IInv'
  <2>1. UNCHANGED SP!vars
    BY DEF static, SP!vars
  <2>2. QED
    BY <2>1, SP!StutterInv, StaticAssumptions
<1>4. CASE main' = main
  BY <1>1, <1>2, <1>3, <1>4 DEF StaticInv
<1>5. CASE {main, main'} \subseteq {"getRequest", "bad", "cgi"}
  BY <1>1, <1>2, <1>3, <1>5 DEF StaticInv
<1>6. QED
  BY <1>4, <1>5

\* sendFCGI() has no part in it.
LEMMA CgiRests ==
  ASSUME FP!IInv, UNCHANGED cgi, fds' \in Nat
  PROVE  FP!IInv'
<1>1. UNCHANGED <<cpc, FP!request, fd, todo, left, peer, FP!answer>>
  BY DEF cgi, FP!request, FP!answer
<1>2. QED
  BY <1>1, FP!SharedFds, CgiAssumptions

\* Between two requests sendFCGI() keeps nothing.
LEMMA CgiIdle == FP!IInv /\ cpc = "idle" => ~keepalive
BY DEF FP!IInv, FP!OrderInv, FP!FreshInv

\* The descriptors are a natural number all along.
LEMMA FdsType == StaticInv => fds \in Nat
BY DEF StaticInv, SP!TypeOK

-----------------------------------------------------------------------------
(***************************************************************************)
(* One lemma for each kind of step.                                        *)
(***************************************************************************)

\* The clients come and go.
LEMMA QuietStep ==
  ASSUME ServerInv, UNCHANGED <<main, msg, sockets, taken, static, cgi, fds>>,
         gone' \in BOOLEAN
  PROVE  LoopInv' /\ StaticInv' /\ CgiInv' /\ KeepInv'
<1> USE DEF ServerInv
<1>1. StaticInv'
  BY StaticRests
<1>2. FP!IInv'
  BY FdsType, CgiRests DEF CgiInv
<1>3. UNCHANGED <<resp, creq, cpc, keepalive>>
  BY DEF static, cgi
<1>4. QED
  BY <1>1, <1>2, <1>3 DEF LoopInv, CgiInv, KeepInv, MayKeep

\* A request is taken, and goes one of four ways.
LEMMA TakeStep ==
  ASSUME ServerInv, NEW c \in Clients, GetRequest(c)
  PROVE  LoopInv' /\ StaticInv' /\ CgiInv' /\ KeepInv'
<1> USE DEF ServerInv
<1>1. PICK m \in Messages_t : msg' = m /\ Dispatch(m)
  BY DEF GetRequest
<1>2. /\ main = "getRequest" /\ taken' = taken + 1
      /\ UNCHANGED <<gone, sockets, fds>>
  BY DEF GetRequest
<1>3. cpc = "idle" /\ spc = "idle" /\ SP!IInv /\ FP!IInv /\ ~keepalive
  BY <1>2, CgiIdle DEF BusyInv, StaticInv, CgiInv
<1>4. out = EmptyStream
  BY <1>3 DEF SP!IInv, SP!StreamInv, EmptyStream, SP!EmptyStream, Unset, SP!Unset
<1>5. /\ getstatus(m.tree).status \in {0, 400, 501, 505}
      /\ getstatus(m.tree).status = 0 =>
           /\ RequestOf(m.tree) \in HeadersRequest
           /\ RequestOf(m.tree).connection = "CLOSE"
                \/ (m.tree.version = "HTTP/1.1" /\ m.tree.connection # "close")
  BY MessageJudged
<1>6. LoopInv'
  BY <1>1, <1>2 DEF LoopInv, Stages, Dispatch
<1>7. CASE ~m.parsed
  <2>1. main' = "bad" /\ UNCHANGED <<static, cgi>>
    BY <1>1, <1>7 DEF Dispatch
  <2>2. StaticInv'
    BY <1>2, <2>1, StaticRests
  <2>3. FP!IInv'
    BY <1>2, <2>1, FdsType, CgiRests DEF CgiInv
  <2>4. QED
    BY <1>6, <2>1, <2>2, <2>3 DEF CgiInv, KeepInv
<1>8. CASE m.parsed /\ m.php
  <2>1. /\ main' = "cgi" /\ FC!Enter(CgiRequest(m))
        /\ UNCHANGED <<static, fd, todo, left, peer, records, stdout, opening,
                       list, tail, keepalive, reply>>
    BY <1>1, <1>8 DEF Dispatch
  <2>2. StaticInv'
    BY <1>2, <2>1, StaticRests
  <2>3. CgiRequest(m) \in FP!Request
    BY ServerAssumption DEF Message, Trees, CgiRequest, Known, FP!Request
  <2>4. FP!IInv'
    <3>1. FP!Enter(CgiRequest(m))
      BY <2>1, CgiOthers
    <3>2. UNCHANGED <<FP!socket, FP!answer>>
      BY <1>2, <2>1 DEF FP!socket, FP!answer
    <3>3. QED
      BY <1>3, <2>3, <3>1, <3>2, FP!EnterInv, CgiAssumptions
  <2>5. creq' = CgiRequest(m)
    BY <2>1 DEF FC!Enter
  <2>6. CgiInv'
    BY <1>1, <1>8, <2>4, <2>5 DEF CgiInv, CgiRequest
  <2>7. KeepInv'
    BY <1>3, <2>1 DEF KeepInv
  <2>8. QED
    BY <1>6, <2>2, <2>6, <2>7
<1>9. CASE m.parsed /\ ~m.php /\ getstatus(m.tree).status >= 300
  <2>1. /\ main' = "refused"
        /\ resp' = RefusedResponse(getstatus(m.tree).status)
        /\ UNCHANGED <<spc, req, disk, file, out, waiting, churn, stale, unclosed,
                       cgi>>
    BY <1>1, <1>9 DEF Dispatch
  <2>2. getstatus(m.tree).status \in {400, 501, 505}
    BY <1>5, <1>9
  <2>3. resp' \in SP!HeadersResponse
    BY <2>1, <2>2, RefusedType
  <2>4. SP!TypeOK' /\ SP!OpenFiles'
    BY <1>2, <2>1, <2>3 DEF StaticInv, SP!TypeOK, SP!OpenFiles, SP!InHand
  <2>5. StaticInv'
    BY <1>2, <1>3, <1>4, <2>1, <2>2, <2>4
       DEF StaticInv
  <2>6. FP!IInv'
    BY <1>2, <2>1, FdsType, CgiRests DEF CgiInv
  <2>7. QED
    BY <1>6, <2>1, <2>5, <2>6 DEF CgiInv, KeepInv
<1>10. CASE m.parsed /\ ~m.php /\ ~(getstatus(m.tree).status >= 300)
  <2> DEFINE r == RequestOf(m.tree)
  <2>1. /\ main' = "static" /\ SF!Enter(r)
        /\ UNCHANGED <<disk, file, out, waiting, churn, stale, unclosed, cgi>>
    BY <1>1, <1>10 DEF Dispatch
  <2>2. /\ r \in HeadersRequest
        /\ r.connection = "CLOSE" \/ MayKeep(m)
    BY <1>5, <1>10 DEF MayKeep
  <2> HIDE DEF r
  <2>3. SP!IInv'
    <3>1. r \in SP!HeadersRequest
      BY <2>2 DEF HeadersRequest, SP!HeadersRequest, Methode, SP!Methode,
                  HTTP_version, SP!HTTP_version, Connection, SP!Connection,
                  Range_t, SP!Range_t
    <3>2. SP!Enter(r)
      BY <1>2, <2>1, StaticOthers
    <3>3. UNCHANGED <<disk, file, fds, out, waiting, churn, stale,
                      unclosed + sockets>>
      BY <1>2, <2>1
    <3>4. QED
      BY <1>3, <3>1, <3>2, <3>3, SP!EnterInv, StaticAssumptions
  <2>4. spc' = "access" /\ resp'.connection = r.connection
    BY <2>1 DEF SF!Enter, SF!PopulateRespFromReq, SF!EmptyResponse
  <2>5. StaticInv'
    BY <1>2, <2>1, <2>3, <2>4 DEF StaticInv, SP!IInv
  <2>6. FP!IInv'
    BY <1>2, <2>1, FdsType, CgiRests DEF CgiInv
  <2>7. KeepInv'
    BY <1>1, <2>1, <2>2, <2>4 DEF KeepInv, MayKeep
  <2>8. QED
    BY <1>6, <2>1, <2>5, <2>6, <2>7 DEF CgiInv
<1>11. QED
  BY <1>7, <1>8, <1>9, <1>10

\* The loop answers by itself.
LEMMA RefusalStep ==
  ASSUME ServerInv, BadRequest \/ Refuse
  PROVE  LoopInv' /\ StaticInv' /\ CgiInv' /\ KeepInv'
<1> USE DEF ServerInv
<1>1. /\ main \in {"bad", "refused"} /\ main' = "ending"
      /\ UNCHANGED <<msg, gone, sockets, taken, cgi, fds>>
      /\ UNCHANGED <<spc, req, disk, file, waiting, churn, stale, unclosed>>
  BY DEF BadRequest, Refuse
<1>2. spc = "idle" /\ SP!TypeOK /\ SP!OpenFiles
  BY <1>1 DEF StaticInv
<1>3. /\ out' \in SP!Stream /\ out' # EmptyStream
      /\ resp' \in SP!HeadersResponse
  <2>1. CASE BadRequest
    <3>1. SP!IInv /\ out' = StatusLine(out, 400) /\ resp' = resp
      BY <2>1 DEF BadRequest, StaticInv
    <3>2. out = EmptyStream
      BY <1>2, <3>1
         DEF SP!IInv, SP!StreamInv, EmptyStream, SP!EmptyStream, Unset, SP!Unset
    <3>3. QED
      BY <1>2, <3>1, <3>2, BadAnswer DEF SP!TypeOK
  <2>2. CASE Refuse
    <3>1. /\ main = "refused"
          /\ resp' = SentResponse(resp)
          /\ out' = Payload(SendHeaders(out, resp), 4)
      BY <2>2 DEF Refuse
    <3>2. PICK status \in {400, 501, 505} : resp = RefusedResponse(status)
      BY <3>1 DEF StaticInv
    <3>3. out = EmptyStream
      BY <3>1 DEF StaticInv
    <3>4. QED
      BY <3>1, <3>2, <3>3, RefusedAnswer
  <2>3. QED
    BY <2>1, <2>2
<1>4. SP!TypeOK' /\ SP!OpenFiles'
  BY <1>1, <1>2, <1>3 DEF SP!TypeOK, SP!OpenFiles, SP!InHand
<1>5. StaticInv'
  BY <1>1, <1>2, <1>3, <1>4 DEF StaticInv
<1>6. FP!IInv'
  BY <1>1, FdsType, CgiRests DEF CgiInv
<1>7. QED
  BY <1>1, <1>5, <1>6 DEF LoopInv, Stages, CgiInv, KeepInv

\* A request ends, whoever answered it.
LEMMA EndStep ==
  ASSUME ServerInv, EndRefused \/ EndStatic \/ EndCgi
  PROVE  LoopInv' /\ StaticInv' /\ CgiInv' /\ KeepInv'
<1> USE DEF ServerInv
<1>1. main' = "getRequest" /\ gone' = FALSE /\ UNCHANGED <<sockets, taken>>
  BY DEF EndRefused, EndStatic, EndCgi, EndRequest
<1>2. LoopInv' /\ KeepInv'
  BY <1>1 DEF LoopInv, Stages, KeepInv
<1>3. CASE EndRefused
  <2>1. /\ main = "ending" /\ out' = EmptyStream /\ resp' = EmptyResponse
        /\ UNCHANGED <<spc, req, disk, file, waiting, churn, stale, unclosed,
                       cgi, fds>>
    BY <1>3 DEF EndRefused
  <2>2. spc = "idle" /\ SP!TypeOK /\ SP!OpenFiles
    BY <2>1 DEF StaticInv
  <2>3. /\ out' = SP!EmptyStream /\ out' \in SP!Stream
        /\ resp' = SP!EmptyResponse /\ resp' \in SP!HeadersResponse
    <3>1. EmptyResponse \in SP!HeadersResponse
      BY DEF EmptyResponse, Unset, SP!HeadersResponse, SP!Unset
    <3>2. SP!EmptyStream \in SP!Stream
      BY SP!EmptyStreamShape, StaticAssumptions
    <3>3. QED
      BY <2>1, <3>1, <3>2
         DEF EmptyStream, SP!EmptyStream, EmptyResponse, SP!EmptyResponse, Unset,
             SP!Unset
  <2>4. SP!TypeOK' /\ SP!OpenFiles'
    BY <1>1, <2>1, <2>2, <2>3 DEF SP!TypeOK, SP!OpenFiles, SP!InHand
  <2>5. SP!IInv'
    BY <2>1, <2>2, <2>3, <2>4, SP!IdleInv, StaticAssumptions
  <2>6. StaticInv'
    BY <1>1, <2>1, <2>2, <2>4, <2>5 DEF StaticInv
  <2>7. FP!IInv'
    BY <2>1, FdsType, CgiRests DEF CgiInv
  <2>8. QED
    BY <1>1, <1>2, <2>6, <2>7 DEF CgiInv
<1>4. CASE EndStatic
  <2>1. main = "static" /\ SF!End /\ UNCHANGED cgi
    BY <1>4 DEF EndStatic
  <2>2. spc' = "idle" /\ UNCHANGED <<unclosed, fds>>
    BY <2>1 DEF SF!End
  <2>3. SP!IInv'
    <3>1. SP!End
      BY <1>1, <2>1, StaticOthers
    <3>2. QED
      BY <2>1, <3>1, SP!EndInv, StaticAssumptions DEF StaticInv
  <2>4. StaticInv'
    BY <1>1, <2>2, <2>3 DEF StaticInv, SP!IInv
  <2>5. FP!IInv'
    BY <2>1, <2>2, FdsType, CgiRests DEF CgiInv
  <2>6. QED
    BY <1>1, <1>2, <2>4, <2>5 DEF CgiInv
<1>5. CASE EndCgi
  <2>1. main = "cgi" /\ FC!End /\ UNCHANGED static
    BY <1>5 DEF EndCgi
  <2>2. StaticInv'
    BY <1>1, <2>1, StaticRests DEF FC!End
  <2>3. FP!IInv'
    BY <2>1, CgiOthers, FP!StepInv, CgiAssumptions DEF CgiInv, FP!Next
  <2>4. QED
    BY <1>1, <1>2, <2>2, <2>3 DEF CgiInv
<1>6. QED
  BY <1>3, <1>4, <1>5

\* A system call of the static file service.
LEMMA ServeStep ==
  ASSUME ServerInv, ServeStatic
  PROVE  LoopInv' /\ StaticInv' /\ CgiInv' /\ KeepInv'
<1> USE DEF ServerInv
<1>1. /\ main = "static" /\ SF!Step
      /\ UNCHANGED <<main, msg, gone, sockets, taken, cgi>>
  BY DEF ServeStatic, loop
<1>2. SP!IInv /\ unclosed \in Nat /\ sockets \in Nat
  BY <1>1 DEF StaticInv
<1>3. SP!Step /\ unclosed' \in Nat
  BY <1>1, <1>2, StaticSteps
<1>4. SP!IInv'
  BY <1>2, <1>3, SP!StepInv, StaticAssumptions DEF SP!Next
<1>5. spc' # "idle"
  BY <1>1
     DEF StaticInv, SF!Step, SF!Post, SF!Access, SF!FopenFails, SF!Fopen, SF!Ftell,
         SF!Head, SF!WholeFile, SF!RangeRefused, SF!RangeServed, SF!ReadRange,
         SF!ReadChunk, SF!ReadIdentity, SF!SendResponse, SF!Deliver, SF!Finish
<1>6. StaticInv'
  BY <1>1, <1>2, <1>3, <1>4, <1>5 DEF StaticInv, SP!IInv
<1>7. resp'.connection \in {resp.connection, "CLOSE"}
  BY <1>2, <1>3, SP!OnlyCloses, StaticAssumptions
<1>8. fds' \in Nat
  BY <1>6 DEF StaticInv, SP!TypeOK
<1>9. FP!IInv'
  BY <1>1, <1>8, CgiRests DEF CgiInv
<1>10. QED
  BY <1>1, <1>6, <1>7, <1>9 DEF LoopInv, CgiInv, KeepInv, MayKeep

\* What sendFCGI() does leaves its request alone; it decides to keep a connection
\* only when the request allows it, and takes a descriptor, if there is one, when
\* it creates its socket.
LEMMA CgiDecides ==
  ASSUME ServerInv, FC!Own \/ FC!Php \/ FC!PeerGone
  PROVE  /\ creq' = creq
         /\ keepalive' =>
              keepalive \/ (creq.version = "HTTP/1.1" /\ ~creq.close)
         /\ cpc' # "socket"
         /\ fds' = IF cpc = "socket" /\ fds < MaxFds THEN fds + 1 ELSE fds
<1>0. fds \in Nat /\ MaxFds \in Nat
  BY FdsType, ServicesAssumption DEF ServerInv
<1> USE DEF FC!request, FC!answer, FC!socket
<1>1. CASE FC!CreateSocket
  <2>1. cpc = "socket" /\ cpc' = "write" /\ creq' = creq /\ keepalive' = keepalive
    BY <1>1 DEF FC!CreateSocket
  <2>2. fds' = IF fds < MaxFds THEN fds + 1 ELSE fds
    BY <1>0, <1>1 DEF FC!CreateSocket, FC!NoSocket, FC!Refused, FC!Connected
  <2>3. QED
    BY <2>1, <2>2
<1>2. CASE FC!WriteSocket
  <2>1. creq' = creq /\ fds' = fds /\ cpc = "write" /\ cpc' # "socket"
    BY <1>2
       DEF FC!WriteSocket, FC!MoreToWrite, FC!NextMessage, FC!LastWritten
  <2>2. CASE FC!MoreToWrite \/ FC!NextMessage
    BY <2>1, <2>2 DEF FC!MoreToWrite, FC!NextMessage
  <2>3. CASE FC!LastWritten
    <3>1. keepalive' = (creq.version = "HTTP/1.1" /\ ~creq.close)
      BY <2>3 DEF FC!LastWritten
    <3>2. QED
      BY <2>1, <3>1, Zenon
  <2>4. QED
    BY <1>2, <2>2, <2>3 DEF FC!WriteSocket
<1>3. CASE FC!ReadShort \/ FC!SendLength \/ FC!Flush \/ FC!Shutdown
  BY <1>3 DEF FC!ReadShort, FC!SendLength, FC!Flush, FC!Shutdown
<1>4. CASE FC!Php \/ FC!PeerGone
  <2>1. CASE FC!ReadStdout
    BY <2>1
       DEF FC!ReadStdout, FC!FirstWithStatus, FC!FirstBuffered, FC!FirstForwarded,
           FC!LaterBuffered, FC!LaterNull, FC!LaterForwarded
  <2>2. CASE FC!ReadOther \/ FC!EndRequest \/ FC!PeerGone
    BY <2>2 DEF FC!ReadOther, FC!EndRequest, FC!PeerGone
  <2>3. QED
    BY <1>4, <2>1, <2>2 DEF FC!Php
<1>5. QED
  BY <1>1, <1>2, <1>3, <1>4 DEF FC!Own

\* A system call of sendFCGI(), or a record of php-fpm's.
LEMMA ForwardStep ==
  ASSUME ServerInv,
         Forward \/ Await \/ (FC!PeerGone /\ UNCHANGED <<loop, static>>)
  PROVE  LoopInv' /\ StaticInv' /\ CgiInv' /\ KeepInv'
<1> USE DEF ServerInv
<1>1. /\ UNCHANGED <<main, msg, gone, taken, static>>
      /\ FC!Own \/ FC!Php \/ FC!PeerGone
  BY DEF Forward, Await, loop
<1>2. main = "cgi"
  BY CgiSteps DEF BusyInv
<1>3. /\ creq' = creq
      /\ keepalive' =>
           keepalive \/ (creq.version = "HTTP/1.1" /\ ~creq.close)
      /\ fds' = IF cpc = "socket" /\ fds < MaxFds THEN fds + 1 ELSE fds
  BY <1>1, CgiDecides
<1>4. \/ sockets' = sockets /\ fds' = fds
      \/ sockets' = sockets + 1 /\ fds' = fds + 1
  <2>1. CASE Forward
    BY <1>3, <2>1 DEF Forward
  <2>2. CASE Await \/ (FC!PeerGone /\ UNCHANGED <<loop, static>>)
    <3>1. sockets' = sockets
      BY <2>2 DEF Await, loop
    <3>2. cpc # "socket"
      BY <2>2 DEF Await, FC!Php, FC!ReadStdout, FC!ReadOther, FC!EndRequest,
                  FC!PeerGone
    <3>3. QED
      BY <1>3, <3>1, <3>2
  <2>3. QED
    BY <2>1, <2>2
<1>5. StaticInv'
  <2>1. SP!IInv /\ sockets \in Nat /\ unclosed \in Nat /\ fds \in Nat
    BY <1>2, FdsType DEF StaticInv
  <2>2. /\ fds' \in Nat /\ sockets' \in Nat /\ unclosed' = unclosed
        /\ unclosed' + sockets' \in Nat
        /\ fds' = (unclosed' + sockets') + (fds - (unclosed + sockets))
    <3>1. unclosed' = unclosed
      BY <1>1 DEF static
    <3>2. CASE sockets' = sockets /\ fds' = fds
      BY <2>1, <3>1, <3>2
    <3>3. CASE sockets' = sockets + 1 /\ fds' = fds + 1
      BY <2>1, <3>1, <3>3
    <3>4. QED
      BY <1>4, <3>2, <3>3
  <2>3. UNCHANGED <<spc, req, disk, file, resp, out, waiting, churn, stale>>
    BY <1>1 DEF static
  <2>4. SP!IInv'
    BY <2>1, <2>2, <2>3, SP!SharedFds, StaticAssumptions
  <2>5. QED
    BY <1>1, <1>2, <2>1, <2>2, <2>3, <2>4 DEF StaticInv, SP!IInv
<1>6. FP!IInv'
  BY <1>1, OwnSteps, PhpSteps, CgiOthers, FP!StepInv, CgiAssumptions
     DEF CgiInv, FP!Next
<1>7. CgiInv'
  BY <1>1, <1>2, <1>3, <1>6 DEF CgiInv
<1>8. KeepInv'
  <2>1. creq = CgiRequest(msg) /\ msg \in Messages_t /\ msg.parsed
    BY <1>2 DEF CgiInv, LoopInv
  <2>2. QED
    BY <1>1, <1>2, <1>3, <2>1 DEF KeepInv, MayKeep, CgiRequest
<1>9. QED
  BY <1>1, <1>5, <1>7, <1>8 DEF LoopInv

\* Others change the file.
LEMMA ChurnStep ==
  ASSUME ServerInv, SF!Replace \/ SF!Resize, UNCHANGED <<loop, cgi>>
  PROVE  LoopInv' /\ StaticInv' /\ CgiInv' /\ KeepInv'
<1> USE DEF ServerInv
<1>1. UNCHANGED <<main, msg, gone, sockets, taken, cgi>>
  BY DEF loop
<1>2. SP!Replace \/ SP!Resize
  BY <1>1, StaticOthers
<1>3. UNCHANGED <<spc, fds, resp, out, unclosed>>
  BY DEF SF!Replace, SF!Resize, SF!Churn
<1>4. SP!TypeOK' /\ SP!OpenFiles'
  <2>1. SP!TypeOK'
    BY <1>2, SP!ChurnShape, StaticAssumptions DEF StaticInv
  <2>2. QED
    BY <1>1, <1>3, <2>1 DEF StaticInv, SP!OpenFiles, SP!InHand
<1>5. SP!IInv => SP!IInv'
  BY <1>2, SP!ChurnInv, StaticAssumptions
<1>6. StaticInv'
  BY <1>1, <1>3, <1>4, <1>5 DEF StaticInv
<1>7. FP!IInv'
  BY <1>1, <1>3, FdsType, CgiRests DEF CgiInv
<1>8. keepalive' = keepalive /\ creq' = creq
  BY <1>1 DEF cgi
<1>9. QED
  BY <1>1, <1>3, <1>6, <1>7, <1>8 DEF LoopInv, CgiInv, KeepInv, MayKeep

\* What a request has spent is counted, whoever spends it.
LEMMA SpentStep ==
  ASSUME ServerInv, [Next]_vars
  PROVE  SpentInv'
<1>0. /\ fds \in Nat /\ taken \in Nat
      /\ fds <= taken
      /\ spc \in {"access", "fopen"} \/ cpc = "socket" => fds < taken
  BY FdsType DEF ServerInv, LoopInv, SpentInv
<1>1. CASE UNCHANGED <<fds, taken, spc, cpc>>
  BY <1>1 DEF ServerInv, SpentInv
<1>2. ASSUME NEW c \in Clients, Connect(c) \/ Disconnect(c)
      PROVE  SpentInv'
  BY <1>1, <1>2 DEF Connect, Disconnect, static, cgi
<1>3. ASSUME NEW c \in Clients, GetRequest(c)
      PROVE  SpentInv'
  <2>1. fds' = fds /\ taken' = taken + 1
    BY <1>3 DEF GetRequest
  <2>2. QED
    BY <1>0, <2>1 DEF SpentInv
<1>4. CASE Leave \/ UNCHANGED vars
  BY <1>1, <1>4 DEF Leave, vars, loop, static, cgi
<1>5. CASE BadRequest \/ Refuse \/ EndRefused
  BY <1>1, <1>5 DEF BadRequest, Refuse, EndRefused, EndRequest, cgi
<1>6. CASE EndStatic
  <2>1. spc' = "idle" /\ cpc' = cpc /\ UNCHANGED <<fds, taken>>
    BY <1>6 DEF EndStatic, EndRequest, SF!End, cgi
  <2>2. QED
    BY <1>0, <2>1 DEF SpentInv
<1>7. CASE EndCgi
  <2>1. cpc' = "idle" /\ spc' = spc /\ UNCHANGED <<fds, taken>>
    BY <1>7 DEF EndCgi, EndRequest, FC!End, static
  <2>2. QED
    BY <1>0, <2>1 DEF SpentInv
<1>8. CASE ServeStatic
  <2>1. cpc' = cpc /\ taken' = taken /\ SF!Step
    BY <1>8 DEF ServeStatic, loop, cgi
  <2>2. cpc # "socket"
    BY <1>8 DEF ServeStatic, ServerInv, BusyInv
  <2>3. CASE SF!Fopen
    BY <1>0, <2>1, <2>2, <2>3 DEF SF!Fopen, SpentInv
  <2>4. CASE SF!Access
    BY <1>0, <2>1, <2>2, <2>4 DEF SF!Access, SpentInv
  <2>5. CASE ~SF!Fopen /\ ~SF!Access
    <3>1. fds' \in {fds, fds - 1} /\ spc' \notin {"access", "fopen"}
      BY <2>1, <2>5
         DEF SF!Step, SF!Post, SF!FopenFails, SF!Ftell, SF!Head, SF!WholeFile,
             SF!RangeRefused, SF!RangeServed, SF!ReadRange, SF!ReadChunk,
             SF!ReadIdentity, SF!SendResponse, SF!Deliver, SF!Finish
    <3>2. QED
      BY <1>0, <2>1, <2>2, <3>1 DEF SpentInv
  <2>6. QED
    BY <2>3, <2>4, <2>5
<1>9. CASE Forward \/ Await \/ (FC!PeerGone /\ UNCHANGED <<loop, static>>)
  <2>1. spc' = spc /\ taken' = taken /\ (FC!Own \/ FC!Php \/ FC!PeerGone)
    BY <1>9 DEF Forward, Await, loop, static
  <2>2. /\ cpc' # "socket"
        /\ fds' = IF cpc = "socket" /\ fds < MaxFds THEN fds + 1 ELSE fds
    BY <2>1, CgiDecides
  <2>3. spc = "idle"
    <3>1. main = "cgi"
      BY <1>9, CgiSteps DEF ServerInv, BusyInv
    <3>2. QED
      BY <3>1 DEF ServerInv, StaticInv
  <2>4. CASE cpc = "socket"
    BY <1>0, <2>1, <2>2, <2>3, <2>4 DEF SpentInv
  <2>5. CASE cpc # "socket"
    BY <1>0, <2>1, <2>2, <2>3, <2>5 DEF SpentInv
  <2>6. QED
    BY <2>4, <2>5
<1>10. CASE (SF!Replace \/ SF!Resize) /\ UNCHANGED <<loop, cgi>>
  BY <1>1, <1>10 DEF SF!Replace, SF!Resize, SF!Churn, loop, cgi
<1>11. QED
  BY <1>2, <1>3, <1>4, <1>5, <1>6, <1>7, <1>8, <1>9, <1>10
     DEF Next, Loop, Others

-----------------------------------------------------------------------------
(***************************************************************************)
(* The invariant holds.                                                    *)
(***************************************************************************)
LEMMA ServerInit == Init => ServerInv
<1> SUFFICES ASSUME Init PROVE ServerInv
  OBVIOUS
<1>1. SF!Init /\ FC!Init /\ sockets = 0 /\ main = "getRequest"
  BY DEF Init
<1>2. SP!Init
  BY <1>1
     DEF SF!Init, SP!Init, SF!NoRequest, SP!NoRequest, SF!Nodes, SP!Nodes,
         SF!Regular, SP!Regular, SF!Directory, SP!Directory, SF!NoFile, SP!NoFile,
         SF!EmptyResponse, SP!EmptyResponse, SF!Unset, SP!Unset, SF!EmptyStream,
         SP!EmptyStream
<1>3. SP!IInv
  BY <1>2, SP!InitInv, StaticAssumptions
<1>4. FP!IInv
  <2>1. FP!Init
    BY <1>1
       DEF FC!Init, FP!Init, FC!NoRequest, FP!NoRequest, FC!NoScript, FP!NoScript,
           FC!NoReply, FP!NoReply
  <2>2. QED
    BY <2>1, FP!InitInv, CgiAssumptions
<1>5. StaticInv
  BY <1>1, <1>3 DEF SF!Init, StaticInv, SP!IInv
<1>6. LoopInv /\ CgiInv /\ KeepInv
  BY <1>1, <1>4 DEF Init, LoopInv, Stages, CgiInv, KeepInv
<1>7. SpentInv
  BY <1>1 DEF Init, SF!Init, FC!Init, SpentInv
<1>8. QED
  BY <1>5, <1>6, <1>7, BusyInit DEF ServerInv

LEMMA ServerStep == ServerInv /\ [Next]_vars => ServerInv'
<1> SUFFICES ASSUME ServerInv, [Next]_vars PROVE ServerInv'
  OBVIOUS
<1>1. BusyInv'
  BY BusyStep DEF ServerInv
<1>2. LoopInv' /\ StaticInv' /\ CgiInv' /\ KeepInv'
  <2>0. gone \in BOOLEAN
    BY DEF ServerInv, LoopInv
  <2>1. ASSUME NEW c \in Clients, Connect(c) \/ Disconnect(c)
        PROVE  LoopInv' /\ StaticInv' /\ CgiInv' /\ KeepInv'
    BY <2>0, <2>1, QuietStep DEF Connect, Disconnect
  <2>2. CASE Leave
    BY <2>2, QuietStep DEF Leave
  <2>3. CASE UNCHANGED vars
    BY <2>0, <2>3, QuietStep DEF vars, loop
  <2>4. QED
    BY <2>1, <2>2, <2>3, TakeStep, RefusalStep, EndStep, ServeStep, ForwardStep,
       ChurnStep
       DEF Next, Loop, Others
<1>3. QED
  BY <1>1, <1>2, SpentStep DEF ServerInv

\* Every part of the server keeps its invariant, whatever the others do.
THEOREM Invariance == Spec => []ServerInv
BY ServerInit, ServerStep, PTL DEF Spec

-----------------------------------------------------------------------------
(***************************************************************************)
(* The properties.                                                         *)
(***************************************************************************)

\* The parts' types under the names the loop uses.
LEMMA ServerTypes == ServerInv => TypeOK
<1> SUFFICES ASSUME ServerInv PROVE TypeOK
  OBVIOUS
<1>1. SF!TypeOK
  <2>1. SP!TypeOK /\ unclosed \in Nat
    BY DEF ServerInv, StaticInv
  <2>2. QED
    BY <2>1
       DEF SF!TypeOK, SP!TypeOK, SF!Labels, SP!Labels, SF!Serving, SP!Serving,
           SF!HeadersRequest, SP!HeadersRequest, SF!Methode, SP!Methode,
           SF!HTTP_version, SP!HTTP_version, SF!Connection, SP!Connection,
           SF!Range_t, SP!Range_t, SF!Node, SP!Node, SF!FileState, SP!FileState,
           SF!HeadersResponse, SP!HeadersResponse, SF!Unset, SP!Unset,
           SF!Encoding, SP!Encoding, SF!ContentRange, SP!ContentRange,
           SF!Stream, SP!Stream, SF!Framing, SP!Framing
<1>2. FC!TypeOK
  <2>1. FP!TypeOK
    BY DEF ServerInv, CgiInv, FP!IInv
  <2>2. QED
    BY <2>1
       DEF FC!TypeOK, FP!TypeOK, FC!Labels, FP!Labels, FC!Forwarding,
           FP!Forwarding, FC!Request, FP!Request, FC!NoRequest, FP!NoRequest,
           FC!Script, FP!Script, FC!UIntMod, FP!UIntMod, FC!Piece, FP!Piece,
           FC!Reply, FP!Reply
<1>3. QED
  BY <1>1, <1>2 DEF ServerInv, BusyInv, LoopInv, StaticInv, TypeOK

\* The variables of the loop and of both services keep their types, composed as
\* they are when each was proved alone: in particular neither service makes the
\* other's count of descriptors negative.
THEOREM TypeCorrect == Spec => []TypeOK
BY Invariance, ServerTypes, PTL

\* Every descriptor the process holds is accounted for: a socket that sendFCGI() was
\* given, a file left open by a 416, or the file being served; and there is at most
\* one for each request taken.
THEOREM DescriptorsShared == Spec => []DescriptorsAccounted
<1>1. ServerInv => DescriptorsAccounted
  <2> SUFFICES ASSUME ServerInv PROVE DescriptorsAccounted
    OBVIOUS
  <2>1. /\ sockets \in Nat /\ unclosed \in Nat
        /\ fds = (unclosed + sockets) + (IF SP!InHand THEN 1 ELSE 0)
    BY DEF ServerInv, StaticInv, SP!OpenFiles
  <2>2. SF!InHand <=> SP!InHand
    BY DEF SF!InHand, SP!InHand
  <2>3. fds <= taken
    BY DEF ServerInv, SpentInv
  <2>4. QED
    BY <2>1, <2>2, <2>3 DEF DescriptorsAccounted
<1>2. QED
  BY Invariance, <1>1, PTL

\* A request ends without a byte written to its client in one case only.
THEOREM NoSilentEnd == Spec => []NeverSilent
<1>1. ServerInv => NeverSilent
  <2> SUFFICES ASSUME ServerInv, Complete, Silent
               PROVE  main = "cgi" /\ opening = 0 /\ msg.tree.version \notin Known
    BY DEF NeverSilent
  <2>1. out = EmptyStream /\ reply = FP!NoReply
    BY CgiOthers DEF Silent
  <2>2. main # "ending"
    BY <2>1 DEF ServerInv, StaticInv
  <2>3. spc # "answered"
    <3> SUFFICES ASSUME spc = "answered" PROVE FALSE
      OBVIOUS
    <3>1. SP!IInv
      BY DEF ServerInv, StaticInv
    <3>2. out.stage = "body"
      BY <3>1 DEF SP!IInv, SP!BodyInv
    <3>3. QED
      BY <2>1, <3>2 DEF EmptyStream
  <2>4. cpc = "answered" /\ main = "cgi"
    BY <2>2, <2>3 DEF Complete, ServerInv, BusyInv
  <2>5. FP!IInv /\ creq = CgiRequest(msg) /\ opening \in Nat /\ stdout \in Nat
    BY <2>4 DEF ServerInv, CgiInv, FP!IInv, FP!TypeOK
  <2>6. ~reply.prefix /\ reply.next = 0
    BY <2>1 DEF FP!NoReply
  <2>7. creq.version = "other"
    BY <2>4, <2>5, <2>6 DEF FP!IInv, FP!StatusInv, FP!Sent
  <2>8. list = <<>> /\ FP!Upto = stdout /\ opening <= stdout
    BY <2>4, <2>5
       DEF FP!IInv, FP!OrderInv, FP!ListInv, FP!BufferInv, FP!Sent
  <2>9. opening = 0
    BY <2>5, <2>6, <2>8 DEF FP!Upto
  <2>10. QED
    BY <2>4, <2>5, <2>7, <2>9 DEF CgiRequest, Known
<1>2. QED
  BY Invariance, <1>1, PTL

\* A connection is kept only for a client that speaks HTTP/1.1 and did not ask to
\* close, whichever service answered.
THEOREM KeepsAsAsked == Spec => KeptAsAsked
<1>1. ASSUME ServerInv, [Next]_vars, NEW c \in Clients,
             slot[c] = "busy", slot'[c] = "ready"
      PROVE  MayKeep(msg)
  <2>1. slot' # slot
    BY <1>1
  <2>2. main # "getRequest" /\ slot \in [Clients -> {"free", "ready", "busy"}]
        /\ c = client
    BY <1>1 DEF ServerInv, BusyInv
  <2>3. EndRefused \/ EndStatic \/ EndCgi
    <3>1. ~(\E d \in Clients : Connect(d) \/ Disconnect(d) \/ GetRequest(d))
      BY <1>1, <2>2 DEF Connect, Disconnect, GetRequest
    <3>2. ~Leave /\ ~BadRequest /\ ~Refuse /\ ~ServeStatic /\ ~Forward /\ ~Await
          /\ ~Others /\ ~UNCHANGED vars
      BY <2>1 DEF Leave, BadRequest, Refuse, ServeStatic, Forward, Await, Others,
                  vars, loop
    <3>3. QED
      BY <1>1, <3>1, <3>2 DEF Next, Loop
  <2>4. Keeps
    BY <1>1, <2>2, <2>3 DEF EndRefused, EndStatic, EndCgi, EndRequest
  <2>5. \/ main = "static" /\ resp.connection # "CLOSE"
        \/ main = "cgi" /\ keepalive
    BY <2>4 DEF Keeps
  <2>6. QED
    BY <1>1, <2>5 DEF ServerInv, KeepInv
<1>2. ServerInv /\ [Next]_vars =>
        [\A c \in Clients :
           slot[c] = "busy" /\ slot'[c] = "ready" =>
             /\ msg.parsed
             /\ msg.tree.version = "HTTP/1.1"
             /\ msg.tree.connection # "close"]_vars
  BY <1>1 DEF MayKeep
<1>3. QED
  BY Invariance, <1>2, PTL DEF Spec, KeptAsAsked

\* What is proved of each service alone holds of it in the loop, where they share
\* the descriptors and are entered by one thread: a file's bytes are sent as they
\* are, and the script's reply whole.
THEOREM PromisesKept ==
  Spec => [](/\ main = "static" => SF!WellFormedResponse /\ SF!BodyFollowsFile
             /\ FC!ReplyIsWhole /\ FC!CrashesExplained)
<1>1. ServerInv /\ main = "static" => SF!WellFormedResponse /\ SF!BodyFollowsFile
  <2> SUFFICES ASSUME ServerInv, main = "static"
               PROVE  SF!WellFormedResponse /\ SF!BodyFollowsFile
    OBVIOUS
  <2>1. SP!IInv
    BY DEF ServerInv, StaticInv
  <2>2. QED
    BY <2>1
       DEF SP!IInv, SF!BodyFollowsFile, SF!WellFormedResponse,
           SP!WellFormedResponse, SF!RangeNoOverrun, SP!RangeNoOverrun,
           SF!RangePosition, SP!RangePosition, SF!ChunksFollowFile,
           SP!ChunksFollowFile
<1>2. ServerInv => FC!ReplyIsWhole
  <2> SUFFICES ASSUME ServerInv PROVE FC!ReplyIsWhole
    OBVIOUS
  <2>1. FP!ReplyIsWhole
    BY FP!ReplyFollows, CgiAssumptions DEF ServerInv, CgiInv
  <2> USE DEF FC!HasStatus, FP!HasStatus
  <2>2. FC!OutputInOrder
    BY <2>1
       DEF FP!ReplyIsWhole, FC!OutputInOrder, FP!OutputInOrder, FC!Forwarding,
           FP!Forwarding, FC!Upto, FP!Upto
  <2>3. FC!StatusLineWhole /\ FC!KeptReplyDelimited
    BY <2>1
       DEF FP!ReplyIsWhole, FC!StatusLineWhole, FP!StatusLineWhole,
           FC!KeptReplyDelimited, FP!KeptReplyDelimited
  <2>4. QED
    BY <2>2, <2>3 DEF FC!ReplyIsWhole
<1>3. ServerInv => FC!CrashesExplained
  BY DEF ServerInv, CgiInv, FP!IInv, FC!CrashesExplained, FP!CrashesExplained,
         FC!Stray, FP!Stray, FC!SendsBody, FP!SendsBody, FC!StdinLength,
         FP!StdinLength, FC!AtoI, FP!AtoI, FC!AsInt, FP!AsInt, FC!MaxOf, FP!MaxOf,
         FC!MinOf, FP!MinOf, FC!UIntMod, FP!UIntMod, FC!HasStatus, FP!HasStatus
<1>4. QED
  BY Invariance, <1>1, <1>2, <1>3, PTL

-----------------------------------------------------------------------------
(***************************************************************************)
(* One call of getstatus(), by itself.                                     *)
(***************************************************************************)
JudgedInv ==
  /\ tree \in AllTrees
  /\ Judged => verdict = getstatus(tree)

LEMMA JudgedInvariance == JudgeSpec => []JudgedInv
<1>1. JudgeInit => JudgedInv
  BY GetStatusAssumption DEF JudgeInit, JudgedInv, Judged, AllTrees
<1>2. JudgedInv /\ [Judge]_judging => JudgedInv'
  BY DEF Judge, judging, JudgedInv, Judged
<1>3. QED
  BY <1>1, <1>2, PTL DEF JudgeSpec

\* For every tree, and every width of an int: what getstatus() accepts can be
\* served.
THEOREM AcceptedCanBeServed == JudgeSpec => []AcceptedIsServable
<1>1. JudgedInv => AcceptedIsServable
  <2> SUFFICES ASSUME JudgedInv, Accepted
               PROVE  LET r == RequestOf(tree) IN
                      /\ r.methode \in Methode
                      /\ r.version \in HTTP_version
                      /\ r.connection \in Connection
                      /\ r.version = "HTTP1_0" => r.connection = "CLOSE"
                      /\ r.version = "HTTP1_1" =>
                           /\ verdict.request.host
                           /\ r.connection = "CLOSE" <=> tree.connection = "close"
                      /\ r.ranges # Null => Served(r.ranges)
    BY DEF AcceptedIsServable, Served
  <2>1. tree \in AllTrees /\ verdict = getstatus(tree) /\ getstatus(tree).status = 0
    BY DEF JudgedInv, Accepted, Judged
  <2> DEFINE q == getstatus(tree).request
  <2>2. /\ q.methode \in Methode
        /\ q.version \in HTTP_version
        /\ q.connection \in Connection
        /\ q.version = "HTTP1_0" => q.connection = "CLOSE"
        /\ q.version = "HTTP1_1" =>
             q.host /\ (q.connection = "CLOSE" <=> tree.connection = "close")
        /\ q.ranges = IF tree.range = Null THEN Null ELSE FirstRange(tree.range)
    BY <2>1, AcceptedRequest
  <2>3. q.ranges # Null => Served(q.ranges)
    <3>1. tree.range \in Seq(Spec_t) \cup {Null}
      BY <2>1 DEF AllTrees, Trees
    <3>2. QED
      BY <2>2, <3>1, FirstRangeServed
  <2>4. /\ RequestOf(tree).methode = q.methode
        /\ RequestOf(tree).version = q.version
        /\ RequestOf(tree).connection = q.connection
        /\ RequestOf(tree).ranges = q.ranges
    BY DEF RequestOf
  <2>5. verdict.request = q
    BY <2>1
  <2> HIDE DEF q
  <2>6. QED
    BY <2>2, <2>3, <2>4, <2>5
<1>2. QED
  BY JudgedInvariance, <1>1, PTL

\* For every tree: the status is the one rulesSemantic.md asks for, but in the cases
\* that are named.
THEOREM RulesFollowed == JudgeSpec => []StatusFollowsRules
<1>1. JudgedInv => StatusFollowsRules
  <2> SUFFICES ASSUME JudgedInv, Judged
               PROVE  LET s == StatusOf(tree) IN
                      /\ (CalledUnsupported(tree) \/ LengthUnseen(tree) \/ CodingUnseen(tree))
                           <=> s # Ruling(tree)
                      /\ CalledUnsupported(tree) => s = 505
                      /\ LengthUnseen(tree) => s = 400
                      /\ CodingUnseen(tree) => s = 0
    BY StatusGiven DEF JudgedInv, StatusFollowsRules
  <2>1. /\ tree.version \in {"HTTP/1.0", "HTTP/1.1", "HTTP/0.9", "HTTP/2.0", "other"}
        /\ tree.content_length \in BOOLEAN /\ tree.transfer_encoding \in BOOLEAN
        /\ tree.host \in BOOLEAN
    BY DEF JudgedInv, AllTrees, Trees, Known
  <2> USE DEF StatusOf, Ruling, CalledUnsupported, LengthUnseen, CodingUnseen, Known
  <2>2. CASE tree.method = "other"
    BY <2>2
  <2>3. CASE tree.method # "other" /\ tree.version \notin Known
    BY <2>1, <2>3
  <2>4. CASE tree.method # "other" /\ tree.version = "HTTP/1.0"
    BY <2>1, <2>4
  <2>5. CASE tree.method # "other" /\ tree.version = "HTTP/1.1"
    BY <2>1, <2>5
  <2> QED
    BY <2>2, <2>3, <2>4, <2>5
<1>2. QED
  BY JudgedInvariance, <1>1, PTL

\* For every tree, and every width of an int: a first range that an int can hold
\* is served as it was asked, whatever follows it.
THEOREM RangeIsServedAsAsked == JudgeSpec => []RangeAsAsked
<1>1. JudgedInv => RangeAsAsked
  <2> SUFFICES ASSUME JudgedInv, Accepted, tree.range # Null, tree.range # <<>>,
                      tree.range[1].dash, tree.range[1].first # Null,
                      tree.range[1].last # Null, tree.range[1].first <= IntMax,
                      tree.range[1].last \in 1 .. IntMax
               PROVE  RequestOf(tree).ranges =
                        [start |-> tree.range[1].first, end |-> tree.range[1].last]
    BY DEF RangeAsAsked
  <2>1. tree \in AllTrees /\ getstatus(tree).status = 0
    BY DEF JudgedInv, Accepted, Judged
  <2>2. tree.range \in Seq(Spec_t)
    BY <2>1 DEF AllTrees, Trees
  <2>3. tree.range[1].first \in 0 .. IntMax
    <3>1. tree.range[1] \in Spec_t
      BY <2>2
    <3>2. tree.range[1].first \in Number /\ tree.range[1].first >= 0
      BY <3>1 DEF Spec_t
    <3>3. tree.range[1].first \in Int
      BY <3>2, NumberAssumption
    <3>4. IntMax \in Int
      BY WidthAssumption
    <3>5. \A x, y \in Int : x >= 0 /\ x <= y => x \in 0 .. y
      OBVIOUS
    <3>6. QED
      BY <3>2, <3>3, <3>4, <3>5
  <2>4. getstatus(tree).request.ranges = FirstRange(tree.range)
    BY <2>1, AcceptedRequest
  <2>5. QED
    BY <2>2, <2>3, <2>4, FirstRangeExact DEF RequestOf
<1>2. QED
  BY JudgedInvariance, <1>1, PTL
=============================================================================
