---------------------------- MODULE HttpService -----------------------------
(***************************************************************************)
(* What the main loop of src/server.c promises, without saying how: a      *)
(* connection is ready, its request is taken, and it is answered once, the *)
(* connection then being kept or closed; one request at a time; every      *)
(* request taken is answered unless the process dies of it.                *)
(***************************************************************************)
CONSTANT Clients

VARIABLES
  conn,   \* "free", "ready" (waiting for a request), "busy" (request taken)
  up      \* the process is alive

vars == <<conn, up>>

Init ==
  /\ conn = [c \in Clients |-> "free"]
  /\ up = TRUE

Connect(c) ==
  /\ up
  /\ conn[c] = "free"
  /\ conn' = [conn EXCEPT ![c] = "ready"]
  /\ up' = up

Disconnect(c) ==
  /\ conn[c] = "ready"
  /\ conn' = [conn EXCEPT ![c] = "free"]
  /\ up' = up

Take(c) ==
  /\ up
  /\ conn[c] = "ready"
  /\ \A d \in Clients : conn[d] # "busy"
  /\ conn' = [conn EXCEPT ![c] = "busy"]
  /\ up' = up

Answer(c) ==
  /\ up
  /\ conn[c] = "busy"
  /\ \E next \in {"ready", "free"} : conn' = [conn EXCEPT ![c] = next]
  /\ up' = up

\* Only a request being served can take the process down.
Die ==
  /\ up
  /\ \E c \in Clients : conn[c] = "busy"
  /\ up' = FALSE
  /\ conn' = conn

Next ==
  \/ \E c \in Clients : Connect(c) \/ Disconnect(c) \/ Take(c) \/ Answer(c)
  \/ Die

\* A request that was taken is answered, or the process dies of it.  This is weak
\* fairness of Answer(c) \/ Die, which nothing else disables.
Answered == \A c \in Clients : conn[c] = "busy" ~> conn[c] # "busy" \/ ~up

Spec == Init /\ [][Next]_vars /\ Answered
=============================================================================
