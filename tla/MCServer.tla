------------------------------ MODULE MCServer ------------------------------
(***************************************************************************)
(* A small instance of Server: two clients, one message per way through    *)
(* the loop, one small file, short php answers.                            *)
(***************************************************************************)
EXTENDS Server

MCNumber == {0, 1}

Tree(method, version, connection, host) ==
  [method |-> method, version |-> version, connection |-> connection,
   content_length |-> FALSE, transfer_encoding |-> FALSE, host |-> host,
   referer |-> "none", accepts |-> TRUE, range |-> Null]

Get11 == Tree("GET", "HTTP/1.1", "none", TRUE)

ToFile(tree) ==
  [parsed |-> TRUE, php |-> FALSE, tree |-> tree, declared |-> Null,
   body |-> 0, params |-> 0]

ToPhp(tree) == [ToFile(tree) EXCEPT !.php = TRUE]

Garbage == [ToFile(Get11) EXCEPT !.parsed = FALSE]

OneByte == <<[first |-> 1, dash |-> TRUE, last |-> 1]>>
TooFar == <<[first |-> Null, dash |-> TRUE, last |-> Null],
            [first |-> 1, dash |-> TRUE, last |-> 1]>>

MCMessages ==
  {Garbage,
   ToFile(Get11),
   ToFile(Tree("HEAD", "HTTP/1.0", "none", FALSE)),
   ToFile(Tree("POST", "HTTP/1.1", "none", TRUE)),
   ToFile(Tree("GET", "HTTP/1.1", "close", TRUE)),
   ToFile(Tree("GET", "HTTP/1.1", "none", FALSE)),
   ToFile([Get11 EXCEPT !.accepts = FALSE]),
   ToFile([Get11 EXCEPT !.range = OneByte]),
   ToFile([Get11 EXCEPT !.range = TooFar]),
   ToPhp(Get11),
   ToPhp(Tree("GET", "HTTP/1.0", "keep-alive", FALSE)),
   ToPhp(Tree("GET", "other", "none", FALSE)),
   [ToPhp(Tree("POST", "HTTP/1.1", "close", TRUE)) EXCEPT !.declared = 1]}

MCScripts == {[header |-> 1, status |-> Null], [header |-> 1, status |-> 0]}
=============================================================================
