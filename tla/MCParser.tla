------------------------------ MODULE MCParser ------------------------------
(***************************************************************************)
(* Requests made of one part that varies and others that do not.           *)
(***************************************************************************)
EXTENDS ParserGrammar

\* The texts of min to max symbols of S.
Strings(S, min, max) == UNION {[1 .. n -> S] : n \in min .. max}

RequestLine(target) == <<"GET", " ">> \o target \o <<" ", "HTTP", "/", "1", ".", "1", CR, LF>>
Field(name, value) == <<name, ":", " ">> \o value \o <<CR, LF>>
Request(fields) == RequestLine(<<"/">>) \o fields \o <<CR, LF>>

Fields(name, values) == {Request(Field(name, v)) : v \in values}

\* h groups, "::" after the first k of them or nowhere (k = -1), then tail.
Groups(n) == [i \in 1 .. 2 * n |-> IF i % 2 = 1 THEN "1" ELSE ":"]
Address(h, k, tail) ==
  IF k = -1 THEN Groups(h) \o tail
  ELSE (IF k = 0 THEN <<":">> ELSE Groups(k)) \o <<":">> \o Groups(h - k) \o tail
Addresses ==
  {<<"[">> \o Address(h, k, tail) \o <<"]">> :
     h \in 0 .. 8, k \in -1 .. 8,
     tail \in {<<>>, <<"1">>, <<"A", "F", "0", "9">>, <<"1", ".", "2", ".", "0", ".", "9">>}}

Hosts ==
  Addresses
    \cup Strings({"1", "A", "a", ".", "%", ":", "[", "]"}, 0, 3)
    \cup {<<"1", ".", "0", ".">> \o o \o <<".", "1">> : o \in Strings({"0", "1", "2", "5", "6"}, 1, 3)}
    \cup {<<"1", ".", "0", ".", "9", ".">> \o o : o \in Strings({"1", "2", "5", "z", ":", " "}, 1, 3)}
    \cup {<<"[", "v", "1", ".">> \o o \o <<"]">> : o \in Strings({"a", ":", "[", "."}, 0, 1)}

Targets ==
  {<<"/">> \o t : t \in Strings({"/", "a", "A", "1", "%", "?", "@"}, 0, 3)}

OneField ==
  Fields("Host", Hosts)
    \cup Fields("Connection", Strings({"z", ",", " ", ";"}, 0, 4))
    \cup Fields("Content-Length", Strings({"1", "z", " ", Tab}, 0, 3))
    \cup Fields("Content-Type",
           {<<"z", "/", "z">> \o v : v \in Strings({"z", ";", "=", " ", DQuote}, 0, 4)})
    \cup Fields("Content-Type",
           {<<"z", "/", "z", ";", "z", "=", DQuote>> \o v \o <<DQuote>> :
              v \in Strings({"z", Backslash, " ", DQuote, Octet8}, 0, 2)})
    \cup Fields("Cookie", Strings({"z", "=", ";", " ", DQuote}, 0, 4))
    \cup Fields("Transfer-Encoding", Strings({"gzip", "z", ",", ";", "=", " "}, 0, 4))
    \cup Fields("Expect", Strings({"100-continue", "z", " "}, 0, 2))
    \cup Fields("z", Strings({"z", " ", CR, LF, Octet8, DQuote}, 0, 4))

Lines ==
  {RequestLine(t) \o <<CR, LF>> : t \in Targets}
    \cup {<<"GET", " ", "/", " ", p, "/", a, ".", b, CR, LF, CR, LF>> :
            p \in {"HTTP", "http", "z"}, a \in {"0", "1"}, b \in {"1", "a"}}
    \cup {m \o <<" ", "/", " ", "HTTP", "/", "1", ".", "1", CR, LF, CR, LF>> :
            m \in Strings({"GET", "!", " ", "@"}, 0, 2)}

\* Two fields, of every pair of these, and a body.
Pairs ==
  LET field == {Field("Host", <<"[", "1", ":", ":", "]">>), Field("Host", <<"a">>),
                Field("Connection", <<"z", " ", "z">>),
                Field("Transfer-Encoding", <<"chunked">>), Field("z", <<CR, LF, " ">>)}
  IN {Request(f \o g) \o <<CR, LF, "z">> : f \in field, g \in field}

\* Every part of these that may have come alone, with the rest of it, an empty
\* line, or nothing after it in memory.
Truncated ==
  LET full == {Request(Field("Host", <<"a", "1">>) \o Field("Connection", <<"z", ",", "z">>)),
               Request(Field("z", <<"1">>) \o Field("Content-Type", <<"z", "/", "z">>)),
               RequestLine(<<"/", "%", "A", "1", "?", "z">>)
                 \o Field("Content-Length", <<"1", "1">>) \o <<CR, LF>>}
      rests(t, n) == {<<>>, <<CR, LF, CR, LF>>, <<"1", CR, LF, CR, LF>>,
                      SubSeq(t, n + 1, Len(t))}
  IN UNION {UNION {{[text |-> SubSeq(t, 1, n), rest |-> r] : r \in rests(t, n)} :
                     n \in 0 .. Len(t) - 1} : t \in full}

\* Longer than LenMod - 1, the last field on both sides of that position.
Z(n) == [i \in 1 .. n |-> "z"]
Long == {Request(Field("z", Z(20)) \o Field("z", Z(n)) \o Field("z", Z(k))) :
           n \in 15 .. 30, k \in 1 .. 20}

\* More children in a node than can be counted: in half as many symbols, and in
\* as many.
Slashes(n) == RequestLine([i \in 1 .. n |-> "/"]) \o <<CR, LF>>
Crowded ==
  {Slashes(n) : n \in LenMod \div 2 - 1 .. LenMod \div 2 + 1}
    \cup {Request(Field("Host", [i \in 1 .. n |-> "-"])) :
            n \in LenMod \div 2 - 1 .. LenMod \div 2 + 1}
    \cup {Request(Field("Host", [i \in 1 .. LenMod |-> "z"]))}
    \cup {Request(Field("z", [i \in 1 .. LenMod |-> " "]))}

MCInputs ==
  {[text |-> t, rest |-> <<>>] : t \in OneField \cup Lines \cup Pairs \cup Long \cup Crowded}
    \cup Truncated
=============================================================================
