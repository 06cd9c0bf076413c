---------------------------- MODULE ParserProofs ----------------------------
(***************************************************************************)
(* What holds of parser.c for every request, by lemmas about each of its   *)
(* functions, from those about the ways they call one another.             *)
(***************************************************************************)
EXTENDS Parser, WellFoundedInduction, TLAPS

Texts == text \in Seq(Octets) /\ rest \in Seq(Octets \cup {Nul})

\* No count of children can overflow.
Few == 2 * Memory + 2 < LenMod

Marked ==
  {FreedTwice, Lost("ls32"), Lost("IPv6address"), Lost("Transfert_encoding")}
Nodes == [name : Kept, start : Lengths, length : Lengths]
Results ==
  {r \in [length : Lengths \cup {None, Overflow}, children : Nat,
          nodes : SUBSET Nodes, marks : SUBSET Marked] :
     r.length = None => r.nodes = {}}

\* The nodes of these names never cover the zero byte.
Within == {"HTTP_version", "Content_Length", "field_value", "message_body"}

-----------------------------------------------------------------------------
(***************************************************************************)
(* What is said of a call that returns r, where the parent starts at s and *)
(* is l long.  But for its type, all of it is about calls within a memory  *)
(* that is short enough.                                                   *)
(***************************************************************************)
Here(s, l) == s + l <= Memory
Returns(s, l, r) == Short /\ Here(s, l) /\ Found(r)

\* It went on from where it was, in memory; its nodes are where it went.
WentOn(s, l, r) ==
  Returns(s, l, r) =>
    /\ l <= r.length /\ Here(s, r.length)
    /\ \A n \in r.nodes :
         /\ s + l <= n.start /\ n.start + n.length <= s + r.length
         /\ n.name \in Within => ~Covers(n, Len(text))

\* It took at least a symbol.
Took(s, l, r) == Returns(s, l, r) => l < r.length

\* It added at most two children for each symbol it took, and b.
Added(s, l, r, b) ==
  Few /\ Here(s, l) =>
    /\ r.length # Overflow
    /\ Found(r) => r.children <= 2 * (r.length - l) + b
    /\ ~Found(r) => r.children <= 2 * (Memory - s - l) + 2

\* It did not go past an empty line; nor past the end of the text.
Stayed(s, l, r) ==
  Returns(s, l, r) =>
    \A w \in Nat : IsCRLF(w) /\ IsCRLF(w + 2) /\ s + l <= w => s + r.length <= w
StayedInText(s, l, r) ==
  Returns(s, l, r) => (s + l <= Len(text) => s + r.length <= Len(text))

\* It took the end of a line, that of an empty one at most.
Line(start, end) ==
  /\ 2 <= end /\ IsCRLF(end - 2)
  /\ \A w \in Nat : IsCRLF(w) /\ IsCRLF(w + 2) /\ start <= w => end <= w + 2
Ended(s, l, r) == Returns(s, l, r) => Line(s + l, s + r.length)

\* It did not start at the end of a line.
WasNotAtCR(s, l, r) == Returns(s, l, r) => At(s + l) # CR

\* A zero byte it passed is in one of its nodes.
Claimed(s, l, r) ==
  Returns(s, l, r) =>
    \A i \in s + l .. s + r.length - 1 :
      At(i) # Nul \/ \E n \in r.nodes : Covers(n, i)

\* The same of a function, whatever it is called with.
Typed(e) == \A s, l \in Lengths : e[s][l] \in Results
GoesOn(e) == \A s, l \in Lengths : WentOn(s, l, e[s][l])
Takes(e) == \A s, l \in Lengths : Took(s, l, e[s][l])
Adds(e, b) == \A s, l \in Lengths : Added(s, l, e[s][l], b)
Stays(e) == \A s, l \in Lengths : Stayed(s, l, e[s][l])
StaysInText(e) == \A s, l \in Lengths : StayedInText(s, l, e[s][l])
EndsLine(e) == \A s, l \in Lengths : Ended(s, l, e[s][l])
NotAtCR(e) == \A s, l \in Lengths : WasNotAtCR(s, l, e[s][l])
Claims(e) == \A s, l \in Lengths : Claimed(s, l, e[s][l])

\* It never fails; when it does, it leaves no child.
Sure(e) == \A s, l \in Lengths : e[s][l].length # None
Neat(e) == \A s, l \in Lengths : e[s][l].length = None => e[s][l].children = 0

-----------------------------------------------------------------------------
(***************************************************************************)
(* Memory.                                                                 *)
(***************************************************************************)
LEMMA Sizes ==
  ASSUME Texts
  PROVE  /\ Memory \in Nat /\ Len(text) \in Nat /\ Len(rest) \in Nat
         /\ Len(text) < Memory
         /\ LenMod \in Nat /\ LenMod > 0
         /\ Lengths \subseteq Nat /\ 0 \in Lengths
         /\ Few => Short
BY LenModAssumption DEF Texts, Memory, Lengths, Few, Short

\* Nothing that is looked for is past the memory.
LEMMA InMemory ==
  ASSUME Texts, NEW i \in Nat
  PROVE  /\ At(i) # "out" => i < Memory
         /\ At(i) # "out" => At(i) \in Octets \cup {Nul}
         /\ At(Memory) = "out"
         /\ At(Len(text)) = Nul
         /\ i < Len(text) => At(i) \in Octets
<1>1. Memory = Len(text) + 1 + Len(rest) /\ Len(text) \in Nat /\ Len(rest) \in Nat
  BY Sizes DEF Memory
<1>2. i < Len(text) => At(i) \in Octets
  BY <1>1 DEF At, Texts
<1>3. i > Len(text) /\ i <= Len(text) + Len(rest) => At(i) \in Octets \cup {Nul}
  BY <1>1 DEF At, Texts
<1>4. At(Len(text)) = Nul /\ (i = Len(text) => At(i) = Nul)
  BY <1>1 DEF At
<1>5. At(Memory) = "out" /\ (i > Len(text) + Len(rest) => At(i) = "out")
  BY <1>1 DEF At
<1>6. QED
  BY <1>1, <1>2, <1>3, <1>4, <1>5

LEMMA Signs ==
  /\ "out" \notin Octets /\ "out" # Nul /\ Nul \notin Octets
  /\ CR # LF /\ CR # Nul /\ LF # Nul
  /\ "out" \notin Visible /\ CR \notin Visible /\ Nul \notin Visible
BY DEF Octets, Visible, Digits, Letters, Hex, LowerHex, Words, FieldWords,
       TokenSigns, SubDelims, DQuote, Backslash, Octet8, Tab, CR, LF, Nul

\* A sum of lengths is not cut while it is in a short memory.
LEMMA NotCut ==
  ASSUME Texts, NEW n \in Nat
  PROVE  /\ n % LenMod \in Lengths
         /\ Short /\ n <= Memory => n % LenMod = n /\ n \in Lengths
         /\ n \in Lengths => n % LenMod = n
<1>1. LenMod \in Nat \ {0} /\ Memory \in Nat
  BY Sizes
<1>2. n % LenMod \in Lengths
  BY <1>1 DEF Lengths
<1>3. n < LenMod => n % LenMod = n /\ n \in Lengths
  BY <1>1 DEF Lengths
<1>4. Short /\ n <= Memory => n < LenMod
  BY <1>1 DEF Short
<1>5. n \in Lengths => n < LenMod
  BY <1>1 DEF Lengths
<1> QED
  BY <1>2, <1>3, <1>4, <1>5

-----------------------------------------------------------------------------
(***************************************************************************)
(* Single calls.                                                           *)
(***************************************************************************)
LEMMA Parts ==
  /\ \A n \in Lengths \cup {None, Overflow} :
       /\ Goes(n) \in Results
       /\ Goes(n).length = n /\ Goes(n).children = 0 /\ Goes(n).nodes = {}
  /\ \A n \in Lengths :
       /\ Hit(n) \in Results
       /\ Hit(n).length = n /\ Hit(n).children = 1 /\ Hit(n).nodes = {}
  /\ Miss \in Results /\ Miss.length = None /\ Miss.children = 0
  /\ \A r \in Results : Found(r) <=> r.length \in Lengths
BY LenModAssumption DEF Results, Goes, Hit, Miss, Found, None, Overflow, Lengths

LEMMA CharsTyped ==
  ASSUME Texts, NEW S
  PROVE  Typed(Chars(S))
<1> SUFFICES ASSUME NEW s \in Lengths, NEW l \in Lengths
             PROVE  Chars(S)[s][l] \in Results
  BY DEF Typed
<1>1. s \in Nat /\ l \in Nat /\ (l + 1) % LenMod \in Lengths
  BY Sizes, NotCut
<1>2. Chars(S)[s][l] =
        IF At(s + l) \in S THEN Hit((l + 1) % LenMod) ELSE Miss
  BY <1>1 DEF Chars
<1> QED
  BY <1>1, <1>2, Parts

LEMMA PairTyped ==
  ASSUME Texts, NEW x, NEW y
  PROVE  Typed(Pair(x, y))
<1> SUFFICES ASSUME NEW s \in Lengths, NEW l \in Lengths
             PROVE  Pair(x, y)[s][l] \in Results
  BY DEF Typed
<1>1. s \in Nat /\ l \in Nat /\ (l + 2) % LenMod \in Lengths
  BY Sizes, NotCut
<1>2. Pair(x, y)[s][l] =
        IF At(s + l) = x /\ At(s + l + 1) = y THEN Hit((l + 2) % LenMod) ELSE Miss
  BY <1>1 DEF Pair
<1> QED
  BY <1>1, <1>2, Parts

\* A child of one symbol, where it is one of S.
LEMMA CharsAt ==
  ASSUME Texts, NEW S, "out" \notin S, NEW s \in Lengths, NEW l \in Lengths
  PROVE  LET r == Chars(S)[s][l] IN
         /\ ~Found(r) => r.length = None /\ r.children = 0
         /\ Found(r) => At(s + l) \in S /\ r.children = 1 /\ r.nodes = {} 
         /\ Short /\ Found(r) =>
              s + l < Memory /\ r.length = l + 1 /\ r.length \in Lengths
<1>1. s \in Nat /\ l \in Nat /\ (l + 1) % LenMod \in Lengths
  BY Sizes, NotCut
<1>2. Chars(S)[s][l] =
        IF At(s + l) \in S THEN Hit((l + 1) % LenMod) ELSE Miss
  BY <1>1 DEF Chars
<1>3. At(s + l) \in S => s + l < Memory
  BY <1>1, InMemory
<1>4. Short /\ s + l < Memory => (l + 1) % LenMod = l + 1
  BY <1>1, NotCut, Sizes
<1>5. \A n \in Lengths : Found(Hit(n)) /\ Hit(n).length = n
                          /\ Hit(n).children = 1 /\ Hit(n).nodes = {}
  BY Parts
<1>6. ~Found(Miss) /\ Miss.length = None /\ Miss.children = 0
  BY Parts DEF Found, None
<1>7. CASE At(s + l) \in S
  BY <1>1, <1>2, <1>3, <1>4, <1>5, <1>7
<1>8. CASE At(s + l) \notin S
  BY <1>2, <1>6, <1>8
<1> QED
  BY <1>7, <1>8

LEMMA PairAt ==
  ASSUME Texts, NEW x, NEW y, x # "out", y # "out",
         NEW s \in Lengths, NEW l \in Lengths
  PROVE  LET r == Pair(x, y)[s][l] IN
         /\ ~Found(r) => r.length = None /\ r.children = 0
         /\ Found(r) => /\ At(s + l) = x /\ At(s + l + 1) = y
                        /\ r.children = 1 /\ r.nodes = {}
         /\ Short /\ Found(r) =>
              s + l + 1 < Memory /\ r.length = l + 2 /\ r.length \in Lengths
<1>1. s \in Nat /\ l \in Nat /\ (l + 2) % LenMod \in Lengths
  BY Sizes, NotCut
<1>2. Pair(x, y)[s][l] =
        IF At(s + l) = x /\ At(s + l + 1) = y THEN Hit((l + 2) % LenMod) ELSE Miss
  BY <1>1 DEF Pair
<1>3. At(s + l + 1) = y => s + l + 1 < Memory
  BY <1>1, InMemory
<1>4. Short /\ s + l + 1 < Memory => (l + 2) % LenMod = l + 2
  BY <1>1, NotCut, Sizes
<1>5. \A n \in Lengths : Found(Hit(n)) /\ Hit(n).length = n
                          /\ Hit(n).children = 1 /\ Hit(n).nodes = {}
  BY Parts
<1>6. ~Found(Miss) /\ Miss.length = None /\ Miss.children = 0
  BY Parts DEF Found, None
<1>7. CASE At(s + l) = x /\ At(s + l + 1) = y
  <2>1. Pair(x, y)[s][l] = Hit((l + 2) % LenMod)
    BY <1>2, <1>7
  <2> DEFINE r == Pair(x, y)[s][l]
  <2>2. Found(r) /\ r.length = (l + 2) % LenMod /\ r.children = 1 /\ r.nodes = {}
    BY <1>1, <1>5, <2>1
  <2> HIDE DEF r
  <2> QED
    BY <1>1, <1>3, <1>4, <1>7, <2>2 DEF r
<1>8. CASE ~(At(s + l) = x /\ At(s + l + 1) = y)
  BY <1>2, <1>6, <1>8
<1> QED
  BY <1>7, <1>8

\* What one symbol does, or two.
LEMMA CharsDo ==
  ASSUME Texts
  PROVE  \A S : "out" \notin S =>
           /\ Typed(Chars(S)) /\ GoesOn(Chars(S)) /\ Takes(Chars(S))
           /\ Adds(Chars(S), -1) /\ Neat(Chars(S))
           /\ CR \notin S => Stays(Chars(S)) /\ NotAtCR(Chars(S))
           /\ Nul \notin S => StaysInText(Chars(S)) /\ Claims(Chars(S))
<1> SUFFICES ASSUME NEW S, "out" \notin S,
                    NEW s \in Lengths, NEW l \in Lengths
             PROVE  LET r == Chars(S)[s][l] IN
                    /\ WentOn(s, l, r) /\ Took(s, l, r) /\ Added(s, l, r, -1)
                    /\ r.length = None => r.children = 0
                    /\ CR \notin S => Stayed(s, l, r) /\ WasNotAtCR(s, l, r)
                    /\ Nul \notin S => StayedInText(s, l, r) /\ Claimed(s, l, r)
  BY CharsTyped DEF GoesOn, Takes, Adds, Neat, Stays, NotAtCR, StaysInText, Claims
<1> DEFINE r == Chars(S)[s][l]
<1>1. /\ s \in Nat /\ l \in Nat
      /\ ~Found(r) => r.length = None /\ r.children = 0
      /\ Found(r) => At(s + l) \in S /\ r.children = 1 /\ r.nodes = {}
      /\ Short /\ Found(r) => s + l < Memory /\ r.length = l + 1
  BY CharsAt, Sizes
<1> HIDE DEF r
<1>2. WentOn(s, l, r) /\ Took(s, l, r)
  BY <1>1, Sizes DEF WentOn, Took, Returns, Here
<1>3. Added(s, l, r, -1)
  <2>1. r.length # Overflow
    BY <1>1 DEF Found, None, Overflow
  <2>2. ASSUME Few, Here(s, l)
        PROVE  /\ Found(r) => r.children <= 2 * (r.length - l) + (-1)
               /\ ~Found(r) => r.children <= 2 * (Memory - s - l) + 2
    BY <1>1, <2>2, Sizes DEF Here
  <2> QED
    BY <2>1, <2>2 DEF Added
<1>4. r.length = None => r.children = 0
  BY <1>1 DEF Found, None
<1>5. CR \notin S => Stayed(s, l, r) /\ WasNotAtCR(s, l, r)
  BY <1>1, Sizes DEF Stayed, WasNotAtCR, Returns, IsCRLF
<1>6. Nul \notin S => StayedInText(s, l, r) /\ Claimed(s, l, r)
  BY <1>1, Sizes, InMemory DEF StayedInText, Claimed, Returns
<1> QED
  BY <1>2, <1>3, <1>4, <1>5, <1>6 DEF r

\* CRLF is the one that ends a line, and may go past it.
LEMMA PairDoes ==
  ASSUME Texts
  PROVE  \A x, y : x # "out" /\ y # "out" =>
           /\ Typed(Pair(x, y)) /\ GoesOn(Pair(x, y)) /\ Takes(Pair(x, y))
           /\ Adds(Pair(x, y), -1) /\ Neat(Pair(x, y))
           /\ x # CR /\ y # CR => Stays(Pair(x, y)) /\ NotAtCR(Pair(x, y))
           /\ x # Nul /\ y # Nul => StaysInText(Pair(x, y)) /\ Claims(Pair(x, y))
<1> SUFFICES ASSUME NEW x, NEW y, x # "out", y # "out",
                    NEW s \in Lengths, NEW l \in Lengths
             PROVE  LET r == Pair(x, y)[s][l] IN
                    /\ WentOn(s, l, r) /\ Took(s, l, r) /\ Added(s, l, r, -1)
                    /\ r.length = None => r.children = 0
                    /\ x # CR /\ y # CR => Stayed(s, l, r) /\ WasNotAtCR(s, l, r)
                    /\ x # Nul /\ y # Nul => StayedInText(s, l, r) /\ Claimed(s, l, r)
  BY PairTyped DEF GoesOn, Takes, Adds, Neat, Stays, NotAtCR, StaysInText, Claims
<1> DEFINE r == Pair(x, y)[s][l]
<1>1. /\ s \in Nat /\ l \in Nat
      /\ ~Found(r) => r.length = None /\ r.children = 0
      /\ Found(r) => /\ At(s + l) = x /\ At(s + l + 1) = y
                     /\ r.children = 1 /\ r.nodes = {}
      /\ Short /\ Found(r) => s + l + 1 < Memory /\ r.length = l + 2
  BY PairAt, Sizes
<1> HIDE DEF r
<1>2. WentOn(s, l, r) /\ Took(s, l, r)
  BY <1>1, Sizes DEF WentOn, Took, Returns, Here
<1>3. Added(s, l, r, -1) /\ (r.length = None => r.children = 0)
  <2>1. CASE Found(r)
    BY <1>1, <2>1, Sizes DEF Added, Here, None, Overflow, Found
  <2>2. CASE ~Found(r)
    BY <1>1, <2>2, Sizes DEF Added, Here, None, Overflow
  <2> QED
    BY <2>1, <2>2
<1>4. x # CR /\ y # CR => Stayed(s, l, r) /\ WasNotAtCR(s, l, r)
  <2> SUFFICES ASSUME x # CR, y # CR, Returns(s, l, r),
                      NEW w \in Nat, IsCRLF(w), IsCRLF(w + 2), s + l <= w
               PROVE  s + r.length <= w
    BY <1>1 DEF Stayed, WasNotAtCR, Returns
  <2>1. w # s + l /\ w # s + l + 1
    BY <1>1 DEF IsCRLF, Returns
  <2> QED
    BY <1>1, <2>1 DEF Returns
<1>5. x # Nul /\ y # Nul => StayedInText(s, l, r) /\ Claimed(s, l, r)
  <2> SUFFICES ASSUME x # Nul, y # Nul, Returns(s, l, r)
               PROVE  /\ s + l <= Len(text) => s + r.length <= Len(text)
                      /\ \A i \in s + l .. s + r.length - 1 : At(i) # Nul
    BY DEF StayedInText, Claimed
  <2>1. \A i \in s + l .. s + r.length - 1 : At(i) # Nul
    <3> SUFFICES ASSUME NEW i \in s + l .. s + r.length - 1
                 PROVE  At(i) # Nul
      OBVIOUS
    <3>1. i = s + l \/ i = s + l + 1
      BY <1>1 DEF Returns
    <3> QED
      BY <1>1, <3>1 DEF Returns
  <2>2. At(Len(text)) = Nul /\ Len(text) \in Nat
    BY Sizes, InMemory
  <2>3. Len(text) # s + l /\ Len(text) # s + l + 1
    BY <1>1, <2>2 DEF Returns
  <2> QED
    BY <1>1, <2>1, <2>2, <2>3 DEF Returns
<1> QED
  BY <1>2, <1>3, <1>4, <1>5 DEF r

\* What takes nothing.
LEMMA FailDoes ==
  ASSUME Texts
  PROVE  /\ Typed(Fail) /\ GoesOn(Fail) /\ Takes(Fail) /\ Adds(Fail, -1) /\ Neat(Fail)
         /\ Stays(Fail) /\ NotAtCR(Fail) /\ StaysInText(Fail) /\ Claims(Fail)
BY CharsDo DEF Fail

LEMMA MarkDoes ==
  ASSUME Texts
  PROVE  \A m \in Marked :
           /\ Typed(Mark(m)) /\ GoesOn(Mark(m)) /\ Adds(Mark(m), 0)
           /\ Sure(Mark(m)) /\ Neat(Mark(m))
           /\ Stays(Mark(m)) /\ StaysInText(Mark(m)) /\ Claims(Mark(m))
<1> SUFFICES ASSUME NEW m \in Marked, NEW s \in Lengths, NEW l \in Lengths
             PROVE  LET r == Mark(m)[s][l] IN
                    /\ r \in Results /\ WentOn(s, l, r) /\ Added(s, l, r, 0)
                    /\ r.length # None
                    /\ Stayed(s, l, r) /\ StayedInText(s, l, r) /\ Claimed(s, l, r)
  BY DEF Typed, GoesOn, Adds, Sure, Neat, Stays, StaysInText, Claims
<1> DEFINE r == Mark(m)[s][l]
<1>1. r = [Goes(l) EXCEPT !.marks = {m}] /\ s \in Nat /\ l \in Nat
  BY Sizes DEF Mark
<1>2. r \in Results /\ r.length = l /\ r.children = 0 /\ r.nodes = {}
  BY <1>1, Parts DEF Goes, Results
<1> HIDE DEF r
<1>3. WentOn(s, l, r) /\ Added(s, l, r, 0) /\ r.length # None
  BY <1>1, <1>2, Sizes DEF WentOn, Added, Returns, Here, None, Overflow, Found
<1>4. Stayed(s, l, r) /\ StayedInText(s, l, r) /\ Claimed(s, l, r)
  BY <1>1, <1>2, Sizes DEF Stayed, StayedInText, Claimed, Returns
<1> QED
  BY <1>2, <1>3, <1>4 DEF r

LEMMA NotAtDoes ==
  ASSUME Texts
  PROVE  \A x :
           /\ Typed(NotAt(x)) /\ GoesOn(NotAt(x)) /\ Adds(NotAt(x), 0) /\ Neat(NotAt(x))
           /\ Stays(NotAt(x)) /\ StaysInText(NotAt(x)) /\ Claims(NotAt(x))
<1> SUFFICES ASSUME NEW x, NEW s \in Lengths, NEW l \in Lengths
             PROVE  LET r == NotAt(x)[s][l] IN
                    /\ r \in Results /\ WentOn(s, l, r) /\ Added(s, l, r, 0)
                    /\ r.length = None => r.children = 0
                    /\ Stayed(s, l, r) /\ StayedInText(s, l, r) /\ Claimed(s, l, r)
  BY DEF Typed, GoesOn, Adds, Neat, Stays, StaysInText, Claims
<1> DEFINE r == NotAt(x)[s][l]
<1>1. r = (IF At(s + l) = x THEN Miss ELSE Goes(l)) /\ s \in Nat /\ l \in Nat
  BY Sizes DEF NotAt
<1>2. /\ r \in Results /\ r.children = 0
      /\ r.length = None \/ (r.length = l /\ r.nodes = {})
  <2>1. CASE At(s + l) = x
    BY <1>1, <2>1, Parts
  <2>2. CASE At(s + l) # x
    BY <1>1, <2>2, Parts
  <2> QED
    BY <2>1, <2>2
<1> HIDE DEF r
<1>3. r.length # Overflow /\ (Found(r) => r.length = l /\ r.nodes = {})
  BY <1>1, <1>2 DEF Found, None, Overflow
<1>4. WentOn(s, l, r)
  BY <1>1, <1>3, Sizes DEF WentOn, Returns, Here
<1>5. Added(s, l, r, 0)
  BY <1>1, <1>2, <1>3, Sizes DEF Added, Here
<1>6. Stayed(s, l, r) /\ StayedInText(s, l, r) /\ Claimed(s, l, r)
  BY <1>1, <1>3, Sizes DEF Stayed, StayedInText, Claimed, Returns
<1> QED
  BY <1>2, <1>4, <1>5, <1>6 DEF r

-----------------------------------------------------------------------------
(***************************************************************************)
(* One call after another, or instead of it.                               *)
(***************************************************************************)
LEMMA ThenIs ==
  ASSUME NEW r1 \in Results, NEW r2 \in Results
  PROVE  /\ Then(r1, r2) \in Results
         /\ Then(r1, r2).length = r2.length
         /\ Then(r1, r2).children = r1.children + r2.children
         /\ Found(r2) => Then(r1, r2).nodes = r1.nodes \cup r2.nodes
         /\ Found(Then(r1, r2)) <=> Found(r2)
<1>1. ~Found(r2) <=> r2.length \in {None, Overflow}
  BY DEF Results, Found, Lengths, None, Overflow
<1>2. r2.length = None => ~Found(r2)
  BY DEF Found, None
<1> QED
  BY <1>1, <1>2 DEF Then, Results, Found

\* What is said of two calls in turn.
LEMMA InTurn ==
  ASSUME Texts, NEW s \in Lengths, NEW l \in Lengths,
         NEW r1 \in Results, NEW r2 \in Results, Found(r1),
         WentOn(s, l, r1), WentOn(s, r1.length, r2)
  PROVE  LET r == Then(r1, r2) IN
         /\ WentOn(s, l, r)
         /\ Took(s, l, r1) \/ Took(s, r1.length, r2) => Took(s, l, r)
         /\ Stayed(s, l, r1) /\ Stayed(s, r1.length, r2) => Stayed(s, l, r)
         /\ StayedInText(s, l, r1) /\ StayedInText(s, r1.length, r2)
              => StayedInText(s, l, r)
         /\ WasNotAtCR(s, l, r1) => WasNotAtCR(s, l, r)
         /\ Claimed(s, l, r1) /\ Claimed(s, r1.length, r2) => Claimed(s, l, r)
<1> DEFINE r == Then(r1, r2)
           m == r1.length
           k == r2.length
<1>1. /\ r.length = k /\ (Found(r) <=> Found(r2))
      /\ Found(r2) => r.nodes = r1.nodes \cup r2.nodes
  BY ThenIs
<1>2. s \in Nat /\ l \in Nat /\ m \in Nat /\ (Found(r2) => k \in Nat) /\ Memory \in Nat
  BY Parts, Sizes
<1>3. /\ r1.nodes \subseteq Nodes /\ r2.nodes \subseteq Nodes
      /\ \A n \in Nodes : n.start \in Nat /\ n.length \in Nat
  BY Sizes DEF Results, Nodes
<1> HIDE DEF r, m, k
<1>4. ASSUME Returns(s, l, r)
      PROVE  /\ Returns(s, l, r1) /\ Returns(s, m, r2) /\ k \in Nat
             /\ l <= m /\ m <= k /\ s + m <= Memory /\ s + k <= Memory
             /\ r.nodes = r1.nodes \cup r2.nodes
  <2>1. Returns(s, l, r1) /\ Found(r2) /\ k \in Nat
    BY <1>1, <1>2, <1>4 DEF Returns
  <2>2. l <= m /\ s + m <= Memory
    BY <2>1 DEF WentOn, Here, m
  <2>3. Returns(s, m, r2)
    BY <1>4, <2>1, <2>2 DEF Returns, Here
  <2>4. m <= k /\ s + k <= Memory
    BY <2>3 DEF WentOn, Here, m, k
  <2> QED
    BY <1>1, <2>1, <2>2, <2>3, <2>4
<1>5. WentOn(s, l, r)
  <2> SUFFICES ASSUME Returns(s, l, r), NEW n \in r.nodes
               PROVE  /\ s + l <= n.start /\ n.start + n.length <= s + k
                      /\ n.name \in Within => ~Covers(n, Len(text))
    BY <1>1, <1>2, <1>4 DEF WentOn, Here
  <2>1. CASE n \in r1.nodes
    <3>1. /\ s + l <= n.start /\ n.start + n.length <= s + m
          /\ n.name \in Within => ~Covers(n, Len(text))
      BY <1>4, <2>1 DEF WentOn, m
    <3> QED
      BY <1>2, <1>3, <1>4, <2>1, <3>1
  <2>2. CASE n \in r2.nodes
    <3>1. /\ s + m <= n.start /\ n.start + n.length <= s + k
          /\ n.name \in Within => ~Covers(n, Len(text))
      BY <1>4, <2>2 DEF WentOn, m, k
    <3> QED
      BY <1>2, <1>3, <1>4, <2>2, <3>1
  <2> QED
    BY <1>4, <2>1, <2>2
<1>6. Took(s, l, r1) \/ Took(s, m, r2) => Took(s, l, r)
  <2> SUFFICES ASSUME Took(s, l, r1) \/ Took(s, m, r2), Returns(s, l, r)
               PROVE  l < k
    BY <1>1 DEF Took
  <2>1. l < m \/ m < k
    BY <1>4 DEF Took, m, k
  <2> QED
    BY <1>2, <1>4, <2>1
<1>7. Stayed(s, l, r1) /\ Stayed(s, m, r2) => Stayed(s, l, r)
  <2> SUFFICES ASSUME Stayed(s, l, r1), Stayed(s, m, r2), Returns(s, l, r),
                      NEW w \in Nat, IsCRLF(w), IsCRLF(w + 2), s + l <= w
               PROVE  s + k <= w
    BY <1>1 DEF Stayed
  <2>1. s + m <= w
    BY <1>4 DEF Stayed, m
  <2> QED
    BY <1>4, <2>1 DEF Stayed, k
<1>8. StayedInText(s, l, r1) /\ StayedInText(s, m, r2) => StayedInText(s, l, r)
  BY <1>1, <1>4 DEF StayedInText, m, k
<1>9. WasNotAtCR(s, l, r1) => WasNotAtCR(s, l, r)
  BY <1>4 DEF WasNotAtCR
<1>10. Claimed(s, l, r1) /\ Claimed(s, m, r2) => Claimed(s, l, r)
  <2> SUFFICES ASSUME Claimed(s, l, r1), Claimed(s, m, r2), Returns(s, l, r),
                      NEW i \in s + l .. s + k - 1
               PROVE  At(i) # Nul \/ \E n \in r.nodes : Covers(n, i)
    BY <1>1 DEF Claimed
  <2>1. CASE i < s + m
    <3>1. i \in s + l .. s + m - 1
      BY <1>2, <1>4, <2>1
    <3> QED
      BY <1>4, <3>1 DEF Claimed, m
  <2>2. CASE i >= s + m
    <3>1. i \in s + m .. s + k - 1
      BY <1>2, <1>4, <2>2
    <3> QED
      BY <1>4, <3>1 DEF Claimed, k
  <2> QED
    BY <1>2, <1>4, <2>1, <2>2
<1> QED
  BY <1>5, <1>6, <1>7, <1>8, <1>9, <1>10 DEF r, m

LEMMA SeqIs ==
  ASSUME Texts, NEW c, NEW d, Typed(c), Typed(d), NEW s \in Lengths, NEW l \in Lengths
  PROVE  /\ c[s][l] \in Results /\ (c & d)[s][l] \in Results
         /\ ~Found(c[s][l]) => (c & d)[s][l] = c[s][l]
         /\ Found(c[s][l]) =>
              /\ c[s][l].length \in Lengths /\ d[s][c[s][l].length] \in Results
              /\ (c & d)[s][l] = Then(c[s][l], d[s][c[s][l].length])
<1>1. s \in Nat /\ l \in Nat /\ c[s][l] \in Results
  BY Sizes DEF Typed
<1>2. (c & d)[s][l] =
        IF Found(c[s][l]) THEN Then(c[s][l], d[s][c[s][l].length]) ELSE c[s][l]
  BY <1>1 DEF &
<1>3. Found(c[s][l]) =>
        c[s][l].length \in Lengths /\ d[s][c[s][l].length] \in Results
  BY <1>1, Parts DEF Typed
<1> QED
  BY <1>1, <1>2, <1>3, ThenIs

LEMMA SeqDoes ==
  ASSUME Texts
  PROVE  \A c, d : Typed(c) /\ GoesOn(c) /\ Typed(d) /\ GoesOn(d) =>
           /\ Typed(c & d) /\ GoesOn(c & d)
           /\ Takes(c) \/ Takes(d) => Takes(c & d)
           /\ Stays(c) /\ Stays(d) => Stays(c & d)
           /\ StaysInText(c) /\ StaysInText(d) => StaysInText(c & d)
           /\ NotAtCR(c) => NotAtCR(c & d)
           /\ Claims(c) /\ Claims(d) => Claims(c & d)
           /\ Sure(c) /\ Sure(d) => Sure(c & d)
           /\ Neat(c) /\ Sure(d) => Neat(c & d)
<1> SUFFICES ASSUME NEW c, NEW d, Typed(c), GoesOn(c), Typed(d), GoesOn(d),
                    NEW s \in Lengths, NEW l \in Lengths
             PROVE  LET r == (c & d)[s][l] IN
                    /\ r \in Results /\ WentOn(s, l, r)
                    /\ Takes(c) \/ Takes(d) => Took(s, l, r)
                    /\ Stays(c) /\ Stays(d) => Stayed(s, l, r)
                    /\ StaysInText(c) /\ StaysInText(d) => StayedInText(s, l, r)
                    /\ NotAtCR(c) => WasNotAtCR(s, l, r)
                    /\ Claims(c) /\ Claims(d) => Claimed(s, l, r)
                    /\ Sure(c) /\ Sure(d) => r.length # None
                    /\ Neat(c) /\ Sure(d) /\ r.length = None => r.children = 0
  BY DEF Typed, GoesOn, Takes, Stays, StaysInText, NotAtCR, Claims, Sure, Neat
<1>1. CASE ~Found(c[s][l])
  <2>1. (c & d)[s][l] = c[s][l] /\ c[s][l] \in Results
    BY <1>1, SeqIs
  <2> QED
    BY <1>1, <2>1 DEF WentOn, Took, Stayed, StayedInText, WasNotAtCR, Claimed,
                            Returns, Sure, Neat
<1>2. CASE Found(c[s][l])
  <2> DEFINE m == c[s][l].length
  <2>1. /\ c[s][l] \in Results /\ m \in Lengths /\ d[s][m] \in Results
        /\ (c & d)[s][l] = Then(c[s][l], d[s][m]) /\ (c & d)[s][l] \in Results
    BY <1>2, SeqIs
  <2> HIDE DEF m
  <2>2. WentOn(s, l, c[s][l]) /\ WentOn(s, m, d[s][m])
    BY <2>1 DEF GoesOn
  <2>3. Takes(c) \/ Takes(d) => Took(s, l, c[s][l]) \/ Took(s, m, d[s][m])
    BY <2>1 DEF Takes
  <2>4. Stays(c) /\ Stays(d) => Stayed(s, l, c[s][l]) /\ Stayed(s, m, d[s][m])
    BY <2>1 DEF Stays
  <2>5. StaysInText(c) /\ StaysInText(d) =>
          StayedInText(s, l, c[s][l]) /\ StayedInText(s, m, d[s][m])
    BY <2>1 DEF StaysInText
  <2>6. NotAtCR(c) => WasNotAtCR(s, l, c[s][l])
    BY DEF NotAtCR
  <2>7. Claims(c) /\ Claims(d) => Claimed(s, l, c[s][l]) /\ Claimed(s, m, d[s][m])
    BY <2>1 DEF Claims
  <2>8. Sure(d) => (c & d)[s][l].length # None
    BY <2>1, ThenIs DEF Sure
  <2> DEFINE r1 == c[s][l]
             r2 == d[s][m]
             r == (c & d)[s][l]
  <2>9. m = r1.length
    BY DEF m
  <2> HIDE DEF r1, r2, r
  <2>10. /\ WentOn(s, l, r)
         /\ Took(s, l, r1) \/ Took(s, m, r2) => Took(s, l, r)
         /\ Stayed(s, l, r1) /\ Stayed(s, m, r2) => Stayed(s, l, r)
         /\ StayedInText(s, l, r1) /\ StayedInText(s, m, r2) => StayedInText(s, l, r)
         /\ WasNotAtCR(s, l, r1) => WasNotAtCR(s, l, r)
         /\ Claimed(s, l, r1) /\ Claimed(s, m, r2) => Claimed(s, l, r)
    <3>1. /\ r1 \in Results /\ r2 \in Results /\ Found(r1) /\ r = Then(r1, r2)
          /\ WentOn(s, l, r1) /\ WentOn(s, m, r2)
      BY <1>2, <2>1, <2>2 DEF r1, r2, r
    <3> QED
      BY <2>9, <3>1, InTurn
  <2> QED
    BY <2>1, <2>3, <2>4, <2>5, <2>6, <2>7, <2>8, <2>10, Zenon DEF r1, r2, r
<1> QED
  BY <1>1, <1>2

\* Children of both, unless the second can fail after the first was given more
\* than two for each symbol, and leave some.
LEMMA AddedInTurn ==
  ASSUME Texts, NEW s \in Lengths, NEW l \in Lengths,
         NEW r1 \in Results, NEW r2 \in Results, Found(r1),
         WentOn(s, l, r1), NEW b1 \in Int, NEW b2 \in Int, b1 <= 2,
         Added(s, l, r1, b1), Added(s, r1.length, r2, b2),
         b1 <= 0 \/ (r2.length = None => r2.children = 0)
  PROVE  Added(s, l, Then(r1, r2), b1 + b2)
<1> DEFINE r == Then(r1, r2)
           m == r1.length
           k == r2.length
<1>1. r.length = k /\ (Found(r) <=> Found(r2)) /\ r.children = r1.children + r2.children
  BY ThenIs
<1>2. /\ s \in Nat /\ l \in Nat /\ m \in Nat /\ (Found(r2) => k \in Nat)
      /\ Memory \in Nat /\ r1.children \in Nat /\ r2.children \in Nat
  BY Parts, Sizes DEF Results
<1>3. k # Overflow /\ ~Found(r2) => k = None
  BY Parts DEF Results, k
<1> HIDE DEF r, m, k
<1> SUFFICES ASSUME Few, Here(s, l)
             PROVE  Added(s, l, r, b1 + b2)
  BY DEF Added, r
<1>4. l <= m /\ s + m <= Memory /\ Here(s, m)
  BY Sizes DEF WentOn, Returns, Here, m
<1>5. r1.children <= 2 * (m - l) + b1
  BY DEF Added, m
<1>6. /\ k # Overflow
      /\ Found(r2) => r2.children <= 2 * (k - m) + b2
      /\ ~Found(r2) => r2.children <= 2 * (Memory - s - m) + 2
  BY <1>4 DEF Added, m, k
<1>7. ~Found(r2) => r1.children + r2.children <= 2 * (Memory - s - l) + 2
  <2>1. CASE b1 <= 0
    BY <1>2, <1>4, <1>5, <1>6, <2>1
  <2>2. CASE k = None => r2.children = 0
    BY <1>2, <1>3, <1>4, <1>5, <1>6, <2>2
  <2> QED
    BY <2>1, <2>2 DEF k
<1>8. Found(r2) => r1.children + r2.children <= 2 * (k - l) + (b1 + b2)
  BY <1>2, <1>5, <1>6
<1> QED
  BY <1>1, <1>6, <1>7, <1>8 DEF Added

LEMMA SeqAdds ==
  ASSUME Texts
  PROVE  \A c, d : Typed(c) /\ GoesOn(c) /\ Typed(d) /\ GoesOn(d) =>
           \A b1, b2 \in -1 .. 2 :
             Adds(c, b1) /\ Adds(d, b2) /\ (b1 <= 0 \/ Neat(d)) => Adds(c & d, b1 + b2)
<1> SUFFICES ASSUME NEW c, NEW d, Typed(c), GoesOn(c), Typed(d), GoesOn(d),
                    NEW b1 \in -1 .. 2, NEW b2 \in -1 .. 2,
                    Adds(c, b1), Adds(d, b2), b1 <= 0 \/ Neat(d),
                    NEW s \in Lengths, NEW l \in Lengths
             PROVE  Added(s, l, (c & d)[s][l], b1 + b2)
  BY DEF Adds
<1>1. CASE ~Found(c[s][l])
  <2>1. (c & d)[s][l] = c[s][l]
    BY <1>1, SeqIs
  <2> QED
    BY <1>1, <2>1 DEF Adds, Added
<1>2. CASE Found(c[s][l])
  <2> DEFINE m == c[s][l].length
  <2>1. /\ c[s][l] \in Results /\ m \in Lengths /\ d[s][m] \in Results
        /\ (c & d)[s][l] = Then(c[s][l], d[s][m])
    BY <1>2, SeqIs
  <2> HIDE DEF m
  <2>2. WentOn(s, l, c[s][l]) /\ Added(s, l, c[s][l], b1) /\ Added(s, m, d[s][m], b2)
    BY <2>1 DEF GoesOn, Adds
  <2>3. b1 <= 0 \/ (d[s][m].length = None => d[s][m].children = 0)
    BY <2>1 DEF Neat
  <2>4. b1 \in Int /\ b2 \in Int /\ b1 <= 2
    OBVIOUS
  <2> QED
    BY <1>2, <2>1, <2>2, <2>3, <2>4, AddedInTurn DEF m
<1> QED
  BY <1>1, <1>2

LEMMA AltIs ==
  ASSUME Texts, NEW c, NEW d, Typed(c), Typed(d), NEW s \in Lengths, NEW l \in Lengths
  PROVE  LET r == (c | d)[s][l]
             r1 == c[s][l]
             r2 == d[s][l]
         IN  /\ r \in Results /\ r1 \in Results /\ r2 \in Results
             /\ r1.length # None => r = r1
             /\ r1.length = None =>
                  /\ r.length = r2.length /\ r.children = r1.children + r2.children
                  /\ (Found(r) <=> Found(r2)) /\ (Found(r2) => r.nodes = r2.nodes)
<1>1. s \in Nat /\ l \in Nat /\ c[s][l] \in Results /\ d[s][l] \in Results
  BY Sizes DEF Typed
<1>2. (c | d)[s][l] =
        IF c[s][l].length = None THEN Then(c[s][l], d[s][l]) ELSE c[s][l]
  BY <1>1 DEF |
<1>3. c[s][l].length = None => c[s][l].nodes = {}
  BY <1>1 DEF Results
<1>4. CASE c[s][l].length # None
  BY <1>1, <1>2, <1>4
<1>5. CASE c[s][l].length = None
  <2>1. (c | d)[s][l] = Then(c[s][l], d[s][l]) /\ c[s][l].nodes = {}
    BY <1>2, <1>3, <1>5
  <2> DEFINE r == Then(c[s][l], d[s][l])
  <2>2. /\ r \in Results /\ r.length = d[s][l].length
        /\ r.children = c[s][l].children + d[s][l].children
        /\ Found(r) <=> Found(d[s][l])
    BY <1>1, ThenIs
  <2>3. Found(d[s][l]) => r.nodes = c[s][l].nodes \cup d[s][l].nodes
    BY <1>1, ThenIs
  <2>4. c[s][l].nodes \cup d[s][l].nodes = d[s][l].nodes
    BY <2>1
  <2> HIDE DEF r
  <2> QED
    BY <1>1, <1>5, <2>1, <2>2, <2>3, <2>4 DEF r
<1> QED
  BY <1>4, <1>5

LEMMA AltDoes ==
  ASSUME Texts
  PROVE  \A c, d : Typed(c) /\ Typed(d) =>
           /\ Typed(c | d)
           /\ GoesOn(c) /\ GoesOn(d) => GoesOn(c | d)
           /\ Takes(c) /\ Takes(d) => Takes(c | d)
           /\ Stays(c) /\ Stays(d) => Stays(c | d)
           /\ StaysInText(c) /\ StaysInText(d) => StaysInText(c | d)
           /\ NotAtCR(c) /\ NotAtCR(d) => NotAtCR(c | d)
           /\ Claims(c) /\ Claims(d) => Claims(c | d)
           /\ Sure(d) => Sure(c | d)
           /\ Neat(c) /\ Neat(d) => Neat(c | d)
           /\ \A b \in Int : Neat(c) /\ Adds(c, b) /\ Adds(d, b) => Adds(c | d, b)
<1> SUFFICES ASSUME NEW c, NEW d, Typed(c), Typed(d),
                    NEW s \in Lengths, NEW l \in Lengths
             PROVE  LET r == (c | d)[s][l] IN
                    /\ r \in Results
                    /\ GoesOn(c) /\ GoesOn(d) => WentOn(s, l, r)
                    /\ Takes(c) /\ Takes(d) => Took(s, l, r)
                    /\ Stays(c) /\ Stays(d) => Stayed(s, l, r)
                    /\ StaysInText(c) /\ StaysInText(d) => StayedInText(s, l, r)
                    /\ NotAtCR(c) /\ NotAtCR(d) => WasNotAtCR(s, l, r)
                    /\ Claims(c) /\ Claims(d) => Claimed(s, l, r)
                    /\ Sure(d) => r.length # None
                    /\ Neat(c) /\ Neat(d) /\ r.length = None => r.children = 0
                    /\ \A b \in Int : Neat(c) /\ Adds(c, b) /\ Adds(d, b) =>
                                        Added(s, l, r, b)
  BY DEF Typed, GoesOn, Takes, Stays, StaysInText, NotAtCR, Claims, Sure, Neat, Adds
<1> DEFINE r == (c | d)[s][l]
<1>1. r \in Results
  BY AltIs
<1>2. CASE c[s][l].length # None
  <2>1. r = c[s][l]
    BY <1>2, AltIs
  <2> HIDE DEF r
  <2> QED
    BY <1>1, <1>2, <2>1 DEF GoesOn, Takes, Stays, StaysInText, NotAtCR, Claims, Adds, r
<1>3. CASE c[s][l].length = None
  <2> DEFINE r2 == d[s][l]
  <2>1. /\ r.length = r2.length /\ (Found(r) <=> Found(r2))
        /\ Found(r2) => r.nodes = r2.nodes
        /\ r.children = c[s][l].children + r2.children /\ r2.children \in Nat
    BY <1>3, AltIs DEF Results
  <2>2. Neat(c) => r.children = r2.children
    BY <1>3, <2>1 DEF Neat
  <2> HIDE DEF r, r2
  <2>3. GoesOn(d) => WentOn(s, l, r)
    BY <2>1 DEF GoesOn, WentOn, Returns, r2
  <2>4. Takes(d) => Took(s, l, r)
    BY <2>1 DEF Takes, Took, Returns, r2
  <2>5. Stays(d) => Stayed(s, l, r)
    BY <2>1 DEF Stays, Stayed, Returns, r2
  <2>6. StaysInText(d) => StayedInText(s, l, r)
    BY <2>1 DEF StaysInText, StayedInText, Returns, r2
  <2>7. NotAtCR(d) => WasNotAtCR(s, l, r)
    BY <2>1 DEF NotAtCR, WasNotAtCR, Returns, r2
  <2>8. Claims(d) => Claimed(s, l, r)
    BY <2>1 DEF Claims, Claimed, Returns, r2
  <2>9. /\ Sure(d) => r.length # None
        /\ Neat(c) /\ Neat(d) /\ r.length = None => r.children = 0
    BY <2>1, <2>2 DEF Sure, Neat, r2
  <2>10. \A b \in Int : Neat(c) /\ Adds(d, b) => Added(s, l, r, b)
    BY <2>1, <2>2 DEF Adds, Added, r2
  <2> QED
    BY <1>1, <2>3, <2>4, <2>5, <2>6, <2>7, <2>8, <2>9, <2>10 DEF r
<1> QED
  BY <1>2, <1>3

LEMMA OptDoes ==
  ASSUME Texts
  PROVE  \A e : Typed(e) /\ GoesOn(e) =>
           /\ Typed(Opt(e)) /\ GoesOn(Opt(e)) /\ Sure(Opt(e)) /\ Neat(Opt(e))
           /\ Stays(e) => Stays(Opt(e))
           /\ StaysInText(e) => StaysInText(Opt(e))
           /\ Claims(e) => Claims(Opt(e))
           /\ \A b \in 0 .. 2 : Neat(e) /\ Adds(e, b) => Adds(Opt(e), b)
<1> SUFFICES ASSUME NEW e, Typed(e), GoesOn(e), NEW s \in Lengths, NEW l \in Lengths
             PROVE  LET r == Opt(e)[s][l] IN
                    /\ r \in Results /\ WentOn(s, l, r) /\ r.length # None
                    /\ Stays(e) => Stayed(s, l, r)
                    /\ StaysInText(e) => StayedInText(s, l, r)
                    /\ Claims(e) => Claimed(s, l, r)
                    /\ \A b \in 0 .. 2 : Neat(e) /\ Adds(e, b) => Added(s, l, r, b)
  BY DEF Typed, GoesOn, Stays, StaysInText, Claims, Sure, Neat, Adds
<1> DEFINE r1 == e[s][l]
           r == Opt(e)[s][l]
<1>1. s \in Nat /\ l \in Nat /\ r1 \in Results
  BY Sizes DEF Typed
<1>2. r = IF r1.length = None THEN Then(r1, Goes(l)) ELSE r1
  BY <1>1 DEF Opt
<1>3. CASE r1.length # None
  <2>1. r = r1
    BY <1>2, <1>3
  <2> HIDE DEF r
  <2> QED
    BY <1>1, <1>3, <2>1 DEF GoesOn, Stays, StaysInText, Claims, Adds, r
<1>4. CASE r1.length = None
  <2>1. /\ Goes(l) \in Results /\ Goes(l).length = l /\ Goes(l).children = 0
        /\ Goes(l).nodes = {} /\ r1.nodes = {}
    BY <1>1, <1>4, Parts DEF Results
  <2>2. r = Then(r1, Goes(l))
    BY <1>2, <1>4
  <2> HIDE DEF r
  <2>3. /\ r \in Results /\ r.length = l /\ r.children = r1.children + 0
        /\ Found(Goes(l)) => r.nodes = {}
    BY <1>1, <2>1, <2>2, ThenIs
  <2>4. r.nodes = {} /\ l # None
    BY <1>1, <2>1, <2>3 DEF Found, None
  <2>5. Neat(e) => r.children = 0
    BY <1>4, <2>3 DEF Neat, r1
  <2>6. WentOn(s, l, r) /\ Stayed(s, l, r) /\ StayedInText(s, l, r) /\ Claimed(s, l, r)
    BY <1>1, <2>3, <2>4 DEF WentOn, Stayed, StayedInText, Claimed, Returns
  <2>7. Neat(e) => \A b \in 0 .. 2 : Added(s, l, r, b)
    BY <1>1, <2>3, <2>5 DEF Added, Found, Overflow
  <2> QED
    BY <2>3, <2>4, <2>6, <2>7 DEF r
<1> QED
  BY <1>3, <1>4

LEMMA More ==
  ASSUME Texts
  PROVE  \A e : \A b, b2 \in -1 .. 2 : Typed(e) /\ Adds(e, b) /\ b <= b2 => Adds(e, b2)
<1> SUFFICES ASSUME NEW e, NEW b \in -1 .. 2, NEW b2 \in -1 .. 2,
                    Typed(e), Adds(e, b), b <= b2,
                    NEW s \in Lengths, NEW l \in Lengths
             PROVE  Added(s, l, e[s][l], b2)
  BY DEF Adds
<1> DEFINE r == e[s][l]
<1>1. Added(s, l, r, b)
  BY DEF Adds
<1>2. r.children \in Nat /\ l \in Nat /\ (Found(r) => r.length \in Nat)
  BY Sizes, Parts DEF Typed, Results
<1> HIDE DEF r
<1>3. Added(s, l, r, b2)
  BY <1>1, <1>2 DEF Added
<1> QED
  BY <1>3 DEF r

-----------------------------------------------------------------------------
(***************************************************************************)
(* Loops.                                                                  *)
(***************************************************************************)
\* The least number of a set of naturals.
LessThan == OpToRel(<, Nat)

LEMMA LeastOf ==
  ASSUME NEW D, D \subseteq Nat, D # {}
  PROVE  \E j \in D : \A k \in D : j <= k
<1>1. IsWellFoundedOn(LessThan, Nat)
  BY NatLessThanWellFounded DEF LessThan
<1>2. \A x, y \in Nat : <<x, y>> \in LessThan <=> x < y
  BY DEF LessThan, OpToRel
<1>3. PICK j \in D : \A k \in D : ~(<<k, j>> \in LessThan)
  BY <1>1, WFMin
<1>4. \A k \in D : j <= k
  <2> SUFFICES ASSUME NEW k \in D PROVE j <= k
    OBVIOUS
  <2>1. j \in Nat /\ k \in Nat /\ ~(k < j)
    BY <1>2, <1>3
  <2> QED
    BY <2>1
<1> QED
  BY <1>4

\* A function of X can be applied any number of times.
IsRun(X, x, F, n, g) ==
  /\ g \in [0 .. n -> X] /\ g[0] = x
  /\ \A i \in 0 .. n - 1 : g[i + 1] = F[g[i]]

LEMMA RunsExist ==
  ASSUME NEW X, NEW x \in X, NEW F \in [X -> X], NEW n \in Nat
  PROVE  \E g : IsRun(X, x, F, n, g)
<1> DEFINE D == {k \in Nat : ~\E g : IsRun(X, x, F, k, g)}
<1> SUFFICES ASSUME D # {} PROVE FALSE
  OBVIOUS
<1>1. PICK k \in D : \A j \in D : k <= j
  BY LeastOf
<1>2. k # 0
  <2>1. IsRun(X, x, F, 0, [i \in 0 .. 0 |-> x])
    BY DEF IsRun
  <2> QED
    BY <1>1, <2>1
<1>3. k \in Nat /\ k - 1 \in Nat /\ k - 1 \notin D
  BY <1>1, <1>2
<1>4. PICK g : IsRun(X, x, F, k - 1, g)
  BY <1>3
<1> DEFINE h == [i \in 0 .. k |-> IF i < k THEN g[i] ELSE F[g[k - 1]]]
<1>5. g \in [0 .. k - 1 -> X] /\ g[0] = x /\ \A i \in 0 .. k - 2 : g[i + 1] = F[g[i]]
  <2>1. (k - 1) - 1 = k - 2
    BY <1>3
  <2> QED
    BY <1>4, <2>1 DEF IsRun
<1>6. h \in [0 .. k -> X]
  <2> SUFFICES ASSUME NEW i \in 0 .. k
               PROVE  (IF i < k THEN g[i] ELSE F[g[k - 1]]) \in X
    OBVIOUS
  <2>1. k - 1 \in 0 .. k - 1 /\ (i < k => i \in 0 .. k - 1)
    BY <1>3
  <2> QED
    BY <1>5, <2>1
<1>7. h[0] = x
  BY <1>3, <1>5
<1>8. ASSUME NEW i \in 0 .. k - 1 PROVE h[i + 1] = F[h[i]]
  <2>1. i \in 0 .. k /\ i < k /\ i + 1 \in 0 .. k
    BY <1>3
  <2>2. h[i] = g[i] /\ h[i + 1] = IF i + 1 < k THEN g[i + 1] ELSE F[g[k - 1]]
    BY <2>1
  <2> HIDE DEF h
  <2>3. CASE i + 1 < k
    <3>1. i \in 0 .. k - 2
      BY <1>3, <2>3
    <3> QED
      BY <1>5, <2>2, <2>3, <3>1
  <2>4. CASE ~(i + 1 < k)
    <3>1. i = k - 1
      BY <1>3, <2>4
    <3> QED
      BY <2>2, <2>4, <3>1
  <2> QED
    BY <2>3, <2>4
<1>9. IsRun(X, x, F, k, h)
  BY <1>6, <1>7, <1>8 DEF IsRun
<1> QED
  BY <1>1, <1>9

LEMMA RunsAgree ==
  ASSUME NEW X, NEW x \in X, NEW F \in [X -> X], NEW n \in Nat, NEW m \in Nat, n <= m,
         NEW g, NEW h, IsRun(X, x, F, n, g), IsRun(X, x, F, m, h)
  PROVE  g[n] = h[n]
<1> DEFINE D == {i \in 0 .. n : g[i] # h[i]}
<1> SUFFICES ASSUME D # {} PROVE FALSE
  OBVIOUS
<1>1. PICK i \in D : \A j \in D : i <= j
  <2>1. D \subseteq Nat
    OBVIOUS
  <2> HIDE DEF D
  <2> QED
    BY <2>1, LeastOf
<1>2. i # 0
  BY <1>1 DEF IsRun
<1>3. i - 1 \in 0 .. n - 1 /\ i - 1 \in 0 .. m - 1 /\ i - 1 \in 0 .. n /\ (i - 1) + 1 = i
  BY <1>1, <1>2
<1>4. g[i - 1] = h[i - 1]
  BY <1>1, <1>3
<1>5. g[i] = F[g[i - 1]] /\ h[i] = F[h[i - 1]]
  BY <1>3 DEF IsRun
<1> QED
  BY <1>1, <1>4, <1>5

LEMMA Iterates ==
  ASSUME NEW X, NEW x \in X, NEW F \in [X -> X]
  PROVE  \E f \in [Nat -> X] : f[0] = x /\ \A n \in Nat : f[n + 1] = F[f[n]]
<1> DEFINE G(n) == CHOOSE g : IsRun(X, x, F, n, g)
           f == [n \in Nat |-> G(n)[n]]
<1>1. \A n \in Nat : IsRun(X, x, F, n, G(n))
  BY RunsExist
<1> HIDE DEF G
<1>2. f \in [Nat -> X]
  <2> SUFFICES ASSUME NEW n \in Nat PROVE G(n)[n] \in X
    OBVIOUS
  <2> QED
    BY <1>1 DEF IsRun
<1>3. f[0] = x
  BY <1>1 DEF IsRun
<1>4. ASSUME NEW n \in Nat PROVE f[n + 1] = F[f[n]]
  <2>1. n + 1 \in Nat /\ n <= n + 1 /\ n \in 0 .. (n + 1) - 1
    OBVIOUS
  <2>2. IsRun(X, x, F, n, G(n)) /\ IsRun(X, x, F, n + 1, G(n + 1))
    BY <1>1, <2>1
  <2>3. G(n)[n] = G(n + 1)[n]
    BY <2>1, <2>2, RunsAgree
  <2>4. G(n + 1)[n + 1] = F[G(n + 1)[n]]
    BY <2>1, <2>2 DEF IsRun
  <2> QED
    BY <2>1, <2>3, <2>4
<1> QED
  BY <1>2, <1>3, <1>4

LEMMA TurnsAre ==
  ASSUME Texts, NEW e, Typed(e), NEW s \in Lengths
  PROVE  \A n \in Nat, l \in Lengths :
           /\ Turns(e, s)[n][l] \in Results
           /\ e[s][l].length = None => Turns(e, s)[n][l] = Then(e[s][l], Goes(l))
           /\ e[s][l].length # None /\ ~Found(e[s][l]) => Turns(e, s)[n][l] = e[s][l]
           /\ Found(e[s][l]) =>
                Turns(e, s)[n][l] =
                  Then(e[s][l], IF n = 0 THEN Goes(Overflow)
                                ELSE Turns(e, s)[n - 1][e[s][l].length])
<1> DEFINE X == [Lengths -> Results]
           Turn1(l, after) ==
             LET r == e[s][l] IN
             IF r.length = None THEN Then(r, Goes(l))
             ELSE IF ~Found(r) THEN r
             ELSE Then(r, after)
           x == [l \in Lengths |-> Turn1(l, Goes(Overflow))]
           F == [g \in X |-> [l \in Lengths |-> Turn1(l, g[e[s][l].length])]]
<1>1. \A l \in Lengths : /\ e[s][l] \in Results
                         /\ Found(e[s][l]) => e[s][l].length \in Lengths
  BY Parts DEF Typed
<1>2. ASSUME NEW l \in Lengths, NEW r2, Found(e[s][l]) => r2 \in Results
      PROVE  Turn1(l, r2) \in Results
  <2>1. Goes(l) \in Results
    BY Parts
  <2> QED
    BY <1>1, <1>2, <2>1, ThenIs
<1> HIDE DEF Turn1
<1>3. x \in X
  BY <1>2, Parts
<1>4. F \in [X -> X]
  <2> SUFFICES ASSUME NEW g \in X, NEW l \in Lengths
               PROVE  Turn1(l, g[e[s][l].length]) \in Results
    OBVIOUS
  <2> QED
    BY <1>1, <1>2
<1>5. PICK f \in [Nat -> X] : f[0] = x /\ \A n \in Nat : f[n + 1] = F[f[n]]
  <2> HIDE DEF X, F, x
  <2> QED
    BY <1>3, <1>4, Iterates
<1>6. f = [n \in Nat |->
             [l \in Lengths |->
               Turn1(l, IF n = 0 THEN Goes(Overflow) ELSE f[n - 1][e[s][l].length])]]
  <2> SUFFICES ASSUME NEW n \in Nat
               PROVE  f[n] = [l \in Lengths |->
                                Turn1(l, IF n = 0 THEN Goes(Overflow)
                                         ELSE f[n - 1][e[s][l].length])]
    BY <1>5
  <2>1. CASE n = 0
    BY <1>5, <2>1
  <2>2. CASE n # 0
    <3>1. n - 1 \in Nat /\ (n - 1) + 1 = n /\ f[n - 1] \in X
      BY <1>5, <2>2
    <3>2. f[n] = F[f[n - 1]]
      BY <1>5, <3>1
    <3> QED
      BY <2>2, <3>1, <3>2
  <2> QED
    BY <2>1, <2>2
<1>7. Turns(e, s) =
        [n \in Nat |->
           [l \in Lengths |->
             Turn1(l, IF n = 0 THEN Goes(Overflow)
                      ELSE Turns(e, s)[n - 1][e[s][l].length])]]
  BY <1>6 DEF Turns, Turn1
<1>8. ASSUME NEW n \in Nat, NEW l \in Lengths
      PROVE  Turns(e, s)[n][l] =
               Turn1(l, IF n = 0 THEN Goes(Overflow)
                        ELSE Turns(e, s)[n - 1][e[s][l].length])
  <2> DEFINE after(k) == IF n = 0 THEN Goes(Overflow)
                         ELSE Turns(e, s)[n - 1][e[s][k].length]
  <2>1. Turns(e, s)[n] = [k \in Lengths |-> Turn1(k, after(k))]
    BY <1>7
  <2> HIDE DEF after
  <2>2. Turns(e, s)[n][l] = Turn1(l, after(l))
    BY <2>1
  <2> QED
    BY <2>2 DEF after
<1>9. \A n \in Nat, l \in Lengths : Turns(e, s)[n][l] \in Results
  <2> DEFINE D == {n \in Nat : ~\A l \in Lengths : Turns(e, s)[n][l] \in Results}
  <2> SUFFICES ASSUME D # {} PROVE FALSE
    OBVIOUS
  <2>1. PICK n \in D : \A j \in D : n <= j
    BY LeastOf
  <2>2. PICK l \in Lengths : Turns(e, s)[n][l] \notin Results
    BY <2>1
  <2>3. n # 0 => n - 1 \in Nat /\ n - 1 \notin D
    BY <2>1
  <2>4. Found(e[s][l]) => (IF n = 0 THEN Goes(Overflow)
                           ELSE Turns(e, s)[n - 1][e[s][l].length]) \in Results
    BY <1>1, <2>3, Parts
  <2> QED
    BY <1>2, <1>8, <2>1, <2>2, <2>4
<1> QED
  BY <1>8, <1>9 DEF Turn1, Found, None

\* What is said of a turn is said of the loop.
LEMMA LoopGoesOn ==
  ASSUME Texts, NEW e, Typed(e), GoesOn(e), NEW s \in Lengths
  PROVE  \A n \in Nat, l \in Lengths :
           LET r == Turns(e, s)[n][l] IN
           /\ WentOn(s, l, r) /\ r.length # None
           /\ Stays(e) => Stayed(s, l, r)
           /\ StaysInText(e) => StayedInText(s, l, r)
           /\ Claims(e) => Claimed(s, l, r)
<1> DEFINE Good(l, r) ==
             /\ WentOn(s, l, r) /\ r.length # None
             /\ Stays(e) => Stayed(s, l, r)
             /\ StaysInText(e) => StayedInText(s, l, r)
             /\ Claims(e) => Claimed(s, l, r)
           D == {n \in Nat : ~\A l \in Lengths : Good(l, Turns(e, s)[n][l])}
<1> SUFFICES ASSUME D # {} PROVE FALSE
  OBVIOUS
<1>1. PICK n \in D : \A j \in D : n <= j
  <2>1. D \subseteq Nat
    OBVIOUS
  <2> HIDE DEF D
  <2> QED
    BY <2>1, LeastOf
<1>2. PICK l \in Lengths : ~Good(l, Turns(e, s)[n][l])
  BY <1>1
<1>3. n \in Nat /\ (n # 0 => n - 1 \in Nat /\ n - 1 \notin D)
  BY <1>1
<1>4. n # 0 => \A m \in Lengths : Good(m, Turns(e, s)[n - 1][m])
  BY <1>3
<1> HIDE DEF D
<1>5. ASSUME NEW m \in Lengths, NEW r \in Results, ~Found(r), r.length # None
      PROVE  Good(m, r)
  BY <1>5 DEF WentOn, Stayed, StayedInText, Claimed, Returns
<1>6. /\ Goes(Overflow) \in Results /\ ~Found(Goes(Overflow))
      /\ Goes(Overflow).length = Overflow /\ Overflow # None
  BY Parts DEF Found, Overflow, None
<1> DEFINE r1 == e[s][l]
           r == Turns(e, s)[n][l]
<1>7. r1 \in Results /\ r \in Results /\ s \in Nat /\ l \in Nat
  BY <1>3, TurnsAre, Sizes DEF Typed
<1>8. CASE r1.length = None
  <2>1. /\ Goes(l) \in Results /\ Goes(l).length = l /\ Goes(l).nodes = {}
        /\ r1.nodes = {} /\ Found(Goes(l))
    BY <1>7, <1>8, Parts DEF Results
  <2>2. r = Then(r1, Goes(l))
    BY <1>3, <1>8, TurnsAre
  <2> HIDE DEF r
  <2>3. r.length = l /\ r.nodes = {} /\ l # None
    BY <1>7, <2>1, <2>2, ThenIs DEF None
  <2>4. Good(l, r)
    BY <1>7, <2>3 DEF WentOn, Stayed, StayedInText, Claimed, Returns
  <2> QED
    BY <1>2, <2>4 DEF r
<1>9. CASE r1.length # None /\ ~Found(r1)
  <2>1. r = r1
    BY <1>3, <1>9, TurnsAre
  <2> QED
    BY <1>2, <1>5, <1>7, <1>9, <2>1
<1>10. CASE Found(r1)
  <2> DEFINE m == r1.length
             r2 == IF n = 0 THEN Goes(Overflow) ELSE Turns(e, s)[n - 1][m]
  <2>1. m \in Lengths
    BY <1>7, <1>10, Parts
  <2>2. r2 \in Results
    BY <1>3, <1>6, <2>1, TurnsAre
  <2>3. r = Then(r1, r2)
    BY <1>3, <1>10, TurnsAre
  <2>4. Good(m, r2)
    <3>1. CASE n = 0
      BY <1>5, <1>6, <2>1, <3>1
    <3>2. CASE n # 0
      BY <1>4, <2>1, <3>2
    <3> QED
      BY <3>1, <3>2
  <2>5. /\ WentOn(s, l, r1)
        /\ Stays(e) => Stayed(s, l, r1)
        /\ StaysInText(e) => StayedInText(s, l, r1)
        /\ Claims(e) => Claimed(s, l, r1)
    BY DEF GoesOn, Stays, StaysInText, Claims
  <2> HIDE DEF r, r1, r2
  <2>6. Good(l, Then(r1, r2))
    BY <1>7, <1>10, <2>2, <2>4, <2>5, InTurn, ThenIs
  <2> QED
    BY <1>2, <2>3, <2>6 DEF r
<1> QED
  BY <1>8, <1>9, <1>10

\* It is over where the memory is, after a turn for each symbol.
LEMMA LoopAdds ==
  ASSUME Texts, NEW e, Typed(e), GoesOn(e), Takes(e), Neat(e), Adds(e, 0),
         NEW s \in Lengths
  PROVE  \A n \in Nat, l \in Lengths :
           Memory - s - l <= n => Added(s, l, Turns(e, s)[n][l], 0)
<1> DEFINE D == {n \in Nat : ~\A l \in Lengths :
                    Memory - s - l <= n => Added(s, l, Turns(e, s)[n][l], 0)}
<1> SUFFICES ASSUME D # {} PROVE FALSE
  OBVIOUS
<1>1. PICK n \in D : \A j \in D : n <= j
  <2>1. D \subseteq Nat
    OBVIOUS
  <2> HIDE DEF D
  <2> QED
    BY <2>1, LeastOf
<1>2. PICK l \in Lengths : Memory - s - l <= n /\ ~Added(s, l, Turns(e, s)[n][l], 0)
  BY <1>1
<1>3. n \in Nat /\ (n # 0 => n - 1 \in Nat /\ n - 1 \notin D)
  BY <1>1
<1>4. n # 0 => \A m \in Lengths :
                 Memory - s - m <= n - 1 => Added(s, m, Turns(e, s)[n - 1][m], 0)
  BY <1>3
<1> HIDE DEF D
<1> DEFINE r1 == e[s][l]
           r == Turns(e, s)[n][l]
<1>5. /\ r1 \in Results /\ r \in Results /\ s \in Nat /\ l \in Nat /\ Memory \in Nat
      /\ Few => Short
  BY <1>3, TurnsAre, Sizes DEF Typed
<1>6. WentOn(s, l, r1) /\ Took(s, l, r1) /\ Added(s, l, r1, 0)
  BY DEF GoesOn, Takes, Adds
<1>7. Few /\ Here(s, l)
  BY <1>2 DEF Added
<1>8. CASE r1.length = None
  <2>1. /\ Goes(l) \in Results /\ Goes(l).length = l /\ Goes(l).children = 0
        /\ Found(Goes(l)) /\ r1.children = 0
    BY <1>7, <1>8, Parts DEF Neat
  <2>2. r = Then(r1, Goes(l))
    BY <1>3, <1>8, TurnsAre
  <2> HIDE DEF r, r1
  <2>3. r.length = l /\ r.children = 0 /\ Found(r)
    BY <1>5, <2>1, <2>2, ThenIs
  <2>4. Added(s, l, r, 0)
    BY <1>5, <2>3 DEF Added, Overflow
  <2> QED
    BY <1>2, <2>4 DEF r
<1>9. CASE r1.length # None /\ ~Found(r1)
  <2>1. r1.length = Overflow
    BY <1>5, <1>9, Parts DEF Results
  <2> QED
    BY <1>6, <1>7, <2>1 DEF Added
<1>10. CASE Found(r1)
  <2> DEFINE m == r1.length
             r2 == Turns(e, s)[n - 1][m]
  <2>1. m \in Lengths /\ m \in Nat
    BY <1>5, <1>10, Parts, Sizes
  <2>2. Returns(s, l, r1)
    BY <1>5, <1>7, <1>10 DEF Returns
  <2>3. l < m /\ s + m <= Memory
    BY <1>6, <2>2 DEF WentOn, Took, Here
  <2>4. n # 0 /\ Memory - s - m <= n - 1
    BY <1>2, <1>3, <1>5, <2>1, <2>3
  <2>5. r2 \in Results /\ WentOn(s, m, r2) /\ r2.length # None
    BY <1>3, <2>1, <2>4, TurnsAre, LoopGoesOn
  <2>6. Added(s, m, r2, 0)
    BY <1>4, <2>1, <2>4
  <2>7. r = Then(r1, r2)
    BY <1>3, <1>10, <2>4, TurnsAre
  <2> HIDE DEF r, r1, r2
  <2>8. Added(s, l, Then(r1, r2), 0 + 0)
    BY <1>5, <1>6, <1>10, <2>5, <2>6, AddedInTurn
  <2> QED
    BY <1>2, <2>7, <2>8 DEF r
<1> QED
  BY <1>8, <1>9, <1>10

LEMMA StarDoes ==
  ASSUME Texts
  PROVE  \A e : Typed(e) /\ GoesOn(e) =>
           /\ Typed(Star(e)) /\ GoesOn(Star(e)) /\ Sure(Star(e)) /\ Neat(Star(e))
           /\ Stays(e) => Stays(Star(e))
           /\ StaysInText(e) => StaysInText(Star(e))
           /\ Claims(e) => Claims(Star(e))
           /\ Takes(e) /\ Neat(e) /\ Adds(e, 0) => Adds(Star(e), 0)
<1> SUFFICES ASSUME NEW e, Typed(e), GoesOn(e), NEW s \in Lengths, NEW l \in Lengths
             PROVE  LET r == Star(e)[s][l] IN
                    /\ r \in Results /\ WentOn(s, l, r) /\ r.length # None
                    /\ Stays(e) => Stayed(s, l, r)
                    /\ StaysInText(e) => StayedInText(s, l, r)
                    /\ Claims(e) => Claimed(s, l, r)
                    /\ Takes(e) /\ Neat(e) /\ Adds(e, 0) => Added(s, l, r, 0)
  BY DEF Typed, GoesOn, Stays, StaysInText, Claims, Sure, Neat, Adds
<1>1. Star(e)[s][l] = Turns(e, s)[LenMod][l] /\ LenMod \in Nat
  BY Sizes DEF Star
<1>2. ASSUME Takes(e), Neat(e), Adds(e, 0)
      PROVE  Added(s, l, Turns(e, s)[LenMod][l], 0)
  <2>1. Few => Memory - s - l <= LenMod
    BY Sizes DEF Short
  <2>2. Few => Added(s, l, Turns(e, s)[LenMod][l], 0)
    BY <1>1, <1>2, <2>1, LoopAdds
  <2> QED
    BY <2>2 DEF Added
<1> QED
  BY <1>1, <1>2, TurnsAre, LoopGoesOn

-----------------------------------------------------------------------------
(***************************************************************************)
(* Nodes of their own.                                                     *)
(***************************************************************************)
LEMMA TmpIs ==
  ASSUME Texts, NEW e, Typed(e), NEW s \in Lengths, NEW l \in Lengths
  PROVE  LET own == (s + l) % LenMod
             r1 == e[own][0]
             r == Tmp(e)[s][l]
         IN  /\ own \in Lengths /\ r1 \in Results /\ r \in Results
             /\ r1.children >= LenMod => r.length = Overflow
             /\ r1.children < LenMod =>
                  /\ Found(r1) => /\ r.length = (l + r1.length) % LenMod
                                  /\ Found(r) /\ r.nodes = r1.nodes
                                  /\ r.children = r1.children
                  /\ ~Found(r1) => r.length = r1.length
             /\ r.length = None => r.children = 0 /\ r1.length = None
<1> DEFINE own == (s + l) % LenMod
           r1 == e[own][0]
           r == Tmp(e)[s][l]
<1>1. own \in Lengths /\ s \in Nat /\ l \in Nat /\ 0 \in Lengths
  BY Sizes, NotCut
<1>2. r1 \in Results
  BY <1>1 DEF Typed
<1>3. r = IF r1.children >= LenMod THEN [r1 EXCEPT !.length = Overflow]
          ELSE IF Found(r1) THEN [r1 EXCEPT !.length = (l + @) % LenMod]
          ELSE [r1 EXCEPT !.children = 0]
  BY <1>1 DEF Tmp
<1> HIDE DEF r, r1, own
<1>4. /\ LenMod \in Nat /\ r1.children \in Nat
      /\ Found(r1) => r1.length \in Nat /\ (l + r1.length) % LenMod \in Lengths
  <2>1. LenMod \in Nat /\ r1.children \in Nat /\ (Found(r1) => r1.length \in Nat)
    BY <1>2, Sizes, Parts DEF Results
  <2>2. Found(r1) => l + r1.length \in Nat
    BY <1>1, <2>1
  <2> QED
    BY <2>1, <2>2, NotCut
<1>5. CASE r1.children >= LenMod
  <2>1. r = [r1 EXCEPT !.length = Overflow]
    BY <1>3, <1>5
  <2>2. r \in Results /\ r.length = Overflow /\ r.length # None
    BY <1>2, <2>1 DEF Results, Overflow, None
  <2> QED
    BY <1>1, <1>2, <1>4, <1>5, <2>2 DEF r, r1, own
<1>6. CASE r1.children < LenMod /\ Found(r1)
  <2>1. r = [r1 EXCEPT !.length = (l + @) % LenMod]
    BY <1>3, <1>4, <1>6
  <2>2. (l + r1.length) % LenMod \in Lengths
    BY <1>4, <1>6
  <2>3. /\ r.length = (l + r1.length) % LenMod /\ r.nodes = r1.nodes
        /\ r.children = r1.children
    BY <1>2, <2>1 DEF Results
  <2>4. r.length \in Nat /\ Found(r)
    BY <2>2, <2>3, Sizes DEF Found
  <2>5. r \in Results
    BY <1>2, <2>1, <2>2, <2>3, <2>4 DEF Results, None
  <2> QED
    BY <1>1, <1>2, <1>4, <1>6, <2>3, <2>4, <2>5 DEF None, r, r1, own
<1>7. CASE r1.children < LenMod /\ ~Found(r1)
  <2>1. r = [r1 EXCEPT !.children = 0]
    BY <1>3, <1>4, <1>7
  <2>2. r \in Results /\ r.length = r1.length /\ r.children = 0
    BY <1>2, <2>1 DEF Results
  <2> QED
    BY <1>1, <1>2, <1>4, <1>7, <2>2 DEF r, r1, own
<1>8. r1.children >= LenMod \/ r1.children < LenMod
  BY <1>4
<1> QED
  BY <1>5, <1>6, <1>7, <1>8, Zenon

LEMMA TmpDoes ==
  ASSUME Texts
  PROVE  \A e : Typed(e) /\ GoesOn(e) =>
           /\ Typed(Tmp(e)) /\ GoesOn(Tmp(e)) /\ Neat(Tmp(e))
           /\ Sure(e) => Sure(Tmp(e))
           /\ Takes(e) => Takes(Tmp(e))
           /\ Stays(e) => Stays(Tmp(e))
           /\ StaysInText(e) => StaysInText(Tmp(e))
           /\ EndsLine(e) => EndsLine(Tmp(e))
           /\ NotAtCR(e) => NotAtCR(Tmp(e))
           /\ Claims(e) => Claims(Tmp(e))
           /\ \A b \in -1 .. 2 : Adds(e, b) => Adds(Tmp(e), b)
<1> SUFFICES ASSUME NEW e, Typed(e), GoesOn(e), NEW s \in Lengths, NEW l \in Lengths
             PROVE  LET r == Tmp(e)[s][l] IN
                    /\ r \in Results /\ WentOn(s, l, r)
                    /\ r.length = None => r.children = 0
                    /\ Sure(e) => r.length # None
                    /\ Takes(e) => Took(s, l, r)
                    /\ Stays(e) => Stayed(s, l, r)
                    /\ StaysInText(e) => StayedInText(s, l, r)
                    /\ EndsLine(e) => Ended(s, l, r)
                    /\ NotAtCR(e) => WasNotAtCR(s, l, r)
                    /\ Claims(e) => Claimed(s, l, r)
                    /\ \A b \in -1 .. 2 : Adds(e, b) => Added(s, l, r, b)
  BY DEF Typed, GoesOn, Neat, Sure, Takes, Stays, StaysInText, EndsLine, NotAtCR,
         Claims, Adds
<1> DEFINE own == (s + l) % LenMod
           r1 == e[own][0]
           r == Tmp(e)[s][l]
<1>1. /\ own \in Lengths /\ r1 \in Results /\ r \in Results /\ 0 \in Lengths
      /\ s \in Nat /\ l \in Nat /\ LenMod \in Nat /\ Memory \in Nat /\ (Few => Short)
  BY TmpIs, Sizes
<1>2. r.length = None => r.children = 0 /\ r1.length = None
  BY TmpIs
<1>3. /\ r1.children >= LenMod => r.length = Overflow
      /\ r1.children < LenMod =>
           /\ Found(r1) => /\ r.length = (l + r1.length) % LenMod
                           /\ Found(r) /\ r.nodes = r1.nodes
                           /\ r.children = r1.children
           /\ ~Found(r1) => r.length = r1.length
  BY TmpIs
<1>4. r1.children \in Nat /\ (Found(r1) <=> r1.length \in Lengths) /\ Lengths \subseteq Nat
  BY <1>1, Parts, Sizes DEF Results
<1>5. Short /\ Here(s, l) => own = s + l /\ Here(own, 0) /\ own \in Nat
  <2> SUFFICES ASSUME Short, Here(s, l)
               PROVE  own = s + l /\ Here(own, 0) /\ own \in Nat
    OBVIOUS
  <2>1. s + l \in Nat /\ s + l <= Memory
    BY <1>1 DEF Here
  <2>2. own = s + l
    BY <2>1, NotCut
  <2> HIDE DEF own
  <2> QED
    BY <2>1, <2>2 DEF Here
<1>6. WentOn(own, 0, r1) /\ (Takes(e) => Took(own, 0, r1))
  BY <1>1 DEF GoesOn, Takes
<1>7. /\ Stays(e) => Stayed(own, 0, r1)
      /\ StaysInText(e) => StayedInText(own, 0, r1)
      /\ EndsLine(e) => Ended(own, 0, r1)
      /\ NotAtCR(e) => WasNotAtCR(own, 0, r1)
      /\ Claims(e) => Claimed(own, 0, r1)
      /\ \A b \in -1 .. 2 : Adds(e, b) => Added(own, 0, r1, b)
  BY <1>1 DEF Stays, StaysInText, EndsLine, NotAtCR,
         Claims, Adds
<1>8. Sure(e) => r1.length # None
  BY <1>1 DEF Sure
<1> HIDE DEF r, r1, own
<1>9. ASSUME Short, Here(s, l), Found(r1), r1.children < LenMod
      PROVE  /\ Returns(own, 0, r1) /\ own = s + l
             /\ r1.length \in Nat /\ r.length = l + r1.length
             /\ r.nodes = r1.nodes /\ r.children = r1.children
             /\ s + r.length = own + r1.length /\ s + r.length <= Memory
             /\ s + l = own + 0
  <2>1. Returns(own, 0, r1) /\ r1.length \in Nat /\ own \in Nat
    BY <1>4, <1>5, <1>9 DEF Returns
  <2>2. own + r1.length <= Memory /\ own = s + l
    BY <1>5, <1>6, <1>9, <2>1 DEF WentOn, Here
  <2>3. l + r1.length <= Memory /\ l + r1.length \in Nat
    BY <1>1, <2>1, <2>2
  <2>4. (l + r1.length) % LenMod = l + r1.length
    BY <1>9, <2>3, NotCut
  <2> QED
    BY <1>1, <1>3, <1>9, <2>1, <2>2, <2>4
<1>10. Returns(s, l, r) => Short /\ Here(s, l) /\ Found(r1) /\ r1.children < LenMod
  <2> SUFFICES ASSUME Returns(s, l, r) PROVE Found(r1) /\ r1.children < LenMod
    BY DEF Returns
  <2>1. r.length # Overflow /\ Found(r)
    BY DEF Returns, Found, Overflow
  <2>2. r1.children < LenMod
    BY <1>1, <1>3, <1>4, <2>1
  <2>3. ~Found(r1) => r.length = r1.length
    BY <1>3, <2>2
  <2> QED
    BY <2>1, <2>2, <2>3 DEF Found
<1>11. WentOn(s, l, r) /\ (Takes(e) => Took(s, l, r))
  <2> SUFFICES ASSUME Returns(s, l, r)
               PROVE  WentOn(s, l, r) /\ (Takes(e) => Took(s, l, r))
    BY DEF WentOn, Took
  <2>1. /\ Returns(own, 0, r1) /\ own = s + l /\ r1.length \in Nat
        /\ r.length = l + r1.length /\ r.nodes = r1.nodes
        /\ s + r.length = own + r1.length /\ s + r.length <= Memory
    BY <1>9, <1>10
  <2>2. \A n \in r1.nodes :
          /\ own + 0 <= n.start /\ n.start + n.length <= own + r1.length
          /\ n.name \in Within => ~Covers(n, Len(text))
    BY <1>6, <2>1 DEF WentOn
  <2>3. Takes(e) => 0 < r1.length
    BY <1>6, <2>1 DEF Took
  <2>4. own + 0 = s + l /\ l <= r.length
    BY <1>1, <2>1
  <2>5. WentOn(s, l, r)
    BY <2>1, <2>2, <2>4 DEF WentOn, Here
  <2>6. Takes(e) => l < r.length
    BY <1>1, <2>1, <2>3
  <2> QED
    BY <2>5, <2>6 DEF Took
<1>12. Stays(e) => Stayed(s, l, r)
  BY <1>7, <1>9, <1>10 DEF Stayed
<1>13. StaysInText(e) => StayedInText(s, l, r)
  BY <1>7, <1>9, <1>10 DEF StayedInText
<1>14. /\ NotAtCR(e) => WasNotAtCR(s, l, r)
       /\ EndsLine(e) => Ended(s, l, r)
  <2>1. NotAtCR(e) => WasNotAtCR(s, l, r)
    BY <1>7, <1>9, <1>10 DEF WasNotAtCR
  <2>2. ASSUME EndsLine(e), Returns(s, l, r)
        PROVE  Ended(s, l, r)
    <3>1. Ended(own, 0, r1) /\ Returns(own, 0, r1)
      BY <1>7, <1>9, <1>10, <2>2
    <3>2. s + r.length = own + r1.length /\ s + l = own + 0
      BY <1>9, <1>10, <2>2
    <3> QED
      BY <3>1, <3>2 DEF Ended
  <2>3. EndsLine(e) => Ended(s, l, r)
    BY <2>2 DEF Ended
  <2> QED
    BY <2>1, <2>3
<1>15. Claims(e) => Claimed(s, l, r)
  <2> SUFFICES ASSUME Claims(e), Returns(s, l, r),
                      NEW i \in s + l .. s + r.length - 1
               PROVE  At(i) # Nul \/ \E n \in r.nodes : Covers(n, i)
    BY DEF Claimed
  <2>1. /\ Returns(own, 0, r1) /\ r.nodes = r1.nodes
        /\ own = s + l /\ r.length = l + r1.length /\ r1.length \in Nat
    BY <1>9, <1>10
  <2>2. i \in own + 0 .. own + r1.length - 1
    BY <1>1, <2>1
  <2> QED
    BY <1>7, <2>1, <2>2 DEF Claimed
<1>16. ASSUME NEW b \in -1 .. 2, Adds(e, b), Few, Here(s, l)
       PROVE  Added(s, l, r, b)
  <2>1. Added(own, 0, r1, b) /\ Here(own, 0) /\ own = s + l /\ own \in Nat
    BY <1>1, <1>5, <1>7, <1>16
  <2>2. /\ r1.length # Overflow
        /\ Found(r1) => r1.children <= 2 * (r1.length - 0) + b
        /\ ~Found(r1) => r1.children <= 2 * (Memory - own - 0) + 2
    BY <1>16, <2>1 DEF Added
  <2>3. CASE Found(r1)
    <3>1. Returns(own, 0, r1) /\ r1.length \in Nat
      BY <1>1, <1>4, <1>16, <2>1, <2>3 DEF Returns
    <3>2. own + r1.length <= Memory
      BY <1>6, <3>1 DEF WentOn, Here
    <3>3. r1.children <= 2 * Memory + 2
      BY <1>1, <1>4, <2>1, <2>2, <2>3, <3>1, <3>2
    <3>4. r1.children < LenMod
      BY <1>1, <1>4, <1>16, <3>3 DEF Few
    <3>5. r.length = l + r1.length /\ r.children = r1.children /\ Found(r)
      BY <1>1, <1>3, <1>9, <1>16, <2>3, <3>4
    <3> QED
      BY <1>1, <1>4, <2>2, <2>3, <3>1, <3>5 DEF Added, Overflow
  <2>4. CASE ~Found(r1)
    <3>1. r1.length = None
      BY <1>1, <1>4, <2>2, <2>4 DEF Results
    <3>2. r1.children < LenMod
      BY <1>1, <1>4, <1>16, <2>1, <2>2, <2>4 DEF Few
    <3>3. r.length = None /\ r.children = 0 /\ ~Found(r)
      BY <1>2, <1>3, <2>4, <3>1, <3>2 DEF Found, None
    <3> QED
      BY <1>1, <1>16, <3>3 DEF Added, None, Overflow, Here
  <2> QED
    BY <2>3, <2>4
<1>17. \A b \in -1 .. 2 : Adds(e, b) => Added(s, l, r, b)
  BY <1>16 DEF Added
<1> QED
  BY <1>1, <1>2, <1>8, <1>11, <1>12, <1>13, <1>14, <1>15, <1>17 DEF r

\* The node itself: it is where its production went.
NodeOf(name, s, l, r) ==
  [name |-> name, start |-> (s + l) % LenMod, length |-> (r.length - l) % LenMod]

LEMMA RuleIs ==
  ASSUME Texts, NEW name, NEW e, Typed(e), NEW s \in Lengths, NEW l \in Lengths
  PROVE  LET r1 == Tmp(e)[s][l]
             r == Rule(name, e)[s][l]
             node == NodeOf(name, s, l, r1)
         IN  /\ r \in Results /\ r1 \in Results /\ r.length = r1.length
             /\ Found(r) => r.children = 1
             /\ Found(r) /\ name \in Kept => r.nodes = r1.nodes \cup {node}
             /\ Found(r) /\ name \notin Kept => r.nodes = r1.nodes
             /\ ~Found(r) => r = r1
<1> DEFINE r1 == Tmp(e)[s][l]
           r == Rule(name, e)[s][l]
           node == NodeOf(name, s, l, r1)
<1>1. s \in Nat /\ l \in Nat /\ LenMod \in Nat /\ LenMod > 0
  BY Sizes
<1>2. r1 \in Results
  BY TmpIs
<1>3. r = IF Found(r1)
          THEN [r1 EXCEPT !.children = 1,
                          !.nodes = IF name \in Kept THEN @ \cup {node} ELSE @]
          ELSE r1
  BY DEF Rule, NodeOf
<1> HIDE DEF r, r1
<1>4. CASE ~Found(r1)
  BY <1>2, <1>3, <1>4 DEF r, r1
<1>5. CASE Found(r1)
  <2>1. r1.length \in Int /\ r1.length # None
    BY <1>2, <1>5, Parts, Sizes DEF Found, None
  <2>2. name \in Kept => node \in Nodes
    BY <1>1, <2>1 DEF Nodes, Lengths, NodeOf
  <2> HIDE DEF node
  <2> DEFINE all == IF name \in Kept THEN r1.nodes \cup {node} ELSE r1.nodes
  <2>3. all \in SUBSET Nodes
    BY <1>2, <2>2 DEF Results
  <2>4. r = [r1 EXCEPT !.children = 1, !.nodes = all]
    BY <1>3, <1>5
  <2> HIDE DEF all
  <2>5. r \in Results /\ r.length = r1.length /\ r.children = 1 /\ r.nodes = all
    BY <1>2, <2>1, <2>3, <2>4 DEF Results
  <2> QED
    BY <1>2, <1>5, <2>5 DEF Found, r, r1, all, node
<1> QED
  BY <1>4, <1>5

LEMMA RuleDoes ==
  ASSUME Texts
  PROVE  \A name, e : Typed(e) /\ GoesOn(e) /\ (name \in Within => StaysInText(e)) =>
           /\ Typed(Rule(name, e)) /\ GoesOn(Rule(name, e)) /\ Neat(Rule(name, e))
           /\ Sure(e) => Sure(Rule(name, e))
           /\ Takes(e) => Takes(Rule(name, e))
           /\ Stays(e) => Stays(Rule(name, e))
           /\ StaysInText(e) => StaysInText(Rule(name, e))
           /\ EndsLine(e) => EndsLine(Rule(name, e))
           /\ NotAtCR(e) => NotAtCR(Rule(name, e))
           /\ name \in Kept \/ Claims(e) => Claims(Rule(name, e))
           /\ \A b \in -1 .. 2 : Adds(e, b) =>
                /\ Adds(Rule(name, e), 1)
                /\ Takes(e) => Adds(Rule(name, e), -1)
<1> SUFFICES ASSUME NEW name, NEW e, Typed(e), GoesOn(e),
                    name \in Within => StaysInText(e),
                    NEW s \in Lengths, NEW l \in Lengths
             PROVE  LET r == Rule(name, e)[s][l] IN
                    /\ r \in Results /\ WentOn(s, l, r)
                    /\ r.length = None => r.children = 0
                    /\ Sure(e) => r.length # None
                    /\ Takes(e) => Took(s, l, r)
                    /\ Stays(e) => Stayed(s, l, r)
                    /\ StaysInText(e) => StayedInText(s, l, r)
                    /\ EndsLine(e) => Ended(s, l, r)
                    /\ NotAtCR(e) => WasNotAtCR(s, l, r)
                    /\ name \in Kept \/ Claims(e) => Claimed(s, l, r)
                    /\ \A b \in -1 .. 2 : Adds(e, b) =>
                         /\ Added(s, l, r, 1)
                         /\ Takes(e) => Added(s, l, r, -1)
  BY DEF Typed, GoesOn, Neat, Sure, Takes, Stays, StaysInText, EndsLine, NotAtCR,
         Claims, Adds
<1> DEFINE r1 == Tmp(e)[s][l]
           r == Rule(name, e)[s][l]
           node == NodeOf(name, s, l, r1)
<1>1. /\ s \in Nat /\ l \in Nat /\ LenMod \in Nat /\ Memory \in Nat /\ Len(text) \in Nat
      /\ Few => Short
  BY Sizes
<1>2. /\ r1 \in Results /\ r \in Results /\ r.length = r1.length
      /\ Found(r) => r.children = 1
      /\ Found(r) /\ name \in Kept => r.nodes = r1.nodes \cup {node}
      /\ Found(r) /\ name \notin Kept => r.nodes = r1.nodes
      /\ ~Found(r) => r = r1
  BY RuleIs
<1>3. /\ WentOn(s, l, r1) /\ (r1.length = None => r1.children = 0)
      /\ Sure(e) => r1.length # None
      /\ Takes(e) => Took(s, l, r1)
      /\ Stays(e) => Stayed(s, l, r1)
      /\ StaysInText(e) => StayedInText(s, l, r1)
      /\ EndsLine(e) => Ended(s, l, r1)
      /\ NotAtCR(e) => WasNotAtCR(s, l, r1)
      /\ Claims(e) => Claimed(s, l, r1)
      /\ \A b \in -1 .. 2 : Adds(e, b) => Added(s, l, r1, b)
  BY TmpDoes DEF GoesOn, Neat, Sure, Takes, Stays, StaysInText, EndsLine, NotAtCR,
         Claims, Adds
<1>4. Found(r) <=> Found(r1)
  BY <1>2 DEF Found
<1>5. Found(r1) => r1.length \in Nat
  BY <1>2, Parts, Sizes
<1> HIDE DEF r, r1
<1>6. ASSUME Returns(s, l, r)
      PROVE  /\ Returns(s, l, r1) /\ l <= r.length /\ s + r.length <= Memory
             /\ node = [name |-> name, start |-> s + l, length |-> r.length - l]
  <2>1. Returns(s, l, r1) /\ Short /\ Here(s, l) /\ r1.length \in Nat
    BY <1>4, <1>5, <1>6 DEF Returns
  <2>2. l <= r1.length /\ s + r1.length <= Memory
    BY <1>3, <2>1 DEF WentOn, Here
  <2>3. s + l \in Nat /\ s + l <= Memory
    BY <1>1, <2>1 DEF Here
  <2>4. r1.length - l \in Nat /\ r1.length - l <= Memory
    BY <1>1, <2>1, <2>2
  <2>5. (s + l) % LenMod = s + l /\ (r1.length - l) % LenMod = r1.length - l
    BY <2>1, <2>3, <2>4, NotCut
  <2> QED
    BY <1>1, <1>2, <2>1, <2>2, <2>5 DEF node, NodeOf
<1> HIDE DEF node
<1>7. WentOn(s, l, r)
  <2> SUFFICES ASSUME Returns(s, l, r), NEW n \in r.nodes
               PROVE  /\ s + l <= n.start /\ n.start + n.length <= s + r.length
                      /\ n.name \in Within => ~Covers(n, Len(text))
    BY <1>6 DEF WentOn, Here
  <2>1. CASE n \in r1.nodes
    BY <1>2, <1>3, <1>6, <2>1 DEF WentOn
  <2>2. CASE n = node
    <3>1. n.start = s + l /\ n.length = r.length - l /\ n.name = name
      BY <1>6, <2>2
    <3>2. r.length \in Nat
      BY <1>2, <1>4, <1>5 DEF Returns
    <3>3. name \in Within => StayedInText(s, l, r1)
      BY <1>3
    <3>4. name \in Within /\ s + l <= Len(text) => s + r.length <= Len(text)
      BY <1>2, <1>6, <3>3 DEF StayedInText
    <3> QED
      BY <1>1, <3>1, <3>2, <3>4 DEF Covers
  <2> QED
    BY <1>2, <2>1, <2>2 DEF Returns
<1>8. /\ r.length = None => r.children = 0
      /\ Sure(e) => r.length # None
      /\ Takes(e) => Took(s, l, r)
  BY <1>1, <1>2, <1>3, <1>4 DEF Took, Returns, Found, None
<1>9. /\ Stays(e) => Stayed(s, l, r)
      /\ StaysInText(e) => StayedInText(s, l, r)
      /\ EndsLine(e) => Ended(s, l, r)
      /\ NotAtCR(e) => WasNotAtCR(s, l, r)
  BY <1>2, <1>3, <1>4 DEF Stayed, StayedInText, Ended, WasNotAtCR, Returns
<1>10. name \in Kept \/ Claims(e) => Claimed(s, l, r)
  <2> SUFFICES ASSUME Returns(s, l, r), name \in Kept \/ Claims(e),
                      NEW i \in s + l .. s + r.length - 1
               PROVE  At(i) # Nul \/ \E n \in r.nodes : Covers(n, i)
    BY DEF Claimed
  <2>1. CASE name \in Kept
    <3>1. node \in r.nodes /\ node.start = s + l /\ node.length = r.length - l
      BY <1>2, <1>6, <2>1 DEF Returns
    <3>2. r.length \in Nat
      BY <1>2, <1>4, <1>5 DEF Returns
    <3> QED
      BY <1>1, <3>1, <3>2 DEF Covers
  <2>2. CASE Claims(e)
    <3>1. At(i) # Nul \/ \E n \in r1.nodes : Covers(n, i)
      BY <1>2, <1>3, <1>6, <2>2 DEF Claimed
    <3>2. r1.nodes \subseteq r.nodes
      BY <1>2 DEF Returns
    <3> QED
      BY <3>1, <3>2
  <2> QED
    BY <2>1, <2>2
<1>11. ASSUME NEW b \in -1 .. 2, Adds(e, b)
       PROVE  Added(s, l, r, 1) /\ (Takes(e) => Added(s, l, r, -1))
  <2> SUFFICES ASSUME Few, Here(s, l)
               PROVE  Added(s, l, r, 1) /\ (Takes(e) => Added(s, l, r, -1))
    BY DEF Added
  <2>1. Added(s, l, r1, b)
    BY <1>3, <1>11
  <2>2. CASE Found(r)
    <3>1. Returns(s, l, r) /\ r.length \in Nat /\ r.children = 1
      BY <1>1, <1>2, <1>4, <1>5, <2>2 DEF Returns
    <3>2. l <= r.length /\ (Takes(e) => l < r.length)
      BY <1>6, <1>8, <3>1 DEF Took
    <3> QED
      BY <1>1, <2>2, <3>1, <3>2 DEF Added, Overflow
  <2>3. CASE ~Found(r)
    BY <1>2, <2>1, <2>3 DEF Added
  <2> QED
    BY <2>2, <2>3
<1> QED
  BY <1>2, <1>7, <1>8, <1>9, <1>10, <1>11 DEF r

-----------------------------------------------------------------------------
(***************************************************************************)
(* The functions of parser.c: all but those that take the end of a line    *)
(* stay before an empty one, and a node is given at most two children for  *)
(* a symbol of it.                                                         *)
(***************************************************************************)
Fine(e) == Typed(e) /\ GoesOn(e) /\ Stays(e)

\* A child, of one symbol at least; two of them at most, for one symbol at least;
\* and a child that may be empty.
One(e) == Fine(e) /\ Takes(e) /\ Neat(e) /\ Adds(e, -1)
Two(e) == Fine(e) /\ Takes(e) /\ Neat(e) /\ Adds(e, 0)
Any(e) == Fine(e) /\ Sure(e) /\ Neat(e) /\ Adds(e, 1)

LEMMA Ways ==
  ASSUME Texts
  PROVE  /\ \A S : "out" \notin S /\ CR \notin S => One(Chars(S))
         /\ \A x : x # "out" /\ x # CR => One(Sym(x))
         /\ \A x, y : x # "out" /\ y # "out" /\ x # CR /\ y # CR => One(Pair(x, y))
         /\ \A c, d : Fine(c) /\ Fine(d) =>
              /\ Fine(c & d) /\ Fine(c | d)
              /\ Takes(c) \/ Takes(d) => Takes(c & d)
              /\ Takes(c) /\ Takes(d) => Takes(c | d)
              /\ Sure(c) /\ Sure(d) => Sure(c & d)
              /\ Sure(d) => Sure(c | d)
              /\ Neat(c) /\ Sure(d) => Neat(c & d)
              /\ Neat(c) /\ Neat(d) => Neat(c | d)
         /\ \A e : Fine(e) =>
              /\ Fine(Opt(e)) /\ Sure(Opt(e)) /\ Neat(Opt(e))
              /\ Fine(Star(e)) /\ Sure(Star(e)) /\ Neat(Star(e))
              /\ Takes(e) /\ Neat(e) /\ Adds(e, 0) => Adds(Star(e), 0)
              /\ Fine(Tmp(e)) /\ Neat(Tmp(e))
              /\ Sure(e) => Sure(Tmp(e))
              /\ Takes(e) => Takes(Tmp(e))
         /\ \A m \in Marked :
              Fine(Mark(m)) /\ Sure(Mark(m)) /\ Neat(Mark(m)) /\ Adds(Mark(m), 0)
<1>1. \A S : "out" \notin S /\ CR \notin S => One(Chars(S))
  BY CharsDo DEF One, Fine
<1>2. \A x : x # "out" /\ x # CR => One(Sym(x))
  BY <1>1 DEF Sym
<1>3. \A x, y : x # "out" /\ y # "out" /\ x # CR /\ y # CR => One(Pair(x, y))
  BY PairDoes DEF One, Fine
<1>4. ASSUME NEW c, NEW d, Fine(c), Fine(d)
      PROVE  /\ Fine(c & d) /\ Fine(c | d)
             /\ Takes(c) \/ Takes(d) => Takes(c & d)
             /\ Takes(c) /\ Takes(d) => Takes(c | d)
             /\ Sure(c) /\ Sure(d) => Sure(c & d)
             /\ Sure(d) => Sure(c | d)
             /\ Neat(c) /\ Sure(d) => Neat(c & d)
             /\ Neat(c) /\ Neat(d) => Neat(c | d)
  BY <1>4, SeqDoes, AltDoes DEF Fine
<1>5. ASSUME NEW e, Fine(e)
      PROVE  /\ Fine(Opt(e)) /\ Sure(Opt(e)) /\ Neat(Opt(e))
             /\ Fine(Star(e)) /\ Sure(Star(e)) /\ Neat(Star(e))
             /\ Takes(e) /\ Neat(e) /\ Adds(e, 0) => Adds(Star(e), 0)
             /\ Fine(Tmp(e)) /\ Neat(Tmp(e))
             /\ Sure(e) => Sure(Tmp(e))
             /\ Takes(e) => Takes(Tmp(e))
  BY <1>5, OptDoes, StarDoes, TmpDoes DEF Fine
<1>6. \A m \in Marked :
        Fine(Mark(m)) /\ Sure(Mark(m)) /\ Neat(Mark(m)) /\ Adds(Mark(m), 0)
  BY MarkDoes DEF Fine
<1> QED
  BY <1>1, <1>2, <1>3, <1>4, <1>5, <1>6

\* Children of one, and of another.
LEMMA Sums ==
  ASSUME Texts
  PROVE  /\ \A c, d : Fine(c) /\ Fine(d) =>
              /\ Adds(c, -1) /\ Adds(d, 0) => Adds(c & d, -1)
              /\ Adds(c, -1) /\ Adds(d, 1) => Adds(c & d, 0)
              /\ Adds(c, -1) /\ Adds(d, 2) => Adds(c & d, 1)
              /\ Adds(c, 0) /\ Adds(d, -1) => Adds(c & d, -1)
              /\ Adds(c, 0) /\ Adds(d, 0) => Adds(c & d, 0)
              /\ Adds(c, 0) /\ Adds(d, 1) => Adds(c & d, 1)
              /\ Adds(c, 0) /\ Adds(d, 2) => Adds(c & d, 2)
              /\ Adds(c, 1) /\ Neat(d) /\ Adds(d, -1) => Adds(c & d, 0)
              /\ Adds(c, 1) /\ Neat(d) /\ Adds(d, 0) => Adds(c & d, 1)
              /\ Adds(c, 1) /\ Neat(d) /\ Adds(d, 1) => Adds(c & d, 2)
         /\ \A c, d : Fine(c) /\ Fine(d) /\ Neat(c) =>
              /\ Adds(c, -1) /\ Adds(d, -1) => Adds(c | d, -1)
              /\ Adds(c, 0) /\ Adds(d, 0) => Adds(c | d, 0)
              /\ Adds(c, 1) /\ Adds(d, 1) => Adds(c | d, 1)
              /\ Adds(c, 2) /\ Adds(d, 2) => Adds(c | d, 2)
         /\ \A e : Fine(e) =>
              /\ Neat(e) /\ Adds(e, 0) => Adds(Opt(e), 0)
              /\ Neat(e) /\ Adds(e, 1) => Adds(Opt(e), 1)
              /\ Adds(e, -1) => Adds(Tmp(e), -1)
              /\ Adds(e, 0) => Adds(Tmp(e), 0)
              /\ Adds(e, 1) => Adds(Tmp(e), 1)
              /\ Adds(e, 2) => Adds(Tmp(e), 2)
              /\ Adds(e, -1) => Adds(e, 0)
              /\ Adds(e, 0) => Adds(e, 1)
              /\ Adds(e, 1) => Adds(e, 2)
         /\ \A name, e : Fine(e) /\ (name \in Within => StaysInText(e)) /\ Adds(e, 2) =>
              /\ Takes(e) => One(Rule(name, e))
              /\ Sure(e) => Any(Rule(name, e))
<1>1. ASSUME NEW c, NEW d, Fine(c), Fine(d)
      PROVE  /\ Adds(c, -1) /\ Adds(d, 0) => Adds(c & d, -1)
             /\ Adds(c, -1) /\ Adds(d, 1) => Adds(c & d, 0)
             /\ Adds(c, -1) /\ Adds(d, 2) => Adds(c & d, 1)
             /\ Adds(c, 0) /\ Adds(d, -1) => Adds(c & d, -1)
             /\ Adds(c, 0) /\ Adds(d, 0) => Adds(c & d, 0)
             /\ Adds(c, 0) /\ Adds(d, 1) => Adds(c & d, 1)
             /\ Adds(c, 0) /\ Adds(d, 2) => Adds(c & d, 2)
             /\ Adds(c, 1) /\ Neat(d) /\ Adds(d, -1) => Adds(c & d, 0)
             /\ Adds(c, 1) /\ Neat(d) /\ Adds(d, 0) => Adds(c & d, 1)
             /\ Adds(c, 1) /\ Neat(d) /\ Adds(d, 1) => Adds(c & d, 2)
  <2>1. \A b1, b2 \in -1 .. 2 :
          Adds(c, b1) /\ Adds(d, b2) /\ (b1 <= 0 \/ Neat(d)) => Adds(c & d, b1 + b2)
    BY <1>1, SeqAdds DEF Fine
  <2>2. /\ -1 + 0 = -1 /\ -1 + 1 = 0 /\ -1 + 2 = 1 /\ 0 + (-1) = -1 /\ 0 + 0 = 0
        /\ 0 + 1 = 1 /\ 0 + 2 = 2 /\ 1 + (-1) = 0 /\ 1 + 0 = 1 /\ 1 + 1 = 2
        /\ -1 \in -1 .. 2 /\ 0 \in -1 .. 2 /\ 1 \in -1 .. 2 /\ 2 \in -1 .. 2
    OBVIOUS
  <2> QED
    BY <2>1, <2>2
<1>2. ASSUME NEW c, NEW d, Fine(c), Fine(d), Neat(c)
      PROVE  /\ Adds(c, -1) /\ Adds(d, -1) => Adds(c | d, -1)
             /\ Adds(c, 0) /\ Adds(d, 0) => Adds(c | d, 0)
             /\ Adds(c, 1) /\ Adds(d, 1) => Adds(c | d, 1)
             /\ Adds(c, 2) /\ Adds(d, 2) => Adds(c | d, 2)
  <2>1. \A b \in -1 .. 2 : Adds(c, b) /\ Adds(d, b) => Adds(c | d, b)
    BY <1>2, AltDoes DEF Fine
  <2> QED
    BY <2>1
<1>3. ASSUME NEW e, Fine(e)
      PROVE  /\ Neat(e) /\ Adds(e, 0) => Adds(Opt(e), 0)
             /\ Neat(e) /\ Adds(e, 1) => Adds(Opt(e), 1)
             /\ Adds(e, -1) => Adds(Tmp(e), -1)
             /\ Adds(e, 0) => Adds(Tmp(e), 0)
             /\ Adds(e, 1) => Adds(Tmp(e), 1)
             /\ Adds(e, 2) => Adds(Tmp(e), 2)
             /\ Adds(e, -1) => Adds(e, 0)
             /\ Adds(e, 0) => Adds(e, 1)
             /\ Adds(e, 1) => Adds(e, 2)
  <2>1. /\ \A b \in 0 .. 2 : Neat(e) /\ Adds(e, b) => Adds(Opt(e), b)
        /\ \A b \in -1 .. 2 : Adds(e, b) => Adds(Tmp(e), b)
        /\ \A b, b2 \in -1 .. 2 : Adds(e, b) /\ b <= b2 => Adds(e, b2)
    BY <1>3, OptDoes, TmpDoes, More DEF Fine
  <2> QED
    BY <2>1
<1>4. ASSUME NEW name, NEW e, Fine(e), name \in Within => StaysInText(e), Adds(e, 2)
      PROVE  /\ Takes(e) => One(Rule(name, e))
             /\ Sure(e) => Any(Rule(name, e))
  <2>1. 2 \in -1 .. 2
    OBVIOUS
  <2> QED
    BY <1>4, <2>1, RuleDoes DEF Fine, One, Any
<1> QED
  BY <1>1, <1>2, <1>3, <1>4

LEMMA Kinds ==
  /\ \A e : One(e) => Fine(e) /\ Takes(e) /\ Neat(e) /\ Adds(e, -1)
  /\ \A e : Two(e) => Fine(e) /\ Takes(e) /\ Neat(e) /\ Adds(e, 0)
  /\ \A e : Any(e) => Fine(e) /\ Sure(e) /\ Neat(e) /\ Adds(e, 1)
BY DEF One, Two, Any

\* The empty node before a child is a second one for its symbols.
LEMMA EmptyStays ==
  ASSUME Texts, NEW e, One(e)
  PROVE  Two(AfterEmpty(e))
<1>1. Typed(e) /\ GoesOn(e) /\ Stays(e) /\ Takes(e) /\ Neat(e) /\ Adds(e, -1)
  BY Kinds DEF Fine
<1>2. SUFFICES ASSUME NEW s \in Lengths, NEW l \in Lengths
               PROVE  LET r == AfterEmpty(e)[s][l] IN
                      /\ r \in Results
                      /\ WentOn(s, l, r) /\ Stayed(s, l, r) /\ Took(s, l, r)
                      /\ Added(s, l, r, 0)
                      /\ r.length = None => r.children = 0
  BY DEF Two, Fine, Typed, GoesOn, Stays, Takes, Adds, Neat
<1> DEFINE r1 == e[s][l]
           r == AfterEmpty(e)[s][l]
<1>3. /\ r1 \in Results /\ WentOn(s, l, r1) /\ Stayed(s, l, r1) /\ Took(s, l, r1)
      /\ Added(s, l, r1, -1)
      /\ r1.length = None => r1.children = 0
  BY <1>1 DEF Typed, GoesOn, Stays, Takes, Adds, Neat
<1>4. r = IF Found(r1) THEN [r1 EXCEPT !.children = @ + 1] ELSE r1
  BY DEF AfterEmpty
<1>5. CASE ~Found(r1)
  <2>1. r = r1
    BY <1>4, <1>5
  <2> HIDE DEF r1, r
  <2>2. Added(s, l, r, 0)
    BY <1>3, <1>5, <2>1 DEF Added
  <2> QED
    BY <1>3, <2>1, <2>2 DEF r
<1>6. CASE Found(r1)
  <2> HIDE DEF r1, r
  <2>1. /\ r \in Results /\ r.length = r1.length /\ r.nodes = r1.nodes
        /\ r.children = r1.children + 1
    BY <1>3, <1>4, <1>6 DEF Results
  <2>2. Found(r) /\ r.length # None /\ r.length \in Lengths /\ r1.children \in Nat
    BY <1>3, <1>6, <2>1 DEF Found, None, Results, Overflow
  <2>3. WentOn(s, l, r) /\ Stayed(s, l, r) /\ Took(s, l, r)
    BY <1>3, <1>6, <2>1, <2>2 DEF WentOn, Stayed, Took, Returns
  <2>4. s \in Int /\ l \in Int /\ r1.length \in Int /\ r1.children \in Int
    BY <2>1, <2>2, Sizes
  <2>5. Added(s, l, r, 0)
    <3>1. SUFFICES ASSUME Few, Here(s, l)
                   PROVE  r.length # Overflow /\ r.children <= 2 * (r.length - l) + 0
      BY <2>2 DEF Added
    <3>2. r1.length # Overflow /\ r1.children <= 2 * (r1.length - l) + -1
      BY <1>3, <1>6, <3>1 DEF Added
    <3> QED
      BY <2>1, <2>4, <3>2
  <2> QED
    BY <2>1, <2>2, <2>3, <2>5 DEF r
<1> QED
  BY <1>5, <1>6

LEMMA Characters ==
  ASSUME Texts
  PROVE  /\ One(DIGIT) /\ One(ALPHA) /\ One(VCHAR) /\ One(obs_text)
         /\ One(SP) /\ One(HTAB) /\ One(DQUOTE) /\ One(Colon) /\ One(Colons)
         /\ One(tchar) /\ Two(unreserved) /\ One(sub_delims) /\ One(HEXDIG)
         /\ One(cookie_octet)
<1> USE DEF Digits, Letters, Hex, LowerHex, Words, FieldWords, Visible, TokenSigns,
            SubDelims, UnreservedSigns, DQuote, Backslash, Octet8, Tab, CR, Nul
<1>1. One(DIGIT) /\ One(ALPHA) /\ One(VCHAR) /\ One(obs_text) /\ One(cookie_octet)
  BY Ways DEF DIGIT, ALPHA, VCHAR, obs_text, cookie_octet
<1>2. One(SP) /\ One(HTAB) /\ One(DQUOTE) /\ One(Colon) /\ One(Colons)
  BY Ways DEF SP, HTAB, DQUOTE, Colon, Colons
<1>3. One(sub_delims) /\ One(Chars(TokenSigns \cup {Nul}))
      /\ One(Chars(UnreservedSigns \cup {Nul})) /\ One(Chars(Hex \cup {Nul}))
  BY Ways DEF sub_delims
<1>4. One(tchar)
  BY <1>1, <1>3, Ways, Sums, Kinds DEF tchar, Within
<1>5. One(HEXDIG)
  BY <1>1, <1>3, Ways, Sums, Kinds DEF HEXDIG, Within
<1>6. Two(unreserved)
  <2>1. One(Rule("unreserved", ALPHA | DIGIT))
    BY <1>1, Ways, Sums, Kinds DEF Within
  <2>2. Two(AfterEmpty(Chars(UnreservedSigns \cup {Nul})))
    BY <1>3, EmptyStays
  <2> QED
    BY <2>1, <2>2, Ways, Sums, Kinds DEF unreserved, Two
<1> QED
  BY <1>1, <1>2, <1>3, <1>4, <1>5, <1>6

LEMMA Tokens ==
  ASSUME Texts
  PROVE  /\ One(token) /\ One(cookie_name) /\ One(field_name) /\ One(type)
         /\ One(subtype) /\ One(method) /\ One(connection_option) /\ Any(port)
         /\ Any(OWS) /\ Any(BWS)
<1>1. One(token)
  BY Characters, Ways, Sums, Kinds DEF token, Within
<1>2. One(cookie_name) /\ One(field_name) /\ One(type)
  BY <1>1, Ways, Sums, Kinds DEF cookie_name, field_name, type, Within
<1>3. One(subtype) /\ One(method) /\ One(connection_option)
  BY <1>1, Ways, Sums, Kinds DEF subtype, method, connection_option, Within
<1>4. Any(port) /\ Any(OWS) /\ Any(BWS)
  BY Characters, Ways, Sums, Kinds DEF port, OWS, BWS, Within
<1> QED
  BY <1>1, <1>2, <1>3, <1>4

LEMMA Paths ==
  ASSUME Texts
  PROVE  /\ One(pct_encoded) /\ One(pchar) /\ Any(segment) /\ Any(query)
         /\ Any(reg_name) /\ One(absolute_path) /\ One(origin_form)
         /\ One(request_target)
<1> USE DEF Within, CR
<1>1. One(pct_encoded)
  BY Characters, Ways, Sums, Kinds DEF pct_encoded
<1>2. One(pchar)
  BY <1>1, Characters, Ways, Sums, Kinds DEF pchar
<1>3. Any(segment)
  BY <1>2, Ways, Sums, Kinds DEF segment
<1>4. Any(query)
  BY <1>2, Ways, Sums, Kinds DEF query
<1>5. Any(reg_name)
  BY <1>1, Characters, Ways, Sums, Kinds DEF reg_name
<1>6. One(absolute_path)
  BY <1>3, Ways, Sums, Kinds DEF absolute_path
<1>7. One(origin_form)
  BY <1>4, <1>6, Ways, Sums, Kinds DEF origin_form
<1>8. One(request_target)
  BY <1>7, Ways, Sums, Kinds DEF request_target
<1> QED
  BY <1>1, <1>2, <1>3, <1>4, <1>5, <1>6, <1>7, <1>8

LEMMA Hosts ==
  ASSUME Texts
  PROVE  /\ One(IPvFuture) /\ One(IPv4address) /\ One(h16) /\ One(ls32)
         /\ One(IPv6address) /\ One(IP_literal) /\ Any(host) /\ Any(uri_host)
         /\ Any(Host)
<1> USE DEF Within, CR
<1>1. One(IPvFuture)
  BY Characters, Ways, Sums, Kinds DEF IPvFuture, Plus
<1>2. One(dec_octet)
  <2>1. One(Chars({"0", "1", "2", "5"})) /\ One(Chars({"0", "1", "2"}))
        /\ One(Chars(Digits \ {"0"})) /\ One(Sym("1")) /\ One(Sym("2")) /\ One(Sym("5"))
    BY Ways DEF Digits
  <2>2. One(Tmp(Sym("2") & Sym("5") & Opt(Chars({"0", "1", "2", "5"}))))
    BY <2>1, Ways, Sums, Kinds DEF One
  <2>3. One(Tmp(Sym("2") & Chars({"0", "1", "2"}) & DIGIT))
    BY <2>1, Characters, Ways, Sums, Kinds DEF One
  <2>4. One(Tmp(Sym("1") & DIGIT & DIGIT)) /\ One(Tmp(Chars(Digits \ {"0"}) & DIGIT))
    BY <2>1, Characters, Ways, Sums, Kinds DEF One
  <2> QED
    BY <2>2, <2>3, <2>4, Characters, Ways, Sums, Kinds DEF dec_octet
<1>3. One(IPv4address)
  BY <1>2, Ways, Sums, Kinds DEF IPv4address
<1>4. One(h16)
  BY Characters, Ways, Sums, Kinds DEF h16
<1>5. One(ls32)
  <2>1. Lost("ls32") \in Marked
    BY DEF Marked
  <2>2. Fine(Tmp(h16 & Colon & h16)) /\ Takes(Tmp(h16 & Colon & h16))
        /\ Neat(Tmp(h16 & Colon & h16)) /\ Adds(Tmp(h16 & Colon & h16), -1)
    BY <1>4, Characters, Ways, Sums, Kinds
  <2> QED
    BY <1>3, <2>1, <2>2, Ways, Sums, Kinds DEF ls32, LostIfMatched
<1>6. One(IPv6address)
  <2> DEFINE Part(e) == Fine(e) /\ Takes(e) /\ Adds(e, -1)
  <2>1. /\ One(h16) /\ One(Colon) /\ One(Colons) /\ One(ls32)
        /\ Lost("IPv6address") \in Marked /\ FreedTwice \in Marked
    BY <1>4, <1>5, Characters DEF Marked
  <2>2. Part(Group) /\ One(Tmp(Group))
    BY <2>1, Ways, Sums, Kinds DEF Group, One
  <2>3. Part(TwoGroups) /\ Part(ThreeGroups)
    BY <2>2, Ways, Sums DEF TwoGroups, ThreeGroups
  <2>4. Part(FourGroups) /\ Part(FiveGroups) /\ Part(SixGroups)
    BY <2>2, <2>3, Ways, Sums DEF FourGroups, FiveGroups, SixGroups
  <2>5. One(FoundHead) /\ One(FoundHead & Mark(FreedTwice))
    <3>1. One(Tmp(h16 & Colons))
      BY <2>1, Ways, Sums, Kinds DEF One
    <3>2. One(FoundHead)
      BY <2>1, <3>1, Ways, Sums, Kinds DEF FoundHead, LostIfMatched, One
    <3> QED
      BY <2>1, <3>2, Ways, Sums, Kinds DEF One
  <2>6. ASSUME NEW found, NEW more, One(found), Part(more)
        PROVE  Part(Turn(found, more))
    BY <2>2, <2>6, Ways, Sums, Kinds DEF Turn
  <2>7. Part(LastHead)
    BY <2>1, Ways, Sums, Kinds DEF LastHead
  <2> HIDE DEF Part
  <2>8. ASSUME NEW found, One(found)
        PROVE  /\ Part(TwoHeads(found)) /\ Part(ThreeHeads(found)) /\ Part(FourHeads(found))
               /\ Part(FiveHeads(found)) /\ Part(SixHeads(found))
    BY <2>6, <2>7, <2>8 DEF TwoHeads, ThreeHeads, FourHeads, FiveHeads, SixHeads
  <2> USE DEF Part
  <2>9. Part(LostUnlessMatched("IPv6address", Colons))
        /\ Part(LostUnlessMatched("IPv6address", ls32))
    <3>1. Part(Fail)
      BY FailDoes DEF Fine
    <3> QED
      BY <2>1, <3>1, Ways, Sums, Kinds DEF LostUnlessMatched
  <2>10. One(IPv6_Full)
    BY <2>1, <2>4, Ways, Sums, Kinds DEF IPv6_Full, One
  <2>11. One(IPv6_Leading)
    BY <2>4, <2>9, Ways, Sums DEF IPv6_Leading, One
  <2>12. One(IPv6_One)
    BY <2>1, <2>4, <2>9, Ways, Sums, Kinds DEF IPv6_One, One
  <2>13. One(IPv6_Two)
    <3>1. Part(Colon & h16 & Colons)
      BY <2>1, Ways, Sums, Kinds
    <3>2. Part(h16 & (Colons | (Colon & h16 & Colons)))
      BY <2>1, <3>1, Ways, Sums, Kinds
    <3>3. Part(Tmp(Colons | (h16 & (Colons | (Colon & h16 & Colons)))))
      BY <2>1, <3>2, Ways, Sums, Kinds
    <3> QED
      BY <2>1, <2>3, <3>3, Ways, Sums, Kinds DEF IPv6_Two, One
  <2>14. One(IPv6_Three) /\ One(IPv6_Four)
    BY <2>1, <2>2, <2>3, <2>5, <2>8, Ways, Sums, Kinds DEF IPv6_Three, IPv6_Four, One
  <2>15. One(IPv6_Five) /\ One(IPv6_Six) /\ One(IPv6_Seven)
    BY <2>1, <2>5, <2>8, Ways, Sums, Kinds DEF IPv6_Five, IPv6_Six, IPv6_Seven, One
  <2> QED
    BY <2>10, <2>11, <2>12, <2>13, <2>14, <2>15, Ways, Sums, Kinds DEF IPv6address
<1>7. One(IP_literal)
  BY <1>1, <1>6, Ways, Sums, Kinds DEF IP_literal
<1>8. Any(host)
  BY <1>3, <1>7, Paths, Ways, Sums, Kinds DEF host
<1>9. Any(uri_host)
  BY <1>8, Ways, Sums, Kinds DEF uri_host
<1>10. Any(Host)
  BY <1>9, Tokens, Characters, Ways, Sums, Kinds DEF Host
<1> QED
  BY <1>1, <1>3, <1>4, <1>5, <1>6, <1>7, <1>8, <1>9, <1>10

\* What stays in the text as well: all that is not looked for with strchr().
LEMMA InText ==
  ASSUME Texts
  PROVE  /\ \A S : "out" \notin S /\ Nul \notin S => StaysInText(Chars(S))
         /\ \A x : x # "out" /\ x # Nul => StaysInText(Sym(x))
         /\ \A c, d : Fine(c) /\ Fine(d) /\ StaysInText(c) /\ StaysInText(d) =>
              StaysInText(c & d) /\ StaysInText(c | d)
         /\ \A e : Fine(e) /\ StaysInText(e) =>
              StaysInText(Opt(e)) /\ StaysInText(Star(e)) /\ StaysInText(Tmp(e))
         /\ \A name, e : Fine(e) /\ StaysInText(e) => StaysInText(Rule(name, e))
<1>1. \A S : "out" \notin S /\ Nul \notin S => StaysInText(Chars(S))
  BY CharsDo
<1> QED
  BY <1>1, SeqDoes, AltDoes, OptDoes, StarDoes, TmpDoes, RuleDoes DEF Fine, Sym

\* A line that goes on is not followed by an empty one.
LEMMA Folds ==
  ASSUME Texts
  PROVE  /\ Typed(CRLF) /\ GoesOn(CRLF) /\ Takes(CRLF) /\ Neat(CRLF) /\ Adds(CRLF, -1)
         /\ StaysInText(CRLF) /\ Claims(CRLF)
         /\ One(obs_fold) /\ StaysInText(obs_fold)
<1> DEFINE blank == SP | HTAB
<1>1. /\ Typed(CRLF) /\ GoesOn(CRLF) /\ Takes(CRLF) /\ Neat(CRLF) /\ Adds(CRLF, -1)
      /\ StaysInText(CRLF) /\ Claims(CRLF)
  BY PairDoes DEF CRLF, CR, LF, Nul
<1>2. One(blank) /\ One(Tmp(blank)) /\ StaysInText(blank) /\ StaysInText(Tmp(blank))
  <2>1. StaysInText(SP) /\ StaysInText(HTAB)
    BY InText DEF SP, HTAB, Tab, Nul
  <2> QED
    BY <2>1, InText, Characters, Ways, Sums, Kinds DEF One
<1> HIDE DEF blank
<1>3. /\ Typed(CRLF & blank) /\ GoesOn(CRLF & blank) /\ Takes(CRLF & blank)
      /\ StaysInText(CRLF & blank) /\ Adds(CRLF & blank, -1)
  <2>1. -1 + 0 = -1 /\ -1 \in -1 .. 2 /\ 0 \in -1 .. 2 /\ -1 <= 0
    OBVIOUS
  <2>2. Adds(blank, 0)
    BY <1>2, Sums, Kinds
  <2> QED
    BY <1>1, <1>2, <2>1, <2>2, SeqDoes, SeqAdds, Kinds DEF Fine
<1>4. Stays(CRLF & blank)
  <2> SUFFICES ASSUME NEW s \in Lengths, NEW l \in Lengths,
                      Returns(s, l, (CRLF & blank)[s][l]),
                      NEW w \in Nat, IsCRLF(w), IsCRLF(w + 2), s + l <= w
               PROVE  s + (CRLF & blank)[s][l].length <= w
    BY DEF Stays, Stayed
  <2> DEFINE r1 == CRLF[s][l]
  <2>1. Short /\ Found((CRLF & blank)[s][l]) /\ s \in Nat /\ l \in Nat
    BY Sizes DEF Returns
  <2>2. Typed(CRLF) /\ Typed(blank)
    BY <1>1, <1>2, Kinds DEF Fine
  <2>3. Found(r1) /\ (CRLF & blank)[s][l] = Then(r1, blank[s][r1.length])
        /\ r1.length \in Lengths /\ blank[s][r1.length] \in Results /\ r1 \in Results
    BY <2>1, <2>2, SeqIs
  <2> DEFINE m == r1.length
  <2>4. m = l + 2 /\ At(s + l) = CR
    BY <2>1, <2>3, PairAt, Signs DEF CRLF, CR, LF
  <2> HIDE DEF m
  <2> DEFINE k == blank[s][m].length
  <2>5. /\ Found(blank[s][m]) /\ (CRLF & blank)[s][l].length = k
        /\ m \in Lengths /\ m \in Nat
    BY <2>1, <2>3, <2>4, ThenIs DEF m
  <2>6. At(s + m) \in {" ", Tab} /\ k = m + 1
    <3>1. "out" \notin {" "} /\ "out" \notin {Tab}
      BY DEF Tab
    <3>2. Typed(SP) /\ Typed(HTAB)
      BY Characters, Kinds DEF Fine
    <3>3. blank[s][m] = SP[s][m] \/ k = HTAB[s][m].length
      BY <2>5, <3>2, AltIs DEF blank
    <3>4. ASSUME NEW S, "out" \notin S, Found(Chars(S)[s][m])
          PROVE  At(s + m) \in S /\ Chars(S)[s][m].length = m + 1
      BY <2>1, <2>5, <3>4, CharsAt
    <3>5. /\ Found(SP[s][m]) => At(s + m) \in {" "} /\ SP[s][m].length = m + 1
          /\ Found(HTAB[s][m]) => At(s + m) \in {Tab} /\ HTAB[s][m].length = m + 1
      BY <3>1, <3>4 DEF SP, HTAB, Sym
    <3> QED
      BY <2>5, <3>3, <3>5 DEF Found
  <2> HIDE DEF k
  <2>7. At(s + m) # CR /\ At(s + m) # LF /\ k = m + 1
    BY <2>6 DEF Tab, CR, LF
  <2>8. At(w) = CR /\ At(w + 1) = LF /\ At(w + 2) = CR
    BY DEF IsCRLF
  <2>9. s + m # w /\ s + m # w + 1 /\ s + m # w + 2
    BY <2>1, <2>7, <2>8
  <2>10. s + k <= w
    <3>1. s + m = s + l + 2 /\ s + k = s + m + 1
      BY <2>1, <2>4, <2>5, <2>7
    <3> QED
      BY <2>1, <2>9, <3>1
  <2> QED
    BY <2>5, <2>10
<1>5. Fine(CRLF & blank & Star(Tmp(blank))) /\ Takes(CRLF & blank & Star(Tmp(blank)))
      /\ Adds(CRLF & blank & Star(Tmp(blank)), -1)
      /\ StaysInText(CRLF & blank & Star(Tmp(blank)))
  BY <1>2, <1>3, <1>4, InText, Ways, Sums, Kinds DEF Fine
<1>6. obs_fold = Rule("obs_fold", CRLF & blank & Star(Tmp(blank)))
  BY DEF obs_fold, blank
<1> QED
  BY <1>1, <1>5, <1>6, InText, Sums DEF Within

LEMMA Fields ==
  ASSUME Texts
  PROVE  /\ One(field_content) /\ Any(field_value) /\ One(Content_Length) /\ One(Expect)
         /\ One(Content_Type) /\ One(cookie_string) /\ One(parser_Connection)
         /\ One(Transfert_encoding) /\ One(parser_HTTP_version)
         /\ Claims(parser_HTTP_version)
<1> USE DEF Within, CR
<1> DEFINE Step(e) == Fine(e) /\ Takes(e) /\ Neat(e) /\ Adds(e, 0)
<1>1. One(field_vchar) /\ StaysInText(field_vchar)
  <2>1. StaysInText(VCHAR) /\ StaysInText(obs_text)
    BY InText, Signs DEF VCHAR, obs_text, Octet8, Nul
  <2>2. One(field_vchar)
    BY Characters, Ways, Sums, Kinds DEF field_vchar
  <2>3. Fine(VCHAR | obs_text)
    BY Characters, Ways, Kinds
  <2> QED
    BY <2>1, <2>2, <2>3, Characters, InText, Kinds DEF field_vchar
<1>2. One(field_content) /\ StaysInText(field_content)
  <2> DEFINE blank == SP | HTAB
             rest1 == Tmp(blank & Star(blank) & field_vchar)
  <2>1. StaysInText(SP) /\ StaysInText(HTAB)
    BY InText DEF SP, HTAB, Tab, Nul
  <2>2. One(blank) /\ StaysInText(blank)
    BY <2>1, InText, Characters, Ways, Sums, Kinds DEF One
  <2> HIDE DEF blank
  <2>3. One(rest1) /\ StaysInText(rest1)
    BY <1>1, <2>2, InText, Ways, Sums, Kinds DEF One
  <2> HIDE DEF rest1
  <2>4. field_content = Rule("field_content", field_vchar & Opt(rest1))
    BY DEF field_content, blank, rest1
  <2> QED
    BY <1>1, <2>3, <2>4, InText, Ways, Sums, Kinds
<1>3. Any(field_value)
  <2>1. One(field_content | obs_fold) /\ StaysInText(field_content | obs_fold)
    BY <1>2, Folds, InText, Ways, Sums, Kinds DEF One
  <2> QED
    BY <2>1, InText, Ways, Sums, Kinds DEF field_value
<1>4. One(Content_Length) /\ One(Expect)
  <2>1. StaysInText(DIGIT)
    BY InText, Signs DEF DIGIT, Digits, Nul
  <2> QED
    BY <2>1, Characters, InText, Ways, Sums, Kinds DEF Content_Length, Plus, Expect
<1>5. One(parser_HTTP_version) /\ Claims(parser_HTTP_version)
  <2>1. StaysInText(DIGIT) /\ StaysInText(HTTP_name) /\ One(HTTP_name)
    <3>1. One(Chars({"HTTP", "http"})) /\ StaysInText(Chars({"HTTP", "http"}))
      BY Ways, InText DEF Nul
    <3> QED
      BY <3>1, InText, Signs, Ways, Sums, Kinds DEF DIGIT, Digits, HTTP_name, Nul
  <2> DEFINE version == HTTP_name & Sym("/") & DIGIT & Sym(".") & DIGIT
  <2>2. /\ Fine(version) /\ StaysInText(version) /\ Takes(version) /\ Adds(version, 2)
    BY <2>1, Characters, InText, Ways, Sums, Kinds DEF Nul
  <2> HIDE DEF version
  <2>3. parser_HTTP_version = Rule("HTTP_version", version)
    BY DEF parser_HTTP_version, version
  <2>4. "HTTP_version" \in Kept
    BY DEF Kept, Searched
  <2> QED
    BY <2>2, <2>3, <2>4, Sums, RuleDoes DEF Fine
<1>6. One(parameter) /\ One(quoted_string)
  <2>1. One(qdtext)
    <3>1. One(Chars(Visible \ {DQuote, Backslash}))
      BY Ways, Signs DEF DQuote, Backslash
    <3> QED
      BY <3>1, Characters, Ways, Sums, Kinds DEF qdtext
  <2>2. One(quoted_pair)
    BY Characters, Ways, Sums, Kinds DEF quoted_pair, Backslash
  <2>3. One(quoted_string)
    BY <2>1, <2>2, Characters, Ways, Sums, Kinds DEF quoted_string
  <2>4. One(token | quoted_string)
    BY <2>3, Tokens, Ways, Sums, Kinds DEF One
  <2> QED
    BY <2>3, <2>4, Tokens, Ways, Sums, Kinds DEF parameter
<1>7. One(Content_Type)
  <2> DEFINE more == Tmp(OWS & Sym(";") & OWS & parameter)
  <2>1. One(Sym(";")) /\ One(Sym("/"))
    BY Ways
  <2>2. Step(more)
    <3>1. Fine(OWS & Sym(";")) /\ Takes(OWS & Sym(";")) /\ Adds(OWS & Sym(";"), 0)
      BY <2>1, Tokens, Ways, Sums, Kinds
    <3>2. Fine(OWS & Sym(";") & OWS) /\ Takes(OWS & Sym(";") & OWS)
          /\ Adds(OWS & Sym(";") & OWS, 1)
      BY <3>1, Tokens, Ways, Sums, Kinds
    <3> QED
      BY <1>6, <3>2, Ways, Sums, Kinds
  <2> HIDE DEF more
  <2>3. media_type = Rule("media_type", type & Sym("/") & subtype & Star(more))
    BY DEF media_type, more
  <2>4. One(media_type)
    BY <2>1, <2>2, <2>3, Tokens, Ways, Sums, Kinds
  <2> QED
    BY <2>4, Ways, Sums, Kinds DEF Content_Type
<1>8. One(cookie_string)
  <2> DEFINE quoted == Tmp(DQUOTE & Star(cookie_octet) & DQUOTE)
             bare == NotAt(DQuote) & Star(cookie_octet)
  <2>1. One(quoted)
    BY Characters, Ways, Sums, Kinds DEF One
  <2>2. Fine(bare) /\ Neat(bare) /\ Adds(bare, 0)
    <3>1. Fine(NotAt(DQuote)) /\ Neat(NotAt(DQuote)) /\ Adds(NotAt(DQuote), 0)
      BY NotAtDoes DEF Fine
    <3> QED
      BY <3>1, Characters, Ways, Sums, Kinds
  <2> HIDE DEF quoted, bare
  <2>3. cookie_value = Rule("cookie_value", quoted | bare)
    BY DEF cookie_value, quoted, bare
  <2>4. Fine(quoted | bare) /\ Neat(quoted | bare) /\ Adds(quoted | bare, 0)
    BY <2>1, <2>2, Ways, Sums, Kinds
  <2>5. Fine(cookie_value) /\ Neat(cookie_value) /\ Adds(cookie_value, 1)
    BY <2>3, <2>4, RuleDoes DEF Fine
  <2>6. One(cookie_pair)
    BY <2>5, Tokens, Ways, Sums, Kinds DEF cookie_pair
  <2>7. One(Tmp(Sym(";") & SP & cookie_pair))
    BY <2>6, Characters, Ways, Sums, Kinds DEF One
  <2> QED
    BY <2>6, <2>7, Ways, Sums, Kinds DEF cookie_string
<1>9. /\ Step(Tmp(Sym(",") & OWS)) /\ Step(Tmp(OWS & Sym(",")))
      /\ Fine(Star(Tmp(Sym(",") & OWS))) /\ Adds(Star(Tmp(Sym(",") & OWS)), 0)
  <2>1. One(Sym(","))
    BY Ways
  <2> QED
    BY <2>1, Tokens, Ways, Sums, Kinds
<1>10. ASSUME NEW e, One(e)
       PROVE  /\ Fine(Star(Tmp(OWS & Sym(",")) & Opt(Tmp(OWS & e))))
              /\ Sure(Star(Tmp(OWS & Sym(",")) & Opt(Tmp(OWS & e))))
              /\ Adds(Star(Tmp(OWS & Sym(",")) & Opt(Tmp(OWS & e))), 0)
  <2> DEFINE comma == Tmp(OWS & Sym(","))
             opt == Opt(Tmp(OWS & e))
  <2>1. Fine(opt) /\ Sure(opt) /\ Adds(opt, 0)
    BY <1>10, Tokens, Ways, Sums, Kinds
  <2>2. Step(comma)
    BY <1>9
  <2> HIDE DEF comma, opt
  <2>3. Step(comma & opt)
    BY <2>1, <2>2, Ways, Sums, Kinds
  <2>4. Fine(Star(comma & opt)) /\ Sure(Star(comma & opt)) /\ Adds(Star(comma & opt), 0)
    BY <2>3, Ways, Sums, Kinds
  <2> QED
    BY <2>4 DEF comma, opt
<1>11. One(parser_Connection)
  <2> DEFINE before == Star(Tmp(Sym(",") & OWS))
             after == Star(Tmp(OWS & Sym(",")) & Opt(Tmp(OWS & connection_option)))
  <2>1. Fine(before) /\ Adds(before, 0) /\ Fine(after) /\ Adds(after, 0)
    BY <1>9, <1>10, Tokens
  <2> HIDE DEF before, after
  <2>2. parser_Connection = Rule("Connection", before & connection_option & after)
    BY DEF parser_Connection, before, after
  <2> QED
    BY <2>1, <2>2, Tokens, Ways, Sums, Kinds
<1>12. One(transfert_coding)
  <2>1. One(transfer_parameter)
    <3>1. Fine(token & BWS) /\ Takes(token & BWS) /\ Adds(token & BWS, 0)
      BY Tokens, Ways, Sums, Kinds
    <3>2. One(Sym("="))
      BY Ways
    <3>3. One(token | quoted_string)
      BY <1>6, Tokens, Ways, Sums, Kinds DEF One
    <3> QED
      BY <3>1, <3>2, <3>3, Tokens, Ways, Sums, Kinds DEF transfer_parameter
  <2>2. One(transfer_extension)
    BY <2>1, Tokens, Ways, Sums, Kinds DEF transfer_extension
  <2>3. One(Chars({"chunked", "compress", "deflate", "gzip"}))
    BY Ways
  <2> QED
    BY <2>2, <2>3, Ways, Sums, Kinds DEF transfert_coding
<1>13. One(Transfert_encoding)
  <2> DEFINE before == Star(Tmp(Sym(",") & OWS))
             after == Star(Tmp(OWS & Sym(",")) & Opt(Tmp(OWS & transfert_coding)))
             mark == Mark(Lost("Transfert_encoding"))
  <2>1. Fine(before) /\ Adds(before, 0) /\ Fine(after) /\ Adds(after, 0)
    BY <1>9, <1>10, <1>12
  <2>2. Fine(mark) /\ Adds(mark, 0)
    BY Ways DEF Marked
  <2> HIDE DEF before, after, mark
  <2>3. Transfert_encoding =
          Rule("Transfert_encoding", before & mark & transfert_coding & after)
    BY DEF Transfert_encoding, before, after, mark
  <2> QED
    BY <1>12, <2>1, <2>2, <2>3, Ways, Sums, Kinds
<1> QED
  BY <1>2, <1>3, <1>4, <1>5, <1>7, <1>8, <1>11, <1>13

-----------------------------------------------------------------------------
(***************************************************************************)
(* Lines.                                                                  *)
(***************************************************************************)
LEMMA LineEnds ==
  ASSUME Texts, NEW e, Fine(e)
  PROVE  EndsLine(e & CRLF)
<1> SUFFICES ASSUME NEW s \in Lengths, NEW l \in Lengths,
                    Returns(s, l, (e & CRLF)[s][l])
             PROVE  Line(s + l, s + (e & CRLF)[s][l].length)
  BY DEF EndsLine, Ended
<1> DEFINE r1 == e[s][l]
           m == r1.length
<1>1. Short /\ Found((e & CRLF)[s][l]) /\ s \in Nat /\ l \in Nat
  BY Sizes DEF Returns
<1>2. Found(r1) /\ (e & CRLF)[s][l] = Then(r1, CRLF[s][m])
      /\ m \in Lengths /\ CRLF[s][m] \in Results /\ r1 \in Results
  BY <1>1, Folds, SeqIs DEF Fine
<1>3. Found(CRLF[s][m]) /\ (e & CRLF)[s][l].length = CRLF[s][m].length /\ m \in Nat
  <2> DEFINE r2 == CRLF[s][m]
  <2>1. Found(Then(r1, r2)) /\ r1 \in Results /\ r2 \in Results
    BY <1>1, <1>2
  <2> HIDE DEF r1, r2
  <2>2. Found(r2) /\ Then(r1, r2).length = r2.length
    BY <2>1, ThenIs
  <2> QED
    BY <1>2, <2>2, Sizes DEF r1, r2
<1>4. Returns(s, l, r1) /\ Stayed(s, l, r1)
  BY <1>2 DEF Returns, Fine, Stays
<1> HIDE DEF m, r1
<1>5. CRLF[s][m].length = m + 2 /\ At(s + m) = CR /\ At(s + m + 1) = LF
  BY <1>1, <1>2, <1>3, PairAt, Signs DEF CRLF, CR, LF
<1> DEFINE start == s + l
           end == s + (e & CRLF)[s][l].length
<1>6. end = s + m + 2 /\ end - 2 = s + m /\ 2 <= end
  BY <1>1, <1>3, <1>5
<1>7. IsCRLF(s + m)
  BY <1>5 DEF IsCRLF
<1>8. \A w \in Nat : IsCRLF(w) /\ IsCRLF(w + 2) /\ s + l <= w => s + m + 2 <= w + 2
  BY <1>1, <1>3, <1>4 DEF Stayed, m
<1> HIDE DEF start, end
<1>9. IsCRLF(end - 2)
  BY <1>6, <1>7
<1>10. \A w \in Nat : IsCRLF(w) /\ IsCRLF(w + 2) /\ start <= w => end <= w + 2
  BY <1>6, <1>8 DEF start
<1>11. Line(start, end)
  BY <1>6, <1>9, <1>10 DEF Line
<1> QED
  BY <1>11 DEF start, end

LEMMA NotAtTheEnd ==
  ASSUME Texts
  PROVE  /\ \A S : "out" \notin S /\ CR \notin S => NotAtCR(Chars(S))
         /\ \A x, y : x # "out" /\ y # "out" /\ x # CR /\ y # CR => NotAtCR(Pair(x, y))
         /\ \A c, d : Fine(c) /\ Fine(d) /\ NotAtCR(c) =>
              /\ NotAtCR(c & d)
              /\ NotAtCR(d) => NotAtCR(c | d)
         /\ \A name, e : Fine(e) /\ (name \in Within => StaysInText(e)) /\ NotAtCR(e)
              => NotAtCR(Rule(name, e))
<1>1. /\ \A S : "out" \notin S /\ CR \notin S => NotAtCR(Chars(S))
      /\ \A x, y : x # "out" /\ y # "out" /\ x # CR /\ y # CR => NotAtCR(Pair(x, y))
  BY CharsDo, PairDoes
<1>2. ASSUME NEW c, NEW d, Fine(c), Fine(d), NotAtCR(c)
      PROVE  NotAtCR(c & d) /\ (NotAtCR(d) => NotAtCR(c | d))
  BY <1>2, SeqDoes, AltDoes DEF Fine
<1>3. ASSUME NEW name, NEW e, Fine(e), name \in Within => StaysInText(e), NotAtCR(e)
      PROVE  NotAtCR(Rule(name, e))
  BY <1>3, RuleDoes DEF Fine
<1> QED
  BY <1>1, <1>2, <1>3

LEMMA Headers ==
  ASSUME Texts
  PROVE  One(header_field) /\ NotAtCR(header_field) /\ Claims(header_field)
<1> DEFINE Begins(e) == One(e) /\ NotAtCR(e)
<1>1. ASSUME NEW name, NEW field, NEW value, name # "out", name # CR, field \notin Within,
             Fine(value), Adds(value, 1)
      PROVE  Begins(Rule(field, Header(name, value)))
  <2> DEFINE head == Pair(name, ":")
  <2>1. One(head) /\ NotAtCR(head)
    BY <1>1, Ways, NotAtTheEnd DEF CR
  <2> HIDE DEF head
  <2>2. Fine(head & OWS) /\ Takes(head & OWS) /\ Adds(head & OWS, 0) /\ NotAtCR(head & OWS)
    BY <2>1, Tokens, Ways, Sums, Kinds, NotAtTheEnd
  <2>3. /\ Fine(head & OWS & value) /\ Takes(head & OWS & value)
        /\ Adds(head & OWS & value, 1) /\ NotAtCR(head & OWS & value)
    BY <1>1, <2>2, Ways, Sums, NotAtTheEnd
  <2>4. /\ Fine(head & OWS & value & OWS) /\ Takes(head & OWS & value & OWS)
        /\ Adds(head & OWS & value & OWS, 2) /\ NotAtCR(head & OWS & value & OWS)
    BY <2>3, Tokens, Ways, Sums, Kinds, NotAtTheEnd
  <2>5. Header(name, value) = head & OWS & value & OWS
    BY DEF Header, head
  <2> QED
    BY <1>1, <2>4, <2>5, Sums, NotAtTheEnd
<1>2. \A e : One(e) \/ Any(e) => Fine(e) /\ Adds(e, 1)
  BY Kinds, Sums
<1> HIDE DEF Begins
<1>3. Begins(Connection_header) /\ Begins(Content_Length_header)
  BY <1>1, <1>2, Fields DEF Connection_header, Content_Length_header, Within, CR
<1>4. Begins(Content_Type_header) /\ Begins(Cookie_header)
  BY <1>1, <1>2, Fields DEF Content_Type_header, Cookie_header, Within, CR
<1>5. Begins(Transfer_Encoding_header) /\ Begins(Expect_header)
  BY <1>1, <1>2, Fields DEF Transfer_Encoding_header, Expect_header, Within, CR
<1>6. Begins(Host_header)
  BY <1>1, <1>2, Hosts DEF Host_header, Within, CR
<1> USE DEF Begins
<1> DEFINE other == field_name & Colon & OWS & field_value & OWS
<1>7. Fine(other) /\ Takes(other) /\ Adds(other, 2) /\ NotAtCR(other)
  <2>1. NotAtCR(field_name)
    <3>1. /\ Fine(DIGIT | ALPHA) /\ NotAtCR(DIGIT | ALPHA)
      <4>1. NotAtCR(DIGIT) /\ NotAtCR(ALPHA)
        BY NotAtTheEnd DEF DIGIT, ALPHA, Digits, Letters, Hex, LowerHex, Words,
                           FieldWords, CR
      <4> QED
        BY <4>1, Characters, Ways, Kinds, NotAtTheEnd
    <3>2. /\ Fine(Chars(TokenSigns \cup {Nul})) /\ NotAtCR(Chars(TokenSigns \cup {Nul}))
      <4>1. "out" \notin TokenSigns \cup {Nul} /\ CR \notin TokenSigns \cup {Nul}
        BY DEF TokenSigns, Nul, CR
      <4> QED
        BY <4>1, Ways, Kinds, NotAtTheEnd
    <3>3. NotAtCR(tchar)
      BY <3>1, <3>2, Ways, NotAtTheEnd DEF tchar, Within
    <3>4. NotAtCR(token)
      BY <3>3, Characters, Ways, Kinds, NotAtTheEnd DEF token, Within
    <3> QED
      BY <3>4, Tokens, Kinds, NotAtTheEnd DEF field_name, Within
  <2>2. Fine(field_name & Colon) /\ Takes(field_name & Colon)
        /\ Adds(field_name & Colon, -1) /\ NotAtCR(field_name & Colon)
    BY <2>1, Tokens, Characters, Ways, Sums, Kinds, NotAtTheEnd
  <2>3. Fine(field_name & Colon & OWS) /\ Takes(field_name & Colon & OWS)
        /\ Adds(field_name & Colon & OWS, 0) /\ NotAtCR(field_name & Colon & OWS)
    BY <2>2, Tokens, Ways, Sums, Kinds, NotAtTheEnd
  <2> QED
    BY <2>3, Fields, Tokens, Ways, Sums, Kinds, NotAtTheEnd
<1> HIDE DEF other
<1> DEFINE some == Connection_header | Content_Length_header | Content_Type_header
                   | Cookie_header | Transfer_Encoding_header | Expect_header | Host_header
<1>8. ASSUME NEW c, NEW d, Begins(c), Begins(d)
      PROVE  Begins(c | d)
  BY <1>8, Ways, Sums, Kinds, NotAtTheEnd DEF One
<1>9. Begins(some)
  <2> HIDE DEF Begins
  <2> QED
    BY <1>3, <1>4, <1>5, <1>6, <1>8
<1> HIDE DEF some
<1>10. Fine(some | other) /\ Takes(some | other) /\ Adds(some | other, 2)
       /\ NotAtCR(some | other)
  BY <1>7, <1>9, Ways, Sums, Kinds, NotAtTheEnd
<1>11. header_field = Rule("header_field", some | other)
  BY DEF header_field, some, other
<1>12. Claims(header_field)
  <2>1. "header_field" \in Kept
    BY DEF Kept
  <2> QED
    BY <1>10, <1>11, <2>1, RuleDoes DEF Fine, Within
<1> QED
  BY <1>10, <1>11, <1>12, Sums, NotAtTheEnd DEF Within

LEMMA Lines ==
  ASSUME Texts
  PROVE  /\ Typed(start_line) /\ GoesOn(start_line) /\ Adds(start_line, 1)
         /\ EndsLine(start_line) /\ Claims(start_line)
<1> DEFINE target == method & SP & request_target & SP & parser_HTTP_version
           line == target & CRLF
<1>1. Claims(method) /\ Claims(request_target) /\ Claims(SP)
  <2>1. "method" \in Kept /\ "request_target" \in Kept
    BY DEF Kept, Searched
  <2>2. /\ Typed(token) /\ GoesOn(token) /\ "method" \notin Within
        /\ Typed(origin_form) /\ GoesOn(origin_form) /\ "request_target" \notin Within
    BY Tokens, Paths, Kinds DEF Fine, Within
  <2> QED
    BY <2>1, <2>2, CharsDo, RuleDoes DEF method, request_target, SP, Sym, Nul
<1>2. Fine(target) /\ Takes(target) /\ Adds(target, 0) /\ Claims(target)
  <2>1. One(method) /\ One(SP) /\ One(request_target) /\ One(parser_HTTP_version)
        /\ Claims(parser_HTTP_version)
    BY Tokens, Characters, Paths, Fields
  <2>2. ASSUME NEW c, NEW d, Fine(c), Fine(d), Claims(c), Claims(d)
        PROVE  Claims(c & d)
    BY <2>2, SeqDoes DEF Fine
  <2>3. Fine(method & SP) /\ Takes(method & SP) /\ Adds(method & SP, -1)
        /\ Claims(method & SP)
    BY <1>1, <2>1, <2>2, Ways, Sums, Kinds
  <2>4. /\ Fine(method & SP & request_target) /\ Takes(method & SP & request_target)
        /\ Adds(method & SP & request_target, -1) /\ Claims(method & SP & request_target)
    BY <1>1, <2>1, <2>2, <2>3, Ways, Sums, Kinds
  <2>5. /\ Fine(method & SP & request_target & SP)
        /\ Takes(method & SP & request_target & SP)
        /\ Adds(method & SP & request_target & SP, -1)
        /\ Claims(method & SP & request_target & SP)
    BY <1>1, <2>1, <2>2, <2>4, Ways, Sums, Kinds
  <2> QED
    BY <2>1, <2>2, <2>5, Ways, Sums, Kinds
<1> HIDE DEF target
<1>3. /\ Typed(line) /\ GoesOn(line) /\ EndsLine(line) /\ Claims(line)
  BY <1>2, Folds, SeqDoes, LineEnds DEF Fine
<1>4. Adds(line, -1)
  <2>1. 0 + (-1) = -1 /\ -1 \in -1 .. 2 /\ 0 \in -1 .. 2 /\ 0 <= 0
    OBVIOUS
  <2> QED
    BY <1>2, <2>1, Folds, SeqAdds DEF Fine
<1> HIDE DEF line
<1>5. request_line = Rule("request_line", line) /\ -1 \in -1 .. 2 /\ 1 \in -1 .. 2
  BY DEF request_line, line, target
<1>6. /\ Typed(request_line) /\ GoesOn(request_line) /\ Adds(request_line, 1)
      /\ EndsLine(request_line) /\ Claims(request_line)
  BY <1>3, <1>4, <1>5, RuleDoes DEF Within
<1> QED
  BY <1>5, <1>6, RuleDoes DEF start_line, Within

LEMMA HeaderLines ==
  ASSUME Texts
  PROVE  LET line == Tmp(header_field & CRLF) IN
         /\ Typed(line) /\ GoesOn(line) /\ Takes(line) /\ Adds(line, -1)
         /\ EndsLine(line) /\ NotAtCR(line) /\ Claims(line)
<1> DEFINE line == header_field & CRLF
<1>1. One(header_field) /\ NotAtCR(header_field)
  BY Headers
<1>2. Claims(header_field)
  BY Headers
<1>3. /\ Typed(line) /\ GoesOn(line) /\ Takes(line) /\ EndsLine(line) /\ NotAtCR(line)
      /\ Claims(line)
  BY <1>1, <1>2, Folds, SeqDoes, LineEnds, Kinds DEF Fine
<1>4. Adds(line, -1)
  <2>1. 0 + (-1) = -1 /\ -1 \in -1 .. 2 /\ 0 \in -1 .. 2 /\ 0 <= 0
    OBVIOUS
  <2>2. Adds(header_field, 0)
    BY <1>1, Sums, Kinds
  <2> QED
    BY <1>1, <2>1, <2>2, Folds, SeqAdds, Kinds DEF Fine
<1>5. -1 \in -1 .. 2
  OBVIOUS
<1> HIDE DEF line
<1>6. /\ Typed(Tmp(line)) /\ GoesOn(Tmp(line)) /\ Takes(Tmp(line)) /\ Adds(Tmp(line), -1)
      /\ EndsLine(Tmp(line)) /\ NotAtCR(Tmp(line)) /\ Claims(Tmp(line))
  BY <1>3, <1>4, <1>5, TmpDoes
<1> QED
  BY <1>6 DEF line

\* The body ends before the zero byte at the latest, if it starts before it.
LEMMA Body ==
  ASSUME Texts
  PROVE  /\ Typed(message_body) /\ GoesOn(message_body) /\ Adds(message_body, 1)
         /\ Claims(message_body) /\ Sure(message_body)
         /\ \A s, l \in Lengths : \A n \in message_body[s][l].nodes : n.name \in Within
<1> SUFFICES ASSUME NEW s \in Lengths, NEW l \in Lengths
             PROVE  LET r == message_body[s][l] IN
                    /\ r \in Results /\ WentOn(s, l, r) /\ Added(s, l, r, 1)
                    /\ Claimed(s, l, r) /\ r.length # None
                    /\ \A n \in r.nodes : n.name \in Within
  BY DEF Typed, GoesOn, Adds, Claims, Sure
<1> DEFINE own == (s + l) % LenMod
           last == own + Len(text) + Len(rest) + 1
           Ends(j) == At(j) \notin Octets /\ \A k \in own .. j - 1 : At(k) \in Octets
           end == CHOOSE j \in own .. last : Ends(j)
           node == [name |-> "message_body", start |-> own,
                    length |-> (end - own) % LenMod]
           r == message_body[s][l]
<1>1. /\ s \in Nat /\ l \in Nat /\ own \in Lengths /\ own \in Nat /\ LenMod \in Nat
      /\ Memory \in Nat /\ Len(text) \in Nat /\ Len(rest) \in Nat /\ Len(text) < Memory
      /\ (Few => Short) /\ s + l \in Nat
  <2>1. s \in Nat /\ l \in Nat /\ s + l \in Nat
    BY Sizes
  <2>2. own \in Lengths
    BY <2>1, NotCut
  <2> HIDE DEF own
  <2> QED
    BY <2>1, <2>2, Sizes
<1>2. last = own + Memory /\ last \in Nat
  BY <1>1 DEF Memory
<1>3. r = [Hit((l + node.length) % LenMod) EXCEPT !.nodes = {node}]
  BY DEF message_body
<1> HIDE DEF own, last, node, r
<1>4. end \in own .. last /\ Ends(end)
  <2> DEFINE D == {j \in own .. last : At(j) \notin Octets}
  <2>1. last \in D
    <3>1. At(last) = "out"
      BY <1>1, <1>2 DEF At, Memory
    <3> QED
      BY <1>1, <1>2, <3>1, Signs
  <2>2. PICK j \in D : \A k \in D : j <= k
    <3>1. D \subseteq Nat /\ D # {}
      BY <1>1, <2>1
    <3> HIDE DEF D
    <3> QED
      BY <3>1, LeastOf
  <2>3. j \in own .. last /\ Ends(j)
    BY <1>1, <1>2, <2>2
  <2> HIDE DEF Ends
  <2> QED
    BY <2>3
<1> HIDE DEF end
<1>5. node.length \in Lengths /\ node \in Nodes /\ end \in Nat
  <2>1. end - own \in Nat /\ end \in Nat
    BY <1>1, <1>2, <1>4
  <2> QED
    BY <1>1, <2>1, NotCut DEF node, Nodes, Kept, Searched
<1>6. /\ r \in Results /\ Found(r) /\ r.length = (l + node.length) % LenMod
      /\ r.children = 1 /\ r.nodes = {node}
  <2>1. (l + node.length) % LenMod \in Lengths
    <3>1. node.length \in Nat
      BY <1>5, Sizes
    <3>2. l + node.length \in Nat
      BY <1>1, <3>1
    <3> QED
      BY <3>2, NotCut
  <2> DEFINE n == (l + node.length) % LenMod
  <2> HIDE DEF n
  <2>2. Hit(n) \in Results /\ Hit(n).length = n /\ Hit(n).children = 1 /\ Found(Hit(n))
    BY <2>1, Parts DEF n
  <2>3. r = [Hit(n) EXCEPT !.nodes = {node}]
    BY <1>3 DEF n
  <2>4. n # None
    BY <2>1, Sizes DEF n, None
  <2> QED
    BY <1>5, <2>2, <2>3, <2>4 DEF Results, Found, n
<1>7. ASSUME Short, Here(s, l)
      PROVE  /\ own = s + l /\ node.start = own /\ own <= end /\ end <= Memory
             /\ node.name = "message_body" /\ own + node.length = end
             /\ s + r.length = end /\ r.length >= l /\ r.length \in Nat
  <2>1. own = s + l /\ own <= Memory
    <3>1. s + l <= Memory
      BY <1>7 DEF Here
    <3> QED
      BY <1>1, <1>7, <3>1, NotCut DEF own
  <2>2. end <= Memory
    <3>1. Memory \in own .. end - 1 => At(Memory) \in Octets
      BY <1>4
    <3>2. At(Memory) = "out"
      BY <1>1, InMemory
    <3> QED
      BY <1>1, <1>4, <1>5, <2>1, <3>1, <3>2, Signs
  <2>3. end - own \in Nat /\ end - own <= Memory
    BY <1>1, <1>4, <2>1, <2>2
  <2>4. node.length = end - own
    BY <1>7, <2>3, NotCut DEF node
  <2>5. l + node.length \in Nat /\ l + node.length <= Memory
    <3>1. node.length \in Nat /\ l + node.length = end - s
      BY <1>1, <1>5, <2>1, <2>3, <2>4
    <3> QED
      BY <1>1, <1>5, <2>2, <3>1
  <2>6. r.length = l + node.length
    BY <1>6, <1>7, <2>5, NotCut
  <2> QED
    BY <1>1, <1>4, <1>5, <2>1, <2>2, <2>3, <2>4, <2>6 DEF node
<1>8. \A k \in own .. end - 1 : At(k) \in Octets
  BY <1>4
<1>9. WentOn(s, l, r)
  <2> SUFFICES ASSUME Short, Here(s, l)
               PROVE  /\ l <= r.length /\ Here(s, r.length)
                      /\ s + l <= node.start /\ node.start + node.length <= s + r.length
                      /\ ~Covers(node, Len(text))
    BY <1>6 DEF WentOn, Returns
  <2>1. At(Len(text)) \notin Octets
    BY <1>1, InMemory, Signs
  <2>2. ~(own <= Len(text) /\ Len(text) < end)
    BY <1>1, <1>5, <1>8, <2>1
  <2> QED
    BY <1>1, <1>5, <1>7, <2>2 DEF Here, Covers
<1>10. Added(s, l, r, 1)
  BY <1>1, <1>6, <1>7 DEF Added, Overflow
<1>11. Claimed(s, l, r)
  <2> SUFFICES ASSUME Short, Here(s, l), NEW i \in s + l .. s + r.length - 1
               PROVE  At(i) # Nul
    BY DEF Claimed, Returns
  <2>1. i \in own .. end - 1
    BY <1>1, <1>5, <1>7
  <2> QED
    BY <1>8, <2>1, Signs
<1>12. \A n \in r.nodes : n.name \in Within
  BY <1>6 DEF node, Within
<1> QED
  BY <1>6, <1>9, <1>10, <1>11, <1>12 DEF r, Found, None

-----------------------------------------------------------------------------
(***************************************************************************)
(* The program.  What is read is in memory; a node ends where the parse is *)
(* at the latest; the zero byte, once passed, is in a node.  After a line  *)
(* the parse is past the end of one, and not past an empty one.            *)
(***************************************************************************)
NodesAreRead ==
  \A n \in nodes :
    n.start + n.length <= len /\ (n.name \in Within => ~Covers(n, Len(text)))

ZeroIsClaimed ==
  \A i \in 0 .. len - 1 : At(i) # Nul \/ \E n \in nodes : Covers(n, i)

HeaderEnd(end) ==
  /\ 4 <= end /\ IsCRLF(end - 4) /\ IsCRLF(end - 2)
  /\ \A w \in Nat : IsCRLF(w) /\ IsCRLF(w + 2) => end <= w + 4

Answered == (\E n \in nodes : Covers(n, Len(text))) <=> ~Whole

Reading ==
  Short =>
    /\ len <= Memory
    /\ NodesAreRead
    /\ pc # "refused" => ZeroIsClaimed
    /\ pc = "start_line" => len = 0
    /\ pc \in {"header_field", "CRLF"} => Line(0, len)
    /\ pc = "message_body" => HeaderEnd(len)
    /\ pc = "accepted" => Answered

\* The memory does not change.
LEMMA MemoryStays == [Next]_vars => text' = text /\ rest' = rest
BY DEF Next, StartLine, HeaderField, EmptyLine, MessageBody, Call, vars

LEMMA Unchanged ==
  ASSUME text' = text, rest' = rest
  PROVE  /\ Memory' = Memory /\ Len(text)' = Len(text) /\ (Short' <=> Short)
         /\ (Few' <=> Few) /\ (Whole' <=> Whole) /\ (Texts' <=> Texts)
         /\ Line(0, len)' <=> Line(0, len')
         /\ HeaderEnd(len)' <=> HeaderEnd(len')
         /\ \A i : At(i)' = At(i)
BY DEF Memory, Short, Few, Whole, Texts, Line, HeaderEnd, IsCRLF, At

LEMMA TypedCalls ==
  ASSUME Texts
  PROVE  /\ Typed(start_line) /\ Typed(Tmp(header_field & CRLF))
         /\ Typed(CRLF) /\ Typed(message_body)
BY Lines, HeaderLines, Folds, Body

\* What a call leaves, whatever comes of it.
LEMMA CallKeepsTypes ==
  ASSUME TypeOK, NEW e, Typed(e), NEW found, NEW missed, Call(e, found, missed)
  PROVE  /\ text' = text /\ rest' = rest /\ len' \in Lengths
         /\ nodes' \subseteq Nodes /\ marks' \subseteq Marked
         /\ pc' \in {found, missed, "overflow", "aborted"}
<1>1. 0 \in Lengths /\ len \in Lengths
  BY LenModAssumption DEF TypeOK, Lengths
<1>2. e[0][len] \in Results
  BY <1>1 DEF Typed
<1> DEFINE r == e[0][len]
<1>3. /\ marks' = marks \cup r.marks /\ text' = text /\ rest' = rest
      /\ \/ Found(r) /\ len' = r.length /\ nodes' = nodes \cup r.nodes /\ pc' = found
         \/ pc' = "overflow" /\ UNCHANGED <<len, nodes>>
         \/ /\ nodes' = (IF missed = "refused" THEN {} ELSE nodes)
            /\ pc' = missed /\ len' = len
         \/ pc' = "aborted" /\ UNCHANGED <<len, nodes>>
  BY DEF Call
<1>4. /\ r.marks \subseteq Marked /\ r.nodes \subseteq Nodes
      /\ Found(r) => r.length \in Lengths
  BY <1>2, Parts DEF Results
<1>5. nodes \subseteq Nodes /\ marks \subseteq Marked
  BY DEF TypeOK, Nodes, Marked
<1> HIDE DEF r
<1> QED
  BY <1>1, <1>3, <1>4, <1>5

\* The types of the parser's variables: positions and lengths are those of uint16_t,
\* whatever the request, and no other node is kept than those of the searched names.
THEOREM TypeCorrect == Spec => []TypeOK
<1>1. Init => TypeOK
  <2>1. Init => text \in Seq(Octets) /\ rest \in Seq(Octets \cup {Nul})
    BY InputsAssumption DEF Init, Input
  <2> QED
    BY <2>1, LenModAssumption DEF Init, TypeOK, Lengths
<1>2. TypeOK /\ [Next]_vars => TypeOK'
  <2> SUFFICES ASSUME TypeOK, [Next]_vars PROVE TypeOK'
    OBVIOUS
  <2>1. Texts
    BY DEF TypeOK, Texts
  <2>2. ASSUME NEW e, Typed(e), NEW found, NEW missed, Call(e, found, missed),
               found \in {"header_field", "message_body", "accepted"},
               missed \in {"refused", "CRLF", "accepted"}
        PROVE  TypeOK'
    <3>1. /\ text' = text /\ rest' = rest /\ len' \in Lengths
          /\ nodes' \subseteq Nodes /\ marks' \subseteq Marked
          /\ pc' \in {found, missed, "overflow", "aborted"}
      BY <2>2, CallKeepsTypes
    <3> QED
      BY <2>2, <3>1 DEF TypeOK, Nodes, Marked, Lengths
  <2>3. CASE StartLine
    BY <2>1, <2>2, <2>3, TypedCalls DEF StartLine
  <2>4. CASE HeaderField
    BY <2>1, <2>2, <2>4, TypedCalls DEF HeaderField
  <2>5. CASE EmptyLine
    BY <2>1, <2>2, <2>5, TypedCalls DEF EmptyLine
  <2>6. CASE MessageBody
    BY <2>1, <2>2, <2>6, TypedCalls DEF MessageBody
  <2>7. CASE UNCHANGED vars
    BY <2>7 DEF vars, TypeOK, Lengths
  <2> QED
    BY <2>3, <2>4, <2>5, <2>6, <2>7 DEF Next
<1> QED
  BY <1>1, <1>2, PTL DEF Spec

\* What a call that is one of the above does to what was read.
LEMMA CallReads ==
  ASSUME TypeOK, Short, Reading, NEW e, Typed(e), GoesOn(e), NEW found, NEW missed,
         Call(e, found, missed)
  PROVE  /\ text' = text /\ rest' = rest /\ len' <= Memory
         /\ NodesAreRead'
         /\ Claims(e) /\ pc # "refused" /\ pc' # "refused" => ZeroIsClaimed'
         /\ \/ Returns(0, len, e[0][len]) /\ len' = e[0][len].length /\ pc' = found
            \/ len' = len /\ pc' = missed /\ e[0][len].length = None
            \/ len' = len /\ pc' \in {"overflow", "aborted"}
<1> DEFINE r == e[0][len]
<1>1. /\ 0 \in Lengths /\ len \in Lengths /\ len \in Nat /\ Texts
      /\ Memory \in Nat /\ Len(text) \in Nat
  BY Sizes DEF TypeOK, Texts
<1>2. r \in Results /\ WentOn(0, len, r) /\ (Claims(e) => Claimed(0, len, r))
  BY <1>1 DEF Typed, GoesOn, Claims
<1>3. len <= Memory /\ NodesAreRead /\ (pc # "refused" => ZeroIsClaimed)
  BY DEF Reading
<1>4. Here(0, len)
  BY <1>1, <1>3 DEF Here
<1>5. /\ text' = text /\ rest' = rest
      /\ \/ Found(r) /\ len' = r.length /\ nodes' = nodes \cup r.nodes /\ pc' = found
         \/ /\ len' = len /\ pc' = missed /\ r.length = None
            /\ nodes' = (IF missed = "refused" THEN {} ELSE nodes)
         \/ len' = len /\ nodes' = nodes /\ pc' \in {"overflow", "aborted"}
  BY DEF Call
<1>6. /\ \A n \in nodes : n.start \in Nat /\ n.length \in Nat
      /\ \A n \in r.nodes : n.start \in Nat /\ n.length \in Nat
      /\ Found(r) => r.length \in Nat
  <2>1. \A n \in Nodes : n.start \in Nat /\ n.length \in Nat
    BY <1>1, Sizes DEF Nodes
  <2>2. nodes \subseteq Nodes /\ r.nodes \subseteq Nodes
    BY <1>2 DEF TypeOK, Nodes, Results
  <2> QED
    BY <1>1, <1>2, <2>1, <2>2, Parts, Sizes
<1> HIDE DEF r
<1>7. CASE Found(r) /\ len' = r.length /\ nodes' = nodes \cup r.nodes /\ pc' = found
  <2>1. Returns(0, len, r)
    BY <1>4, <1>7 DEF Returns
  <2>2. /\ len <= len' /\ len' <= Memory /\ len' \in Nat
        /\ \A n \in r.nodes :
             n.start + n.length <= len' /\ (n.name \in Within => ~Covers(n, Len(text)))
    BY <1>1, <1>2, <1>6, <1>7, <2>1 DEF WentOn, Here
  <2>3. \A n \in nodes :
          n.start + n.length <= len' /\ (n.name \in Within => ~Covers(n, Len(text)))
    <3>1. \A n \in nodes :
            n.start + n.length <= len /\ (n.name \in Within => ~Covers(n, Len(text)))
      BY <1>3 DEF NodesAreRead
    <3> QED
      BY <1>1, <1>6, <2>2, <3>1
  <2>4. NodesAreRead'
    BY <1>5, <1>7, <2>2, <2>3 DEF NodesAreRead
  <2>5. ASSUME Claims(e), ZeroIsClaimed
        PROVE  ZeroIsClaimed'
    <3>1. ASSUME NEW i \in 0 .. len' - 1
          PROVE  At(i) # Nul \/ \E n \in nodes' : Covers(n, i)
      <4>1. CASE i < len
        <5>1. i \in 0 .. len - 1
          BY <1>1, <2>2, <4>1
        <5> QED
          BY <1>7, <2>5, <5>1 DEF ZeroIsClaimed
      <4>2. CASE i >= len
        <5>1. i \in 0 + len .. 0 + r.length - 1
          BY <1>1, <1>7, <2>2, <4>2
        <5>2. At(i) # Nul \/ \E n \in r.nodes : Covers(n, i)
          BY <1>2, <2>1, <2>5, <5>1 DEF Claimed
        <5> QED
          BY <1>7, <5>2
      <4> QED
        BY <1>1, <2>2, <4>1, <4>2
    <3>2. \A i : At(i)' = At(i)
      BY <1>5, Unchanged
    <3> QED
      BY <3>1, <3>2 DEF ZeroIsClaimed
  <2> QED
    BY <1>3, <1>5, <1>7, <2>1, <2>2, <2>4, <2>5 DEF r
<1>8. CASE /\ len' = len /\ pc' = missed /\ r.length = None
           /\ nodes' = (IF missed = "refused" THEN {} ELSE nodes)
  <2>1. NodesAreRead'
    BY <1>3, <1>5, <1>8 DEF NodesAreRead
  <2>2. pc # "refused" /\ pc' # "refused" => ZeroIsClaimed'
    <3>1. \A i : At(i)' = At(i)
      BY <1>5, Unchanged
    <3> QED
      BY <1>3, <1>8, <3>1 DEF ZeroIsClaimed
  <2> QED
    BY <1>3, <1>5, <1>8, <2>1, <2>2 DEF r
<1>9. CASE len' = len /\ nodes' = nodes /\ pc' \in {"overflow", "aborted"}
  <2>1. NodesAreRead'
    BY <1>3, <1>5, <1>9 DEF NodesAreRead
  <2>2. pc # "refused" => ZeroIsClaimed'
    <3>1. \A i : At(i)' = At(i)
      BY <1>5, Unchanged
    <3> QED
      BY <1>3, <1>9, <3>1 DEF ZeroIsClaimed
  <2> QED
    BY <1>3, <1>5, <1>9, <2>1, <2>2 DEF r
<1> QED
  BY <1>5, <1>7, <1>8, <1>9

\* From the end of a line to that of the next, not past an empty one: it does not
\* start with CR, as the empty one does.
LEMMA NextLine ==
  ASSUME NEW start \in Nat, NEW end \in Nat, Line(0, start), Line(start, end),
         At(start) # CR
  PROVE  Line(0, end)
<1> SUFFICES ASSUME NEW w \in Nat, IsCRLF(w), IsCRLF(w + 2) PROVE end <= w + 2
  BY DEF Line
<1>1. 2 <= start /\ IsCRLF(start - 2) /\ start <= w + 2
  BY DEF Line
<1>2. At(start - 2 + 1) = LF /\ At(w) = CR /\ At(w + 2) = CR
  BY <1>1 DEF IsCRLF
<1>3. start # w + 2
  BY <1>2
<1>4. start # w + 1
  <2> SUFFICES ASSUME start = w + 1 PROVE FALSE
    OBVIOUS
  <2>1. start - 2 + 1 = w
    OBVIOUS
  <2> QED
    BY <1>2, <2>1, Signs
<1>5. start <= w
  BY <1>1, <1>3, <1>4
<1> QED
  BY <1>5 DEF Line

\* From the end of the last line to that of the empty one.
LEMMA EmptyLineIs ==
  ASSUME Texts, Short, NEW l \in Lengths, Line(0, l), Found(CRLF[0][l])
  PROVE  HeaderEnd(CRLF[0][l].length)
<1>1. 0 \in Lengths /\ l \in Nat
  BY Sizes
<1> DEFINE end == CRLF[0][l].length
<1>2. end = l + 2 /\ At(0 + l) = CR /\ At(0 + l + 1) = LF
  BY <1>1, PairAt, Signs DEF CRLF, CR, LF
<1> HIDE DEF end
<1>3. 0 + l = l /\ end - 2 = l /\ end - 4 = l - 2
  BY <1>1, <1>2
<1>4. 2 <= l /\ IsCRLF(l - 2)
  BY DEF Line
<1>5. IsCRLF(l)
  BY <1>2, <1>3 DEF IsCRLF
<1>6. IsCRLF(end - 2) /\ IsCRLF(end - 4) /\ 4 <= end
  BY <1>1, <1>2, <1>3, <1>4, <1>5
<1>7. \A w \in Nat : IsCRLF(w) /\ IsCRLF(w + 2) => end <= w + 4
  <2>1. \A w \in Nat : IsCRLF(w) /\ IsCRLF(w + 2) => l <= w + 2
    BY DEF Line
  <2> QED
    BY <1>1, <1>2, <2>1
<1> QED
  BY <1>6, <1>7 DEF HeaderEnd, end

\* Where the body starts says whether the header section was whole in the text.
LEMMA WholeIs ==
  ASSUME Texts, NEW end \in Nat, HeaderEnd(end)
  PROVE  Whole <=> end <= Len(text)
<1>1. Len(text) \in Nat
  BY Sizes
<1>2. ASSUME Whole PROVE end <= Len(text)
  <2>1. PICK i \in 0 .. Len(text) - 4 : IsCRLF(i) /\ IsCRLF(i + 2)
    BY <1>2 DEF Whole
  <2>2. end <= i + 4
    BY <2>1 DEF HeaderEnd
  <2> QED
    BY <1>1, <2>1, <2>2
<1>3. ASSUME end <= Len(text) PROVE Whole
  <2> DEFINE i == end - 4
  <2>1. i \in 0 .. Len(text) - 4 /\ end - 2 = i + 2
    BY <1>1, <1>3 DEF HeaderEnd
  <2>2. IsCRLF(i) /\ IsCRLF(i + 2)
    BY <2>1 DEF HeaderEnd
  <2> HIDE DEF i
  <2> QED
    BY <2>1, <2>2 DEF Whole
<1> QED
  BY <1>2, <1>3

LEMMA ReadingKept ==
  ASSUME TypeOK, Reading, [Next]_vars
  PROVE  Reading'
<1> SUFFICES ASSUME Short
             PROVE  /\ len' <= Memory' /\ NodesAreRead'
                    /\ pc' # "refused" => ZeroIsClaimed'
                    /\ pc' = "start_line" => len' = 0
                    /\ pc' \in {"header_field", "CRLF"} => Line(0, len)'
                    /\ pc' = "message_body" => HeaderEnd(len)'
                    /\ pc' = "accepted" => Answered'
  BY MemoryStays, Unchanged DEF Reading
<1>1. /\ Texts /\ 0 \in Lengths /\ len \in Lengths /\ len \in Nat /\ Memory \in Nat
      /\ Len(text) \in Nat /\ Lengths \subseteq Nat
  BY Sizes DEF TypeOK, Texts
<1>2. /\ len <= Memory /\ NodesAreRead
      /\ pc # "refused" => ZeroIsClaimed
      /\ pc = "start_line" => len = 0
      /\ pc \in {"header_field", "CRLF"} => Line(0, len)
      /\ pc = "message_body" => HeaderEnd(len)
      /\ pc = "accepted" => Answered
  BY DEF Reading
<1>3. CASE StartLine
  <2> DEFINE r == start_line[0][len]
  <2>1. /\ Typed(start_line) /\ GoesOn(start_line) /\ Claims(start_line)
        /\ EndsLine(start_line) /\ pc = "start_line"
        /\ Call(start_line, "header_field", "refused")
    BY <1>1, <1>3, Lines DEF StartLine
  <2>2. /\ text' = text /\ rest' = rest /\ len' <= Memory /\ NodesAreRead'
        /\ pc' # "refused" => ZeroIsClaimed'
        /\ \/ Returns(0, len, r) /\ len' = r.length /\ pc' = "header_field"
           \/ pc' \in {"refused", "overflow", "aborted"}
    BY <2>1, CallReads
  <2>3. Ended(0, len, r) /\ len = 0
    BY <1>1, <1>2, <2>1 DEF EndsLine
  <2>4. Found(r) => r.length \in Nat
    BY <1>1, <2>1, Parts DEF Typed
  <2> HIDE DEF r
  <2>5. pc' = "header_field" => Line(0, len')
    <3> SUFFICES ASSUME pc' = "header_field" PROVE Line(0, len')
      OBVIOUS
    <3>1. Returns(0, len, r) /\ len' = r.length /\ r.length \in Nat
      BY <2>2, <2>4 DEF Returns
    <3>2. 0 + len = 0 /\ 0 + r.length = len'
      BY <2>3, <3>1
    <3> QED
      BY <2>3, <3>1, <3>2 DEF Ended
  <2>6. Memory' = Memory /\ (Line(0, len)' <=> Line(0, len'))
    BY <2>2, Unchanged
  <2> QED
    BY <2>2, <2>5, <2>6
<1>4. CASE HeaderField
  <2> DEFINE line == Tmp(header_field & CRLF)
             r == line[0][len]
  <2>1. /\ Typed(line) /\ GoesOn(line) /\ Claims(line) /\ NotAtCR(line)
        /\ EndsLine(line) /\ pc = "header_field" /\ Call(line, "header_field", "CRLF")
    BY <1>1, <1>4, HeaderLines DEF HeaderField
  <2>2. /\ text' = text /\ rest' = rest /\ len' <= Memory /\ NodesAreRead'
        /\ pc' # "refused" => ZeroIsClaimed'
        /\ \/ Returns(0, len, r) /\ len' = r.length /\ pc' = "header_field"
           \/ len' = len /\ pc' = "CRLF"
           \/ len' = len /\ pc' \in {"overflow", "aborted"}
    BY <2>1, CallReads
  <2>3. Ended(0, len, r) /\ WasNotAtCR(0, len, r)
    BY <1>1, <2>1 DEF EndsLine, NotAtCR
  <2>4. Found(r) => r.length \in Nat
    BY <1>1, <2>1, Parts DEF Typed
  <2> HIDE DEF r
  <2>5. pc' \in {"header_field", "CRLF"} => Line(0, len')
    <3>1. CASE Returns(0, len, r) /\ len' = r.length
      <4>1. 0 + len = len /\ 0 + r.length = len' /\ len' \in Nat
        BY <1>1, <2>4, <3>1 DEF Returns
      <4>2. Line(len, len') /\ At(len) # CR
        BY <2>3, <3>1, <4>1 DEF Ended, WasNotAtCR
      <4> QED
        BY <1>1, <1>2, <2>1, <4>1, <4>2, NextLine
    <3>2. CASE len' = len
      BY <1>2, <2>1, <3>2
    <3> QED
      BY <2>2, <3>1, <3>2
  <2>6. Memory' = Memory /\ (Line(0, len)' <=> Line(0, len'))
    BY <2>2, Unchanged
  <2> QED
    BY <2>2, <2>5, <2>6
<1>5. CASE EmptyLine
  <2> DEFINE r == CRLF[0][len]
  <2>1. /\ Typed(CRLF) /\ GoesOn(CRLF) /\ Claims(CRLF)
        /\ pc = "CRLF" /\ Call(CRLF, "message_body", "refused")
    BY <1>1, <1>5, Folds DEF EmptyLine
  <2>2. /\ text' = text /\ rest' = rest /\ len' <= Memory /\ NodesAreRead'
        /\ pc' # "refused" => ZeroIsClaimed'
        /\ \/ Returns(0, len, r) /\ len' = r.length /\ pc' = "message_body"
           \/ pc' \in {"refused", "overflow", "aborted"}
    BY <2>1, CallReads
  <2>3. pc' = "message_body" => HeaderEnd(len')
    <3>1. Found(r) => HeaderEnd(r.length)
      BY <1>1, <1>2, <2>1, EmptyLineIs
    <3> QED
      BY <2>2, <3>1 DEF Returns
  <2>4. Memory' = Memory /\ (HeaderEnd(len)' <=> HeaderEnd(len'))
    BY <2>2, Unchanged
  <2> QED
    BY <2>2, <2>3, <2>4
<1>6. CASE MessageBody
  <2> DEFINE r == message_body[0][len]
  <2>1. /\ Typed(message_body) /\ GoesOn(message_body) /\ Claims(message_body)
        /\ pc = "message_body" /\ Call(message_body, "accepted", "accepted")
        /\ r.length # None
    BY <1>1, <1>6, Body DEF MessageBody, Sure
  <2>2. /\ text' = text /\ rest' = rest /\ len' <= Memory /\ NodesAreRead'
        /\ pc' # "refused" => ZeroIsClaimed'
        /\ \/ Returns(0, len, r) /\ len' = r.length /\ pc' = "accepted"
           \/ pc' \in {"overflow", "aborted"}
    BY <2>1, CallReads
  <2>3. Memory' = Memory
    BY <2>2, Unchanged
  <2>4. pc' = "accepted" => Answered'
    <3> SUFFICES ASSUME pc' = "accepted"
                 PROVE  (\E n \in nodes' : Covers(n, Len(text))) <=> ~Whole
      BY <2>2, Unchanged DEF Answered
    <3>1. Whole <=> len <= Len(text)
      BY <1>1, <1>2, <2>1, WholeIs
    <3>2. Returns(0, len, r) /\ nodes' = nodes \cup r.nodes
      BY <2>1, <2>2 DEF Call, Returns
    <3>3. \A n \in r.nodes : n.name \in Within /\ n \in nodes'
      BY <1>1, <3>2, Body
    <3>4. \A n \in r.nodes : ~Covers(n, Len(text))
      BY <2>2, <3>3 DEF NodesAreRead
    <3>5. CASE Whole
      <4>1. \A n \in nodes : n.start \in Nat /\ n.length \in Nat
        BY <1>1 DEF TypeOK
      <4>2. \A n \in nodes : n.start + n.length <= Len(text)
        BY <1>1, <1>2, <3>1, <3>5, <4>1 DEF NodesAreRead
      <4> QED
        BY <1>1, <3>2, <3>4, <3>5, <4>1, <4>2 DEF Covers
    <3>6. CASE ~Whole
      <4>1. Len(text) \in 0 .. len - 1 /\ At(Len(text)) = Nul
        BY <1>1, <3>1, <3>6, InMemory
      <4>2. \E n \in nodes : Covers(n, Len(text))
        BY <1>2, <2>1, <4>1 DEF ZeroIsClaimed
      <4> QED
        BY <3>2, <3>6, <4>2
    <3> QED
      BY <3>5, <3>6
  <2> QED
    BY <2>2, <2>3, <2>4
<1>7. CASE UNCHANGED vars
  <2>1. text' = text /\ rest' = rest /\ pc' = pc /\ len' = len /\ nodes' = nodes
    BY <1>7 DEF vars
  <2>2. /\ Memory' = Memory /\ (Line(0, len)' <=> Line(0, len'))
        /\ (HeaderEnd(len)' <=> HeaderEnd(len'))
    BY <2>1, Unchanged
  <2>3. NodesAreRead' <=> NodesAreRead
    BY <2>1 DEF NodesAreRead
  <2>4. ZeroIsClaimed' <=> ZeroIsClaimed
    BY <2>1 DEF ZeroIsClaimed, At
  <2>5. Answered' <=> Answered
    BY <2>1, Unchanged DEF Answered
  <2> QED
    BY <1>2, <2>1, <2>2, <2>3, <2>4, <2>5
<1> QED
  BY <1>3, <1>4, <1>5, <1>6, <1>7 DEF Next

LEMMA ReadingHolds == Spec => []Reading
<1>1. Init => Reading
  <2> SUFFICES ASSUME Init PROVE Reading
    OBVIOUS
  <2>1. Texts
    BY InputsAssumption DEF Init, Input, Texts
  <2> QED
    BY <2>1, Sizes DEF Init, Reading, NodesAreRead, ZeroIsClaimed
<1>2. TypeOK /\ Reading /\ [Next]_vars => Reading'
  BY ReadingKept
<1> QED
  BY <1>1, <1>2, TypeCorrect, PTL DEF Spec

\* The zero byte that ends the text is in a name, a target or a specific field of
\* the tree of a request that came without the end of its header section, and in
\* no node of a request that came with it; it never is in a version, a length,
\* another field's value or the body.
THEOREM ZeroByteIsClaimed == Spec => []ReadsPastTheEnd
<1>1. Reading => ReadsPastTheEnd
  BY DEF Reading, ReadsPastTheEnd, NodesAreRead, Answered, Accepted, Within
<1> QED
  BY <1>1, ReadingHolds, PTL

\* No count of children is cut to 16 bits while reading a request of less than 2^15
\* bytes, whatever is in it.
THEOREM CountsHold == Spec => []ChildrenAreCounted
<1>1. Init => ChildrenAreCounted
  BY DEF Init, ChildrenAreCounted
<1>2. TypeOK /\ Reading /\ ChildrenAreCounted /\ [Next]_vars => ChildrenAreCounted'
  <2> SUFFICES ASSUME TypeOK, Reading, ChildrenAreCounted, [Next]_vars, Few
               PROVE  pc' # "overflow"
    BY MemoryStays DEF ChildrenAreCounted, Few, Memory
  <2>1. /\ Texts /\ 0 \in Lengths /\ len \in Lengths /\ Here(0, len)
    <3>1. Texts /\ Short /\ len \in Lengths
      BY Sizes DEF TypeOK, Texts
    <3> QED
      BY <3>1, Sizes DEF Reading, Here
  <2>2. ASSUME NEW e, NEW b, Adds(e, b), NEW found, NEW missed, Call(e, found, missed),
               found # "overflow", missed # "overflow"
        PROVE  pc' # "overflow"
    <3>1. Added(0, len, e[0][len], b)
      BY <2>1, <2>2 DEF Adds
    <3>2. e[0][len].length # Overflow
      BY <2>1, <3>1 DEF Added
    <3> QED
      BY <2>2, <3>2 DEF Call
  <2>3. CASE StartLine
    BY <2>1, <2>2, <2>3, Lines DEF StartLine
  <2>4. CASE HeaderField
    BY <2>1, <2>2, <2>4, HeaderLines DEF HeaderField
  <2>5. CASE EmptyLine
    BY <2>1, <2>2, <2>5, Folds DEF EmptyLine
  <2>6. CASE MessageBody
    BY <2>1, <2>2, <2>6, Body DEF MessageBody
  <2>7. CASE UNCHANGED vars
    <3>1. pc' = pc
      BY <2>7 DEF vars
    <3> QED
      BY <3>1 DEF ChildrenAreCounted, Few
  <2> QED
    BY <2>3, <2>4, <2>5, <2>6, <2>7 DEF Next
<1> QED
  BY <1>1, <1>2, TypeCorrect, ReadingHolds, PTL DEF Spec

\* The loop over the fields comes nearer to the end of the memory each turn.
THEOREM ReadOnce == Spec => NeverReadAgain
<1>1. TypeOK /\ Reading /\ [Next]_vars => [Short /\ pc' = pc => len' > len]_vars
  <2> SUFFICES ASSUME TypeOK, Reading, Next, Short, pc' = pc
               PROVE  len' > len
    OBVIOUS
  <2>1. Texts /\ 0 \in Lengths /\ len \in Lengths
    BY Sizes DEF TypeOK, Texts
  <2>2. pc = "header_field" /\ HeaderField
    BY DEF Next, StartLine, HeaderField, EmptyLine, MessageBody, Call
  <2> DEFINE line == Tmp(header_field & CRLF)
             r == line[0][len]
  <2>3. Typed(line) /\ GoesOn(line) /\ Takes(line)
    BY <2>1, HeaderLines
  <2>4. Call(line, "header_field", "CRLF")
    BY <2>2 DEF HeaderField
  <2>5. Returns(0, len, r) /\ len' = r.length
    BY <2>2, <2>3, <2>4, CallReads
  <2>6. Took(0, len, r)
    BY <2>1, <2>3 DEF Takes
  <2>7. r.length \in Nat /\ len \in Nat
    BY <2>1, <2>3, <2>5, Parts, Sizes DEF Typed, Returns
  <2> HIDE DEF r
  <2> QED
    BY <2>5, <2>6, <2>7 DEF Took
<1> QED
  BY <1>1, TypeCorrect, ReadingHolds, PTL DEF Spec, NeverReadAgain
=============================================================================
