---------------------------- MODULE OrbitsProofs ----------------------------
(***************************************************************************)
(* Proofs about Orbits, for any number of planets, moons, stations and     *)
(* losses: the star comes first, the planets stand, a tick leaves out no   *)
(* orbital unless one is lost, the lines drawn are those of the orbitals   *)
(* that exist, and what they lead to is online.                            *)
(***************************************************************************)
EXTENDS Orbits, FiniteSetTheorems, WellFoundedInduction, TLAPS

\* What ships can spend: the base and the stations.
Losable == {b \in Made : \/ b = BasePlanet
                         \/ Type(b) \in {SATELLITE, MINING, DEFENSE}}

\* The star is never lost, so that nothing ever comes in its place.
SystemInv ==
  /\ Len(made) >= 2 /\ Type(Star) = STAR
  /\ Len(orbitals) <= Len(made)
  /\ SunIsFirst
  /\ PlanetsStand
  /\ spent \subseteq Losable /\ online \subseteq Losable
  /\ Range(todo) \subseteq Losable
  /\ step # "comlines" => todo = << >>

\* As long as no orbital is lost, the loop has updated those before its index.
LoopInv ==
  /\ index <= length + 1
  /\ step = "orbitals" /\ ~gone =>
       length = Len(orbitals) /\ \A i \in 1 .. index - 1 : orbitals[i] \in updated
  /\ LeftOutByALoss

\* What is kept around a body turns around it still; a render completes it.
CacheInv ==
  /\ \A h \in Body : \A b \in Kept(h) : b \in Living /\ Host(b) = h
  /\ step \in {"comlines", "drawn"} =>
       \A h \in Body : \A i \in Around(h) : \E b \in Kept(h) :
         made[b].label = made[orbitals[i]].label

OrbitsInv == TypeOK /\ SystemInv /\ LoopInv /\ CacheInv

-----------------------------------------------------------------------------
(***************************************************************************)
(* Lemmas on the lists.                                                    *)
(***************************************************************************)

\* What is left of a list that holds nothing twice is the same list without
\* that one, and nothing twice either.
LEMMA SwapRemoved ==
  ASSUME NEW S, NEW q \in Seq(S), IsInjective(q), NEW i \in DOMAIN q
  PROVE  /\ SwapRemove(q, i) \in Seq(S)
         /\ Len(SwapRemove(q, i)) = Len(q) - 1
         /\ DOMAIN SwapRemove(q, i) = 1 .. Len(q) - 1
         /\ IsInjective(SwapRemove(q, i))
         /\ Range(SwapRemove(q, i)) = Range(q) \ {q[i]}
<1> DEFINE r == SwapRemove(q, i)
<1>1. PICK n \in Nat : n = Len(q) /\ DOMAIN q = 1 .. n /\ q \in [1 .. n -> S]
  OBVIOUS
<1>2. i \in 1 .. n /\ n \in 1 .. n /\ n - 1 \in Nat
  BY <1>1
<1>3. \A j \in 1 .. n - 1 : j \in 1 .. n /\ j # n
  OBVIOUS
<1>4. \A j \in 1 .. n : j # n => j \in 1 .. n - 1
  OBVIOUS
<1>5. r = [j \in 1 .. n - 1 |-> IF j = i THEN q[n] ELSE q[j]]
  BY <1>1 DEF SwapRemove
<1>6. DOMAIN r = 1 .. n - 1
      /\ \A j \in 1 .. n - 1 : r[j] = IF j = i THEN q[n] ELSE q[j]
  BY <1>5
<1>7. r \in Seq(S) /\ Len(r) = n - 1
  <2>1. r \in [1 .. n - 1 -> S]
    BY <1>1, <1>2, <1>3, <1>5
  <2>2. QED
    BY <1>2, <2>1
<1>8. \A a, b \in 1 .. n : q[a] = q[b] => a = b
  BY <1>1 DEF IsInjective
<1> HIDE DEF r
<1>9. IsInjective(r)
  BY <1>2, <1>3, <1>6, <1>8 DEF IsInjective
<1>10. Range(r) = Range(q) \ {q[i]}
  <2>1. ASSUME NEW x \in Range(r)
        PROVE  x \in Range(q) \ {q[i]}
    <3>1. PICK j \in 1 .. n - 1 : x = r[j]
      BY <1>6 DEF Range
    <3>2. QED
      BY <1>1, <1>2, <1>3, <1>6, <1>8, <3>1 DEF Range
  <2>2. ASSUME NEW x \in Range(q) \ {q[i]}
        PROVE  x \in Range(r)
    <3>1. PICK j \in 1 .. n : x = q[j] /\ j # i
      BY <1>1 DEF Range
    <3>2. CASE j = n
      <4>1. i \in 1 .. n - 1 /\ r[i] = x
        BY <1>2, <1>4, <1>6, <3>1, <3>2
      <4>2. QED
        BY <1>6, <4>1 DEF Range
    <3>3. CASE j # n
      <4>1. j \in 1 .. n - 1 /\ r[j] = x
        BY <1>4, <1>6, <3>1, <3>3
      <4>2. QED
        BY <1>6, <4>1 DEF Range
    <3>4. QED
      BY <3>2, <3>3
  <2>3. QED
    BY <2>1, <2>2
<1>11. QED
  BY <1>1, <1>6, <1>7, <1>9, <1>10 DEF r

\* What Append() does to a list that holds nothing twice.
LEMMA Appended ==
  ASSUME NEW S, NEW q \in Seq(S), NEW x \in S
  PROVE  /\ Append(q, x) \in Seq(S)
         /\ Len(Append(q, x)) = Len(q) + 1
         /\ Range(Append(q, x)) = Range(q) \cup {x}
         /\ IsInjective(q) /\ x \notin Range(q) => IsInjective(Append(q, x))
<1> DEFINE r == Append(q, x)
<1>1. /\ Len(q) \in Nat /\ DOMAIN q = 1 .. Len(q)
      /\ r \in Seq(S) /\ Len(r) = Len(q) + 1 /\ DOMAIN r = 1 .. Len(q) + 1
      /\ \A j \in 1 .. Len(q) : r[j] = q[j]
      /\ r[Len(q) + 1] = x
  OBVIOUS
<1>2. 1 .. Len(q) + 1 = (1 .. Len(q)) \cup {Len(q) + 1}
  BY <1>1
<1>3. Range(r) = Range(q) \cup {x}
  BY <1>1, <1>2 DEF Range
<1>4. ASSUME IsInjective(q), x \notin Range(q) PROVE IsInjective(r)
  BY <1>1, <1>2, <1>4 DEF IsInjective, Range
<1>5. QED
  BY <1>1, <1>3, <1>4

-----------------------------------------------------------------------------
\* The largest of some numbers.
LEMMA Largest ==
  ASSUME NEW m \in Nat, NEW Q \in SUBSET (1 .. m), Q # {}
  PROVE  \E j \in Q : \A k \in Q : k <= j
<1> DEFINE T == {m - k : k \in Q}
<1>1. T \subseteq Nat /\ T # {}
  <2>1. \A k \in 1 .. m : m - k \in Nat
    OBVIOUS
  <2>2. QED
    BY <2>1
<1>2. \E x \in T : \A y \in T : ~(<<y, x>> \in OpToRel(<, Nat))
  BY <1>1, NatLessThanWellFounded, WFMin
<1>3. PICK x \in T : \A y \in T : ~(y < x)
  BY <1>1, <1>2 DEF OpToRel
<1>4. PICK j \in Q : x = m - j
  BY <1>3
<1>5. \A k \in Q : ~(m - k < m - j)
  BY <1>3, <1>4
<1>6. QED
  BY <1>4, <1>5

\* A function on 1 .. k is a sequence of k elements.
LEMMA Tabled ==
  ASSUME NEW S, NEW k \in Nat, NEW f \in [1 .. k -> S]
  PROVE  f \in Seq(S) /\ Len(f) = k
OBVIOUS

\* Two lists joined: the elements of one, then those of the other.
Join(q, r) == q \o r

LEMMA Elements ==
  ASSUME NEW S, NEW q \in Seq(S), NEW r \in Seq(S)
  PROVE  /\ Join(q, r) \in Seq(S)
         /\ Len(Join(q, r)) = Len(q) + Len(r)
         /\ DOMAIN Join(q, r) = 1 .. Len(q) + Len(r)
         /\ \A i \in 1 .. Len(q) + Len(r) :
              Join(q, r)[i] = IF i <= Len(q) THEN q[i] ELSE r[i - Len(q)]
<1>1. /\ Len(q) \in Nat /\ DOMAIN q = 1 .. Len(q)
      /\ Len(r) \in Nat /\ DOMAIN r = 1 .. Len(r)
  OBVIOUS
<1>2. QED
  BY <1>1 DEF Join

\* Two lists joined hold what each of them holds, and nothing twice if neither
\* does and they have nothing in common.
LEMMA Joined ==
  ASSUME NEW S, NEW q \in Seq(S), NEW r \in Seq(S)
  PROVE  /\ q \o r \in Seq(S) /\ Len(q \o r) = Len(q) + Len(r)
         /\ Range(q \o r) = Range(q) \cup Range(r)
         /\ IsInjective(q) /\ IsInjective(r) /\ Range(q) \cap Range(r) = {}
              => IsInjective(q \o r)
<1> DEFINE t == q \o r
<1>1. PICK m \in Nat, n \in Nat :
        /\ m = Len(q) /\ DOMAIN q = 1 .. m /\ n = Len(r) /\ DOMAIN r = 1 .. n
  OBVIOUS
<1>2. /\ t \in Seq(S) /\ Len(t) = m + n /\ DOMAIN t = 1 .. m + n
      /\ \A i \in 1 .. m + n : t[i] = IF i <= m THEN q[i] ELSE r[i - m]
  BY <1>1
<1> HIDE DEF t
<1>3. \A i \in 1 .. m + n : IF i <= m THEN i \in 1 .. m ELSE i - m \in 1 .. n
  BY <1>1
<1>4. /\ \A i \in 1 .. m : i \in 1 .. m + n /\ t[i] = q[i]
      /\ \A i \in 1 .. n : m + i \in 1 .. m + n /\ t[m + i] = r[i]
  <2>1. \A i \in 1 .. m : i \in 1 .. m + n /\ i <= m
    BY <1>1
  <2>2. \A i \in 1 .. n : /\ m + i \in 1 .. m + n /\ ~(m + i <= m)
                          /\ (m + i) - m = i
    BY <1>1
  <2>3. QED
    BY <1>2, <2>1, <2>2
<1>5. Range(t) = Range(q) \cup Range(r)
  <2>1. Range(t) \subseteq Range(q) \cup Range(r)
    BY <1>1, <1>2, <1>3 DEF Range
  <2>2. Range(q) \subseteq Range(t)
    BY <1>1, <1>2, <1>4 DEF Range
  <2>3. ASSUME NEW i \in 1 .. n
        PROVE  r[i] \in Range(t)
    <3>1. m + i \in DOMAIN t /\ t[m + i] = r[i]
      BY <1>2, <1>4
    <3>2. QED
      BY <3>1 DEF Range
  <2>4. Range(r) \subseteq Range(t)
    BY <1>1, <2>3 DEF Range
  <2>5. QED
    BY <2>1, <2>2, <2>4
<1>6. ASSUME IsInjective(q), IsInjective(r), Range(q) \cap Range(r) = {},
             NEW i \in 1 .. m + n, NEW j \in 1 .. m + n, t[i] = t[j]
      PROVE  i = j
  <2>1. \A a \in 1 .. m, b \in 1 .. n : q[a] # r[b]
    BY <1>1, <1>6 DEF Range
  <2>2. /\ \A a, b \in 1 .. m : q[a] = q[b] => a = b
        /\ \A a, b \in 1 .. n : r[a] = r[b] => a = b
    BY <1>1, <1>6 DEF IsInjective
  <2>3. CASE i <= m /\ j <= m
    BY <1>2, <1>3, <1>6, <2>2, <2>3
  <2>4. CASE ~(i <= m) /\ ~(j <= m)
    <3>1. i - m = j - m
      BY <1>2, <1>3, <1>6, <2>2, <2>4
    <3>2. QED
      BY <1>1, <3>1
  <2>5. CASE ~(i <= m <=> j <= m)
    BY <1>2, <1>3, <1>6, <2>1, <2>5
  <2>6. QED
    BY <2>3, <2>4, <2>5
<1>7. QED
  BY <1>1, <1>2, <1>5, <1>6 DEF IsInjective, t

\* What is left of a list that holds nothing twice once its head is taken.
LEMMA Taken ==
  ASSUME NEW S, NEW q \in Seq(S), q # << >>
  PROVE  /\ Head(q) \in S /\ Head(q) \in Range(q)
         /\ Tail(q) \in Seq(S) /\ Len(Tail(q)) = Len(q) - 1
         /\ Range(q) = {Head(q)} \cup Range(Tail(q))
         /\ IsInjective(q) =>
              IsInjective(Tail(q)) /\ Head(q) \notin Range(Tail(q))
<1> DEFINE h == Head(q)
           t == Tail(q)
<1>1. PICK m \in Nat \ {0} : m = Len(q) /\ DOMAIN q = 1 .. m
  OBVIOUS
<1>2. /\ h \in S /\ t \in Seq(S) /\ Len(t) = m - 1 /\ h = q[1]
      /\ DOMAIN t = 1 .. m - 1 /\ \A i \in 1 .. m - 1 : t[i] = q[i + 1]
  BY <1>1
<1> HIDE DEF h, t
<1>3. /\ 1 \in 1 .. m
      /\ \A i \in 1 .. m - 1 : i + 1 \in 1 .. m /\ i + 1 # 1
      /\ \A i \in 1 .. m : i # 1 => i - 1 \in 1 .. m - 1 /\ (i - 1) + 1 = i
  BY <1>1
<1>4. h \in Range(q)
  BY <1>1, <1>2, <1>3 DEF Range
<1>5. Range(q) = {h} \cup Range(t)
  <2>1. Range(t) \subseteq Range(q)
    BY <1>1, <1>2, <1>3 DEF Range
  <2>2. ASSUME NEW i \in 1 .. m, i # 1
        PROVE  q[i] \in Range(t)
    <3>1. i - 1 \in DOMAIN t /\ t[i - 1] = q[i]
      BY <1>2, <1>3, <2>2
    <3>2. QED
      BY <3>1 DEF Range
  <2>3. Range(q) \subseteq {h} \cup Range(t)
    BY <1>1, <1>2, <2>2 DEF Range
  <2>4. QED
    BY <1>4, <2>1, <2>3
<1>6. ASSUME IsInjective(q)
      PROVE  IsInjective(t) /\ h \notin Range(t)
  <2>1. \A a, b \in 1 .. m : q[a] = q[b] => a = b
    BY <1>1, <1>6 DEF IsInjective
  <2>2. \A i, j \in 1 .. m - 1 : t[i] = t[j] => i = j
    BY <1>2, <1>3, <2>1
  <2>3. \A i \in 1 .. m - 1 : t[i] # h
    BY <1>2, <1>3, <2>1
  <2>4. QED
    BY <1>2, <2>2, <2>3 DEF IsInjective, Range
<1>7. QED
  BY <1>1, <1>2, <1>4, <1>5, <1>6 DEF h, t

\* The list of the orbitals, and where one is.
LEMMA Listed ==
  ASSUME TypeOK, SystemInv
  PROVE  \E n \in Nat \ {0} :
           /\ n = Len(orbitals) /\ DOMAIN orbitals = 1 .. n
           /\ orbitals \in [1 .. n -> Body]
           /\ \A i \in 1 .. n : orbitals[i] \in Made /\ orbitals[i] \in Living
           /\ \A i, j \in 1 .. n : orbitals[i] = orbitals[j] => i = j
<1>1. orbitals \in Seq(Body) /\ orbitals # << >> /\ IsInjective(orbitals)
  BY DEF TypeOK, SystemInv, SunIsFirst
<1>2. PICK n \in Nat \ {0} : /\ n = Len(orbitals) /\ DOMAIN orbitals = 1 .. n
                             /\ orbitals \in [1 .. n -> Body]
  BY <1>1
<1>3. \A i \in 1 .. n : orbitals[i] \in Living
  BY <1>2 DEF Living, Range
<1>4. \A i, j \in 1 .. n : orbitals[i] = orbitals[j] => i = j
  BY <1>1, <1>2 DEF IsInjective
<1>5. QED
  BY <1>2, <1>3, <1>4 DEF TypeOK

\* A new system.
LEMMA NewSystem ==
  ASSUME NEW p \in Planets, NEW m \in Moons
  PROVE  \E n \in Nat :
    /\ n >= 2 /\ n <= MaxBodies /\ MaxBodies \in Nat
    /\ Generated(p, m) \in Seq([type : STAR .. MOON, host : Body \cup {Null},
                                label : 0 .. MaxBodies])
    /\ Len(Generated(p, m)) = n /\ DOMAIN Generated(p, m) = 1 .. n
    /\ Generated(p, m)[Star].type = STAR
    /\ [b \in DOMAIN Generated(p, m) |-> b] \in Seq(Body)
    /\ Len([b \in DOMAIN Generated(p, m) |-> b]) = n
    /\ Range([b \in DOMAIN Generated(p, m) |-> b]) = 1 .. n
    /\ IsInjective([b \in DOMAIN Generated(p, m) |-> b])
    /\ [b \in DOMAIN Generated(p, m) |-> b][1] = Star
<1> DEFINE n == 1 + p + m + Mines
           g == Generated(p, m)
           o == [b \in 1 .. n |-> b]
<1>1. /\ p \in Nat /\ p >= 1 /\ m \in Nat /\ Mines \in Nat
      /\ n \in Nat /\ n >= 2 /\ n <= MaxBodies /\ MaxBodies \in Nat
  BY OrbitsAssumption
<1>2. DOMAIN g = 1 .. n
  BY DEF Generated
<1>3. \A b \in 1 .. n : g[b] \in [type : STAR .. MOON, host : Body \cup {Null},
                                 label : 0 .. MaxBodies]
  <2>1. SUFFICES ASSUME NEW b \in 1 .. n
                 PROVE  g[b] \in [type : STAR .. MOON, host : Body \cup {Null},
                                  label : 0 .. MaxBodies]
    OBVIOUS
  <2>2. b - 1 \in 0 .. MaxBodies
    BY <1>1
  <2>3. Star \in Body /\ BasePlanet \in Body
    BY <1>1 DEF Star, BasePlanet, Body
  <2>4. {STAR, PLANET, MOON, MINING} \subseteq STAR .. MOON
    BY DEF STAR, PLANET, MOON, MINING
  <2>5. g[b].type \in {STAR, PLANET, MOON, MINING}
        /\ g[b].host \in {Null, Star, BasePlanet} /\ g[b].label = b - 1
    BY DEF Generated
  <2>6. g[b] = [type |-> g[b].type, host |-> g[b].host, label |-> g[b].label]
    BY DEF Generated
  <2> HIDE DEF g, n
  <2>7. QED
    BY <2>2, <2>3, <2>4, <2>5, <2>6
<1>4. g[Star].type = STAR
  <2>1. Star \in 1 .. n /\ Star = 1
    BY <1>1 DEF Star
  <2>2. QED
    BY <1>1, <2>1 DEF Generated, BasePlanet
<1>5. g \in Seq([type : STAR .. MOON, host : Body \cup {Null},
                 label : 0 .. MaxBodies]) /\ Len(g) = n
  <2>1. g = [b \in 1 .. n |-> g[b]]
    BY DEF Generated
  <2> HIDE DEF g, n
  <2>2. g \in [1 .. n -> [type : STAR .. MOON, host : Body \cup {Null},
                          label : 0 .. MaxBodies]]
    BY <1>3, <2>1
  <2>3. QED
    BY <1>1, <2>2, Tabled
<1> HIDE DEF g, n
<1>6. o \in [1 .. n -> Body] /\ DOMAIN o = 1 .. n /\ Range(o) = 1 .. n
  BY <1>1 DEF Body, Range
<1>7. o \in Seq(Body) /\ Len(o) = n /\ IsInjective(o) /\ o[1] = Star
  BY <1>1, <1>6 DEF IsInjective, Star
<1>8. QED
  BY <1>1, <1>2, <1>4, <1>5, <1>6, <1>7 DEF g

-----------------------------------------------------------------------------
\* The steps, from the list to the lines.

\* Init and NewGame leave the same.
LEMMA Started ==
  ASSUME NEW p \in Planets, NEW m \in Moons, made' = Generated(p, m),
         orbitals' = [b \in DOMAIN made' |-> b], spent' = {}, online' = {},
         cache' = [b \in Body |-> Null], step' = "build", todo' = << >>,
         index' \in 1 .. MaxBodies + 1, length' \in 0 .. MaxBodies,
         index' <= length' + 1, list' \in Seq(Body),
         pairs' \in Seq(Body \X Body), apart' \subseteq SUBSET Body,
         updated' \subseteq Body, gone' \in BOOLEAN
  PROVE  OrbitsInv'
<1>1. PICK n \in Nat :
        /\ n >= 2 /\ n <= MaxBodies /\ MaxBodies \in Nat
        /\ made' \in Seq([type : STAR .. MOON, host : Body \cup {Null},
                          label : 0 .. MaxBodies])
        /\ Len(made') = n /\ DOMAIN made' = 1 .. n
        /\ made'[Star].type = STAR
        /\ orbitals' \in Seq(Body) /\ Len(orbitals') = n
        /\ Range(orbitals') = 1 .. n /\ IsInjective(orbitals')
        /\ orbitals'[1] = Star
  BY NewSystem
<1>2. /\ Range(<< >>) = {} /\ << >> \in Seq(Body) /\ orbitals' # << >>
  <2>1. Range(<< >>) = {} /\ << >> \in Seq(Body)
    BY DEF Range
  <2>2. orbitals' # << >>
    <3>1. Len(orbitals') # Len(<< >>)
      BY <1>1
    <3>2. QED
      BY <3>1
  <2>3. QED
    BY <2>1, <2>2
<1>3. Made' = 1 .. n /\ Living' = 1 .. n /\ Range(todo') = {}
  BY <1>1, <1>2 DEF Made, Living
<1>4. TypeOK'
  <2>1. cache' \in [Body -> {Null} \cup SUBSET Body]
    OBVIOUS
  <2>2. todo' \in Seq(Body) /\ step' \in {"build", "orbitals", "ships", "orbits",
                                         "comlines", "drawn"}
    BY <1>2
  <2>3. QED
    BY <1>1, <1>3, <2>1, <2>2 DEF TypeOK
<1>5. SystemInv'
  <2>1. SunIsFirst' /\ PlanetsStand'
    BY <1>1, <1>2, <1>3 DEF SunIsFirst, PlanetsStand
  <2>2. Type(Star)' = STAR
    BY <1>1 DEF Type
  <2>3. Range(todo') \subseteq Losable'
    BY <1>3
  <2>4. QED
    BY <1>1, <2>1, <2>2, <2>3 DEF SystemInv
<1>6. LoopInv'
  BY DEF LoopInv, LeftOutByALoss
<1>7. CacheInv'
  BY DEF CacheInv, Kept
<1>8. QED
  BY <1>4, <1>5, <1>6, <1>7 DEF OrbitsInv

LEMMA InitStep ==
  ASSUME Init
  PROVE  OrbitsInv
<1>1. PICK p \in Planets, m \in Moons : made = Generated(p, m)
  BY DEF Init
<1>2. PICK n \in Nat :
        /\ n >= 2 /\ n <= MaxBodies /\ MaxBodies \in Nat
        /\ made \in Seq([type : STAR .. MOON, host : Body \cup {Null},
                         label : 0 .. MaxBodies])
        /\ Len(made) = n /\ DOMAIN made = 1 .. n
        /\ made[Star].type = STAR
        /\ orbitals \in Seq(Body) /\ Len(orbitals) = n
        /\ Range(orbitals) = 1 .. n /\ IsInjective(orbitals)
        /\ orbitals[1] = Star
  BY <1>1, NewSystem DEF Init
<1>3. Range(<< >>) = {} /\ orbitals # << >>
      /\ << >> \in Seq(Body) /\ << >> \in Seq(Body \X Body)
  BY <1>2 DEF Range
<1>4. Made = 1 .. n /\ Living = 1 .. n /\ Range(todo) = {}
  BY <1>2, <1>3 DEF Init, Made, Living
<1>5. TypeOK
  <2>1. cache \in [Body -> {Null} \cup SUBSET Body]
    BY DEF Init
  <2>2. 1 \in 1 .. MaxBodies + 1 /\ 0 \in 0 .. MaxBodies
    BY <1>2
  <2>3. QED
    BY <1>2, <1>3, <1>4, <2>1, <2>2 DEF Init, TypeOK
<1>6. SystemInv
  <2>1. SunIsFirst /\ PlanetsStand
    BY <1>2, <1>3, <1>4 DEF SunIsFirst, PlanetsStand
  <2>2. Type(Star) = STAR
    BY <1>2 DEF Type
  <2>3. QED
    BY <1>2, <1>4, <2>1, <2>2 DEF Init, SystemInv
<1>7. LoopInv /\ CacheInv
  BY DEF Init, LoopInv, LeftOutByALoss, CacheInv, Kept
<1>8. QED
  BY <1>5, <1>6, <1>7 DEF OrbitsInv

LEMMA NewGameStep ==
  ASSUME OrbitsInv, NewGame
  PROVE  OrbitsInv'
<1>1. PICK p \in Planets, m \in Moons : made' = Generated(p, m)
  BY DEF NewGame
<1>2. /\ orbitals' = [b \in DOMAIN made' |-> b] /\ spent' = {} /\ online' = {}
      /\ cache' = [b \in Body |-> Null]
      /\ step = "build" /\ UNCHANGED <<step, index, length, updated, gone, todo,
                                       list, pairs, apart>>
  BY DEF NewGame, ticks, lines
<1>3. /\ todo = << >> /\ index \in 1 .. MaxBodies + 1
      /\ length \in 0 .. MaxBodies /\ index <= length + 1
      /\ list \in Seq(Body) /\ pairs \in Seq(Body \X Body)
      /\ apart \subseteq SUBSET Body /\ updated \subseteq Body
      /\ gone \in BOOLEAN
  BY <1>2 DEF OrbitsInv, TypeOK, SystemInv, LoopInv
<1>4. QED
  BY <1>1, <1>2, <1>3, Started

LEMMA PlaceStep ==
  ASSUME OrbitsInv, NEW type \in Blueprints, NEW host \in Made, Place(type, host)
  PROVE  OrbitsInv'
<1> USE DEF OrbitsInv
<1>1. /\ step = "build" /\ Len(made) < MaxBodies
      /\ made' = Append(made, [type |-> type, host |-> host,
                               label |-> Len(orbitals)])
      /\ orbitals' = Append(orbitals, Len(made'))
      /\ cache' = [cache EXCEPT ![host] = Null]
      /\ UNCHANGED <<spent, online, step, index, length, updated, gone, todo,
                     list, pairs, apart>>
  BY DEF Place, create, ticks, lines
<1>2. PICK n \in Nat : n = Len(made) /\ DOMAIN made = 1 .. n /\ n >= 2
  BY DEF TypeOK, SystemInv
<1>3. /\ n < MaxBodies /\ MaxBodies \in Nat /\ n + 1 \in Body
      /\ 1 .. n \subseteq Body
  BY <1>1, <1>2, OrbitsAssumption DEF Body
<1>4. PICK k \in Nat \ {0} :
        /\ k = Len(orbitals) /\ DOMAIN orbitals = 1 .. k /\ k <= n
        /\ \A i \in 1 .. k : orbitals[i] \in Made
  BY <1>2, Listed DEF SystemInv
<1>5. [type |-> type, host |-> host, label |-> k] \in
        [type : STAR .. MOON, host : Body \cup {Null}, label : 0 .. MaxBodies]
  <2>1. type \in STAR .. MOON
    BY OrbitsAssumption DEF Stations, SATELLITE, MINING, DEFENSE, STAR, MOON
  <2>2. host \in Body /\ k \in 0 .. MaxBodies
    BY <1>2, <1>3, <1>4 DEF Made
  <2>3. QED
    BY <2>1, <2>2
<1>6. /\ made' \in Seq([type : STAR .. MOON, host : Body \cup {Null},
                        label : 0 .. MaxBodies])
      /\ Len(made') = n + 1 /\ DOMAIN made' = 1 .. n + 1
      /\ made'[n + 1] = [type |-> type, host |-> host, label |-> k]
      /\ \A b \in 1 .. n : made'[b] = made[b]
  BY <1>1, <1>2, <1>4, <1>5 DEF TypeOK
<1>7. /\ orbitals' \in Seq(Body) /\ Len(orbitals') = k + 1
      /\ IsInjective(orbitals') /\ Living' = Living \cup {n + 1}
      /\ orbitals'[1] = orbitals[1] /\ DOMAIN orbitals' = 1 .. k + 1
      /\ \A i \in 1 .. k : orbitals'[i] = orbitals[i]
  <2>1. n + 1 \notin Living
    BY <1>2 DEF TypeOK, Made
  <2>2. orbitals \in Seq(Body) /\ IsInjective(orbitals)
    BY DEF TypeOK, SystemInv, SunIsFirst
  <2>3. orbitals' = Append(orbitals, n + 1)
    BY <1>1, <1>6
  <2>4. /\ orbitals' \in Seq(Body) /\ Len(orbitals') = k + 1
        /\ IsInjective(orbitals') /\ Living' = Living \cup {n + 1}
    BY <1>3, <1>4, <2>1, <2>2, <2>3, Appended DEF Living
  <2>5. /\ DOMAIN orbitals' = 1 .. k + 1
        /\ \A i \in 1 .. k : orbitals'[i] = orbitals[i]
    BY <1>4, <2>2, <2>3
  <2>6. QED
    BY <1>4, <2>4, <2>5
<1>8. 1 .. n + 1 = (1 .. n) \cup {n + 1} /\ n + 1 \notin 1 .. n
  BY <1>2
<1>9. Made = 1 .. n /\ Made' = (1 .. n) \cup {n + 1}
  BY <1>2, <1>6, <1>8 DEF Made
<1>10. \A b \in 1 .. n : Type(b)' = Type(b) /\ Host(b)' = Host(b)
  BY <1>6 DEF Type, Host
<1>11. TypeOK'
  <2>1. cache' \in [Body -> {Null} \cup SUBSET Body]
    BY <1>1 DEF TypeOK
  <2>2. Len(made') <= MaxBodies
    BY <1>3, <1>6
  <2>3. /\ Living' \subseteq Made' /\ spent' \subseteq Made'
        /\ online' \subseteq Made'
    BY <1>1, <1>7, <1>9 DEF TypeOK
  <2>4. QED
    BY <1>1, <1>6, <1>7, <2>1, <2>2, <2>3 DEF TypeOK
<1>12. Losable \subseteq Losable'
  BY <1>9, <1>10 DEF Losable
<1>13. PlanetsStand'
  <2>1. Type(n + 1)' \in {SATELLITE, MINING, DEFENSE}
    BY <1>6, OrbitsAssumption DEF Stations, Type
  <2>2. Type(n + 1)' \notin {STAR, PLANET, MOON}
    BY <2>1 DEF SATELLITE, MINING, DEFENSE, STAR, PLANET, MOON
  <2>3. QED
    BY <1>7, <1>9, <1>10, <2>2 DEF SystemInv, PlanetsStand
<1>14. SystemInv'
  <2>1. Type(Star)' = STAR /\ Len(made') >= 2 /\ Len(orbitals') <= Len(made')
    BY <1>2, <1>4, <1>6, <1>7, <1>10 DEF SystemInv, Star
  <2>2. SunIsFirst'
    BY <1>4, <1>7 DEF SystemInv, SunIsFirst
  <2>3. /\ spent' \subseteq Losable' /\ online' \subseteq Losable'
        /\ Range(todo') \subseteq Losable' /\ todo' = << >>
    BY <1>1, <1>12 DEF SystemInv
  <2>4. QED
    BY <1>13, <2>1, <2>2, <2>3 DEF SystemInv
<1>15. LoopInv'
  BY <1>1 DEF LoopInv, LeftOutByALoss
<1>16. CacheInv'
  <2>1. ASSUME NEW h \in Body, NEW b \in Kept(h)'
        PROVE  b \in Living' /\ Host(b)' = h
    <3>1. b \in Kept(h)
      BY <1>1, <2>1 DEF Kept, TypeOK
    <3>2. b \in Living /\ Host(b) = h /\ b \in 1 .. n
      BY <1>9, <3>1 DEF CacheInv, TypeOK
    <3>3. QED
      BY <1>7, <1>10, <3>2
  <2>2. QED
    BY <1>1, <2>1 DEF CacheInv
<1>17. QED
  BY <1>11, <1>14, <1>15, <1>16

LEMMA RunStep ==
  ASSUME OrbitsInv, Run
  PROVE  OrbitsInv'
<1> USE DEF OrbitsInv
<1>1. /\ step = "build" /\ step' = "orbitals"
      /\ index' = 1 /\ length' = Len(orbitals) /\ updated' = {} /\ gone' = FALSE
      /\ UNCHANGED <<made, orbitals, spent, online, cache, todo, list, pairs, apart>>
  BY DEF Run, lines
<1>2. PICK k \in Nat \ {0} : k = Len(orbitals) /\ k <= MaxBodies
  <2>1. PICK k \in Nat \ {0} : k = Len(orbitals)
    BY Listed
  <2>2. k <= Len(made) /\ Len(made) <= MaxBodies /\ Len(made) \in Nat
    BY <2>1 DEF TypeOK, SystemInv
  <2>3. QED
    BY <2>1, <2>2, OrbitsAssumption
<1>3. 1 \in 1 .. MaxBodies + 1 /\ k \in 0 .. MaxBodies
  BY <1>2, OrbitsAssumption
<1>4. TypeOK'
  <2>1. index' \in 1 .. MaxBodies + 1 /\ length' \in 0 .. MaxBodies
    BY <1>1, <1>2, <1>3
  <2>2. Living' = Living /\ Made' = Made
    BY <1>1 DEF Living, Made
  <2>3. QED
    BY <1>1, <2>1, <2>2 DEF TypeOK
<1>5. SystemInv'
  BY <1>1 DEF SystemInv, SunIsFirst, PlanetsStand, Losable, Living, Made, Type
<1>6. LoopInv'
  <2>1. \A i \in 1 .. 1 - 1 : FALSE
    OBVIOUS
  <2>2. QED
    BY <1>1, <1>2, <2>1 DEF LoopInv, LeftOutByALoss
<1>7. CacheInv'
  BY <1>1 DEF CacheInv, Kept, Living, Host
<1>8. QED
  BY <1>4, <1>5, <1>6, <1>7

\* The orbital whose hp are spent leaves the list, and the canvas of its host.
LEMMA DestroyStep ==
  ASSUME OrbitsInv, NEW b \in Living, b \in spent, Destroy(b),
         made' = made
  PROVE  /\ orbitals' \in Seq(Body) /\ Len(orbitals') <= Len(made)
         /\ Living' = Living \ {b} /\ SunIsFirst'
         /\ cache' \in [Body -> {Null} \cup SUBSET Body]
         /\ gone' = TRUE
         /\ \A h \in Body : \A c \in Kept(h)' : c \in Living' /\ Host(c)' = h
<1> USE DEF OrbitsInv
<1> DEFINE i == Position(b)
<1>1. PICK k \in Nat \ {0} :
        /\ k = Len(orbitals) /\ DOMAIN orbitals = 1 .. k
        /\ orbitals \in [1 .. k -> Body]
        /\ \A j \in 1 .. k : orbitals[j] \in Made /\ orbitals[j] \in Living
  BY Listed
<1>2. i \in 1 .. k /\ orbitals[i] = b
  <2>1. \E j \in 1 .. k : orbitals[j] = b
    BY <1>1 DEF Living, Range
  <2>2. QED
    BY <1>1, <2>1 DEF Position
<1>3. i # 1
  <2>1. orbitals[1] = Star /\ b \in Losable /\ Type(Star) = STAR
    BY DEF SystemInv, SunIsFirst
  <2>2. b # Star
    BY <2>1 DEF Losable, Star, BasePlanet, STAR, SATELLITE, MINING, DEFENSE
  <2>3. QED
    BY <1>2, <2>1, <2>2
<1>4. orbitals' = SwapRemove(orbitals, i) /\ gone' = TRUE
      /\ cache' = IF Host(b) = Null THEN cache ELSE [cache EXCEPT ![Host(b)] = Null]
  BY DEF Destroy
<1> HIDE DEF i
<1>5. /\ orbitals' \in Seq(Body) /\ Len(orbitals') = k - 1
      /\ IsInjective(orbitals') /\ Living' = Living \ {b}
      /\ DOMAIN orbitals' = 1 .. k - 1
  <2>1. orbitals \in Seq(Body) /\ IsInjective(orbitals) /\ i \in DOMAIN orbitals
    BY <1>1, <1>2 DEF TypeOK, SystemInv, SunIsFirst
  <2>2. QED
    BY <1>1, <1>2, <1>4, <2>1, SwapRemoved DEF Living
<1>6. 1 \in 1 .. k - 1 /\ orbitals'[1] = orbitals[1]
  <2>1. 1 \in 1 .. k - 1
    BY <1>1, <1>2, <1>3
  <2>2. QED
    BY <1>1, <1>3, <1>4, <2>1 DEF SwapRemove
<1>7. SunIsFirst'
  <2>1. orbitals' # << >>
    BY <1>5, <1>6
  <2>2. QED
    BY <1>5, <1>6, <2>1 DEF SystemInv, SunIsFirst
<1>8. Len(orbitals') <= Len(made)
  BY <1>1, <1>5 DEF SystemInv, TypeOK
<1>9. cache' \in [Body -> {Null} \cup SUBSET Body]
  BY <1>4 DEF TypeOK
<1>10. ASSUME NEW h \in Body, NEW c \in Kept(h)'
       PROVE  c \in Living' /\ Host(c)' = h
  <2>1. c \in Kept(h) /\ cache'[h] # Null
    BY <1>4, <1>10 DEF Kept, TypeOK
  <2>2. c \in Living /\ Host(c) = h
    BY <2>1 DEF CacheInv
  <2>3. c # b
    <3>1. SUFFICES ASSUME c = b PROVE FALSE
      OBVIOUS
    <3>2. Host(b) = h /\ h # Null
      BY <2>2, <3>1, OrbitsAssumption DEF Body
    <3>3. cache'[h] = Null
      BY <1>4, <3>2 DEF TypeOK
    <3>4. QED
      BY <2>1, <3>3
  <2>4. QED
    BY <1>5, <2>2, <2>3 DEF Host
<1>11. QED
  BY <1>4, <1>5, <1>7, <1>8, <1>9, <1>10

LEMMA UpdateStep ==
  ASSUME OrbitsInv, Update
  PROVE  OrbitsInv'
<1> USE DEF OrbitsInv
<1> DEFINE b == orbitals[index]
<1>1. /\ step = "orbitals" /\ index <= length /\ index <= Len(orbitals)
      /\ IF b \in spent THEN Destroy(b) ELSE UNCHANGED <<orbitals, cache, gone>>
      /\ updated' = updated \cup {b} /\ index' = index + 1
      /\ UNCHANGED <<made, spent, online, step, length, todo, list, pairs, apart>>
  BY DEF Update, More, lines
<1>2. PICK k \in Nat \ {0} :
        /\ k = Len(orbitals) /\ DOMAIN orbitals = 1 .. k
        /\ orbitals \in [1 .. k -> Body]
        /\ \A j \in 1 .. k : orbitals[j] \in Made /\ orbitals[j] \in Living
  BY Listed
<1>3. /\ index \in 1 .. k /\ index + 1 \in 1 .. MaxBodies + 1
      /\ length \in 0 .. MaxBodies /\ MaxBodies \in Nat
  BY <1>1, <1>2, OrbitsAssumption DEF TypeOK
<1>4. b \in Living /\ b \in Body /\ b \in Made
  BY <1>2, <1>3
<1> HIDE DEF b
<1>5. /\ orbitals' \in Seq(Body) /\ Len(orbitals') <= Len(made) /\ SunIsFirst'
      /\ Living' \subseteq Living /\ Living \subseteq Living' \cup spent
      /\ cache' \in [Body -> {Null} \cup SUBSET Body] /\ gone' \in BOOLEAN
      /\ \A h \in Body : \A c \in Kept(h)' : c \in Living' /\ Host(c)' = h
  <2>1. CASE b \in spent
    <3>1. Destroy(b) /\ made' = made
      BY <1>1, <2>1
    <3>2. QED
      BY <1>4, <2>1, <3>1, DestroyStep
  <2>2. CASE b \notin spent
    <3>1. UNCHANGED <<orbitals, cache, gone, made>>
      BY <1>1, <2>2
    <3>2. QED
      BY <3>1 DEF TypeOK, SystemInv, SunIsFirst, CacheInv, Living, Kept, Host
  <2>3. QED
    BY <2>1, <2>2
<1>6. TypeOK'
  BY <1>1, <1>3, <1>4, <1>5 DEF TypeOK, Made
<1>7. SystemInv'
  <2>1. PlanetsStand'
    <3>1. \A c \in Made : Type(c) \in {STAR, PLANET, MOON} /\ c # BasePlanet =>
            c \notin Losable
      BY DEF Losable, STAR, PLANET, MOON, SATELLITE, MINING, DEFENSE
    <3>2. QED
      BY <1>1, <1>5, <3>1 DEF SystemInv, PlanetsStand, Made, Type
  <2>2. QED
    BY <1>1, <1>5, <2>1 DEF SystemInv, Losable, Made, Type
<1>8. LoopInv'
  <2>1. CASE b \in spent
    <3>1. gone' = TRUE
      BY <1>1, <2>1 DEF Destroy
    <3>2. QED
      BY <1>1, <1>3, <3>1 DEF LoopInv, LeftOutByALoss
  <2>2. CASE b \notin spent
    <3>1. UNCHANGED <<orbitals, gone>>
      BY <1>1, <2>2
    <3>2. ASSUME ~gone
          PROVE  \A i \in 1 .. index : orbitals[i] \in updated'
      <4>1. \A i \in 1 .. index - 1 : orbitals[i] \in updated
        BY <1>1, <3>2 DEF LoopInv
      <4>2. \A i \in 1 .. index : i \in 1 .. index - 1 \/ i = index
        BY <1>3
      <4>3. QED
        BY <1>1, <4>1, <4>2 DEF b
    <3>3. (index + 1) - 1 = index /\ index + 1 <= length + 1
      BY <1>1, <1>3
    <3>4. QED
      BY <1>1, <3>1, <3>2, <3>3 DEF LoopInv, LeftOutByALoss
  <2>3. QED
    BY <2>1, <2>2
<1>9. CacheInv'
  BY <1>1, <1>5 DEF CacheInv
<1>10. QED
  BY <1>6, <1>7, <1>8, <1>9

LEMMA UpdatedStep ==
  ASSUME OrbitsInv, Updated
  PROVE  OrbitsInv'
<1> USE DEF OrbitsInv
<1>1. /\ step = "orbitals" /\ ~(index <= length /\ index <= Len(orbitals))
      /\ step' = "ships"
      /\ UNCHANGED <<made, orbitals, spent, online, cache, index, length, updated,
                     gone, todo, list, pairs, apart>>
  BY DEF Updated, More, ticks, lines
<1>2. TypeOK'
  BY <1>1 DEF TypeOK, Living, Made
<1>3. SystemInv'
  BY <1>1 DEF SystemInv, SunIsFirst, PlanetsStand, Losable, Living, Made, Type
<1>4. CacheInv'
  BY <1>1 DEF CacheInv, Kept, Living, Host
<1>5. LoopInv'
  <2>1. PICK k \in Nat \ {0} : k = Len(orbitals) /\ DOMAIN orbitals = 1 .. k
    BY Listed
  <2>2. ASSUME ~gone PROVE Living \subseteq updated
    <3>1. /\ length = k /\ \A i \in 1 .. index - 1 : orbitals[i] \in updated
      BY <1>1, <2>1, <2>2 DEF LoopInv
    <3>2. index > k /\ index \in Nat
      BY <1>1, <2>1, <3>1 DEF TypeOK
    <3>3. \A i \in 1 .. k : i \in 1 .. index - 1
      BY <2>1, <3>2
    <3>4. QED
      BY <2>1, <3>1, <3>3 DEF Living, Range
  <2>3. QED
    BY <1>1, <2>2 DEF LoopInv, LeftOutByALoss, Living
<1>6. QED
  BY <1>2, <1>3, <1>4, <1>5

\* What ships can aim at is online and no planet but that of the base.
LEMMA FireStep ==
  ASSUME OrbitsInv, Fire
  PROVE  OrbitsInv'
<1> USE DEF OrbitsInv
<1>1. /\ step = "ships"
      /\ UNCHANGED <<made, orbitals, online, cache, step, index, length, updated,
                     gone, todo, list, pairs, apart>>
  BY DEF Fire, ticks, lines
<1>2. PICK b \in Living : Targetable(b) /\ spent' = spent \cup {b}
  BY DEF Fire
<1>3. b \in Losable
  BY <1>2 DEF Targetable, SystemInv
<1>4. TypeOK'
  BY <1>1, <1>2 DEF TypeOK, Living, Made
<1>5. SystemInv'
  BY <1>1, <1>2, <1>3
     DEF SystemInv, SunIsFirst, PlanetsStand, Losable, Living, Made, Type
<1>6. LoopInv' /\ CacheInv'
  BY <1>1 DEF LoopInv, LeftOutByALoss, CacheInv, Kept, Living, Host
<1>7. QED
  BY <1>4, <1>5, <1>6

\* A render draws again what a loss or a construction made the host forget.
LEMMA RenderStep ==
  ASSUME OrbitsInv, renderAllOrbits
  PROVE  OrbitsInv'
<1> USE DEF OrbitsInv
<1> DEFINE New(h) == {orbitals[i] : i \in {j \in Around(h) : ~hasBody(h, j)}}
<1>1. /\ step = "orbits" /\ step' = "comlines"
      /\ cache' = [h \in Body |-> IF Around(h) = {} THEN cache[h]
                                  ELSE Kept(h) \cup New(h)]
      /\ online' = {}
      /\ todo' = <<BasePlanet>> /\ list' = << >> /\ pairs' = << >> /\ apart' = {}
      /\ UNCHANGED <<made, orbitals, spent, index, length, updated, gone>>
  BY DEF renderAllOrbits, resetComlines, ticks
<1>2. PICK k \in Nat \ {0} :
        /\ k = Len(orbitals) /\ DOMAIN orbitals = 1 .. k
        /\ orbitals \in [1 .. k -> Body]
        /\ \A j \in 1 .. k : orbitals[j] \in Made /\ orbitals[j] \in Living
  BY Listed
<1>3. BasePlanet \in Losable /\ BasePlanet \in Made /\ BasePlanet \in Body
  <2>1. PICK n \in Nat : n = Len(made) /\ DOMAIN made = 1 .. n /\ n >= 2
                         /\ n <= MaxBodies /\ MaxBodies \in Nat
    BY OrbitsAssumption DEF TypeOK, SystemInv
  <2>2. 2 \in 1 .. n /\ 2 \in 1 .. MaxBodies
    BY <2>1
  <2>3. QED
    BY <2>1, <2>2 DEF Losable, BasePlanet, Body, Made
<1>4. \A h \in Body : /\ Kept(h) \subseteq Body
                      /\ \A b \in Kept(h) : b \in Living /\ Host(b) = h
  BY DEF Kept, CacheInv, TypeOK
<1>5. \A h \in Body : /\ New(h) \subseteq Body
                      /\ \A b \in New(h) : b \in Living /\ Host(b) = h
  BY <1>2 DEF Around
<1> HIDE DEF New
<1>6. cache' \in [Body -> {Null} \cup SUBSET Body]
  BY <1>1, <1>4, <1>5 DEF TypeOK
<1>7. \A h \in Body : Kept(h)' \subseteq Kept(h) \cup New(h)
  BY <1>1 DEF Kept
<1>8. \A h \in Body : Around(h) # {} => Kept(h)' = Kept(h) \cup New(h)
  <2>1. SUFFICES ASSUME NEW h \in Body, Around(h) # {}
                 PROVE  Kept(h)' = Kept(h) \cup New(h)
    OBVIOUS
  <2>2. cache'[h] = Kept(h) \cup New(h)
    BY <1>1, <2>1
  <2>3. Kept(h) \cup New(h) # Null
    BY <1>4, <1>5, OrbitsAssumption DEF Body
  <2>4. QED
    BY <2>2, <2>3 DEF Kept
<1>9. ASSUME NEW h \in Body, NEW i \in Around(h)
      PROVE  \E b \in Kept(h)' : made[b].label = made[orbitals[i]].label
  <2> DEFINE Same == {j \in Around(h) : made[orbitals[j]].label =
                                          made[orbitals[i]].label}
  <2>1. Same \subseteq 1 .. k /\ Same # {}
    BY <1>2, <1>9 DEF Around
  <2>2. PICK j \in Same : \A l \in Same : l <= j
    <3> HIDE DEF Same
    <3>1. QED
      BY <2>1, Largest
  <2>3. /\ Kept(h)' = Kept(h) \cup New(h)
        /\ j \in Around(h) /\ made[orbitals[j]].label = made[orbitals[i]].label
    BY <1>8, <1>9
  <2>4. CASE \E b \in Kept(h) : made[b].label = made[orbitals[j]].label
    BY <2>3, <2>4
  <2>5. CASE ~hasBody(h, j)
    <3>1. orbitals[j] \in New(h)
      BY <2>3, <2>5 DEF New
    <3>2. QED
      BY <2>3, <3>1
  <2>6. ~(\E l \in DOMAIN orbitals :
            /\ l > j /\ Host(orbitals[l]) = h
            /\ made[orbitals[l]].label = made[orbitals[j]].label)
    <3>1. SUFFICES ASSUME NEW l \in DOMAIN orbitals, l > j,
                          Host(orbitals[l]) = h,
                          made[orbitals[l]].label = made[orbitals[j]].label
                   PROVE  FALSE
      OBVIOUS
    <3>2. l \in Same
      BY <2>3, <3>1 DEF Around
    <3>3. l <= j /\ l \in 1 .. k /\ j \in 1 .. k
      BY <1>2, <2>1, <2>2, <3>2
    <3>4. QED
      BY <3>1, <3>3
  <2>7. QED
    BY <2>4, <2>5, <2>6 DEF hasBody
<1>10. Living' = Living /\ Made' = Made
  BY <1>1 DEF Living, Made
<1>11. TypeOK'
  <2>1. /\ online' \subseteq Made' /\ todo' \in Seq(Body) /\ list' \in Seq(Body)
        /\ pairs' \in Seq(Body \X Body) /\ apart' \subseteq SUBSET Body
    BY <1>1, <1>3, <1>10
  <2>2. QED
    BY <1>1, <1>6, <1>10, <2>1 DEF TypeOK
<1>12. SystemInv'
  <2>1. Range(<<BasePlanet>>) = {BasePlanet}
    BY DEF Range
  <2>2. Losable' = Losable
    BY <1>1, <1>10 DEF Losable, Type
  <2>3. /\ online' \subseteq Losable' /\ Range(todo') \subseteq Losable'
        /\ spent' \subseteq Losable'
    BY <1>1, <1>3, <2>1, <2>2 DEF SystemInv
  <2>4. SunIsFirst' /\ PlanetsStand'
    BY <1>1, <1>10 DEF SystemInv, SunIsFirst, PlanetsStand, Type
  <2>5. QED
    BY <1>1, <2>3, <2>4 DEF SystemInv, Type
<1>13. LoopInv'
  BY <1>1 DEF LoopInv, LeftOutByALoss
<1>14. CacheInv'
  <2>1. \A h \in Body : \A b \in Kept(h)' : b \in Living' /\ Host(b)' = h
    BY <1>1, <1>4, <1>5, <1>7, <1>10 DEF Host
  <2>2. \A h \in Body : Around(h)' = Around(h)
    BY <1>1 DEF Around, Host
  <2>3. QED
    BY <1>1, <1>9, <2>1, <2>2 DEF CacheInv
<1>15. QED
  BY <1>11, <1>12, <1>13, <1>14

\* What is visited is the base, or receives a connection: no planet.
LEMMA ComlinesStep ==
  ASSUME OrbitsInv, getComlines
  PROVE  OrbitsInv'
<1> USE DEF OrbitsInv
<1> DEFINE node == Head(todo)
<1>1. /\ step = "comlines" /\ todo # << >>
      /\ online' = online \cup {node}
      /\ UNCHANGED <<made, orbitals, spent, cache, step, index, length, updated,
                     gone>>
  BY DEF getComlines, ticks
<1>2. PICK near \in SUBSET Asked(node) : \E next \in Downwards(near) :
        /\ list' = Append(list, node) \o next
        /\ pairs' = pairs \o [k \in DOMAIN next |-> <<node, next[k]>>]
        /\ todo' = next \o Tail(todo)
        /\ apart' = apart \cup {{node, b} : b \in Asked(node) \ near}
  BY DEF getComlines
<1>3. PICK next \in Downwards(near) :
        /\ list' = Append(list, node) \o next
        /\ pairs' = pairs \o [k \in DOMAIN next |-> <<node, next[k]>>]
        /\ todo' = next \o Tail(todo)
        /\ apart' = apart \cup {{node, b} : b \in Asked(node) \ near}
  BY <1>2
<1>4. /\ node \in Body /\ node \in Losable /\ node \in Made
      /\ Tail(todo) \in Seq(Body) /\ Range(Tail(todo)) \subseteq Range(todo)
  <2>1. todo \in Seq(Body)
    BY DEF TypeOK
  <2>2. QED
    BY <1>1, <2>1, Taken DEF SystemInv, Losable
<1> HIDE DEF node
<1>5. Asked(node) \subseteq Losable /\ Asked(node) \subseteq Body
  BY DEF Asked, canReceiveConnection, Losable, TypeOK, Living, Range
<1>6. PICK c \in Nat : next \in [1 .. c -> near]
  <2>1. IsFiniteSet(near)
    <3>1. IsFiniteSet(Body)
      BY FS_Interval, OrbitsAssumption DEF Body
    <3>2. QED
      BY <1>2, <1>5, <3>1, FS_Subset
  <2>2. Cardinality(near) \in Nat
    BY <2>1, FS_CardinalityType
  <2>3. QED
    BY <2>2 DEF Downwards
<1>7. /\ next \in Seq(Body) /\ DOMAIN next = 1 .. c
      /\ Range(next) \subseteq Losable /\ \A k \in 1 .. c : next[k] \in Body
  <2>1. near \subseteq Body /\ near \subseteq Losable
    BY <1>5
  <2>2. next \in [1 .. c -> Body] /\ Range(next) \subseteq near
    BY <1>6, <2>1 DEF Range
  <2>3. QED
    BY <1>6, <2>1, <2>2
<1>8. [k \in DOMAIN next |-> <<node, next[k]>>] \in Seq(Body \X Body)
  <2>1. [k \in DOMAIN next |-> <<node, next[k]>>] \in [1 .. c -> Body \X Body]
    BY <1>4, <1>7
  <2>2. QED
    BY <1>6, <2>1, Tabled
<1>9. /\ list' \in Seq(Body) /\ pairs' \in Seq(Body \X Body)
      /\ todo' \in Seq(Body) /\ apart' \subseteq SUBSET Body
  <2>1. list' \in Seq(Body) /\ todo' \in Seq(Body)
    BY <1>3, <1>4, <1>7 DEF TypeOK
  <2>2. pairs' \in Seq(Body \X Body)
    BY <1>3, <1>8 DEF TypeOK
  <2>3. apart' \subseteq SUBSET Body
    <3>1. \A b \in Asked(node) : {node, b} \subseteq Body
      BY <1>4, <1>5
    <3>2. {{node, b} : b \in Asked(node) \ near} \subseteq SUBSET Body
      BY <3>1
    <3>3. QED
      BY <1>3, <3>2 DEF TypeOK
  <2>4. QED
    BY <2>1, <2>2, <2>3
<1>10. Range(todo') \subseteq Range(next) \cup Range(Tail(todo))
  BY <1>3, <1>4, <1>7, Joined
<1>11. Living' = Living /\ Made' = Made /\ Losable' = Losable
  BY <1>1 DEF Living, Made, Losable, Type
<1>12. TypeOK'
  BY <1>1, <1>4, <1>9, <1>11 DEF TypeOK
<1>13. SystemInv'
  <2>1. /\ online' \subseteq Losable' /\ Range(todo') \subseteq Losable'
        /\ spent' \subseteq Losable'
    BY <1>1, <1>4, <1>7, <1>10, <1>11 DEF SystemInv
  <2>2. SunIsFirst' /\ PlanetsStand'
    BY <1>1, <1>11 DEF SystemInv, SunIsFirst, PlanetsStand, Type
  <2>3. QED
    BY <1>1, <2>1, <2>2 DEF SystemInv, Type
<1>14. LoopInv' /\ CacheInv'
  BY <1>1 DEF LoopInv, LeftOutByALoss, CacheInv, Kept, Around, Living, Host
<1>15. QED
  BY <1>12, <1>13, <1>14

\* The steps that only go on to the next one.
LEMMA OtherSteps ==
  ASSUME OrbitsInv,
         \/ EndOfTick \/ EndOfPausedTick \/ Drawn \/ NextFrame \/ UNCHANGED vars
  PROVE  OrbitsInv'
<1> USE DEF OrbitsInv
<1>1. /\ UNCHANGED <<made, orbitals, spent, online, cache, index, length,
                     updated, gone, todo>>
      /\ list' \in {list, << >>} /\ pairs' \in {pairs, << >>}
      /\ apart' \in {apart, {}}
      /\ step' \in {"build", "orbits", "drawn", step}
      /\ step' # "comlines" => todo = << >>
      /\ step' = "orbitals" => step = "orbitals"
      /\ step' = "ships" => step = "ships"
      /\ step' \in {"comlines", "drawn"} => step \in {"comlines", "drawn"}
  BY DEF EndOfTick, EndOfPausedTick, Drawn, NextFrame, vars, ticks, lines,
     SystemInv
<1>2. TypeOK'
  <2>1. << >> \in Seq(Body) /\ << >> \in Seq(Body \X Body)
    OBVIOUS
  <2>2. Living' = Living /\ Made' = Made
    BY <1>1 DEF Living, Made
  <2>3. /\ list' \in Seq(Body) /\ pairs' \in Seq(Body \X Body)
        /\ apart' \subseteq SUBSET Body
        /\ step' \in {"build", "orbitals", "ships", "orbits", "comlines", "drawn"}
    BY <1>1, <2>1 DEF TypeOK
  <2>4. QED
    BY <1>1, <2>2, <2>3 DEF TypeOK
<1>3. SystemInv'
  BY <1>1 DEF SystemInv, SunIsFirst, PlanetsStand, Losable, Living, Made, Type
<1>4. LoopInv' /\ CacheInv'
  BY <1>1 DEF LoopInv, LeftOutByALoss, CacheInv, Kept, Around, Living, Host
<1>5. QED
  BY <1>2, <1>3, <1>4

-----------------------------------------------------------------------------
(***************************************************************************)
(* The communication lines: what is found is visited or waits in todo, and *)
(* all of it but the base is at the end of one line.                       *)
(***************************************************************************)
Found == online \cup Range(todo)
Line == Body \X Body
EndsOf(q) == [k \in DOMAIN q |-> q[k][2]]
Ends == EndsOf(pairs)

LinkInv ==
  step \in {"comlines", "drawn"} =>
    /\ \/ Range(list) = Found
       \/ list = << >> /\ online = {} /\ todo = <<BasePlanet>>
    /\ BasePlanet \in Found
    /\ IsInjective(todo) /\ Range(todo) \cap online = {}
    /\ IsInjective(Ends) /\ Range(Ends) = Found \ {BasePlanet}
    /\ \A k \in DOMAIN pairs : pairs[k][1] \in online
    /\ \A a \in online, b \in Living \ Found :
         canOfferConnection(a) /\ canReceiveConnection(b) => {a, b} \in apart
    /\ Len(pairs) + 1 = Cardinality(online) + Len(todo)

\* The orbitals near a node are listed once each.
LEMMA Ordered ==
  ASSUME TypeOK, SystemInv, NEW near \in SUBSET Living,
         NEW next \in Downwards(near)
  PROVE  /\ next \in Seq(near) /\ IsInjective(next) /\ Range(next) = near
<1>1. PICK n \in Nat \ {0} :
        /\ n = Len(orbitals) /\ DOMAIN orbitals = 1 .. n
        /\ orbitals \in [1 .. n -> Body]
  BY Listed
<1>2. ASSUME NEW b \in Living PROVE Position(b) \in 1 .. n
  <2>1. \E i \in DOMAIN orbitals : orbitals[i] = b
    BY DEF Living, Range
  <2>2. QED
    BY <1>1, <2>1 DEF Position
<1>3. IsFiniteSet(near) /\ Cardinality(near) \in Nat
  <2>1. near \subseteq Body
    BY DEF TypeOK, Living, Range
  <2>2. IsFiniteSet(Body)
    BY FS_Interval, OrbitsAssumption DEF Body
  <2>3. QED
    BY <2>1, <2>2, FS_Subset, FS_CardinalityType
<1>4. PICK c \in Nat : c = Cardinality(near)
  BY <1>3
<1>5. /\ next \in [1 .. c -> near]
      /\ \A j, k \in 1 .. c : j < k => Position(next[j]) > Position(next[k])
  BY <1>4 DEF Downwards
<1>6. \A j, k \in 1 .. c : next[j] = next[k] => j = k
  <2>1. SUFFICES ASSUME NEW j \in 1 .. c, NEW k \in 1 .. c, next[j] = next[k],
                        j < k
                 PROVE  FALSE
    OBVIOUS
  <2>2. Position(next[j]) > Position(next[j]) /\ Position(next[j]) \in 1 .. n
    BY <1>2, <1>5, <2>1
  <2>3. QED
    BY <2>2
<1>7. IsInjective(next)
  BY <1>5, <1>6 DEF IsInjective
<1>8. ASSUME NEW b \in near, \A k \in 1 .. c : next[k] # b
      PROVE  FALSE
  <2>1. next \in [1 .. c -> near \ {b}]
    BY <1>5, <1>8
  <2>2. IsFiniteSet(near \ {b}) /\ Cardinality(near \ {b}) < c
    <3>1. /\ IsFiniteSet(near \ {b})
          /\ Cardinality(near \ {b}) = IF b \in near THEN Cardinality(near) - 1
                                                   ELSE Cardinality(near)
      BY <1>3, FS_RemoveElement
    <3>2. QED
      BY <1>4, <3>1
  <2>3. IsFiniteSet(1 .. c) /\ Cardinality(1 .. c) = c
    BY FS_Interval
  <2>4. \E j, k \in 1 .. c : j # k /\ next[j] = next[k]
    BY <2>1, <2>2, <2>3, FS_PigeonHole
  <2>5. QED
    BY <1>6, <2>4
<1>9. Range(next) = near
  BY <1>5, <1>8 DEF Range
<1>10. QED
  BY <1>5, <1>7, <1>9

\* The lines from a node end where they lead.
LinesFrom(x, q) == [k \in DOMAIN q |-> <<x, q[k]>>]

LEMMA LinesAdded ==
  ASSUME NEW p \in Seq(Line), NEW x \in Body, NEW q \in Seq(Body),
         NEW t, t = Join(p, LinesFrom(x, q))
  PROVE  /\ Len(t) = Len(p) + Len(q)
         /\ EndsOf(t) = Join(EndsOf(p), q) /\ EndsOf(p) \in Seq(Body)
         /\ \A k \in DOMAIN t : t[k][1] = x \/ \E j \in DOMAIN p : t[k][1] = p[j][1]
<1> DEFINE new == LinesFrom(x, q)
           e == EndsOf(p)
<1>1. PICK m \in Nat, c \in Nat :
        /\ m = Len(p) /\ DOMAIN p = 1 .. m /\ p \in [1 .. m -> Line]
        /\ c = Len(q) /\ DOMAIN q = 1 .. c /\ q \in [1 .. c -> Body]
  <2>1. /\ Len(p) \in Nat /\ DOMAIN p = 1 .. Len(p)
        /\ p \in [1 .. Len(p) -> Line]
    OBVIOUS
  <2>2. /\ Len(q) \in Nat /\ DOMAIN q = 1 .. Len(q)
        /\ q \in [1 .. Len(q) -> Body]
    OBVIOUS
  <2>3. QED
    BY <2>1, <2>2, Zenon
<1>2. /\ new \in Seq(Line) /\ Len(new) = c
      /\ \A k \in 1 .. c : new[k] = <<x, q[k]>>
  <2>1. new \in [1 .. c -> Line] /\ \A k \in 1 .. c : new[k] = <<x, q[k]>>
    BY <1>1 DEF LinesFrom, Line
  <2>2. QED
    BY <1>1, <2>1, Tabled
<1>3. /\ e \in Seq(Body) /\ Len(e) = m /\ \A k \in 1 .. m : e[k] = p[k][2]
  <2>1. e \in [1 .. m -> Body] /\ \A k \in 1 .. m : e[k] = p[k][2]
    BY <1>1 DEF EndsOf, Line
  <2>2. QED
    BY <2>1, Tabled
<1>4. t = Join(p, new)
  OBVIOUS
<1> HIDE DEF e, new
<1>5. /\ Len(t) = m + c /\ DOMAIN t = 1 .. m + c
      /\ \A k \in 1 .. m + c : t[k] = IF k <= m THEN p[k] ELSE new[k - m]
  <2>1. p \in Seq(Line) /\ m = Len(p) /\ new \in Seq(Line) /\ c = Len(new)
    BY <1>1, <1>2
  <2>2. /\ Join(p, new) \in Seq(Line) /\ Len(Join(p, new)) = m + c
        /\ DOMAIN Join(p, new) = 1 .. m + c
        /\ \A k \in 1 .. m + c :
             Join(p, new)[k] = IF k <= m THEN p[k] ELSE new[k - m]
    BY <2>1, Elements
  <2>3. QED
    BY <1>4, <2>2, Zenon
<1>6. /\ Join(e, q) \in Seq(Body) /\ Len(Join(e, q)) = m + c
      /\ \A k \in 1 .. m + c : Join(e, q)[k] = IF k <= m THEN e[k] ELSE q[k - m]
  <2>1. e \in Seq(Body) /\ m = Len(e) /\ q \in Seq(Body) /\ c = Len(q)
    BY <1>1, <1>3
  <2>2. /\ Join(e, q) \in Seq(Body) /\ Len(Join(e, q)) = m + c
        /\ DOMAIN Join(e, q) = 1 .. m + c
        /\ \A k \in 1 .. m + c :
             Join(e, q)[k] = IF k <= m THEN e[k] ELSE q[k - m]
    BY <2>1, Elements
  <2>3. QED
    BY <2>2, Zenon
<1>7. \A k \in 1 .. m + c : IF k <= m THEN k \in 1 .. m ELSE k - m \in 1 .. c
  BY <1>1
<1>8. ASSUME NEW k \in 1 .. m + c
      PROVE  /\ t[k][2] = Join(e, q)[k]
             /\ t[k][1] = x \/ \E j \in DOMAIN p : t[k][1] = p[j][1]
  <2>1. CASE k <= m
    BY <1>1, <1>3, <1>5, <1>6, <1>7, <2>1
  <2>2. CASE ~(k <= m)
    <3>1. k - m \in 1 .. c /\ t[k] = new[k - m] /\ Join(e, q)[k] = q[k - m]
      BY <1>5, <1>6, <1>7, <2>2
    <3>2. t[k] = <<x, q[k - m]>>
      BY <1>2, <3>1
    <3>3. QED
      BY <3>1, <3>2
  <2>3. QED
    BY <2>1, <2>2
<1>9. EndsOf(t) = Join(e, q)
  <2> DEFINE d == EndsOf(t)
             r == Join(e, q)
  <2>1. d = [k \in 1 .. m + c |-> t[k][2]]
    BY <1>5 DEF EndsOf
  <2>2. r \in Seq(Body) /\ Len(r) = m + c
    BY <1>6
  <2>3. \A k \in 1 .. m + c : t[k][2] = r[k]
    BY <1>8
  <2> HIDE DEF d, r
  <2>4. DOMAIN r = 1 .. m + c /\ r \in [1 .. m + c -> Body]
    BY <2>2
  <2>5. QED
    BY <2>1, <2>3, <2>4 DEF d, r
<1>10. QED
  BY <1>1, <1>3, <1>5, <1>8, <1>9 DEF e

\* A visit puts the node online, and a line to each orbital near it.
LEMMA LinkStep ==
  ASSUME OrbitsInv, LinkInv, getComlines
  PROVE  LinkInv'
<1> USE DEF OrbitsInv
<1> DEFINE node == Head(todo)
<1>1. /\ step = "comlines" /\ todo # << >>
      /\ online' = online \cup {node}
      /\ UNCHANGED <<made, orbitals, step>>
  BY DEF getComlines
<1>2. PICK near \in SUBSET Asked(node) : \E next \in Downwards(near) :
        /\ list' = Append(list, node) \o next
        /\ pairs' = pairs \o [k \in DOMAIN next |-> <<node, next[k]>>]
        /\ todo' = next \o Tail(todo)
        /\ apart' = apart \cup {{node, b} : b \in Asked(node) \ near}
  BY DEF getComlines
<1>3. PICK next \in Downwards(near) :
        /\ list' = Append(list, node) \o next
        /\ pairs' = pairs \o [k \in DOMAIN next |-> <<node, next[k]>>]
        /\ todo' = next \o Tail(todo)
        /\ apart' = apart \cup {{node, b} : b \in Asked(node) \ near}
  BY <1>2
<1>4. /\ \/ Range(list) = Found
         \/ list = << >> /\ online = {} /\ todo = <<BasePlanet>>
      /\ BasePlanet \in Found
      /\ IsInjective(todo) /\ Range(todo) \cap online = {}
      /\ IsInjective(Ends) /\ Range(Ends) = Found \ {BasePlanet}
      /\ \A k \in DOMAIN pairs : pairs[k][1] \in online
      /\ \A a \in online, b \in Living \ Found :
           canOfferConnection(a) /\ canReceiveConnection(b) => {a, b} \in apart
      /\ Len(pairs) + 1 = Cardinality(online) + Len(todo)
  BY <1>1 DEF LinkInv
<1>5. /\ todo \in Seq(Body) /\ list \in Seq(Body) /\ pairs \in Seq(Body \X Body)
      /\ Living \subseteq Body /\ online \subseteq Made
  BY DEF TypeOK, Living, Range
<1>6. /\ node \in Body
      /\ Tail(todo) \in Seq(Body) /\ Len(Tail(todo)) = Len(todo) - 1
      /\ Range(todo) = {node} \cup Range(Tail(todo))
      /\ IsInjective(Tail(todo)) /\ node \notin Range(Tail(todo))
  BY <1>1, <1>4, <1>5, Taken
<1> HIDE DEF node
<1>7. near \subseteq Living \ Range(list) /\ node \notin near
  BY DEF Asked
<1>8. /\ next \in Seq(Body) /\ IsInjective(next) /\ Range(next) = near
      /\ Len(next) \in Nat /\ DOMAIN next = 1 .. Len(next)
  <2>1. next \in Seq(near) /\ IsInjective(next) /\ Range(next) = near
    BY <1>7, Ordered
  <2>2. near \subseteq Body
    BY <1>5, <1>7
  <2>3. QED
    BY <2>1, <2>2
\* What was found, and what is now.
<1>9. Range(list) \cup {node} = Found
  <2>1. CASE Range(list) = Found
    BY <1>6, <2>1 DEF Found
  <2>2. CASE list = << >> /\ online = {} /\ todo = <<BasePlanet>>
    <3>1. Range(list) = {} /\ node = BasePlanet
      BY <2>2 DEF Range, node
    <3>2. Found = {BasePlanet}
      BY <2>2 DEF Found, Range
    <3>3. QED
      BY <3>1, <3>2
  <2>3. QED
    BY <1>4, <2>1, <2>2
<1>10. near \cap Found = {}
  BY <1>7, <1>9
<1>11. /\ IsInjective(todo') /\ Range(todo') = near \cup Range(Tail(todo))
       /\ Len(todo') = Len(next) + (Len(todo) - 1)
  <2> DEFINE t == Tail(todo)
  <2>1. Range(t) \subseteq Found /\ t \in Seq(Body) /\ IsInjective(t)
    BY <1>6 DEF Found
  <2>2. todo' = next \o t /\ Len(t) = Len(todo) - 1
    BY <1>3, <1>6
  <2> HIDE DEF t
  <2>3. near \cap Range(t) = {}
    BY <1>10, <2>1
  <2>4. /\ Len(next \o t) = Len(next) + Len(t)
        /\ Range(next \o t) = near \cup Range(t)
        /\ IsInjective(next \o t)
    BY <1>8, <2>1, <2>3, Joined
  <2>5. QED
    BY <2>2, <2>4 DEF t
<1>12. Found' = Found \cup near
  BY <1>1, <1>6, <1>11 DEF Found
<1>13. Range(list') = Found'
  <2> DEFINE l == Append(list, node)
  <2>1. l \in Seq(Body) /\ Range(l) = Range(list) \cup {node}
    BY <1>5, <1>6, Appended
  <2>2. list' = l \o next
    BY <1>3
  <2> HIDE DEF l
  <2>3. Range(l \o next) = Range(l) \cup Range(next)
    BY <1>8, <2>1, Joined
  <2>4. QED
    BY <1>8, <1>9, <1>12, <2>1, <2>2, <2>3
<1>14. Range(todo') \cap online' = {}
  <2>1. near \cap online = {}
    BY <1>10 DEF Found
  <2>2. QED
    BY <1>1, <1>4, <1>6, <1>7, <1>11, <2>1
\* The lines.
<1>15. /\ Len(pairs') = Len(pairs) + Len(next)
       /\ Ends' = Join(Ends, next) /\ Ends \in Seq(Body)
       /\ \A k \in DOMAIN pairs' : pairs'[k][1] \in online'
  <2>1. pairs' = Join(pairs, LinesFrom(node, next))
    BY <1>3 DEF LinesFrom, Join
  <2>2. pairs \in Seq(Line) /\ node \in Body /\ next \in Seq(Body)
    BY <1>5, <1>6, <1>8 DEF Line
  <2>3. /\ Len(pairs') = Len(pairs) + Len(next)
        /\ EndsOf(pairs') = Join(EndsOf(pairs), next) /\ EndsOf(pairs) \in Seq(Body)
        /\ \A k \in DOMAIN pairs' :
             pairs'[k][1] = node \/ \E j \in DOMAIN pairs : pairs'[k][1] = pairs[j][1]
    BY <2>1, <2>2, LinesAdded
  <2>4. \A k \in DOMAIN pairs' : pairs'[k][1] \in online'
    BY <1>1, <1>4, <2>3
  <2>5. QED
    BY <2>3, <2>4 DEF Ends
<1>16. IsInjective(Ends') /\ Range(Ends') = Found' \ {BasePlanet}
  <2>1. Range(Ends) \cap near = {}
    BY <1>4, <1>10
  <2>2. IsInjective(Ends') /\ Range(Ends') = Range(Ends) \cup near
    BY <1>4, <1>8, <1>15, <2>1, Joined DEF Join
  <2>3. BasePlanet \notin near
    BY <1>4, <1>10
  <2>4. QED
    BY <1>4, <1>12, <1>15, <2>2, <2>3
<1>17. ASSUME NEW a \in online', NEW b \in Living' \ Found',
              canOfferConnection(a)', canReceiveConnection(b)'
       PROVE  {a, b} \in apart'
  <2>1. /\ b \in Living \ Found /\ b \notin near
        /\ canOfferConnection(a) /\ canReceiveConnection(b)
    BY <1>1, <1>12, <1>17
       DEF Living, canOfferConnection, canReceiveConnection, Type
  <2>2. CASE a \in online
    BY <1>3, <1>4, <2>1, <2>2
  <2>3. CASE a = node
    <3>1. b \in Asked(node) \ near
      BY <1>9, <2>1, <2>3 DEF Asked
    <3>2. QED
      BY <1>3, <2>3, <3>1
  <2>4. QED
    BY <1>1, <2>2, <2>3
<1>18. Len(pairs') + 1 = Cardinality(online') + Len(todo')
  <2>1. IsFiniteSet(online)
    <3>1. IsFiniteSet(1 .. Len(made)) /\ DOMAIN made = 1 .. Len(made)
      BY FS_Interval DEF TypeOK
    <3>2. QED
      BY <1>5, <3>1, FS_Subset DEF Made
  <2>2. node \notin online
    BY <1>4, <1>6
  <2>3. /\ Cardinality(online') = Cardinality(online) + 1
        /\ Cardinality(online) \in Nat
    BY <1>1, <2>1, <2>2, FS_AddElement, FS_CardinalityType
  <2>4. Len(pairs) \in Nat /\ Len(todo) \in Nat /\ Len(next) \in Nat
    BY <1>5, <1>8
  <2>5. /\ Len(pairs') = Len(pairs) + Len(next)
        /\ Len(todo') = Len(next) + (Len(todo) - 1)
        /\ Len(pairs) + 1 = Cardinality(online) + Len(todo)
    BY <1>4, <1>11, <1>15
  <2>6. QED
    BY <2>3, <2>4, <2>5
<1>19. BasePlanet \in Found'
  BY <1>4, <1>12
<1>20. QED
  BY <1>11, <1>13, <1>14, <1>15, <1>16, <1>17, <1>18, <1>19 DEF LinkInv

\* A render starts from the base, with nothing online.
LEMMA LinkStart ==
  ASSUME renderAllOrbits
  PROVE  LinkInv'
<1>1. online' = {} /\ todo' = <<BasePlanet>> /\ list' = << >> /\ pairs' = << >>
  BY DEF renderAllOrbits, resetComlines
<1>2. Found' = {BasePlanet} /\ IsInjective(todo') /\ Len(todo') = 1
  BY <1>1 DEF Found, Range, IsInjective
<1>3. DOMAIN pairs' = {} /\ Len(pairs') = 0
  BY <1>1
<1>4. DOMAIN Ends' = {}
  BY <1>3 DEF Ends, EndsOf
<1>5. IsInjective(Ends') /\ Range(Ends') = {}
  BY <1>4 DEF IsInjective, Range
<1>6. Cardinality(online') = 0
  BY <1>1, FS_EmptySet
<1>7. QED
  BY <1>1, <1>2, <1>3, <1>5, <1>6 DEF LinkInv

\* Between two renders there is nothing to say of the lines.
LEMMA LinkOther ==
  ASSUME LinkInv, [Next]_vars, ~getComlines, ~renderAllOrbits
  PROVE  LinkInv'
<1>1. CASE step' \notin {"comlines", "drawn"}
  BY <1>1 DEF LinkInv
<1>2. CASE Drawn \/ UNCHANGED vars
  <2>1. /\ UNCHANGED <<made, orbitals, online, todo, list, pairs, apart>>
        /\ step' \in {"comlines", "drawn"} => step \in {"comlines", "drawn"}
    BY <1>2 DEF Drawn, vars, lines
  <2>2. /\ Found' = Found /\ Ends' = Ends /\ Living' = Living
        /\ \A b : canOfferConnection(b)' = canOfferConnection(b)
        /\ \A b : canReceiveConnection(b)' = canReceiveConnection(b)
    BY <2>1 DEF Found, Ends, EndsOf, Living, canOfferConnection,
                canReceiveConnection, Type
  <2>3. QED
    BY <2>1, <2>2 DEF LinkInv
<1>3. ASSUME NEW t, NEW h, Place(t, h) PROVE step' = "build"
  BY <1>3 DEF Place
<1>4. CASE NewGame \/ Run \/ Update \/ Updated \/ Fire \/ EndOfTick
           \/ EndOfPausedTick \/ NextFrame
  <2>1. step' \notin {"comlines", "drawn"}
    BY <1>4 DEF NewGame, Run, Update, Updated, Fire, EndOfTick,
                EndOfPausedTick, NextFrame
  <2>2. QED
    BY <1>1, <2>1
<1>5. QED
  BY <1>1, <1>2, <1>3, <1>4 DEF Next

-----------------------------------------------------------------------------
\* OrbitsInv is inductive.
THEOREM Inductive == Spec => []OrbitsInv
<1>1. OrbitsInv /\ [Next]_vars => OrbitsInv'
  BY NewGameStep, PlaceStep, RunStep, UpdateStep, UpdatedStep, FireStep,
     RenderStep, ComlinesStep, OtherSteps DEF Next
<1>2. QED
  BY InitStep, <1>1, PTL DEF Spec

\* The lists, the canvases and the loop over a list that shrinks stay within
\* what exists.
THEOREM TypeCorrect == Spec => []TypeOK
<1>1. OrbitsInv => TypeOK
  BY DEF OrbitsInv
<1>2. QED
  BY Inductive, <1>1, PTL

\* The star is the first orbital, whatever is lost.
THEOREM SunStaysFirst == Spec => []SunIsFirst
<1>1. OrbitsInv => SunIsFirst
  BY DEF OrbitsInv, SystemInv
<1>2. QED
  BY Inductive, <1>1, PTL

\* Ships destroy no planet but that of the base, and no moon.
THEOREM NoPlanetIsLost == Spec => []PlanetsStand
<1>1. OrbitsInv => PlanetsStand
  BY DEF OrbitsInv, SystemInv
<1>2. QED
  BY Inductive, <1>1, PTL

\* A tick in which no orbital is lost updates them all.
THEOREM AllAreUpdated == Spec => []LeftOutByALoss
<1>1. OrbitsInv => LeftOutByALoss
  BY DEF OrbitsInv, LoopInv
<1>2. QED
  BY Inductive, <1>1, PTL

\* The lines on the screen are those of orbitals that exist.
THEOREM LinesAreCurrent == Spec => []LinesAreOfTheLiving
<1>1. OrbitsInv => LinesAreOfTheLiving
  BY DEF OrbitsInv, CacheInv, LinesAreOfTheLiving, TypeOK, Living, Range
<1>2. QED
  BY Inductive, <1>1, PTL

\* A loss takes away what is lost and nothing else.
THEOREM SystemIsKept == Spec => []SystemStands
<1>1. SunIsFirst /\ PlanetsStand /\ LeftOutByALoss => SystemStands
  BY DEF SystemStands
<1>2. QED
  BY SunStaysFirst, NoPlanetIsLost, AllAreUpdated, <1>1, PTL

\* When the lines are drawn, each orbital they lead to is online by exactly one
\* of them, and one that is off was found too far from all that could link it
\* (graphics.js:293), for any number of orbitals and any distances.
THEOREM OnlineIsLinked == Spec => []OnlineIsConnected
<1>1. Init => LinkInv
  BY DEF Init, LinkInv
<1>2. OrbitsInv /\ LinkInv /\ [Next]_vars => LinkInv'
  BY LinkStep, LinkStart, LinkOther
<1>3. OrbitsInv /\ LinkInv => OnlineIsConnected
  <2> SUFFICES ASSUME OrbitsInv, LinkInv, step = "drawn"
               PROVE  OnlineIsConnected
    BY DEF OnlineIsConnected
  <2>1. todo = << >>
    BY DEF OrbitsInv, SystemInv
  <2>2. Range(todo) = {} /\ Len(todo) = 0 /\ todo # <<BasePlanet>>
    BY <2>1 DEF Range
  <2>3. Found = online
    BY <2>2 DEF Found
  <2>4. /\ BasePlanet \in online
        /\ IsInjective(Ends) /\ Range(Ends) = online \ {BasePlanet}
        /\ \A k \in DOMAIN pairs : pairs[k][1] \in online
        /\ \A a \in online, b \in Living \ online :
             canOfferConnection(a) /\ canReceiveConnection(b) => {a, b} \in apart
        /\ Len(pairs) + 1 = Cardinality(online) + Len(todo)
    BY <2>3 DEF LinkInv
  <2>5. Len(pairs) = Cardinality(online) - 1
    <3>1. IsFiniteSet(online)
      <4>1. IsFiniteSet(1 .. Len(made)) /\ DOMAIN made = 1 .. Len(made)
        BY FS_Interval DEF OrbitsInv, TypeOK
      <4>2. online \subseteq 1 .. Len(made)
        BY <4>1 DEF OrbitsInv, TypeOK, Made
      <4>3. QED
        BY <4>1, <4>2, FS_Subset
    <3>2. Cardinality(online) \in Nat /\ Len(pairs) \in Nat
      BY <3>1, FS_CardinalityType DEF OrbitsInv, TypeOK
    <3>3. QED
      BY <2>2, <2>4, <3>2
  <2>6. ASSUME NEW b \in online \ {BasePlanet}
        PROVE  /\ Cardinality({k \in DOMAIN pairs : pairs[k][2] = b}) = 1
               /\ \E k \in DOMAIN pairs : pairs[k][2] = b /\ pairs[k][1] \in online
    <3>1. DOMAIN Ends = DOMAIN pairs /\ \A k \in DOMAIN pairs : Ends[k] = pairs[k][2]
      BY DEF Ends, EndsOf
    <3>2. PICK k \in DOMAIN pairs : pairs[k][2] = b
      BY <2>4, <2>6, <3>1 DEF Range
    <3>3. {j \in DOMAIN pairs : pairs[j][2] = b} = {k}
      BY <2>4, <3>1, <3>2 DEF IsInjective
    <3>4. QED
      BY <2>4, <3>2, <3>3, FS_Singleton
  <2>7. QED
    BY <2>4, <2>5, <2>6 DEF OnlineIsConnected
<1>4. QED
  BY <1>1, <1>2, <1>3, Inductive, PTL DEF Spec
=============================================================================
