----------------------------- MODULE SwarmProofs -----------------------------
(***************************************************************************)
(* Proofs about Swarm, for any number of ships and cells, any wave, any    *)
(* cost and any push: energy is never negative, a ship is in its cell once *)
(* and in no other, and a tick updates each ship once.                     *)
(***************************************************************************)
EXTENDS Swarm, TLAPS

(***************************************************************************)
(* The loop over the ships: those before the loop variable have not been   *)
(* updated in this tick, all the others have, and destroying one of them   *)
(* only moves some that have.  A ship is created once.                     *)
(***************************************************************************)
LoopInv ==
  /\ IsInjective(instances)
  /\ Alive \subseteq created
  /\ \A s \in Ships : updated[s] <= 1
  /\ step = "ships" =>
       /\ n <= Len(instances)
       /\ \A i \in 1 .. n : updated[instances[i]] = 0
       /\ \A s \in entered : updated[s] = 1 \/ \E i \in 1 .. n : instances[i] = s
  /\ step = "rockets" => n <= rockets /\ \A s \in entered : updated[s] = 1

SwarmInv == TypeOK /\ InItsCellOnce /\ LoopInv

-----------------------------------------------------------------------------
(***************************************************************************)
(* Lemmas on the lists.                                                    *)
(***************************************************************************)

\* What is left of a list that holds nothing twice is the same list without
\* that one, and nothing twice either.
LEMMA SwapRemoved ==
  ASSUME NEW S, NEW q \in Seq(S), IsInjective(q), NEW i \in DOMAIN q
  PROVE  /\ SwapRemove(q, i) \in Seq(S)
         /\ Len(SwapRemove(q, i)) = Len(q) - 1
         /\ DOMAIN SwapRemove(q, i) = 1 .. Len(q) - 1
         /\ IsInjective(SwapRemove(q, i))
         /\ Range(SwapRemove(q, i)) = Range(q) \ {q[i]}
<1> DEFINE r == SwapRemove(q, i)
<1>1. PICK m \in Nat : m = Len(q) /\ DOMAIN q = 1 .. m /\ q \in [1 .. m -> S]
  OBVIOUS
<1>2. i \in 1 .. m /\ m \in 1 .. m /\ m - 1 \in Nat
  BY <1>1
<1>3. \A j \in 1 .. m - 1 : j \in 1 .. m /\ j # m
  OBVIOUS
<1>4. \A j \in 1 .. m : j # m => j \in 1 .. m - 1
  OBVIOUS
<1>5. r = [j \in 1 .. m - 1 |-> IF j = i THEN q[m] ELSE q[j]]
  BY <1>1 DEF SwapRemove
<1>6. DOMAIN r = 1 .. m - 1
      /\ \A j \in 1 .. m - 1 : r[j] = IF j = i THEN q[m] ELSE q[j]
  BY <1>5
<1>7. r \in Seq(S) /\ Len(r) = m - 1
  <2>1. r \in [1 .. m - 1 -> S]
    BY <1>1, <1>2, <1>3, <1>5
  <2>2. QED
    BY <1>2, <2>1
<1>8. \A a, b \in 1 .. m : q[a] = q[b] => a = b
  BY <1>1 DEF IsInjective
<1> HIDE DEF r
<1>9. IsInjective(r)
  BY <1>2, <1>3, <1>6, <1>8 DEF IsInjective
<1>10. Range(r) = Range(q) \ {q[i]}
  <2>1. ASSUME NEW x \in Range(r)
        PROVE  x \in Range(q) \ {q[i]}
    <3>1. PICK j \in 1 .. m - 1 : x = r[j]
      BY <1>6 DEF Range
    <3>2. QED
      BY <1>1, <1>2, <1>3, <1>6, <1>8, <3>1 DEF Range
  <2>2. ASSUME NEW x \in Range(q) \ {q[i]}
        PROVE  x \in Range(r)
    <3>1. PICK j \in 1 .. m : x = q[j] /\ j # i
      BY <1>1 DEF Range
    <3>2. CASE j = m
      <4>1. i \in 1 .. m - 1 /\ r[i] = x
        BY <1>2, <1>4, <1>6, <3>1, <3>2
      <4>2. QED
        BY <1>6, <4>1 DEF Range
    <3>3. CASE j # m
      <4>1. j \in 1 .. m - 1 /\ r[j] = x
        BY <1>4, <1>6, <3>1, <3>3
      <4>2. QED
        BY <1>6, <4>1 DEF Range
    <3>4. QED
      BY <3>2, <3>3
  <2>3. QED
    BY <2>1, <2>2
<1>11. QED
  BY <1>1, <1>6, <1>7, <1>9, <1>10 DEF r

\* What Append() does to a list that holds nothing twice.
LEMMA Appended ==
  ASSUME NEW S, NEW q \in Seq(S), NEW x \in S
  PROVE  /\ Append(q, x) \in Seq(S)
         /\ Len(Append(q, x)) = Len(q) + 1
         /\ Range(Append(q, x)) = Range(q) \cup {x}
         /\ IsInjective(q) /\ x \notin Range(q) => IsInjective(Append(q, x))
<1> DEFINE r == Append(q, x)
<1>1. /\ Len(q) \in Nat /\ DOMAIN q = 1 .. Len(q)
      /\ r \in Seq(S) /\ Len(r) = Len(q) + 1 /\ DOMAIN r = 1 .. Len(q) + 1
      /\ \A j \in 1 .. Len(q) : r[j] = q[j]
      /\ r[Len(q) + 1] = x
  OBVIOUS
<1>2. 1 .. Len(q) + 1 = (1 .. Len(q)) \cup {Len(q) + 1}
  BY <1>1
<1>3. Range(r) = Range(q) \cup {x}
  BY <1>1, <1>2 DEF Range
<1>4. ASSUME IsInjective(q), x \notin Range(q) PROVE IsInjective(r)
  BY <1>1, <1>2, <1>4 DEF IsInjective, Range
<1>5. QED
  BY <1>1, <1>3, <1>4

-----------------------------------------------------------------------------
\* The ship whose turn it is.
LEMMA Turn ==
  ASSUME TypeOK, LoopInv, step = "ships", n > 0
  PROVE  /\ n \in DOMAIN instances /\ n \in 1 .. Len(instances)
         /\ instances[n] \in Ships /\ instances[n] \in Alive
<1>1. n \in Nat /\ n <= Len(instances) /\ instances \in Seq(Ships)
  BY DEF TypeOK, LoopInv
<1>2. PICK m \in Nat : /\ m = Len(instances) /\ DOMAIN instances = 1 .. m
                       /\ instances \in [1 .. m -> Ships]
  BY <1>1
<1>3. n \in 1 .. m
  BY <1>1, <1>2
<1>4. QED
  BY <1>2, <1>3 DEF Alive, Range

\* What is left of the list once that ship is destroyed.
LEMMA OneLess ==
  ASSUME TypeOK, LoopInv, step = "ships", n > 0
  PROVE  LET r == SwapRemove(instances, n)
         IN  /\ r \in Seq(Ships) /\ IsInjective(r) /\ Range(r) \subseteq Alive
             /\ n - 1 <= Len(r)
             /\ \A i \in 1 .. n - 1 : r[i] = instances[i]
<1>1. instances \in Seq(Ships) /\ n \in DOMAIN instances /\ IsInjective(instances)
  BY Turn DEF TypeOK, LoopInv
<1>2. PICK m \in Nat : m = Len(instances) /\ n \in 1 .. m
  BY <1>1
<1>3. /\ SwapRemove(instances, n) \in Seq(Ships)
      /\ Len(SwapRemove(instances, n)) = m - 1
      /\ IsInjective(SwapRemove(instances, n))
      /\ Range(SwapRemove(instances, n)) \subseteq Alive
  <2>1. /\ SwapRemove(instances, n) \in Seq(Ships)
        /\ Len(SwapRemove(instances, n)) = Len(instances) - 1
        /\ IsInjective(SwapRemove(instances, n))
        /\ Range(SwapRemove(instances, n)) = Range(instances) \ {instances[n]}
    BY <1>1, SwapRemoved
  <2>2. QED
    BY <1>2, <2>1 DEF Alive
<1>4. \A i \in 1 .. n - 1 : i \in 1 .. m - 1 /\ i # n
  BY <1>2
<1>5. \A i \in 1 .. n - 1 : SwapRemove(instances, n)[i] = instances[i]
  BY <1>2, <1>4 DEF SwapRemove
<1>6. n - 1 <= m - 1
  BY <1>2
<1>7. QED
  BY <1>3, <1>5, <1>6

\* A wave is made of ships that were never created, each of them once.
LEMMA Joined ==
  ASSUME TypeOK, LoopInv, NEW w \in Waves
  PROVE  /\ instances \o w \in Seq(Ships) /\ IsInjective(instances \o w)
         /\ Range(instances \o w) = Alive \cup Range(w)
         /\ Range(w) \subseteq Ships
<1>1. PICK m \in Nat : /\ m = Len(instances) /\ DOMAIN instances = 1 .. m
                       /\ instances \in [1 .. m -> Ships]
  BY DEF TypeOK
<1>2. WaveSize \in Nat /\ w \in [1 .. WaveSize -> Fresh] /\ Fresh \subseteq Ships
  BY SwarmAssumption DEF Waves, Fresh
<1>3. w \in Seq(Ships) /\ Len(w) = WaveSize /\ DOMAIN w = 1 .. WaveSize
  BY <1>2
<1>4. /\ instances \o w \in Seq(Ships)
      /\ DOMAIN (instances \o w) = 1 .. m + WaveSize
      /\ \A i \in 1 .. m : (instances \o w)[i] = instances[i]
      /\ \A i \in 1 .. m + WaveSize :
           i > m => i - m \in 1 .. WaveSize /\ (instances \o w)[i] = w[i - m]
  BY <1>1, <1>2, <1>3 DEF TypeOK
<1>5. \A i \in 1 .. m : instances[i] \notin Fresh
  BY <1>1 DEF LoopInv, Alive, Range, Fresh
<1>6. \A i \in 1 .. WaveSize : w[i] \in Fresh
  BY <1>2
<1> HIDE DEF Fresh
<1>7. IsInjective(instances \o w)
  <2>1. SUFFICES ASSUME NEW i \in 1 .. m + WaveSize, NEW j \in 1 .. m + WaveSize,
                        (instances \o w)[i] = (instances \o w)[j]
                 PROVE  i = j
    BY <1>4 DEF IsInjective
  <2>2. CASE i <= m /\ j <= m
    <3>1. i \in 1 .. m /\ j \in 1 .. m
      BY <1>1, <2>2
    <3>2. QED
      BY <1>1, <1>4, <2>1, <3>1 DEF LoopInv, IsInjective
  <2>3. CASE i <= m /\ j > m
    <3>1. i \in 1 .. m
      BY <1>1, <2>3
    <3>2. QED
      BY <1>4, <1>5, <1>6, <2>1, <2>3, <3>1
  <2>4. CASE i > m /\ j <= m
    <3>1. j \in 1 .. m
      BY <1>1, <2>4
    <3>2. QED
      BY <1>4, <1>5, <1>6, <2>1, <2>4, <3>1
  <2>5. CASE i > m /\ j > m
    <3>1. w[i - m] = w[j - m] /\ i - m \in 1 .. WaveSize /\ j - m \in 1 .. WaveSize
      BY <1>4, <2>1, <2>5
    <3>2. i - m = j - m
      BY <3>1 DEF Waves
    <3>3. QED
      BY <1>1, <1>2, <3>2
  <2>6. QED
    BY <1>1, <1>2, <2>2, <2>3, <2>4, <2>5
<1>8. Range(instances \o w) = Alive \cup Range(w)
  <2>1. \A i \in 1 .. m + WaveSize : i <= m => i \in 1 .. m
    BY <1>1
  <2>2. Range(instances \o w) \subseteq Alive \cup Range(w)
    <3>1. SUFFICES ASSUME NEW i \in 1 .. m + WaveSize
                   PROVE  (instances \o w)[i] \in Alive \cup Range(w)
      BY <1>4 DEF Range
    <3>2. CASE i <= m
      BY <1>1, <1>4, <2>1, <3>2 DEF Alive, Range
    <3>3. CASE i > m
      BY <1>3, <1>4, <3>3 DEF Range
    <3>4. QED
      BY <1>1, <1>2, <3>2, <3>3
  <2>3. \A i \in 1 .. m : i \in 1 .. m + WaveSize
    BY <1>1, <1>2
  <2>4. Alive \subseteq Range(instances \o w)
    BY <1>1, <1>4, <2>3 DEF Alive, Range
  <2>5. ASSUME NEW i \in 1 .. WaveSize
        PROVE  w[i] \in Range(instances \o w)
    <3>1. i + m \in 1 .. m + WaveSize /\ i + m > m /\ (i + m) - m = i
      BY <1>1, <1>2
    <3>2. QED
      BY <1>4, <3>1 DEF Range
  <2>6. QED
    BY <1>3, <2>2, <2>4, <2>5 DEF Range
<1>9. QED
  BY <1>2, <1>3, <1>4, <1>7, <1>8 DEF Range

-----------------------------------------------------------------------------
\* The cells.

\* Taking a ship out of its cell leaves it in none and moves no other.
LEMMA LeftCell ==
  ASSUME TypeOK, InItsCellOnce, NEW s \in Ships
  PROVE  /\ Left(s) \in [Cells -> Seq(Ships)]
         /\ \A c \in Cells : IsInjective(Left(s)[c])
         /\ \A c \in Cells :
              Range(Left(s)[c]) = Range(partitions[c]) \ {s}
<1>1. CASE partition[s] \in Cells
  <2> DEFINE d == partition[s]
             q == partitions[d]
             i == indexOf(q, s)
  <2>1. q \in Seq(Ships) /\ IsInjective(q) /\ s \in Range(q)
    BY <1>1 DEF TypeOK, InItsCellOnce
  <2>2. \E j \in DOMAIN q : q[j] = s
    BY <2>1 DEF Range
  <2>3. i \in DOMAIN q /\ q[i] = s
    BY <2>2 DEF indexOf
  <2>4. /\ Leave(q, s) \in Seq(Ships) /\ IsInjective(Leave(q, s))
        /\ Range(Leave(q, s)) = Range(q) \ {s}
    <3> HIDE DEF i, q
    <3>1. QED
      BY <2>1, <2>3, SwapRemoved DEF Leave, i
  <2>5. Left(s) = [partitions EXCEPT ![d] = Leave(q, s)]
    BY <1>1 DEF Left
  <2>6. \A c \in Cells : c # d => s \notin Range(partitions[c])
    BY DEF InItsCellOnce
  <2>7. \A c \in Cells : /\ partitions[c] \in Seq(Ships)
                         /\ IsInjective(partitions[c])
    BY DEF TypeOK, InItsCellOnce
  <2>8. partitions \in [Cells -> Seq(Ships)] /\ d \in Cells
    BY <1>1 DEF TypeOK
  <2> HIDE DEF d, q
  <2>9. \A c \in Cells :
          Left(s)[c] = IF c = d THEN Leave(q, s) ELSE partitions[c]
    BY <2>5, <2>8
  <2>10. Left(s) \in [Cells -> Seq(Ships)]
    BY <2>4, <2>5, <2>8
  <2>11. \A c \in Cells : IsInjective(Left(s)[c])
    BY <2>4, <2>7, <2>9
  <2>12. \A c \in Cells : Range(Left(s)[c]) = Range(partitions[c]) \ {s}
    BY <2>4, <2>6, <2>9 DEF q
  <2>13. QED
    BY <2>10, <2>11, <2>12
<1>2. CASE partition[s] \notin Cells
  <2>1. Left(s) = partitions
    BY <1>2 DEF Left
  <2>2. \A c \in Cells : s \notin Range(partitions[c])
    BY <1>2 DEF InItsCellOnce
  <2>3. QED
    BY <2>1, <2>2 DEF TypeOK, InItsCellOnce
<1>3. QED
  BY <1>1, <1>2

\* A ship that goes into a cell is then in it alone.
LEMMA EnteredCell ==
  ASSUME TypeOK, InItsCellOnce, NEW s \in Ships, NEW c \in Cells
  PROVE  /\ Entered(s, c) \in [Cells -> Seq(Ships)]
         /\ \A d \in Cells : IsInjective(Entered(s, c)[d])
         /\ \A d \in Cells :
              Range(Entered(s, c)[d]) =
                (Range(partitions[d]) \ {s}) \cup IF d = c THEN {s} ELSE {}
<1> DEFINE q == Left(s)[c]
<1>1. /\ Left(s) \in [Cells -> Seq(Ships)]
      /\ \A d \in Cells : IsInjective(Left(s)[d])
      /\ \A d \in Cells : Range(Left(s)[d]) = Range(partitions[d]) \ {s}
  BY LeftCell
<1>2. q \in Seq(Ships) /\ IsInjective(q) /\ s \notin Range(q)
  BY <1>1
<1>3. /\ Append(q, s) \in Seq(Ships)
      /\ Range(Append(q, s)) = Range(q) \cup {s}
      /\ IsInjective(Append(q, s))
  <2> HIDE DEF q
  <2>1. QED
    BY <1>2, Appended
<1>4. Entered(s, c) = [Left(s) EXCEPT ![c] = Append(q, s)]
  BY DEF Entered
<1>5. \A d \in Cells :
        Entered(s, c)[d] = IF d = c THEN Append(q, s) ELSE Left(s)[d]
  BY <1>1, <1>4
<1>6. Entered(s, c) \in [Cells -> Seq(Ships)]
  BY <1>1, <1>3, <1>4
<1>7. \A d \in Cells : IsInjective(Entered(s, c)[d])
  BY <1>1, <1>3, <1>5
<1>8. \A d \in Cells :
        Range(Entered(s, c)[d]) =
          (Range(partitions[d]) \ {s}) \cup IF d = c THEN {s} ELSE {}
  BY <1>1, <1>3, <1>5
<1>9. QED
  BY <1>6, <1>7, <1>8

-----------------------------------------------------------------------------
\* The steps.

LEMMA InitStep == Init => SwarmInv
<1> SUFFICES ASSUME Init PROVE SwarmInv
  OBVIOUS
<1>1. Range(<< >>) = {} /\ IsInjective(<< >>) /\ << >> \in Seq(Ships)
  BY DEF Range, IsInjective
<1>2. TypeOK
  BY <1>1, SwarmAssumption DEF Init, TypeOK, Empty
<1>3. InItsCellOnce
  BY <1>1, SwarmAssumption DEF Init, InItsCellOnce, Empty
<1>4. LoopInv
  BY <1>1 DEF Init, LoopInv, Alive
<1>5. QED
  BY <1>2, <1>3, <1>4 DEF SwarmInv

\* A lightning pays for each ship it looks at and stops before it cannot.
LEMMA Paid ==
  ASSUME TypeOK, Shoot
  PROVE  energy' \in 0 .. MaxEnergy
<1>1. \A m \in Modules : ShootCost[m] \in Nat
  BY SwarmAssumption
<1>2. energy \in 0 .. MaxEnergy /\ MaxEnergy \in Nat
  BY SwarmAssumption DEF TypeOK
<1>3. \A cost \in Nat : energy >= cost => energy - cost \in 0 .. MaxEnergy
  BY <1>2
<1>4. \A k \in 0 .. Len(instances), cost \in Nat : k * cost \in Nat
  BY DEF TypeOK
<1>5. CASE "LIGHTNING" \in Modules /\ Lightning
  <2>1. PICK k \in 0 .. Len(instances) :
          /\ energy >= k * ShootCost["LIGHTNING"]
          /\ energy' = energy - k * ShootCost["LIGHTNING"]
    BY <1>5 DEF Lightning
  <2>2. QED
    BY <1>1, <1>3, <1>4, <1>5, <2>1
<1>6. CASE "LASER" \in Modules /\ Laser
  BY <1>1, <1>3, <1>6 DEF Laser, Pays
<1>7. CASE "BEAM" \in Modules /\ Beam
  BY <1>1, <1>3, <1>7 DEF Beam, Pays
<1>8. CASE "ROCKET" \in Modules /\ Rocket
  BY <1>1, <1>3, <1>8 DEF Rocket, Launched, Pays
<1>9. CASE "EMP" \in Modules /\ Emp
  BY <1>1, <1>3, <1>9 DEF Emp, addBuff, Pays
<1>10. QED
  BY <1>5, <1>6, <1>7, <1>8, <1>9 DEF Shoot

LEMMA ShootStep ==
  ASSUME SwarmInv, Shoot
  PROVE  SwarmInv'
<1>1. Alive \subseteq Ships
  BY DEF SwarmInv, TypeOK, Alive, Range
<1>2. /\ spent' \subseteq Ships /\ buffs' \in [Ships -> 0 .. MaxBuffs]
      /\ rockets' \in 0 .. MaxRockets
  <2> USE DEF SwarmInv, TypeOK
  <2>1. CASE Laser
    <3>1. PICK target \in Alive : Hits({target})
      BY <2>1 DEF Laser
    <3>2. QED
      BY <1>1, <2>1, <3>1 DEF Laser, Hits
  <2>2. CASE Beam
    BY <1>1, <2>2 DEF Beam, Hits
  <2>3. CASE Rocket
    BY <2>3, SwarmAssumption DEF Rocket, Launched
  <2>4. CASE Emp
    <3>1. PICK near \in SUBSET Alive \ {{}} :
            /\ \A s \in near : buffs[s] < MaxBuffs
            /\ buffs' = [s \in Ships |-> IF s \in near THEN buffs[s] + 1
                                         ELSE buffs[s]]
      BY <2>4 DEF Emp, addBuff
    <3>2. QED
      BY <1>1, <2>4, <3>1, SwarmAssumption DEF Emp, addBuff
  <2>5. CASE Lightning
    <3>1. PICK k \in 0 .. Len(instances) : \E targets \in SUBSET Looked(k) :
            Hits(targets)
      BY <2>5 DEF Lightning
    <3>2. Looked(k) \subseteq Ships
      <4>1. PICK m \in Nat : m = Len(instances) /\ instances \in [1 .. m -> Ships]
        OBVIOUS
      <4>2. k \in 0 .. m
        BY <4>1
      <4>3. \A i \in m - k + 1 .. m : i \in 1 .. m
        BY <4>2
      <4>4. QED
        BY <4>1, <4>3 DEF Looked
    <3>3. QED
      BY <2>5, <3>1, <3>2 DEF Lightning, Hits
  <2>6. QED
    BY <2>1, <2>2, <2>3, <2>4, <2>5 DEF Shoot
<1>3. /\ step = "orbitals"
      /\ UNCHANGED <<instances, at, partition, partitions, step, n, created, updated,
                     entered>>
  BY DEF Shoot
<1>4. TypeOK'
  BY <1>2, <1>3, Paid DEF SwarmInv, TypeOK
<1>5. InItsCellOnce' /\ LoopInv'
  BY <1>3 DEF SwarmInv, InItsCellOnce, LoopInv, Alive
<1>6. QED
  BY <1>4, <1>5 DEF SwarmInv

LEMMA WaveStep ==
  ASSUME SwarmInv, WaveUpdate
  PROVE  SwarmInv'
<1> USE DEF SwarmInv
<1>1. /\ instances' \in Seq(Ships) /\ IsInjective(instances')
      /\ Alive' \subseteq created' /\ created' \subseteq Ships
      /\ at' \in [Ships -> Cells \cup {Out}]
  <2>1. CASE UNCHANGED <<instances, created, at>>
    BY <2>1 DEF TypeOK, LoopInv, Alive
  <2>2. ASSUME NEW w \in Waves, Spawned(w, Range(w))
        PROVE  /\ instances' \in Seq(Ships) /\ IsInjective(instances')
               /\ Alive' \subseteq created' /\ created' \subseteq Ships
               /\ at' \in [Ships -> Cells \cup {Out}]
    <3>1. instances' = instances \o w /\ created' = created \cup Range(w)
      BY <2>2 DEF Spawned
    <3>2. at' \in [Ships -> Cells \cup {Out}]
      BY <2>2, SwarmAssumption DEF Spawned, TypeOK
    <3>3. QED
      BY <3>1, <3>2, Joined DEF TypeOK, LoopInv, Alive
  <2>3. QED
    BY <2>1, <2>2 DEF WaveUpdate
<1>2. /\ step' = "ships" /\ n' = Len(instances') /\ entered' = Range(instances')
      /\ updated' = [s \in Ships |-> 0]
      /\ UNCHANGED <<spent, partition, partitions, buffs, rockets, energy>>
  BY DEF WaveUpdate
<1>3. PICK m \in Nat : /\ m = Len(instances') /\ DOMAIN instances' = 1 .. m
                       /\ instances' \in [1 .. m -> Ships]
  BY <1>1
<1>4. TypeOK'
  BY <1>1, <1>2, <1>3 DEF TypeOK, Range
<1>5. InItsCellOnce'
  BY <1>2 DEF InItsCellOnce
<1>6. LoopInv'
  <2>1. \A i \in 1 .. m : updated'[instances'[i]] = 0
    BY <1>2, <1>3
  <2>2. \A s \in entered' : \E i \in 1 .. m : instances'[i] = s
    BY <1>2, <1>3 DEF Range
  <2>3. QED
    BY <1>1, <1>2, <1>3, <2>1, <2>2 DEF LoopInv
<1>7. QED
  BY <1>4, <1>5, <1>6

\* What the updates and the move of a ship leave.
LEMMA Updated ==
  ASSUME SwarmInv, step = "ships", n > 0, Updates(instances[n])
  PROVE  /\ instances' \in Seq(Ships) /\ IsInjective(instances')
         /\ Alive' \subseteq Alive
         /\ buffs' \in [Ships -> 0 .. MaxBuffs]
         /\ updated' \in [Ships -> Nat] /\ \A s \in Ships : updated'[s] <= 1
         /\ n - 1 \in Nat /\ n - 1 <= Len(instances')
         /\ \A i \in 1 .. n - 1 : updated'[instances'[i]] = 0
         /\ \A s \in entered : \/ updated'[s] = 1
                             \/ \E i \in 1 .. n - 1 : instances'[i] = s
<1> DEFINE ship == instances[n]
<1> USE DEF SwarmInv
<1>1. /\ n \in DOMAIN instances /\ n \in 1 .. Len(instances)
      /\ ship \in Ships /\ n - 1 \in Nat
  BY Turn DEF TypeOK
<1>2. PICK m \in Nat : /\ m = Len(instances) /\ DOMAIN instances = 1 .. m
                       /\ instances \in [1 .. m -> Ships]
  BY DEF TypeOK
<1>3. /\ instances' \in Seq(Ships) /\ IsInjective(instances')
      /\ Alive' \subseteq Alive /\ n - 1 <= Len(instances')
      /\ \A i \in 1 .. n - 1 : instances'[i] = instances[i]
  <2>1. CASE instances' = instances
    BY <1>1, <1>2, <2>1 DEF TypeOK, LoopInv, Alive
  <2>2. CASE instances' = SwapRemove(instances, n)
    BY <2>2, OneLess DEF Alive
  <2>3. QED
    BY <2>1, <2>2 DEF Updates
<1>4. buffs' \in [Ships -> 0 .. MaxBuffs]
  <2>1. PICK b \in 0 .. buffs[ship] : buffs' = [buffs EXCEPT ![ship] = b]
    BY DEF Updates
  <2>2. b \in 0 .. MaxBuffs
    BY <1>1, <2>1, SwarmAssumption DEF TypeOK
  <2>3. QED
    BY <1>1, <2>1, <2>2 DEF TypeOK
<1>5. updated' = [updated EXCEPT ![ship] = @ + 1] /\ updated[ship] = 0
  <2>1. n \in 1 .. n
    BY <1>1
  <2>2. QED
    BY <2>1 DEF Updates, LoopInv
<1>6. updated' \in [Ships -> Nat] /\ \A s \in Ships : updated'[s] <= 1
  BY <1>1, <1>5 DEF TypeOK, LoopInv
<1>7. \A i \in 1 .. n - 1 : i \in 1 .. n /\ i \in 1 .. m /\ i # n
  BY <1>1, <1>2
<1>8. \A i \in 1 .. n - 1 : instances[i] \in Ships /\ instances[i] # ship
  BY <1>1, <1>2, <1>7 DEF LoopInv, IsInjective
<1>9. \A i \in 1 .. n - 1 : updated'[instances'[i]] = 0
  <2>1. \A i \in 1 .. n : updated[instances[i]] = 0
    BY DEF LoopInv
  <2>2. \A t \in Ships : t # ship => updated'[t] = updated[t]
    BY <1>5 DEF TypeOK
  <2> HIDE DEF ship
  <2>3. QED
    BY <1>3, <1>7, <1>8, <2>1, <2>2
<1>10. ASSUME NEW s \in entered
       PROVE  updated'[s] = 1 \/ \E i \in 1 .. n - 1 : instances'[i] = s
  <2>1. s \in Ships
    BY DEF TypeOK
  <2>2. CASE s = ship
    BY <1>1, <1>5, <2>2 DEF TypeOK
  <2>3. CASE s # ship /\ updated[s] = 1
    BY <1>5, <2>1, <2>3 DEF TypeOK
  <2>4. CASE s # ship /\ \E i \in 1 .. n : instances[i] = s
    <3>1. PICK i \in 1 .. n : instances[i] = s /\ i # n
      BY <2>4
    <3>2. i \in 1 .. n - 1
      BY <1>1, <3>1
    <3>3. QED
      BY <1>3, <3>1, <3>2
  <2>5. QED
    BY <2>2, <2>3, <2>4 DEF LoopInv
<1>11. QED
  BY <1>1, <1>3, <1>4, <1>6, <1>9, <1>10

LEMMA Moved ==
  ASSUME TypeOK, NEW s \in Ships, NEW others \in SUBSET Ships, Moves(s, others)
  PROVE  at' \in [Ships -> Cells \cup {Out}]
<1>1. \A place : Reach(place) \subseteq Cells \cup {Out}
  BY DEF Reach
<1>2. QED
  BY <1>1 DEF Moves, TypeOK

LEMMA UpdateShipStep ==
  ASSUME SwarmInv, UpdateShip
  PROVE  SwarmInv'
<1> USE DEF SwarmInv
<1> DEFINE s == instances[n]
<1>1. /\ step = "ships" /\ n > 0 /\ at[s] \in Cells
      /\ Updates(s) /\ Moves(s, Flock(s, at[s]))
      /\ partition' = [partition EXCEPT ![s] = at[s]]
      /\ partitions' = IF Changes(s) THEN Entered(s, at[s]) ELSE partitions
      /\ n' = n - 1
      /\ UNCHANGED <<spent, rockets, energy, step, created, entered>>
  BY DEF UpdateShip
<1>2. s \in Ships
  BY <1>1, Turn
<1>3. at' \in [Ships -> Cells \cup {Out}]
  <2>1. Flock(s, at[s]) \in SUBSET Ships
    BY DEF Flock, Alive, Range, TypeOK
  <2> HIDE DEF s
  <2>2. QED
    BY <1>1, <1>2, <2>1, Moved
<1>4. /\ instances' \in Seq(Ships) /\ IsInjective(instances')
      /\ Alive' \subseteq Alive
      /\ buffs' \in [Ships -> 0 .. MaxBuffs]
      /\ updated' \in [Ships -> Nat] /\ \A t \in Ships : updated'[t] <= 1
      /\ n - 1 \in Nat /\ n - 1 <= Len(instances')
      /\ \A i \in 1 .. n - 1 : updated'[instances'[i]] = 0
      /\ \A t \in entered : \/ updated'[t] = 1
                          \/ \E i \in 1 .. n - 1 : instances'[i] = t
  BY <1>1, Updated
<1>5. LoopInv'
  BY <1>1, <1>4 DEF LoopInv
<1> HIDE DEF s
<1>6. partitions' \in [Cells -> Seq(Ships)] /\ InItsCellOnce'
  <2>1. CASE ~Changes(s)
    <3>1. partition' = partition /\ partitions' = partitions
      BY <1>1, <1>2, <2>1 DEF Changes, getPartition, TypeOK
    <3>2. QED
      BY <3>1 DEF TypeOK, InItsCellOnce
  <2>2. CASE Changes(s)
    <3>1. partitions' = Entered(s, at[s])
      BY <1>1, <2>2
    <3>2. /\ Entered(s, at[s]) \in [Cells -> Seq(Ships)]
          /\ \A d \in Cells : IsInjective(Entered(s, at[s])[d])
          /\ \A d \in Cells :
               Range(Entered(s, at[s])[d]) =
                 (Range(partitions[d]) \ {s}) \cup IF d = at[s] THEN {s} ELSE {}
      BY <1>1, <1>2, EnteredCell
    <3>3. partition'[s] = at[s] /\ \A t \in Ships : t # s => partition'[t] = partition[t]
      BY <1>1, <1>2 DEF TypeOK
    <3>4. \A d \in Cells : \A t \in Ships :
            t \in Range(partitions'[d]) <=> partition'[t] = d
      <4>1. SUFFICES ASSUME NEW d \in Cells, NEW t \in Ships
                     PROVE  t \in Range(partitions'[d]) <=> partition'[t] = d
        OBVIOUS
      <4>2. Range(partitions'[d]) =
              (Range(partitions[d]) \ {s}) \cup IF d = at[s] THEN {s} ELSE {}
        BY <3>1, <3>2
      <4>3. t \in Range(partitions[d]) <=> partition[t] = d
        BY DEF InItsCellOnce
      <4>4. CASE t = s
        BY <3>3, <4>2, <4>4
      <4>5. CASE t # s
        BY <3>3, <4>2, <4>3, <4>5
      <4>6. QED
        BY <4>4, <4>5
    <3>5. QED
      BY <3>1, <3>2, <3>4 DEF InItsCellOnce
  <2>3. QED
    BY <2>1, <2>2
<1>7. TypeOK'
  BY <1>1, <1>2, <1>3, <1>4, <1>6 DEF TypeOK
<1>8. QED
  BY <1>5, <1>6, <1>7

LEMMA ThrowGoesOutStep ==
  ASSUME SwarmInv, ThrowGoesOut
  PROVE  SwarmInv'
<1> USE DEF SwarmInv
<1> DEFINE s == instances[n]
<1>1. /\ step = "ships" /\ n > 0
      /\ partitions' = Left(s)
      /\ partition' = [partition EXCEPT ![s] = Undefined]
      /\ step' = "thrown"
      /\ UNCHANGED <<instances, at, spent, buffs, rockets, energy, n, created,
                     updated, entered>>
  BY DEF ThrowGoesOut, Throw
<1>2. s \in Ships
  BY <1>1, Turn
<1> HIDE DEF s
<1>3. /\ Left(s) \in [Cells -> Seq(Ships)]
      /\ \A c \in Cells : IsInjective(Left(s)[c])
      /\ \A c \in Cells : Range(Left(s)[c]) = Range(partitions[c]) \ {s}
  BY <1>2, LeftCell
<1>4. TypeOK'
  BY <1>1, <1>2, <1>3 DEF TypeOK
<1>5. InItsCellOnce'
  <2>1. /\ partition'[s] \notin Cells
        /\ \A t \in Ships : t # s => partition'[t] = partition[t]
    BY <1>1, <1>2, SwarmAssumption DEF TypeOK
  <2>2. QED
    BY <1>1, <1>3, <2>1 DEF InItsCellOnce
<1>6. LoopInv'
  BY <1>1 DEF LoopInv, Alive
<1>7. QED
  BY <1>4, <1>5, <1>6

LEMMA ThrowOutsideStep ==
  ASSUME SwarmInv, ThrowOutside
  PROVE  SwarmInv'
<1> USE DEF SwarmInv
<1> DEFINE s == instances[n]
<1>1. /\ step = "ships" /\ n > 0 /\ Updates(s) /\ Moves(s, {})
      /\ step' = "thrown"
      /\ UNCHANGED <<spent, partition, partitions, rockets, energy, n, created,
                     entered>>
  BY DEF ThrowOutside, Throw
<1>2. at' \in [Ships -> Cells \cup {Out}]
  <2>1. s \in Ships
    BY <1>1, Turn
  <2> HIDE DEF s
  <2>2. QED
    BY <1>1, <2>1, Moved
<1>3. /\ instances' \in Seq(Ships) /\ IsInjective(instances')
      /\ Alive' \subseteq Alive
      /\ buffs' \in [Ships -> 0 .. MaxBuffs]
      /\ updated' \in [Ships -> Nat] /\ \A t \in Ships : updated'[t] <= 1
  BY <1>1, Updated
<1>4. TypeOK' /\ InItsCellOnce'
  BY <1>1, <1>2, <1>3 DEF TypeOK, InItsCellOnce
<1>5. LoopInv'
  BY <1>1, <1>3 DEF LoopInv
<1>6. QED
  BY <1>4, <1>5

\* The steps that leave the ships and the cells alone.
LEMMA OtherSteps ==
  ASSUME SwarmInv,
         \/ GainEnergy \/ OrbitalsUpdated \/ ThrowReturns \/ ShipsUpdated
         \/ UpdateRocket \/ RocketsUpdated \/ NextFrame \/ UNCHANGED vars
  PROVE  SwarmInv'
<1> USE DEF SwarmInv
<1>1. UNCHANGED <<instances, at, partition, partitions, buffs, created, updated,
                  entered>>
  BY DEF GainEnergy, OrbitalsUpdated, ThrowReturns, ShipsUpdated, UpdateRocket,
         RocketsUpdated, NextFrame, vars
<1>2. InItsCellOnce'
  BY <1>1 DEF InItsCellOnce
<1>3. ASSUME spent' \subseteq Ships, rockets' \in 0 .. MaxRockets,
             energy' \in 0 .. MaxEnergy, n' \in Nat,
             step' \in {"orbitals", "waves", "ships", "rockets", "thrown"}
      PROVE  TypeOK'
  BY <1>1, <1>3 DEF TypeOK
<1>4. CASE GainEnergy
  <2>1. TypeOK'
    BY <1>3, <1>4, SwarmAssumption DEF GainEnergy, TypeOK
  <2>2. LoopInv'
    BY <1>4 DEF GainEnergy, LoopInv, Alive
  <2>3. QED
    BY <1>2, <2>1, <2>2
<1>5. CASE OrbitalsUpdated
  <2>1. TypeOK'
    BY <1>3, <1>5 DEF OrbitalsUpdated, TypeOK
  <2>2. LoopInv'
    BY <1>5 DEF OrbitalsUpdated, LoopInv, Alive
  <2>3. QED
    BY <1>2, <2>1, <2>2
<1>6. CASE ThrowReturns
  <2>1. TypeOK'
    BY <1>3, <1>6 DEF ThrowReturns, Throw, TypeOK
  <2>2. LoopInv'
    BY <1>6 DEF ThrowReturns, Throw, LoopInv, Alive
  <2>3. QED
    BY <1>2, <2>1, <2>2
<1>7. CASE ShipsUpdated
  <2>1. rockets \in Nat
    BY SwarmAssumption DEF TypeOK
  <2>2. TypeOK'
    BY <1>3, <1>7, <2>1 DEF ShipsUpdated, TypeOK
  <2>3. \A i \in 1 .. 0 : FALSE
    OBVIOUS
  <2>4. LoopInv'
    BY <1>7, <2>1, <2>3 DEF ShipsUpdated, LoopInv, Alive
  <2>5. QED
    BY <1>2, <2>2, <2>4
<1>8. CASE UpdateRocket
  <2>1. /\ step = "rockets" /\ n > 0 /\ n' = n - 1 /\ step' = step
        /\ energy' = energy
        /\ rockets' = rockets \/ rockets' = rockets - 1
    BY <1>8 DEF UpdateRocket
  <2>2. /\ n \in Nat /\ n <= rockets /\ rockets \in 0 .. MaxRockets
        /\ MaxRockets \in Nat
    BY <2>1, SwarmAssumption DEF TypeOK, LoopInv
  <2>3. rockets' \in 0 .. MaxRockets /\ n' \in Nat /\ n' <= rockets'
    BY <2>1, <2>2
  <2>4. spent' \subseteq Ships
    BY <1>8 DEF UpdateRocket, TypeOK, Alive, Range
  <2>5. TypeOK'
    BY <1>3, <2>1, <2>3, <2>4 DEF TypeOK
  <2>6. LoopInv'
    BY <1>1, <2>1, <2>3 DEF LoopInv, Alive
  <2>7. QED
    BY <1>2, <2>5, <2>6
<1>9. CASE RocketsUpdated
  <2>1. TypeOK'
    BY <1>3, <1>9 DEF RocketsUpdated, Frame, TypeOK
  <2>2. LoopInv'
    BY <1>9 DEF RocketsUpdated, Frame, LoopInv, Alive
  <2>3. QED
    BY <1>2, <2>1, <2>2
<1>10. CASE NextFrame
  <2>1. TypeOK'
    BY <1>3, <1>10 DEF NextFrame, Frame, TypeOK
  <2>2. LoopInv'
    BY <1>10 DEF NextFrame, Frame, LoopInv, Alive
  <2>3. QED
    BY <1>2, <2>1, <2>2
<1>11. CASE UNCHANGED vars
  <2>1. TypeOK'
    BY <1>3, <1>11 DEF vars, TypeOK
  <2>2. LoopInv'
    BY <1>11 DEF vars, LoopInv, Alive
  <2>3. QED
    BY <1>2, <2>1, <2>2
<1>12. QED
  BY <1>4, <1>5, <1>6, <1>7, <1>8, <1>9, <1>10, <1>11

LEMMA NewGameStep ==
  ASSUME SwarmInv, NewGame
  PROVE  SwarmInv'
<1>1. Range(<< >>) = {} /\ IsInjective(<< >>) /\ << >> \in Seq(Ships)
  BY DEF Range, IsInjective
<1>2. TypeOK'
  BY <1>1, SwarmAssumption DEF NewGame, SwarmInv, TypeOK, Empty
<1>3. InItsCellOnce'
  BY <1>1, SwarmAssumption DEF NewGame, InItsCellOnce, Empty
<1>4. LoopInv'
  BY <1>1 DEF NewGame, LoopInv, Alive
<1>5. QED
  BY <1>2, <1>3, <1>4 DEF SwarmInv

-----------------------------------------------------------------------------
\* SwarmInv is inductive.
THEOREM Inductive == Spec => []SwarmInv
<1>1. SwarmInv /\ [Next]_vars => SwarmInv'
  BY ShootStep, WaveStep, UpdateShipStep, ThrowGoesOutStep, ThrowOutsideStep,
     OtherSteps, NewGameStep DEF Next, Ticks
<1>2. QED
  BY InitStep, <1>1, PTL DEF Spec

\* The energy of the base is never negative, whatever fires in a tick, and
\* what is in the lists are ships.
THEOREM TypeCorrect == Spec => []TypeOK
<1>1. SwarmInv => TypeOK
  BY DEF SwarmInv
<1>2. QED
  BY Inductive, <1>1, PTL

\* A ship is in its cell once and in no other cell, for any number of ships
\* pushed, moved or destroyed in a tick.
THEOREM CellsHold == Spec => []InItsCellOnce
<1>1. SwarmInv => InItsCellOnce
  BY DEF SwarmInv
<1>2. QED
  BY Inductive, <1>1, PTL

\* A tick that no exception cuts short updates every ship exactly once.
THEOREM TickUpdatesOnce == Spec => []UpdatedOnce
<1>1. SwarmInv => UpdatedOnce
  BY DEF SwarmInv, LoopInv, UpdatedOnce
<1>2. QED
  BY Inductive, <1>1, PTL
=============================================================================
