------------------------------- MODULE Orbits -------------------------------
(***************************************************************************)
(* The orbitals of the game: the star, its planets and moons, the base on  *)
(* the first planet and the stations built around them (orbital.js,        *)
(* SystemGenerator.js), the lines of their orbits and the communication    *)
(* lines between the stations (graphics.js), from tick to tick and render  *)
(* to render.                                                              *)
(*                                                                         *)
(* An orbital is destroyed from inside the loop that updates the list it   *)
(* is in; it is told from others by its place in that list at its creation;*)
(* its orbit is drawn into a canvas that its host keeps from one render to *)
(* the next; whether it is online is worked out when the lines are drawn   *)
(* and used by the ticks that follow.                                      *)
(*                                                                         *)
(* An orbital is named by its rank of creation; positions are left out:    *)
(* which orbitals are within Base.comRange is chosen when it is asked.     *)
(* One zoom level of the view is modelled.  What ships do is reduced to    *)
(* the orbitals whose hp they spend; income and the tutorial are in Exo.   *)
(***************************************************************************)
EXTENDS Integers, Sequences, FiniteSets, Functions, Lists

CONSTANTS
  Null,
  Planets,      \* numbers of planets that may be generated, 2 .. 4 in the code
  Moons,        \* numbers of moons of the first planet, 0 .. 2 in the code
  Mines,        \* mining stations a game starts with, 3 in the code
  Blueprints,   \* the types of the stations that can be built
  MaxBodies     \* bound: orbitals ever created in a game

\* ORBITAL_TYPE.
STAR == 0
PLANET == 1
SATELLITE == 2
MINING == 3
DEFENSE == 4
MOON == 5

\* miningStation(), satellite(), defenseStation(): what one builds.
Stations == {SATELLITE, MINING, DEFENSE}

ASSUME OrbitsAssumption ==
  /\ Null \notin Nat /\ \A s \in SUBSET (1 .. MaxBodies) : s # Null
  /\ Planets \subseteq Nat \ {0} /\ Moons \subseteq Nat /\ Mines \in Nat
  /\ Blueprints \subseteq Stations
  /\ MaxBodies \in Nat
  /\ \A p \in Planets, m \in Moons : 1 + p + m + Mines <= MaxBodies

VARIABLES
  made,      \* the orbitals created in this game: type, host, label
  orbitals,  \* Orbital.orbitals
  spent,     \* those whose hp are zero or less
  online,    \* those with t.online
  cache,     \* the orbit cache of each: Null, or whose lines are in it
  step,      \* where update() and render() stand
  index,     \* of the loop over the orbitals
  length,    \* of the list when that loop started
  todo,      \* nodes getComlines() has still to visit
  list,      \* nodes it has found, with repeats
  pairs,     \* lines it has found
  apart,     \* history: the pairs it found too far apart
  updated,   \* history: the orbitals updated by the loop
  gone       \* history: an orbital was destroyed by the loop

vars == <<made, orbitals, spent, online, cache, step, index, length, todo,
          list, pairs, apart, updated, gone>>

ticks == <<index, length, updated, gone>>
lines == <<todo, list, pairs, apart>>

Body == 1 .. MaxBodies
Made == DOMAIN made
Living == Range(orbitals)

\* The star is created first, the planet of the base next.
Star == 1
BasePlanet == 2

Type(b) == made[b].type
Host(b) == made[b].host

TypeOK ==
  /\ made \in Seq([type : STAR .. MOON, host : Body \cup {Null},
                   label : 0 .. MaxBodies])
  /\ Len(made) <= MaxBodies
  /\ orbitals \in Seq(Body) /\ Living \subseteq Made
  /\ spent \subseteq Made /\ online \subseteq Made
  /\ cache \in [Body -> {Null} \cup SUBSET Body]
  /\ step \in {"build", "orbitals", "ships", "orbits", "comlines", "drawn"}
  /\ index \in 1 .. MaxBodies + 1 /\ length \in 0 .. MaxBodies
  /\ todo \in Seq(Body) /\ list \in Seq(Body) /\ pairs \in Seq(Body \X Body)
  /\ apart \subseteq SUBSET Body
  /\ updated \subseteq Body
  /\ gone \in BOOLEAN

-----------------------------------------------------------------------------
(***************************************************************************)
(* SystemGenerator.generate(): the star; each planet, followed by its      *)
(* moons; then the base and its mining stations.  Only the first planet    *)
(* has moons here.                                                         *)
(***************************************************************************)
Generated(planets, moons) ==
  [b \in 1 .. 1 + planets + moons + Mines |->
     [type  |-> CASE b = Star -> STAR
                  [] b = BasePlanet -> PLANET
                  [] b \in BasePlanet + 1 .. BasePlanet + moons -> MOON
                  [] b \in BasePlanet + moons + 1 .. 1 + planets + moons -> PLANET
                  [] OTHER -> MINING,
      host  |-> CASE b = Star -> Null
                  [] b = BasePlanet -> Star
                  [] b \in BasePlanet + 1 .. BasePlanet + moons -> BasePlanet
                  [] b \in BasePlanet + moons + 1 .. 1 + planets + moons -> Star
                  [] OTHER -> BasePlanet,
      label |-> b - 1]]

Init ==
  /\ \E p \in Planets, m \in Moons : made = Generated(p, m)
  /\ orbitals = [b \in DOMAIN made |-> b]
  /\ spent = {} /\ online = {}
  /\ cache = [b \in Body |-> Null]
  /\ step = "build"
  /\ index = 1 /\ length = 0 /\ updated = {} /\ gone = FALSE
  /\ todo = << >> /\ list = << >> /\ pairs = << >> /\ apart = {}

\* Game.init() drops the orbitals of the last game, with all they held.
NewGame ==
  /\ step = "build" /\ BasePlanet \notin Living
  /\ \E p \in Planets, m \in Moons : made' = Generated(p, m)
  /\ orbitals' = [b \in DOMAIN made' |-> b]
  /\ spent' = {} /\ online' = {}
  /\ cache' = [b \in Body |-> Null]
  /\ UNCHANGED <<step, ticks, lines>>

(***************************************************************************)
(* create(), from a button: the new orbital is labelled with the length of *)
(* the list, and the orbits around its host are to be drawn again.         *)
(***************************************************************************)
create(type, host) ==
  /\ made' = Append(made, [type |-> type, host |-> host,
                           label |-> Len(orbitals)])
  /\ orbitals' = Append(orbitals, Len(made'))
  /\ cache' = [cache EXCEPT ![host] = Null]

\* Build.update(): around the star or a planet, one that was just lost too.
Place(type, host) ==
  /\ step = "build"
  /\ Len(made) < MaxBodies
  /\ Type(host) \in {STAR, PLANET}
  /\ create(type, host)
  /\ UNCHANGED <<spent, online, step, ticks, lines>>

\* The rest of a tick, while the game is RUNNING and has its base.
Run ==
  /\ step = "build" /\ BasePlanet \in Living
  /\ step' = "orbitals"
  /\ index' = 1 /\ length' = Len(orbitals) /\ updated' = {} /\ gone' = FALSE
  /\ UNCHANGED <<made, orbitals, spent, online, cache, lines>>

-----------------------------------------------------------------------------

(***************************************************************************)
(* One call of t.update() by Orbital.orbitals.forEach().  The last of the  *)
(* list takes the place of an orbital that is destroyed.                   *)
(***************************************************************************)
More == index <= length /\ index <= Len(orbitals)

Position(b) == CHOOSE i \in DOMAIN orbitals : orbitals[i] = b

\* Destroy if the host kept its canvas.
Destroy_KeepsCache(b) ==
  /\ orbitals' = SwapRemove(orbitals, Position(b))
  /\ gone' = TRUE
  /\ UNCHANGED cache

Destroy(b) ==
  /\ orbitals' = SwapRemove(orbitals, Position(b))
  /\ cache' = IF Host(b) = Null THEN cache ELSE [cache EXCEPT ![Host(b)] = Null]
  /\ gone' = TRUE

Update ==
  /\ step = "orbitals" /\ More
  /\ LET b == orbitals[index] IN
     /\ IF b \in spent THEN Destroy(b) ELSE UNCHANGED <<orbitals, cache, gone>>
     /\ updated' = updated \cup {b}
  /\ index' = index + 1
  /\ UNCHANGED <<made, spent, online, step, length, lines>>

Updated ==
  /\ step = "orbitals" /\ ~More
  /\ step' = "ships"
  /\ UNCHANGED <<made, orbitals, spent, online, cache, ticks, lines>>

\* nearestTargetableOrbital(): what a ship may aim at.
Targetable(b) == (Type(b) > PLANET \/ b = BasePlanet) /\ b \in online

\* EnemyShip.update(): the ships may spend the hp of one they aim at.
Fire ==
  /\ step = "ships"
  /\ \E b \in Living : Targetable(b) /\ spent' = spent \cup {b}
  /\ UNCHANGED <<made, orbitals, online, cache, step, ticks, lines>>

\* Another tick of the same frame, or none.
EndOfTick ==
  /\ step = "ships"
  /\ step' \in {"build", "orbits"}
  /\ UNCHANGED <<made, orbitals, spent, online, cache, ticks, lines>>

\* A paused game is drawn as well; one without its base is not, but for the
\* frame that has lost it.
EndOfPausedTick ==
  /\ step = "build" /\ BasePlanet \in Living
  /\ step' = "orbits"
  /\ UNCHANGED <<made, orbitals, spent, online, cache, ticks, lines>>

-----------------------------------------------------------------------------
(***************************************************************************)
(* renderAllOrbits(), from the last orbital to the first: a line goes into *)
(* the canvas of the host unless one of the same label is there.           *)
(***************************************************************************)
Kept(h) == IF cache[h] = Null THEN {} ELSE cache[h]

hasBody(h, i) ==
  \/ \E b \in Kept(h) : made[b].label = made[orbitals[i]].label
  \/ \E j \in DOMAIN orbitals :
       /\ j > i /\ Host(orbitals[j]) = h
       /\ made[orbitals[j]].label = made[orbitals[i]].label

Around(h) == {i \in DOMAIN orbitals : Host(orbitals[i]) = h}

\* resetComlines if what was online stayed so.
resetComlines_Never == UNCHANGED online

\* renderComLines(): nothing is online until a line leads to it.
resetComlines == online' = {}

renderAllOrbits ==
  /\ step = "orbits"
  /\ step' = "comlines"
  /\ cache' =
       [h \in Body |->
          IF Around(h) = {} THEN cache[h]
          ELSE Kept(h) \cup {orbitals[i] : i \in {j \in Around(h) : ~hasBody(h, j)}}]
  /\ resetComlines
  /\ todo' = <<BasePlanet>> /\ list' = << >> /\ pairs' = << >> /\ apart' = {}
  /\ UNCHANGED <<made, orbitals, spent, ticks>>

(***************************************************************************)
(* getComlines(): a node is put in the list, then the orbitals in its      *)
(* range that are not, then it goes through these.                         *)
(***************************************************************************)
canOfferConnection(b) == b = BasePlanet \/ Type(b) = SATELLITE

\* canReceiveConnection if it asked for a type greater than a planet's.
canReceiveConnection_Above(b) == Type(b) > PLANET

canReceiveConnection(b) == Type(b) \in {SATELLITE, MINING, DEFENSE}

Asked(node) ==
  {b \in Living \ Range(list) :
     b # node /\ canOfferConnection(node) /\ canReceiveConnection(b)}

\* From the last orbital to the first.
Downwards(S) ==
  {q \in [1 .. Cardinality(S) -> S] :
     \A j, k \in DOMAIN q : j < k => Position(q[j]) > Position(q[k])}

getComlines ==
  /\ step = "comlines" /\ todo # << >>
  /\ LET node == Head(todo) IN
     \E near \in SUBSET Asked(node) : \E next \in Downwards(near) :
       /\ online' = online \cup {node}
       /\ list' = Append(list, node) \o next
       /\ pairs' = pairs \o [k \in DOMAIN next |-> <<node, next[k]>>]
       /\ todo' = next \o Tail(todo)
       /\ apart' = apart \cup {{node, b} : b \in Asked(node) \ near}
  /\ UNCHANGED <<made, orbitals, spent, cache, step, ticks>>

Drawn ==
  /\ step = "comlines" /\ todo = << >>
  /\ step' = "drawn"
  /\ UNCHANGED <<made, orbitals, spent, online, cache, ticks, lines>>

\* What the last render found is only read by it.
NextFrame ==
  /\ step = "drawn"
  /\ step' = "build"
  /\ list' = << >> /\ pairs' = << >> /\ apart' = {}
  /\ UNCHANGED <<made, orbitals, spent, online, cache, todo, ticks>>

Next ==
  \/ NewGame
  \/ \E type \in Blueprints : \E host \in Made : Place(type, host)
  \/ Run
  \/ Update
  \/ Updated
  \/ Fire
  \/ EndOfTick
  \/ EndOfPausedTick
  \/ renderAllOrbits
  \/ getComlines
  \/ Drawn
  \/ NextFrame

Spec == Init /\ [][Next]_vars

-----------------------------------------------------------------------------
\* The list holds no orbital twice, and the star always comes first, where
\* the shadows of all the others look for it (orbital.js:44, graphics.js:252).
SunIsFirst ==
  /\ IsInjective(orbitals)
  /\ orbitals # << >> /\ orbitals[1] = Star

\* Ships only ever destroy stations and the base: the other planets and the
\* moons, whose type is greater than that of some stations, stand
\* (utils.js:55).
PlanetsStand ==
  \A b \in Made : Type(b) \in {STAR, PLANET, MOON} /\ b # BasePlanet =>
    b \in Living

\* An orbital is left out of a tick only if another was destroyed in it
\* (orbital.js:44, game.js:85).
LeftOutByALoss == step = "ships" /\ ~gone => Living \subseteq updated

\* Losses, in the loop over the list they are taken from, leave the star first,
\* no orbital twice, the planets where they are, and the other ticks whole
\* (orbital.js:42-49, utils.js:55).
SystemStands == SunIsFirst /\ PlanetsStand /\ LeftOutByALoss

\* Once the lines are drawn, what can be reached from the base is online,
\* and nothing else is: a station that is off is too far from all that could
\* link it, and one that is on has exactly one line that leads to it, from an
\* orbital that is on (graphics.js:293).
OnlineIsConnected ==
  step = "drawn" =>
    /\ \A a \in online, b \in Living \ online :
         canOfferConnection(a) /\ canReceiveConnection(b) => {a, b} \in apart
    /\ \A b \in online \ {BasePlanet} :
         /\ Cardinality({k \in DOMAIN pairs : pairs[k][2] = b}) = 1
         /\ \E k \in DOMAIN pairs : pairs[k][2] = b /\ pairs[k][1] \in online
    /\ Len(pairs) = Cardinality(online) - 1

\* The lines on the screen are those of orbitals that exist, and one that is
\* missing has the label of another around the same host (graphics.js:57,
\* orbital.js:47).
LinesAreOfTheLiving ==
  step = "drawn" => \A h \in Living :
    /\ Kept(h) \subseteq Living
    /\ \A i \in Around(h) : \E b \in Kept(h) :
         made[b].label = made[orbitals[i]].label
=============================================================================
