------------------------------- MODULE Swarm -------------------------------
(***************************************************************************)
(* The enemy ships of the game and what is fired at them: Enemy.js,        *)
(* Rocket.js, the modules of a defense station and WaveManager.spawn(),    *)
(* from tick to tick.                                                      *)
(*                                                                         *)
(* Ships are kept twice: in instances, where the last takes the place of   *)
(* one that is destroyed while the loop over them runs, and in the cells   *)
(* of a grid (partitions), which the flocking looks at, and that a ship    *)
(* leaves when it is updated elsewhere.  Outside the grid there is no      *)
(* cell: getPartition() answers undefined, and what the loop then does     *)
(* with it throws, which ends the frame where it stands.                   *)
(*                                                                         *)
(* Positions are reduced to the cell they fall in: where a move or a push  *)
(* brings a ship is chosen, and so is what is in the range of a weapon.    *)
(* The hp of a ship are reduced to whether they are spent.  Energy is      *)
(* counted in units that all costs are multiples of.  The cooldown of the  *)
(* modules is left out: a module may be due at any tick.                   *)
(***************************************************************************)
EXTENDS Integers, Sequences, FiniteSets, Functions, Lists

CONSTANTS
  Null,         \* JavaScript's null
  Undefined,    \* JavaScript's undefined
  Ships,        \* the enemy ships a game may create
  Cells,        \* the cells of the grid
  Out,          \* what is beyond it
  Border,       \* the cells that one move or push may lead out of
  Modules,      \* ORBITAL_MODULE_TYPEs the stations have
  ShootCost,    \* energy a shot of each costs, per ship for LIGHTNING
  MaxTargets,   \* maxTargets of LIGHTNING, 10 in the code
  WaveSize,     \* ships of a wave, 30, 60... in the code
  MaxBuffs, MaxRockets, MaxEnergy  \* bounds

ORBITAL_MODULE_TYPE == {"LASER", "BEAM", "ROCKET", "EMP", "LIGHTNING"}

ASSUME SwarmAssumption ==
  /\ Out \notin Cells /\ {Null, Undefined} \cap (Cells \cup {Out}) = {}
  /\ Null # Undefined
  /\ Border \subseteq Cells /\ Border # {}
  /\ Modules \subseteq ORBITAL_MODULE_TYPE
  /\ ShootCost \in [Modules -> Nat]
  /\ MaxTargets \in Nat /\ WaveSize \in Nat
  /\ MaxBuffs \in Nat /\ MaxRockets \in Nat /\ MaxEnergy \in Nat

VARIABLES
  instances,   \* the ships, in order
  at,          \* where each ship is: a cell, or Out
  spent,       \* the ships whose hp are zero or less
  partition,   \* inst.partition: Null, a cell, or Undefined
  partitions,  \* the ships in each cell, in order
  buffs,       \* how many EMP hits still slow each ship
  rockets,     \* how many rockets are in flight
  energy,      \* Base.energy
  step,        \* where update() stands, or "thrown"
  n,           \* the loop variable over instances, then over rockets
  created,     \* the ships this game has created
  updated,     \* history: how many times this tick has updated each ship
  entered      \* history: the ships the loop of this tick started with

vars == <<instances, at, spent, partition, partitions, buffs, rockets, energy,
          step, n, created, updated, entered>>

Alive == Range(instances)

Empty == [c \in Cells |-> << >>]

TypeOK ==
  /\ instances \in Seq(Ships)
  /\ at \in [Ships -> Cells \cup {Out}]
  /\ spent \subseteq Ships
  /\ partition \in [Ships -> Cells \cup {Null, Undefined}]
  /\ partitions \in [Cells -> Seq(Ships)]
  /\ buffs \in [Ships -> 0 .. MaxBuffs]
  /\ rockets \in 0 .. MaxRockets
  /\ energy \in 0 .. MaxEnergy
  /\ step \in {"orbitals", "waves", "ships", "rockets", "thrown"}
  /\ n \in Nat
  /\ created \subseteq Ships
  /\ updated \in [Ships -> Nat] /\ entered \subseteq Ships

-----------------------------------------------------------------------------
(* The modules, updated with their stations at the start of a tick.        *)

\* EnemyShip.nearest() finds a ship if one is in range; spent ones count.
InSight == instances # << >>

Pays(m) == energy >= ShootCost[m] /\ energy' = energy - ShootCost[m]

Hits(S) == spent' \in {spent \cup T : T \in SUBSET S}

\* laserCode(): one shot, which may miss; one hit may not be enough.
Laser ==
  /\ InSight /\ Pays("LASER")
  /\ \E target \in Alive : Hits({target})
  /\ UNCHANGED <<buffs, rockets>>

\* beamCode(): all the ships in the direction of the beam.
Beam ==
  /\ InSight /\ Pays("BEAM")
  /\ Hits(Alive)
  /\ UNCHANGED <<buffs, rockets>>

\* Rocket.create()
Launched == rockets' = rockets + 1

\* rocketCode()
Rocket ==
  /\ InSight /\ Pays("ROCKET") /\ rockets < MaxRockets
  /\ Launched
  /\ UNCHANGED <<spent, buffs>>

\* EnemyShip.addBuff(), for each of some ships.
addBuff(near) ==
  buffs' = [s \in Ships |-> IF s \in near THEN buffs[s] + 1 ELSE buffs[s]]

\* slowCode(): one more buff for each ship in range, the nearest at least.
Emp ==
  /\ InSight /\ Pays("EMP")
  /\ \E near \in SUBSET Alive \ {{}} :
       /\ \A s \in near : buffs[s] < MaxBuffs
       /\ addBuff(near)
  /\ UNCHANGED <<spent, rockets>>

\* zapCode(): from the last ship down, each one looked at is paid for, those
\* near the one hit before are hit, until energy, targets or ships run out.
Looked(k) == {instances[i] : i \in Len(instances) - k + 1 .. Len(instances)}

Lightning ==
  /\ InSight
  /\ \E k \in 0 .. Len(instances) : \E targets \in SUBSET Looked(k) :
       /\ energy >= k * ShootCost["LIGHTNING"]
       /\ energy' = energy - k * ShootCost["LIGHTNING"]
       /\ Cardinality(targets) <= MaxTargets + 1
       /\ Cardinality(targets) = MaxTargets + 1 =>
            instances[Len(instances) - k + 1] \in targets
       /\ \/ k = Len(instances)
          \/ energy' < ShootCost["LIGHTNING"]
          \/ Cardinality(targets) = MaxTargets + 1
       /\ Hits(targets)
  /\ UNCHANGED <<buffs, rockets>>

Shoot ==
  /\ step = "orbitals"
  /\ \/ "LASER" \in Modules /\ Laser
     \/ "BEAM" \in Modules /\ Beam
     \/ "ROCKET" \in Modules /\ Rocket
     \/ "EMP" \in Modules /\ Emp
     \/ "LIGHTNING" \in Modules /\ Lightning
  /\ UNCHANGED <<instances, at, partition, partitions, step, n, created,
                 updated, entered>>

\* The update of a satellite that is online.
GainEnergy ==
  /\ step = "orbitals" /\ energy < MaxEnergy
  /\ energy' = energy + 1
  /\ UNCHANGED <<instances, at, spent, partition, partitions, buffs, rockets,
                 step, n, created, updated, entered>>

OrbitalsUpdated ==
  /\ step = "orbitals"
  /\ step' = "waves"
  /\ UNCHANGED <<instances, at, spent, partition, partitions, buffs, rockets,
                 energy, n, created, updated, entered>>

-----------------------------------------------------------------------------
(***************************************************************************)
(* WaveManager.update(): at times, EnemyShip.create() for each ship of a   *)
(* wave, on a circle that touches the border of the grid.                  *)
(***************************************************************************)
Fresh == Ships \ created

Waves == {w \in [1 .. WaveSize -> Fresh] :
            \A i, j \in 1 .. WaveSize : w[i] = w[j] => i = j}

Spawned(w, new) ==
  /\ instances' = instances \o w
  /\ created' = created \cup new
  /\ \E where \in [new -> Border] :
       at' = [s \in Ships |-> IF s \in new THEN where[s] ELSE at[s]]

WaveUpdate ==
  /\ step = "waves"
  /\ step' = "ships"
  /\ \/ \E w \in Waves : Spawned(w, Range(w))
     \/ UNCHANGED <<instances, created, at>>
  /\ n' = Len(instances') /\ entered' = Range(instances')
  /\ updated' = [s \in Ships |-> 0]
  /\ UNCHANGED <<spent, partition, partitions, buffs, rockets, energy>>

-----------------------------------------------------------------------------
(***************************************************************************)
(* EnemyShip.update(), one ship after the other, from the last.            *)
(***************************************************************************)
getPartition(s) == IF at[s] \in Cells THEN at[s] ELSE Undefined

indexOf(q, s) == CHOOSE i \in DOMAIN q : q[i] = s

Leave(q, s) == SwapRemove(q, indexOf(q, s))

\* Left if the ship stayed in the cell it leaves.
Left_Stays(s) == partitions

Left(s) ==
  IF partition[s] \in Cells
  THEN [partitions EXCEPT ![partition[s]] = Leave(@, s)] ELSE partitions

Entered(s, c) == [Left(s) EXCEPT ![c] = Append(@, s)]

Changes(s) == partition[s] # getPartition(s)

\* A ship that has been outside has no array to be taken from (line 61).
Returns(s) == Changes(s) /\ partition[s] = Undefined

\* A ship that goes outside has no array to be put in (line 66).
GoesOut(s) == Changes(s) /\ ~Returns(s) /\ getPartition(s) = Undefined

\* The exception ends the frame; the next one has been asked for already.
Throw == step' = "thrown" /\ UNCHANGED n

ThrowReturns ==
  /\ step = "ships" /\ n > 0 /\ Returns(instances[n])
  /\ Throw
  /\ UNCHANGED <<instances, at, spent, partition, partitions, buffs, rockets,
                 energy, created, updated, entered>>

ThrowGoesOut ==
  /\ step = "ships" /\ n > 0 /\ GoesOut(instances[n])
  /\ LET s == instances[n] IN
     /\ partitions' = Left(s)
     /\ partition' = [partition EXCEPT ![s] = Undefined]
  /\ Throw
  /\ UNCHANGED <<instances, at, spent, buffs, rockets, energy, created,
                 updated, entered>>

\* Where a move or a push may bring a ship.
Reach(place) == IF place \in Cells \ Border THEN Cells ELSE Cells \cup {Out}

\* The ship moves; flockCollision() pushes it and another one of the cell.
Moves(s, others) ==
  \/ \E to \in Reach(at[s]) : at' = [at EXCEPT ![s] = to]
  \/ \E other \in others : \E to \in Reach(at[s]), by \in Reach(at[other]) :
       at' = [at EXCEPT ![s] = to, ![other] = by]

\* Updates if a ship were destroyed with less than no hp only.
Updates_BelowZero(s) ==
  /\ buffs' \in {[buffs EXCEPT ![s] = b] : b \in 0 .. buffs[s]}
  /\ updated' = [updated EXCEPT ![s] = @ + 1]
  /\ instances' \in {instances}
       \cup IF s \in spent THEN {SwapRemove(instances, n)} ELSE {}

\* What every update that reaches line 69 does up to line 110.  destroy(n)
\* does not take the ship out of its cell.
Updates(s) ==
  /\ buffs' \in {[buffs EXCEPT ![s] = b] : b \in 0 .. buffs[s]}
  /\ updated' = [updated EXCEPT ![s] = @ + 1]
  /\ instances' = IF s \in spent THEN SwapRemove(instances, n) ELSE instances

\* Those of the cell that still live: where the others are does not matter.
Flock(s, c) == (Range(partitions[c]) \cap Alive) \ {s}

\* UpdateShip if the ship put in the place of a destroyed one came next.
UpdateShip_Again ==
  /\ step = "ships" /\ n > 0
  /\ LET s == instances[n] IN
     /\ at[s] \in Cells /\ ~Returns(s)
     /\ Updates(s)
     /\ Moves(s, Flock(s, at[s]))
     /\ partition' = [partition EXCEPT ![s] = at[s]]
     /\ partitions' = IF Changes(s) THEN Entered(s, at[s]) ELSE partitions
     /\ n' = IF s \in spent /\ n < Len(instances) THEN n ELSE n - 1
  /\ UNCHANGED <<spent, rockets, energy, step, created, entered>>

UpdateShip ==
  /\ step = "ships" /\ n > 0
  /\ LET s == instances[n] IN
     /\ at[s] \in Cells /\ ~Returns(s)
     /\ Updates(s)
     /\ Moves(s, Flock(s, at[s]))
     /\ partition' = [partition EXCEPT ![s] = at[s]]
     /\ partitions' = IF Changes(s) THEN Entered(s, at[s]) ELSE partitions
  /\ n' = n - 1
  /\ UNCHANGED <<spent, rockets, energy, step, created, entered>>

\* Outside for more than one tick: it moves, then flockCollision() throws.
ThrowOutside ==
  /\ step = "ships" /\ n > 0
  /\ LET s == instances[n] IN
     /\ at[s] = Out /\ partition[s] = Undefined
     /\ Updates(s)
     /\ Moves(s, {})
  /\ Throw
  /\ UNCHANGED <<spent, partition, partitions, rockets, energy, created,
                 entered>>

ShipsUpdated ==
  /\ step = "ships" /\ n = 0
  /\ step' = "rockets"
  /\ n' = rockets
  /\ UNCHANGED <<instances, at, spent, partition, partitions, buffs, rockets,
                 energy, created, updated, entered>>

-----------------------------------------------------------------------------
(***************************************************************************)
(* Rocket.update(), from the last: it flies on, or explodes, near a ship   *)
(* or at the end of its life, and then spends the hp of the nearest ship   *)
(* if there is one around.                                                 *)
(***************************************************************************)
UpdateRocket ==
  /\ step = "rockets" /\ n > 0
  /\ n' = n - 1
  /\ \/ UNCHANGED <<rockets, spent>>
     \/ /\ rockets' = rockets - 1
        /\ spent' \in {spent} \cup {spent \cup {target} : target \in Alive}
  /\ UNCHANGED <<instances, at, partition, partitions, buffs, energy, step,
                 created, updated, entered>>

Frame == step' = "orbitals" /\ n' = 0

RocketsUpdated ==
  /\ step = "rockets" /\ n = 0
  /\ Frame
  /\ UNCHANGED <<instances, at, spent, partition, partitions, buffs, rockets,
                 energy, created, updated, entered>>

\* After an exception, the next frame starts the tick again.
NextFrame ==
  /\ step = "thrown"
  /\ Frame
  /\ UNCHANGED <<instances, at, spent, partition, partitions, buffs, rockets,
                 energy, created, updated, entered>>

\* Game.init(), when the base has been lost: EnemyShip.init() makes a grid
\* and forgets the ships, Base.create() gives some energy; the rockets of the
\* last game fly on.
NewGame ==
  /\ step = "orbitals"
  /\ instances' = << >> /\ partitions' = Empty
  /\ at' = [s \in Ships |-> Out] /\ partition' = [s \in Ships |-> Null]
  /\ spent' = {} /\ buffs' = [s \in Ships |-> 0] /\ created' = {}
  /\ energy' = MaxEnergy
  /\ updated' = [s \in Ships |-> 0] /\ entered' = {}
  /\ UNCHANGED <<rockets, step, n>>

Init ==
  /\ instances = << >> /\ partitions = Empty
  /\ at = [s \in Ships |-> Out] /\ partition = [s \in Ships |-> Null]
  /\ spent = {} /\ buffs = [s \in Ships |-> 0] /\ created = {}
  /\ rockets = 0 /\ energy = MaxEnergy
  /\ step = "orbitals" /\ n = 0
  /\ updated = [s \in Ships |-> 0] /\ entered = {}

Ticks ==
  \/ OrbitalsUpdated
  \/ WaveUpdate
  \/ ThrowReturns
  \/ ThrowGoesOut
  \/ UpdateShip
  \/ ThrowOutside
  \/ ShipsUpdated
  \/ UpdateRocket
  \/ RocketsUpdated
  \/ NextFrame

Next ==
  \/ Shoot
  \/ GainEnergy
  \/ NewGame
  \/ Ticks

\* A game that is not paused for ever runs one frame after the other.
Spec == Init /\ [][Next]_vars /\ WF_vars(Ticks)

-----------------------------------------------------------------------------
\* A ship is in its cell once and in no other, and one that is new or outside
\* in none: what taking it out of its cell by its index relies on, whatever
\* moved, pushed or destroyed it or others meanwhile (Enemy.js:61).  One that
\* is destroyed stays in its cell.
InItsCellOnce ==
  \A c \in Cells :
    /\ IsInjective(partitions[c])
    /\ \A s \in Ships : s \in Range(partitions[c]) <=> partition[s] = c

\* No ship is twice in the list, and in a tick that no exception cuts short
\* every ship is updated exactly once, though others are taken out of the list
\* while the loop runs (Enemy.js:55, 143).
UpdatedOnce ==
  /\ IsInjective(instances)
  /\ \A s \in Ships : updated[s] <= 1
  /\ step = "rockets" => \A s \in entered : updated[s] = 1

\* A ship with no hp left is removed, unless a ship has left the grid, which
\* stops all those before it in the list (Enemy.js:108).
SpentAreRemoved ==
  \A s \in Ships :
    s \in Alive /\ s \in spent ~>
      s \notin Alive \/ \E t \in Alive : partition[t] = Undefined

\* getPartition() is documented to return an array (Enemy.js:215).
PartitionIsArray == \A s \in Alive : partition[s] # Undefined
=============================================================================
