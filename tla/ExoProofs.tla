------------------------------ MODULE ExoProofs ------------------------------
(***************************************************************************)
(* Proofs about Exo, for any buttons, bodies, missions, waits and bounds:  *)
(* a construction can be paid, belongs to its game and is built as drawn,  *)
(* a panned view never clicks, and the tutorial is peaceful and goes on;   *)
(* and what an exception, or a second button, makes of these.              *)
(***************************************************************************)
EXTENDS Exo, FiniteSetTheorems, TLAPS

\* What is built: nothing outside a game, and a valid orbit is around a body.
BuildInv ==
  /\ build.pending => games > 0 /\ minerals >= build.cost
  /\ ~build.pending => build.on = Null
  /\ build.valid => build.on # Null /\ build.distance # Null
  /\ games = 0 => minerals = 0

\* Where the steps of a tick are reached with a game, and with a base.
BaseInv ==
  /\ base = "none" <=> games = 0
  /\ gameState = "LOADING" => base \in {"none", "lost"}
  /\ step \in {"view", "gui", "tutorial", "build"} /\ gameState # "LOADING" =>
       base \in {"alive", "doomed"}
  /\ step \in {"click", "orbitals"} => base \in {"alive", "doomed"}
  /\ step \notin {"idle", "tick"} /\ gameState # "LOADING" => games > 0
  /\ step \notin {"idle", "render"} => repeat >= 1

(***************************************************************************)
(* The tutorial: a text is that of a mission; once it has ended, what may  *)
(* still be set is the last mission, which ends it again.                  *)
(***************************************************************************)
MissionInv ==
  /\ tutorial.text => tutorial.started /\ tutorial.mission \in DOMAIN Missions
  /\ tutorial.text => (tutorial.end <=> tutorial.mission = Len(Missions))
  /\ tutorial.started /\ tutorial.end => tutorial.mission >= Len(Missions)
  /\ tutorial.mission > Len(Missions) => tutorial.end
  /\ tutorial.started => games > 0
  /\ games > 0 /\ ~tutorial.end => tutorial.started
  /\ games > 0 /\ "BUILD" \in Awaited \ tutorial.completed =>
       minerals >= StartMinerals

\* What a release has done is known to the steps that could do more with it.  One
\* that was used and is still there when a tick begins was kept by a frame cut
\* short: nothing is placed then, since no orbit has been measured meanwhile.
UsedInv ==
  /\ "build" \in used =>
       "host" \notin used /\ "select" \notin used /\ ~mouse.released
  /\ "select" \in used /\ "host" \in used => cut
  /\ used # {} => ~build.valid
  /\ /\ used # {}
     /\ step \in {"idle", "tick", "view", "gui", "tutorial", "build"}
     => cut /\ mouse.released
  /\ step = "render" => used = {}
  /\ "host" \in used /\ mouse.released /\ step # "mouse" => build.pending

\* An orbit is measured as the next frame draws it, unless it is cut short, and not
\* measured again before a release has been looked at.
DrawnInv ==
  base # "lost" /\ build.pending /\ build.valid =>
    /\ build.distance >= 1
    /\ /\ ~cut
       /\ \/ step = "idle"
          \/ /\ mouse.released
             /\ step \in {"tick", "view", "gui", "tutorial", "build"}
       => drawn = [distance |-> build.distance, valid |-> TRUE]

\* A press that dragged still drags as long as it lasts.
DragInv ==
  /\ view.drag => view.set
  /\ dragged /\ mouse.down => view.drag

ExoInv ==
  /\ TypeOK
  /\ BuildInv
  /\ OfThisGame
  /\ BaseInv
  /\ MissionInv
  /\ TutorialIsPeaceful
  /\ UsedInv
  /\ DrawnInv
  /\ DragInv

\* Nothing that was drawn to be clicked on changes until a click is looked at.
PanelInv ==
  /\ panel # Null
  /\ \/ step = "idle"
     \/ mouse.click /\ step \in {"tick", "view", "gui", "tutorial"}
  => /\ panel.bright = {b \in Buttons : minerals >= getCost(b)}
     /\ panel.prompt => Prompt

-----------------------------------------------------------------------------
\* The waits are numbers of ticks.
LEMMA Waits ==
  /\ MissionDelay \in Nat /\ Cooldown \in Nat /\ CooldownStep \in Nat
  /\ MinCooldown \in Nat /\ Second \in Nat
BY ExoAssumption

\* The missions, of which the last one alone ends the tutorial.
LEMMA MissionsKnown ==
  \E last \in Nat \ {0} :
    /\ last = Len(Missions) /\ DOMAIN Missions = 1 .. last
    /\ \A i \in 1 .. last :
         /\ Missions[i].event \in Awaited
         /\ Missions[i].auto \in BOOLEAN /\ Missions[i].end \in BOOLEAN
         /\ Missions[i].end <=> i = last
<1>1. Missions \in Seq(Mission) /\ Missions # << >>
  BY ExoAssumption
<1>2. PICK last \in Nat \ {0} :
        /\ last = Len(Missions) /\ DOMAIN Missions = 1 .. last
        /\ \A i \in 1 .. last : Missions[i] \in Mission
  BY <1>1
<1>3. \A i \in 1 .. last : Missions[i].end <=> i = last
  BY <1>2, ExoAssumption
<1>4. \A i \in 1 .. last : /\ Missions[i].event \in Awaited
                           /\ Missions[i].auto \in BOOLEAN
                           /\ Missions[i].end \in BOOLEAN
  BY <1>2 DEF Awaited, Mission
<1>5. QED
  BY <1>2, <1>3, <1>4

\* Only a free orbit is valid: it is at a distance, as the body stands.
LEMMA OrbitsFound ==
  ASSUME NEW on \in Orbital_t, NEW near
  PROVE  /\ OrbitsAt(on, near) \subseteq 0 .. MaxDistance
         /\ near = "free" /\ base # "lost" =>
              OrbitsAt(on, near) \subseteq 1 .. MaxDistance
<1>1. MaxDistance \in Nat /\ MaxDistance >= 1
  BY ExoAssumption
<1>2. on.body # "free"
  BY ExoAssumption DEF Orbital_t
<1>3. QED
  BY <1>1, <1>2 DEF OrbitsAt

\* What a button asks for.
LEMMA Costs == \A b \in Buttons : getCost(b) \in Nat /\ getCost(b) >= 3
BY ExoAssumption DEF getCost, Blueprint

-----------------------------------------------------------------------------
\* Each step keeps the invariant: the events, then the steps of a tick.
LEMMA MouseDownStep ==
  ASSUME ExoInv, MouseDown
  PROVE  ExoInv'
<1> USE DEF ExoInv
<1>1. TypeOK'
  <2>1. mouse' \in Mouse_t
    BY DEF MouseDown, TypeOK, Mouse_t
  <2>2. dragged' \in BOOLEAN
    BY DEF MouseDown
  <2>3. QED
    BY <2>1, <2>2 DEF MouseDown, TypeOK
<1>2. BuildInv' /\ OfThisGame' /\ BaseInv' /\ MissionInv'
      /\ TutorialIsPeaceful' /\ DragInv'
  BY DEF MouseDown, BuildInv, OfThisGame, BaseInv, MissionInv,
     TutorialIsPeaceful, DragInv
<1>3. UsedInv' /\ DrawnInv'
  BY DEF MouseDown, Idle, UsedInv, DrawnInv
<1>4. QED
  BY <1>1, <1>2, <1>3

LEMMA MouseUpStep ==
  ASSUME ExoInv, MouseUp
  PROVE  ExoInv'
<1> USE DEF ExoInv
<1>1. TypeOK'
  <2>1. mouse' \in Mouse_t
    BY DEF MouseUp, TypeOK, Mouse_t
  <2>2. QED
    BY <2>1 DEF MouseUp, TypeOK
<1>2. BuildInv' /\ OfThisGame' /\ BaseInv' /\ MissionInv'
      /\ TutorialIsPeaceful' /\ DragInv'
  BY DEF MouseUp, BuildInv, OfThisGame, BaseInv, MissionInv,
     TutorialIsPeaceful, DragInv
<1>3. UsedInv' /\ DrawnInv'
  BY DEF MouseUp, Idle, UsedInv, DrawnInv, TypeOK, Mouse_t
<1>4. QED
  BY <1>1, <1>2, <1>3

LEMMA KeyPressStep ==
  ASSUME ExoInv, KeyPress
  PROVE  ExoInv'
<1> USE DEF ExoInv
<1>1. TypeOK'
  <2>1. tutorial' \in Tutorial_t
    BY DEF KeyPress, complete, TypeOK, Tutorial_t
  <2>2. QED
    BY <2>1 DEF KeyPress, TypeOK
<1>2. BuildInv' /\ OfThisGame' /\ DrawnInv' /\ DragInv'
  BY DEF KeyPress, BuildInv, OfThisGame, DrawnInv, DragInv
<1>3. BaseInv' /\ UsedInv'
  BY DEF KeyPress, Idle, BaseInv, UsedInv
<1>4. MissionInv' /\ TutorialIsPeaceful'
  BY DEF KeyPress, complete, TypeOK, MissionInv, TutorialIsPeaceful, Tutorial_t
<1>5. QED
  BY <1>1, <1>2, <1>3, <1>4

LEMMA ResizeStep ==
  ASSUME ExoInv, Resize
  PROVE  ExoInv'
<1> USE DEF ExoInv
<1>1. TypeOK'
  BY DEF Resize, TypeOK
<1>2. BuildInv' /\ OfThisGame' /\ BaseInv' /\ MissionInv'
      /\ TutorialIsPeaceful' /\ DrawnInv' /\ DragInv'
  BY DEF Resize, BuildInv, OfThisGame, BaseInv, MissionInv, TutorialIsPeaceful,
     DrawnInv, DragInv
<1>3. UsedInv'
  BY DEF Resize, UsedInv
<1>4. QED
  BY <1>1, <1>2, <1>3

LEMMA CheckBaseStep ==
  ASSUME ExoInv, CheckBase
  PROVE  ExoInv'
<1> USE DEF ExoInv
<1>1. TypeOK'
  BY DEF CheckBase, TypeOK
<1>2. BuildInv' /\ OfThisGame' /\ MissionInv' /\ TutorialIsPeaceful' /\ DragInv'
  BY DEF CheckBase, BuildInv, OfThisGame, MissionInv, TutorialIsPeaceful,
     DragInv
<1>3. BaseInv'
  BY DEF CheckBase, TypeOK, BaseInv
<1>4. UsedInv' /\ DrawnInv'
  BY DEF CheckBase, UsedInv, DrawnInv
<1>5. QED
  BY <1>1, <1>2, <1>3, <1>4

LEMMA ViewUpdateStep ==
  ASSUME ExoInv, ViewUpdate
  PROVE  ExoInv'
<1> USE DEF ExoInv
<1>1. TypeOK'
  <2>1. view' \in View_t
    BY DEF ViewUpdate, Dragged, Drags, TypeOK, View_t, Mouse_t, Tutorial_t
  <2>2. tutorial' \in Tutorial_t
    BY DEF ViewUpdate, complete, TypeOK, View_t, Mouse_t, Tutorial_t
  <2>3. dragged' \in BOOLEAN
    BY DEF ViewUpdate, Drags, TypeOK, View_t, Mouse_t, Tutorial_t
  <2>4. QED
    BY <2>1, <2>2, <2>3 DEF ViewUpdate, TypeOK
<1>2. BuildInv' /\ OfThisGame' /\ BaseInv'
  BY DEF ViewUpdate, BuildInv, OfThisGame, BaseInv
<1>3. UsedInv' /\ DrawnInv'
  BY DEF ViewUpdate, UsedInv, DrawnInv
<1>4. MissionInv' /\ TutorialIsPeaceful'
  BY DEF ViewUpdate, complete, TypeOK, MissionInv, TutorialIsPeaceful, View_t,
     Mouse_t, Tutorial_t
<1>5. DragInv'
  BY DEF ViewUpdate, Drags, Dragged, TypeOK, DragInv, View_t, Mouse_t,
     Tutorial_t
<1>6. QED
  BY <1>1, <1>2, <1>3, <1>4, <1>5

LEMMA GuiUpdateStep ==
  ASSUME ExoInv, GuiUpdate
  PROVE  ExoInv'
<1> USE DEF ExoInv
<1>1. TypeOK'
  <2>1. build' \in Build_t
    <3>1. CASE UNCHANGED build
      BY <3>1 DEF TypeOK, Build_t
    <3>2. ASSUME NEW b \in Buttons, build' = createBlueprint(b)
          PROVE  build' \in Build_t
      BY <3>2, Costs DEF createBlueprint, TypeOK, Build_t
    <3>3. QED
      BY <3>1, <3>2 DEF GuiUpdate, buildOrbital
  <2>2. QED
    BY <2>1 DEF GuiUpdate, TypeOK
<1>2. BuildInv' /\ OfThisGame'
  <2>1. CASE UNCHANGED build
    BY <2>1 DEF GuiUpdate, BuildInv, OfThisGame
  <2>2. ASSUME NEW b \in Buttons, Affordable(b), build' = createBlueprint(b)
        PROVE  BuildInv' /\ OfThisGame'
    <3>1. UNCHANGED <<minerals, games, selection>>
      BY DEF GuiUpdate
    <3>2. QED
      BY <2>2, <3>1, Costs DEF createBlueprint, Affordable, BuildInv,
         OfThisGame, TypeOK, Build_t
  <2>3. QED
    BY <2>1, <2>2 DEF GuiUpdate, buildOrbital
<1>3. BaseInv' /\ MissionInv' /\ TutorialIsPeaceful' /\ DragInv'
  BY DEF GuiUpdate, BaseInv, MissionInv, TutorialIsPeaceful, DragInv
<1>4. UsedInv'
  <2>1. build'.valid = build.valid /\ (build.pending => build'.pending)
    BY DEF GuiUpdate, buildOrbital, createBlueprint, TypeOK, Build_t
  <2>2. QED
    BY <2>1 DEF GuiUpdate, UsedInv
<1>5. DrawnInv'
  BY DEF GuiUpdate, buildOrbital, createBlueprint, BuildInv, TypeOK, DrawnInv,
     Build_t
<1>6. QED
  BY <1>1, <1>2, <1>3, <1>4, <1>5

LEMMA TutorialUpdateStep ==
  ASSUME ExoInv, TutorialUpdate
  PROVE  ExoInv'
<1> USE DEF ExoInv
<1>1. TypeOK'
  <2>1. tutorial' \in Tutorial_t
    <3>1. PICK last \in Nat \ {0} :
            /\ last = Len(Missions) /\ DOMAIN Missions = 1 .. last
            /\ \A i \in 1 .. last :
                 /\ Missions[i].event \in Awaited
                 /\ Missions[i].auto \in BOOLEAN /\ Missions[i].end \in BOOLEAN
                 /\ Missions[i].end <=> i = last
      BY MissionsKnown
    <3>2. CASE tutorial.text
      <4>1. tutorial.mission \in 1 .. last
        BY <3>2, <3>1 DEF MissionInv
      <4>2. AutoTold(tutorial) \subseteq Awaited
        BY <4>1, <3>1 DEF AutoTold
      <4>3. tutorial.mission + 1 \in 1 .. last + 1
        BY <4>1
      <4>4. MissionDelay \in 0 .. MissionDelay
        BY Waits
      <4>5. PICK box \in BOOLEAN : tutorial' = Shown(tutorial, box)
        BY <3>2 DEF TutorialUpdate
      <4>6. QED
        BY <3>1, <4>2, <4>3, <4>4, <4>5
           DEF Shown, clickRegion, Told, TypeOK, Tutorial_t
    <3>3. CASE ~tutorial.text
      <4>1. tutorial' = Between(tutorial)
        BY <3>3 DEF TutorialUpdate
      <4>2. Decrement(tutorial.timer) \in 0 .. MissionDelay
        BY Waits DEF Decrement, TypeOK, Tutorial_t
      <4>3. QED
        BY <3>1, <4>1, <4>2 DEF Between, setMission, TypeOK, Tutorial_t
    <3>4. QED
      BY <3>2, <3>3
  <2>2. QED
    BY <2>1 DEF TutorialUpdate, TypeOK
<1>2. BuildInv' /\ OfThisGame' /\ BaseInv' /\ DragInv'
  BY DEF TutorialUpdate, BuildInv, OfThisGame, BaseInv, DragInv
<1>3. MissionInv' /\ TutorialIsPeaceful'
  <2>1. PICK last \in Nat \ {0} :
          /\ last = Len(Missions) /\ DOMAIN Missions = 1 .. last
          /\ \A i \in 1 .. last :
               /\ Missions[i].event \in Awaited
               /\ Missions[i].auto \in BOOLEAN /\ Missions[i].end \in BOOLEAN
               /\ Missions[i].end <=> i = last
    BY MissionsKnown
  <2>2. CASE tutorial.text
    <3>1. PICK box \in BOOLEAN : tutorial' = Shown(tutorial, box)
      BY <2>2 DEF TutorialUpdate
    <3>2. tutorial.mission \in 1 .. last
      BY <2>1, <2>2 DEF MissionInv
    <3>3. /\ tutorial'.end = tutorial.end
          /\ tutorial'.started = tutorial.started
          /\ tutorial.completed \subseteq tutorial'.completed
          /\ \/ /\ tutorial'.mission = tutorial.mission
                /\ tutorial'.text = tutorial.text
             \/ /\ tutorial'.mission = tutorial.mission + 1
                /\ tutorial'.text = FALSE
      BY <3>1 DEF Shown, clickRegion, Told, TypeOK, Tutorial_t
    <3>4. tutorial.mission + 1 > last <=> tutorial.mission = last
      BY <3>2
    <3>5. UNCHANGED <<minerals, games, ships, base, wave>>
      BY DEF TutorialUpdate
    <3>6. MissionInv'
      <4>1. tutorial.started /\ (tutorial.end <=> tutorial.mission = last)
        BY <2>1, <2>2 DEF MissionInv
      <4>2. tutorial'.started /\ (tutorial'.end <=> tutorial.mission = last)
        BY <3>3, <4>1
      <4>3. games' > 0
        BY <3>5, <4>1 DEF MissionInv
      <4>4. games > 0 /\ "BUILD" \in Awaited \ tutorial'.completed =>
              minerals >= StartMinerals
        BY <3>3 DEF MissionInv
      <4>5. CASE tutorial'.mission = tutorial.mission
        BY <2>1, <3>2, <3>5, <4>2, <4>3, <4>4, <4>5 DEF MissionInv
      <4>6. CASE /\ tutorial'.mission = tutorial.mission + 1
                 /\ tutorial'.text = FALSE
        <5>1. /\ tutorial'.end => tutorial'.mission >= last
              /\ tutorial'.mission > last => tutorial'.end
          BY <3>2, <3>4, <4>2, <4>6
        <5>2. QED
          BY <2>1, <3>5, <4>2, <4>3, <4>4, <4>6, <5>1 DEF MissionInv
      <4>7. QED
        BY <3>3, <4>5, <4>6
    <3>7. QED
      BY <3>3, <3>5, <3>6 DEF TutorialIsPeaceful
  <2>3. CASE ~tutorial.text
    <3>1. tutorial' = Between(tutorial)
      BY <2>3 DEF TutorialUpdate
    <3>2. /\ tutorial'.completed = tutorial.completed
          /\ tutorial'.started = tutorial.started
          /\ tutorial'.mission = tutorial.mission
          /\ \/ tutorial'.text = FALSE /\ tutorial'.end = tutorial.end
             \/ /\ tutorial.started /\ tutorial.mission \in DOMAIN Missions
                /\ tutorial'.text = TRUE
                /\ tutorial'.end = Missions[tutorial.mission].end
      BY <2>3, <3>1 DEF Between, setMission, TypeOK, Tutorial_t
    <3>3. tutorial.mission \in 1 .. last + 1
      BY <2>1 DEF TypeOK, Tutorial_t
    <3>4. UNCHANGED <<minerals, games, ships, base, wave>>
      BY DEF TutorialUpdate
    <3>5. MissionInv'
      BY <2>1, <2>3, <3>2, <3>3, <3>4 DEF MissionInv
    <3>6. tutorial.started /\ tutorial.end => tutorial'.end
      <4>1. CASE tutorial'.end = tutorial.end
        BY <4>1
      <4>2. CASE /\ tutorial.mission \in DOMAIN Missions
                 /\ tutorial'.end = Missions[tutorial.mission].end
        <5>1. tutorial.started /\ tutorial.end => tutorial.mission = last
          BY <2>1, <3>3, <4>2 DEF MissionInv
        <5>2. Missions[last].end
          BY <2>1
        <5>3. QED
          BY <4>2, <5>1, <5>2
      <4>3. QED
        BY <3>2, <4>1, <4>2
    <3>7. QED
      BY <2>1, <3>2, <3>4, <3>6 DEF MissionInv, TutorialIsPeaceful
  <2>4. QED
    BY <2>2, <2>3
<1>4. UsedInv' /\ DrawnInv'
  BY DEF TutorialUpdate, UsedInv, DrawnInv
<1>5. QED
  BY <1>1, <1>2, <1>3, <1>4

LEMMA NotPendingStep ==
  ASSUME ExoInv, NotPending
  PROVE  ExoInv'
<1> USE DEF ExoInv
<1>1. TypeOK'
  BY DEF NotPending, NextStep, TypeOK
<1>2. BuildInv' /\ OfThisGame' /\ DrawnInv' /\ DragInv'
  BY DEF NotPending, BuildInv, OfThisGame, DrawnInv, DragInv
<1>3. MissionInv' /\ TutorialIsPeaceful'
  BY DEF NotPending, MissionInv, TutorialIsPeaceful
<1>4. BaseInv'
  BY DEF NotPending, NextStep, BaseInv
<1>5. UsedInv'
  BY DEF NotPending, NextStep, UsedInv
<1>6. QED
  BY <1>1, <1>2, <1>3, <1>4, <1>5

LEMMA SelectHostStep ==
  ASSUME ExoInv, SelectHost
  PROVE  ExoInv'
<1> USE DEF ExoInv
<1>1. TypeOK'
  <2>1. build' \in Build_t
    BY DEF SelectHost, Orbital, Orbital_t, TypeOK, BuildInv, Build_t
  <2>2. QED
    BY <2>1 DEF SelectHost, NextStep, TypeOK
<1>2. BuildInv' /\ DrawnInv' /\ OfThisGame'
  BY DEF SelectHost, Orbital, TypeOK, BuildInv, DrawnInv, OfThisGame, Build_t
<1>3. MissionInv' /\ TutorialIsPeaceful' /\ DragInv'
  BY DEF SelectHost, MissionInv, TutorialIsPeaceful, DragInv
<1>4. BaseInv'
  BY DEF SelectHost, NextStep, BaseInv
<1>5. UsedInv'
  <2>1. /\ step = "build" /\ step' \in {"click", "mouse"}
        /\ UNCHANGED <<mouse, cut>> /\ used' \in {used, used \cup {"host"}}
    BY DEF SelectHost, NextStep
  <2>2. ~build'.valid /\ build'.pending
    BY DEF SelectHost, BuildInv, TypeOK, Build_t
  <2>3. used # {} => cut /\ "build" \notin used
    BY <2>1 DEF UsedInv
  <2>4. QED
    BY <2>1, <2>2, <2>3 DEF UsedInv
<1>6. QED
  BY <1>1, <1>2, <1>3, <1>4, <1>5

LEMMA MeasureOrbitStep ==
  ASSUME ExoInv, MeasureOrbit
  PROVE  ExoInv'
<1> USE DEF ExoInv
<1>1. PICK near \in Nearest : \E distance \in OrbitsAt(build.on, near) :
        build' = [build EXCEPT !.distance = distance, !.valid = (near = "free")]
  BY DEF MeasureOrbit
<1>2. PICK distance \in OrbitsAt(build.on, near) :
        build' = [build EXCEPT !.distance = distance, !.valid = (near = "free")]
  BY <1>1
<1>3. /\ build.on \in Orbital_t /\ distance \in 0 .. MaxDistance
      /\ near = "free" /\ base # "lost" => distance \in 1 .. MaxDistance
  <2>1. build.on \in Orbital_t
    BY DEF MeasureOrbit, TypeOK, Build_t
  <2>2. QED
    BY <1>2, <2>1, OrbitsFound
<1>4. distance # Null
  BY <1>3, ExoAssumption
<1>5. build'.distance = distance /\ (build'.valid <=> near = "free")
      /\ build'.on = build.on /\ build'.pending = build.pending
      /\ build'.cost = build.cost
  BY <1>2 DEF TypeOK, Build_t
<1>6. step' \in {"click", "mouse"}
  BY DEF MeasureOrbit, NextStep
<1>7. TypeOK'
  <2>1. build' \in Build_t
    BY <1>2, <1>3 DEF TypeOK, Build_t
  <2>2. QED
    BY <2>1 DEF MeasureOrbit, NextStep, TypeOK
<1>8. BuildInv' /\ OfThisGame'
  BY <1>4, <1>5 DEF MeasureOrbit, BuildInv, OfThisGame
<1>9. MissionInv' /\ TutorialIsPeaceful' /\ DragInv'
  BY DEF MeasureOrbit, MissionInv, TutorialIsPeaceful, DragInv
<1>10. BaseInv'
  BY DEF MeasureOrbit, NextStep, BaseInv
<1>11. UsedInv'
  <2>1. used = {} /\ used' = used /\ step' # "render"
    BY <1>6 DEF MeasureOrbit, UsedInv
  <2>2. QED
    BY <2>1 DEF UsedInv
<1>12. DrawnInv'
  BY <1>3, <1>5, <1>6, ExoAssumption DEF MeasureOrbit, DrawnInv
<1>13. QED
  BY <1>7, <1>8, <1>9, <1>10, <1>11, <1>12

LEMMA SelectOrbitSizeStep ==
  ASSUME ExoInv, SelectOrbitSize
  PROVE  ExoInv'
<1> USE DEF ExoInv
<1>1. /\ step = "build" /\ build.pending /\ mouse.released
      /\ step' = NextStep /\ mouse' = NoEvent(mouse)
      /\ UNCHANGED <<gameState, repeat, view, base, selection, wave, ships,
                     games, drawn, panel, cut, dragged>>
      /\ mouse'.released = FALSE /\ mouse'.down = mouse.down
  BY DEF SelectOrbitSize, NoEvent, TypeOK, Build_t, Mouse_t, Tutorial_t
<1>2. step' \in {"click", "mouse"} /\ (step' = "click" => gameState = "RUNNING")
  BY <1>1 DEF NextStep
<1>3. build.valid => used = {}
  BY DEF UsedInv
<1>4. CASE ~build.valid
  <2>1. UNCHANGED <<minerals, build, tutorial, used>>
    BY <1>4 DEF SelectOrbitSize
  <2>2. mouse' \in Mouse_t
    BY <1>1 DEF NoEvent, TypeOK, Build_t, Mouse_t, Tutorial_t
  <2>3. TypeOK'
    BY <1>1, <1>2, <2>1, <2>2 DEF TypeOK
  <2>4. BuildInv' /\ OfThisGame' /\ MissionInv' /\ TutorialIsPeaceful'
    BY <1>1, <2>1 DEF BuildInv, OfThisGame, MissionInv, TutorialIsPeaceful
  <2>5. BaseInv' /\ DragInv'
    BY <1>1, <1>2, <2>1 DEF BaseInv, DragInv
  <2>6. UsedInv' /\ DrawnInv'
    BY <1>1, <1>2, <1>4, <2>1 DEF UsedInv, DrawnInv
  <2>7. QED
    BY <2>3, <2>4, <2>5, <2>6
<1>5. CASE build.valid
  <2>1. /\ minerals' = minerals - build.cost
        /\ build' = [NoBuild EXCEPT !.cost = 0]
        /\ tutorial' = complete(tutorial, "BUILD")
        /\ used' = {"build"}
    BY <1>3, <1>5 DEF SelectOrbitSize
  <2>2. mouse' \in Mouse_t
    BY <1>1 DEF NoEvent, TypeOK, Build_t, Mouse_t, Tutorial_t
  <2>3. minerals' \in 0 .. MaxMinerals
    <3>1. /\ minerals \in 0 .. MaxMinerals /\ build.cost \in Nat
          /\ minerals >= build.cost /\ MaxMinerals \in Nat
      BY <1>1, ExoAssumption DEF BuildInv, TypeOK, Build_t, Mouse_t, Tutorial_t
    <3>2. QED
      BY <2>1, <3>1
  <2>4. build' = [pending |-> FALSE, what |-> Null, cost |-> 0, on |-> Null,
                  distance |-> Null, valid |-> FALSE]
    BY <2>1 DEF NoBuild, TypeOK, Build_t, Mouse_t, Tutorial_t
  <2>5. /\ tutorial' \in Tutorial_t
        /\ tutorial' = [tutorial EXCEPT !.completed = tutorial'.completed]
        /\ "BUILD" \notin Awaited \ tutorial'.completed
    BY <2>1 DEF complete, TypeOK, Tutorial_t, Build_t, Mouse_t
  <2>6. build' \in Build_t
    BY <2>4 DEF Build_t
  <2>7. TypeOK'
    BY <1>1, <1>2, <2>1, <2>2, <2>3, <2>5, <2>6 DEF TypeOK
  <2>8. BuildInv' /\ OfThisGame' /\ DrawnInv'
    BY <1>1, <2>4 DEF BuildInv, OfThisGame, DrawnInv
  <2>9. MissionInv' /\ TutorialIsPeaceful'
    BY <1>1, <2>5 DEF MissionInv, TutorialIsPeaceful, TypeOK, Build_t, Mouse_t,
       Tutorial_t
  <2>10. BaseInv' /\ DragInv'
    BY <1>1, <1>2 DEF BaseInv, DragInv
  <2>11. UsedInv'
    BY <1>1, <1>2, <2>1, <2>4 DEF UsedInv
  <2>12. QED
    BY <2>7, <2>8, <2>9, <2>10, <2>11
<1>6. QED
  BY <1>4, <1>5

LEMMA ClickNearestStep ==
  ASSUME ExoInv, ClickNearest
  PROVE  ExoInv'
<1> USE DEF ExoInv
<1>1. TypeOK'
  <2>1. selection' \in Orbital_t \cup {Null}
    BY DEF ClickNearest, Orbital, Orbital_t, TypeOK, BaseInv, Mouse_t
  <2>2. used' \subseteq {"host", "build", "select"}
    BY DEF ClickNearest, TypeOK, Mouse_t
  <2>3. QED
    BY <2>1, <2>2 DEF ClickNearest, TypeOK
<1>2. BuildInv' /\ MissionInv' /\ TutorialIsPeaceful' /\ DrawnInv' /\ DragInv'
  BY DEF ClickNearest, BuildInv, MissionInv, TutorialIsPeaceful, DrawnInv,
     DragInv
<1>3. BaseInv'
  BY DEF ClickNearest, BaseInv
<1>4. OfThisGame'
  BY DEF ClickNearest, Orbital, OfThisGame
<1>5. UsedInv'
  BY DEF ClickNearest, TypeOK, BuildInv, UsedInv, Mouse_t
<1>6. QED
  BY <1>1, <1>2, <1>3, <1>4, <1>5

LEMMA OrbitalsUpdateStep ==
  ASSUME ExoInv, OrbitalsUpdate
  PROVE  ExoInv'
<1> USE DEF ExoInv
<1>1. minerals' \in 0 .. MaxMinerals /\ minerals' >= minerals
  <2>1. PICK income \in {0, 1} : /\ income = 1 => minerals < MaxMinerals
                                 /\ minerals' = minerals + income
    BY DEF OrbitalsUpdate
  <2>2. minerals \in 0 .. MaxMinerals /\ MaxMinerals \in Nat
    BY ExoAssumption DEF TypeOK
  <2>3. QED
    BY <2>1, <2>2
<1>2. games # 0
  BY DEF OrbitalsUpdate, BaseInv
<1>3. minerals \in Nat /\ minerals' \in Nat /\ build.cost \in Nat
  BY <1>1, ExoAssumption DEF TypeOK, Build_t
<1>4. TypeOK'
  <2>1. base' \in {"none", "alive", "doomed", "lost"}
    BY DEF OrbitalsUpdate, TypeOK
  <2>2. QED
    BY <1>1, <2>1 DEF OrbitalsUpdate, TypeOK
<1>5. BuildInv'
  BY <1>1, <1>2, <1>3 DEF OrbitalsUpdate, BuildInv
<1>6. MissionInv'
  BY <1>1, <1>3 DEF OrbitalsUpdate, MissionInv, StartMinerals
<1>7. OfThisGame' /\ BaseInv'
  BY DEF OrbitalsUpdate, OfThisGame, BaseInv
<1>8. TutorialIsPeaceful' /\ DrawnInv' /\ DragInv'
  BY DEF OrbitalsUpdate, TutorialIsPeaceful, DrawnInv, DragInv
<1>9. UsedInv'
  BY DEF OrbitalsUpdate, UsedInv
<1>10. QED
  BY <1>4, <1>5, <1>6, <1>7, <1>8, <1>9

LEMMA WaveUpdateStep ==
  ASSUME ExoInv, WaveUpdate
  PROVE  ExoInv'
<1> USE DEF ExoInv
<1>1. TypeOK'
  <2>1. wave' \in Wave_t
    <3>1. wave \in Wave_t
      BY DEF TypeOK, Wave_t
    <3>2. CASE wave' = Spawned(wave) /\ wave.current < MaxWaves
      <4>1. Higher(wave.cooldown - CooldownStep, MinCooldown) \in Nat
        BY <3>1, Waits DEF Higher, Wave_t
      <4>2. \A i, j \in Nat : i * j \in Nat
        OBVIOUS
      <4>3. wave.current + 1 \in 0 .. MaxWaves
        BY <3>1, <3>2, ExoAssumption DEF Wave_t
      <4>4. QED
        BY <3>2, <4>1, <4>2, <4>3, Waits DEF Spawned, Wave_t
    <3>3. CASE wave' = [wave EXCEPT !.timer = Decrement(@)]
      BY <3>1, <3>3 DEF Decrement, Wave_t
    <3>4. QED
      BY <3>1, <3>2, <3>3 DEF WaveUpdate
  <2>2. ships' \in BOOLEAN
    BY DEF WaveUpdate, TypeOK, Wave_t
  <2>3. QED
    BY <2>1, <2>2 DEF WaveUpdate, TypeOK
<1>2. BuildInv' /\ OfThisGame' /\ BaseInv' /\ MissionInv' /\ DrawnInv'
      /\ DragInv'
  BY DEF WaveUpdate, BuildInv, OfThisGame, BaseInv, MissionInv, DrawnInv,
     DragInv
<1>3. TutorialIsPeaceful'
  BY DEF WaveUpdate, TutorialIsPeaceful
<1>4. UsedInv'
  BY DEF WaveUpdate, UsedInv
<1>5. QED
  BY <1>1, <1>2, <1>3, <1>4

LEMMA FieldUpdateStep ==
  ASSUME ExoInv, FieldUpdate
  PROVE  ExoInv'
<1> USE DEF ExoInv
<1>1. TypeOK'
  <2>1. base' \in {"none", "alive", "doomed", "lost"} /\ ships' \in BOOLEAN
    BY DEF FieldUpdate, Fight, TypeOK
  <2>2. QED
    BY <2>1 DEF FieldUpdate, Fight, TypeOK
<1>2. BuildInv' /\ OfThisGame' /\ MissionInv' /\ DragInv'
  BY DEF FieldUpdate, BuildInv, OfThisGame, MissionInv, DragInv
<1>3. BaseInv' /\ TutorialIsPeaceful'
  BY DEF FieldUpdate, Fight, TypeOK, BaseInv, TutorialIsPeaceful
<1>4. DrawnInv'
  BY DEF FieldUpdate, Fight, DrawnInv
<1>5. UsedInv'
  BY DEF FieldUpdate, UsedInv
<1>6. QED
  BY <1>1, <1>2, <1>3, <1>4, <1>5

LEMMA FieldThrowsStep ==
  ASSUME ExoInv, FieldThrows
  PROVE  ExoInv'
<1> USE DEF ExoInv
<1>1. TypeOK'
  <2>1. /\ base' \in {"none", "alive", "doomed", "lost"} /\ ships' \in BOOLEAN
        /\ used' \subseteq {"host", "build", "select"}
    BY DEF FieldThrows, Fight, TypeOK
  <2>2. 0 \in 0 .. MaxRepeat
    BY ExoAssumption
  <2>3. QED
    BY <2>1, <2>2 DEF FieldThrows, TypeOK
<1>2. BuildInv' /\ OfThisGame' /\ MissionInv' /\ DragInv'
  BY DEF FieldThrows, BuildInv, OfThisGame, MissionInv, DragInv
<1>3. BaseInv' /\ TutorialIsPeaceful'
  BY DEF FieldThrows, Fight, TypeOK, BaseInv, TutorialIsPeaceful
<1>4. DrawnInv'
  BY DEF FieldThrows, Fight, DrawnInv
<1>5. UsedInv'
  BY DEF FieldThrows, UsedInv
<1>6. QED
  BY <1>1, <1>2, <1>3, <1>4, <1>5

LEMMA MouseUpdateStep ==
  ASSUME ExoInv, MouseUpdate
  PROVE  ExoInv'
<1> USE DEF ExoInv
<1>1. TypeOK'
  <2>1. mouse' \in Mouse_t
    BY DEF MouseUpdate, NoEvent, TypeOK, Mouse_t
  <2>2. repeat' \in 0 .. MaxRepeat
    BY ExoAssumption DEF MouseUpdate, TypeOK, BaseInv, Mouse_t
  <2>3. QED
    BY <2>1, <2>2 DEF MouseUpdate, TypeOK
<1>2. BuildInv' /\ OfThisGame' /\ MissionInv' /\ TutorialIsPeaceful'
  BY DEF MouseUpdate, BuildInv, OfThisGame, MissionInv, TutorialIsPeaceful
<1>3. BaseInv'
  BY DEF MouseUpdate, TypeOK, BaseInv, Mouse_t
<1>4. UsedInv'
  BY DEF MouseUpdate, UsedInv
<1>5. DrawnInv' /\ DragInv'
  BY DEF MouseUpdate, NoEvent, TypeOK, DrawnInv, DragInv, Mouse_t
<1>6. QED
  BY <1>1, <1>2, <1>3, <1>4, <1>5

LEMMA RenderStep ==
  ASSUME ExoInv, Render
  PROVE  ExoInv'
<1> USE DEF ExoInv
<1>1. TypeOK'
  <2>1. drawn' \in Orbit \cup {Null}
    BY DEF Render, Orbit, TypeOK, Build_t
  <2>2. panel' \in Panel_t \cup {Null}
    <3>1. Prompt \in BOOLEAN
      BY DEF Prompt, TypeOK, Tutorial_t
    <3>2. QED
      BY <3>1 DEF Render, Panel, Panel_t, TypeOK
  <2>3. QED
    BY <2>1, <2>2 DEF Render, TypeOK
<1>2. BuildInv' /\ OfThisGame' /\ BaseInv' /\ MissionInv'
      /\ TutorialIsPeaceful' /\ DragInv'
  BY DEF Render, BuildInv, OfThisGame, BaseInv, MissionInv, TutorialIsPeaceful,
     DragInv
<1>3. UsedInv'
  BY DEF Render, UsedInv
<1>4. DrawnInv'
  BY DEF Render, BuildInv, BaseInv, TypeOK, DrawnInv, Build_t
<1>5. QED
  BY <1>1, <1>2, <1>3, <1>4

LEMMA LoadingUpdateStep ==
  ASSUME ExoInv, LoadingUpdate
  PROVE  ExoInv'
<1> USE DEF ExoInv
<1>1. CASE UNCHANGED <<games, base, minerals, build, wave, ships, tutorial,
                     gameState, selection>>
  <2>1. TypeOK'
    BY <1>1 DEF LoadingUpdate, TypeOK
  <2>2. /\ BuildInv' /\ OfThisGame' /\ MissionInv'
        /\ TutorialIsPeaceful' /\ DrawnInv' /\ DragInv'
    BY <1>1 DEF LoadingUpdate, BuildInv, OfThisGame, MissionInv,
       TutorialIsPeaceful, DrawnInv, DragInv
  <2>3. UsedInv' /\ BaseInv'
    BY <1>1 DEF LoadingUpdate, UsedInv, BaseInv
  <2>4. QED
    BY <2>1, <2>2, <2>3
<1>2. CASE games < MaxGames /\ NewGame
  <2>1. /\ step = "tick" /\ step' = "mouse" /\ gameState = "LOADING"
        /\ UNCHANGED <<repeat, mouse, view, drawn, panel, cut, dragged, used>>
    BY DEF LoadingUpdate
  <2>2. /\ games' = games + 1 /\ base' = "alive" /\ minerals' = StartMinerals
        /\ build' = NoBuild /\ ships' = FALSE /\ selection' = Null
        /\ wave' = [timer |-> Cooldown * Second, current |-> 0,
                    cooldown |-> Cooldown]
    BY <1>2 DEF NewGame, FirstWave
  <2>3. PICK enabled \in BOOLEAN :
          /\ tutorial' = start(tutorial, enabled)
          /\ gameState' = IF enabled THEN "PAUSED" ELSE "RUNNING"
    BY <1>2 DEF NewGame
  <2>4. /\ games \in 0 .. MaxGames /\ games' \in 1 .. MaxGames
        /\ MaxGames \in Nat
    BY <1>2, <2>2, ExoAssumption DEF TypeOK, Build_t, Tutorial_t, Wave_t
  <2>5. build' \in Build_t
    BY <2>2 DEF TypeOK, NoBuild, Build_t, Tutorial_t, Wave_t
  <2>6. /\ ~build'.pending /\ ~build'.valid
        /\ build'.on = Null /\ build'.distance = Null
    BY <2>2 DEF TypeOK, NoBuild, Build_t, Tutorial_t, Wave_t
  <2>7. /\ tutorial' \in Tutorial_t
        /\ tutorial'.completed = tutorial.completed
    BY <2>3, MissionsKnown DEF TypeOK, start, setMission, Build_t, Tutorial_t,
       Wave_t
  <2>8. wave' \in Wave_t
    <3>1. Cooldown * Second \in Nat /\ 0 \in 0 .. MaxWaves
      BY Waits, ExoAssumption
    <3>2. QED
      BY <2>2, <3>1, Waits DEF Wave_t
  <2>9. TypeOK'
    <3>1. minerals' \in 0 .. MaxMinerals /\ games' \in 0 .. MaxGames
      BY <2>2, <2>4, ExoAssumption DEF StartMinerals
    <3>2. gameState' \in {"LOADING", "RUNNING", "PAUSED"}
      BY <2>3
    <3>3. QED
      BY <2>1, <2>2, <2>5, <2>7, <2>8, <3>1, <3>2 DEF TypeOK
  <2>10. BuildInv' /\ OfThisGame' /\ DrawnInv' /\ DragInv'
    BY <2>1, <2>2, <2>4, <2>6 DEF BuildInv, OfThisGame, DrawnInv, DragInv
  <2>11. BaseInv' /\ UsedInv'
    BY <2>1, <2>2, <2>3, <2>4, <2>6 DEF BaseInv, UsedInv
  <2>12. MissionInv'
    <3>1. PICK last \in Nat \ {0} :
            /\ last = Len(Missions) /\ DOMAIN Missions = 1 .. last
            /\ \A i \in 1 .. last :
                 /\ Missions[i].event \in Awaited
                 /\ Missions[i].auto \in BOOLEAN /\ Missions[i].end \in BOOLEAN
                 /\ Missions[i].end <=> i = last
      BY MissionsKnown
    <3>2. tutorial.started => tutorial.end
      BY <2>1 DEF MissionInv, BaseInv, TutorialIsPeaceful, TypeOK, Build_t,
         Tutorial_t, Wave_t
    <3>3. minerals' >= StartMinerals
      BY <2>2 DEF StartMinerals
    <3>4. tutorial.mission \in 1 .. last + 1
      BY <3>1 DEF TypeOK, Build_t, Tutorial_t, Wave_t
    <3>5. games' > 0
      BY <2>4
    <3>6. CASE ~enabled
      <4>1. /\ tutorial'.end = TRUE /\ tutorial'.started = tutorial.started
            /\ tutorial'.mission = tutorial.mission
            /\ tutorial'.text = tutorial.text
        BY <2>3, <3>6 DEF start, TypeOK, Build_t, Tutorial_t, Wave_t
      <4>2. QED
        BY <3>1, <3>2, <3>3, <3>4, <3>5, <4>1 DEF MissionInv
    <3>7. CASE enabled
      <4>1. /\ tutorial'.started = TRUE /\ tutorial'.mission = tutorial.mission
            /\ \/ /\ tutorial.mission \in DOMAIN Missions
                  /\ tutorial'.text = TRUE
                  /\ tutorial'.end = Missions[tutorial.mission].end
               \/ /\ tutorial.mission \notin DOMAIN Missions
                  /\ tutorial'.text = tutorial.text
                  /\ tutorial'.end = tutorial.end
        BY <2>3, <3>7 DEF start, setMission, TypeOK, Build_t, Tutorial_t, Wave_t
      <4>2. QED
        BY <3>1, <3>3, <3>4, <3>5, <4>1 DEF MissionInv
    <3>8. QED
      BY <3>6, <3>7
  <2>13. TutorialIsPeaceful'
    BY <2>2 DEF TutorialIsPeaceful
  <2>14. QED
    BY <2>9, <2>10, <2>11, <2>12, <2>13
<1>3. QED
  BY <1>1, <1>2 DEF LoadingUpdate

\* The others, and what [Next]_vars is made of.
LEMMA FrameStep ==
  ASSUME ExoInv, NEW ticks \in 1 .. MaxRepeat, Frame(ticks)
  PROVE  ExoInv'
<1> USE DEF ExoInv
<1>1. TypeOK'
  BY ExoAssumption DEF Frame, TypeOK
<1>2. BuildInv' /\ OfThisGame' /\ MissionInv' /\ TutorialIsPeaceful' /\ DragInv'
  BY DEF Frame, BuildInv, OfThisGame, MissionInv, TutorialIsPeaceful, DragInv
<1>3. BaseInv' /\ UsedInv' /\ DrawnInv'
  BY DEF Frame, Idle, BaseInv, UsedInv, DrawnInv
<1>4. QED
  BY <1>1, <1>2, <1>3

LEMMA StutterStep ==
  ASSUME ExoInv, UNCHANGED vars
  PROVE  ExoInv'
<1>1. TypeOK' /\ BuildInv' /\ OfThisGame' /\ BaseInv'
  BY DEF ExoInv, vars, TypeOK, BuildInv, OfThisGame, BaseInv
<1>2. MissionInv' /\ TutorialIsPeaceful' /\ UsedInv' /\ DrawnInv' /\ DragInv'
  BY DEF ExoInv, vars, MissionInv, TutorialIsPeaceful, UsedInv,
     DrawnInv, DragInv
<1>3. QED
  BY <1>1, <1>2 DEF ExoInv

LEMMA InitStep == Init => ExoInv
<1> SUFFICES ASSUME Init PROVE ExoInv
  OBVIOUS
<1>1. TypeOK
  <2>1. PICK last \in Nat \ {0} : last = Len(Missions)
    BY MissionsKnown
  <2>2. /\ MissionDelay \in 0 .. MissionDelay /\ 1 \in 1 .. last + 1
        /\ 0 \in 0 .. MaxRepeat /\ 0 \in 0 .. MaxMinerals
        /\ 0 \in 0 .. MaxWaves /\ 0 \in 0 .. MaxGames
    BY Waits, ExoAssumption
  <2>3. tutorial \in Tutorial_t
    BY <2>1, <2>2 DEF Init, Tutorial_t
  <2>4. QED
    BY <2>2, <2>3 DEF Init, TypeOK, Mouse_t, View_t, Build_t, Wave_t
<1>2. BuildInv /\ OfThisGame /\ BaseInv /\ TutorialIsPeaceful
  BY DEF Init, BuildInv, OfThisGame, BaseInv, TutorialIsPeaceful
<1>3. MissionInv
  <2>1. /\ ~tutorial.text /\ ~tutorial.started /\ ~tutorial.end
        /\ tutorial.mission = 1 /\ games = 0
    BY DEF Init
  <2>2. QED
    BY <2>1, MissionsKnown DEF MissionInv
<1>4. UsedInv /\ DrawnInv /\ DragInv
  BY DEF Init, UsedInv, DrawnInv, DragInv
<1>5. QED
  BY <1>1, <1>2, <1>3, <1>4 DEF ExoInv

LEMMA NextStepInv ==
  ASSUME ExoInv, [Next]_vars
  PROVE  ExoInv'
<1>1. CASE Event
  BY <1>1, MouseDownStep, MouseUpStep, KeyPressStep, ResizeStep DEF Event
<1>2. CASE \E ticks \in 1 .. MaxRepeat : Frame(ticks)
  BY <1>2, FrameStep
<1>3. CASE Tick
  BY <1>3, LoadingUpdateStep, CheckBaseStep, ViewUpdateStep, GuiUpdateStep,
     TutorialUpdateStep, NotPendingStep, SelectHostStep, MeasureOrbitStep,
     SelectOrbitSizeStep, ClickNearestStep, OrbitalsUpdateStep, WaveUpdateStep,
     FieldUpdateStep, FieldThrowsStep, MouseUpdateStep
     DEF Tick, BuildUpdate
<1>4. CASE Render
  BY <1>4, RenderStep
<1>5. CASE UNCHANGED vars
  BY <1>5, StutterStep
<1>6. QED
  BY <1>1, <1>2, <1>3, <1>4, <1>5 DEF Next, Animation

\* PanelInv holds on top of ExoInv.
LEMMA PanelStep ==
  ASSUME ExoInv, PanelInv, [Next]_vars
  PROVE  PanelInv'
<1>1. CASE FieldThrows \/ UNCHANGED <<panel, minerals, tutorial, step, mouse>>
  BY <1>1 DEF FieldThrows, PanelInv, Prompt
<1>2. CASE MouseDown \/ MouseUp \/ Resize
  BY <1>2 DEF MouseDown, MouseUp, Resize, Idle, PanelInv, Prompt
<1>3. CASE KeyPress \/ ViewUpdate
  <2>1. /\ UNCHANGED <<panel, minerals, mouse>>
        /\ \/ step = "idle" /\ step' = "idle"
           \/ step = "view" /\ step' = "gui"
    BY <1>3 DEF KeyPress, ViewUpdate, Idle
  <2>2. /\ tutorial'.text = tutorial.text
        /\ tutorial'.mission = tutorial.mission
        /\ tutorial.completed \subseteq tutorial'.completed
    BY <1>3 DEF KeyPress, ViewUpdate, complete, ExoInv, TypeOK, Tutorial_t
  <2>3. Prompt => Prompt'
    BY <2>2 DEF Prompt
  <2>4. QED
    BY <2>1, <2>3 DEF PanelInv
<1>4. CASE \E ticks \in 1 .. MaxRepeat : Frame(ticks)
  BY <1>4 DEF Frame, Idle, PanelInv, Prompt
<1>5. CASE CheckBase \/ GuiUpdate
  BY <1>5 DEF CheckBase, GuiUpdate, PanelInv, Prompt
<1>6. CASE \/ LoadingUpdate \/ TutorialUpdate \/ BuildUpdate \/ ClickNearest
           \/ OrbitalsUpdate \/ WaveUpdate \/ FieldUpdate
  <2>1. step' \in {"mouse", "build", "click", "orbitals", "waves", "ships"}
    BY <1>6 DEF LoadingUpdate, TutorialUpdate, BuildUpdate, NotPending,
       SelectHost, MeasureOrbit, SelectOrbitSize, NextStep, ClickNearest,
       OrbitalsUpdate, WaveUpdate, FieldUpdate
  <2>2. QED
    BY <2>1 DEF PanelInv
<1>7. CASE MouseUpdate
  <2>1. ~mouse'.click /\ step' \in {"tick", "render"}
    BY <1>7 DEF MouseUpdate, NoEvent, ExoInv, TypeOK, Mouse_t
  <2>2. QED
    BY <2>1 DEF PanelInv
<1>8. CASE Render
  <2>1. /\ panel' = Null \/ panel' = Panel
        /\ UNCHANGED <<minerals, tutorial>>
    BY <1>8 DEF Render
  <2>2. panel' = Panel =>
          /\ panel'.bright = {b \in Buttons : minerals >= getCost(b)}
          /\ panel'.prompt = Prompt
    BY DEF Panel, Bright, Affordable
  <2>3. QED
    BY <2>1, <2>2 DEF PanelInv, Prompt
<1>9. QED
  BY <1>1, <1>2, <1>3, <1>4, <1>5, <1>6, <1>7, <1>8
  DEF Next, Event, Animation, Tick, vars

-----------------------------------------------------------------------------
\* ExoInv is inductive.
THEOREM Inductive == Spec => []ExoInv
BY InitStep, NextStepInv, PTL DEF Spec

\* Minerals are never negative, and the components of a tick find what they
\* expect in what the ticks, the events and the games before left.
THEOREM TypeCorrect == Spec => []TypeOK
<1>1. ExoInv => TypeOK
  BY DEF ExoInv
<1>2. QED
  BY Inductive, <1>1, PTL

\* The construction under way can always be paid.
THEOREM ConstructionIsPaid == Spec => []PendingIsAffordable
<1>1. ExoInv => PendingIsAffordable
  BY DEF ExoInv, BuildInv, PendingIsAffordable
<1>2. QED
  BY Inductive, <1>1, PTL

\* No construction and no selection outlives its game.
THEOREM GamesAreApart == Spec => []OfThisGame
<1>1. ExoInv => OfThisGame
  BY DEF ExoInv
<1>2. QED
  BY Inductive, <1>1, PTL

\* A tutorial that holds the waves back can be gone through.
THEOREM TutorialLeads == Spec => []TutorialGoesOn
<1>1. ExoInv => TutorialGoesOn
  BY ExoAssumption DEF ExoInv, MissionInv, TutorialGoesOn, TypeOK, Tutorial_t
<1>2. QED
  BY Inductive, <1>1, PTL

\* As long as the tutorial runs, no ship lives and the base is safe.
THEOREM NoWaveInTutorial == Spec => []TutorialIsPeaceful
<1>1. ExoInv => TutorialIsPeaceful
  BY DEF ExoInv
<1>2. QED
  BY Inductive, <1>1, PTL

\* The simulation never runs without a base.
THEOREM BaseIsThere == Spec => []SimulationHasBase
<1>1. ExoInv => SimulationHasBase
  BY DEF ExoInv, BaseInv, SimulationHasBase
<1>2. QED
  BY Inductive, <1>1, PTL

\* A release chooses a host, builds or selects, never two of these, but that one
\* kept by a frame cut short may select and choose.
THEOREM ReleaseIsUsedOnce == Spec => []OneUse
<1>1. ExoInv => OneUse
  <2> SUFFICES ASSUME ExoInv PROVE OneUse
    OBVIOUS
  <2>1. used \subseteq {"host", "build", "select"}
    BY DEF ExoInv, TypeOK
  <2>2. CASE used = {} \/ \E use \in {"host", "build", "select"} : used = {use}
    <3>1. Cardinality({}) = 0
      BY FS_EmptySet
    <3>2. \A use : Cardinality({use}) = 1
      BY FS_Singleton
    <3>3. Cardinality(used) \in {0, 1}
      BY <2>2, <3>1, <3>2
    <3>4. QED
      BY <3>3 DEF OneUse
  <2>3. CASE "select" \in used /\ "host" \in used
    <3>1. "build" \notin used /\ cut
      BY <2>3 DEF ExoInv, UsedInv
    <3>2. used = {"select", "host"}
      BY <2>1, <2>3, <3>1
    <3>3. QED
      BY <3>1, <3>2 DEF OneUse
  <2>4. QED
    <3>1. "build" \in used => "host" \notin used /\ "select" \notin used
      BY DEF ExoInv, UsedInv
    <3>2. QED
      BY <2>1, <2>2, <2>3, <3>1
<1>2. QED
  BY Inductive, <1>1, PTL

\* A click does what the last frame said it would, if none was cut short since.
THEOREM ShownIsOffered == Spec => []ClickedAsDrawn
<1>1. Init => PanelInv
  BY DEF Init, PanelInv
<1>2. PanelInv => ClickedAsDrawn
  BY DEF PanelInv, ClickedAsDrawn
<1>3. QED
  BY Inductive, PanelStep, <1>1, <1>2, PTL DEF Spec

\* A station is placed at a distance, on the orbit the player has been shown if no
\* frame was cut short since.
THEOREM PlacedWhereShown == Spec => BuiltAsDrawn
<1>1. ExoInv /\ [Next]_vars =>
        [Places_t /\ base # "lost" =>
           /\ ~cut => drawn = [distance |-> build.distance, valid |-> TRUE]
           /\ build.distance >= 1]_vars
  <2>1. SUFFICES ASSUME ExoInv, Next, Places_t, base # "lost"
                 PROVE  /\ ~cut =>
                             drawn = [distance |-> build.distance, valid |-> TRUE]
                        /\ build.distance >= 1
    OBVIOUS
  <2>2. build.valid /\ mouse.released
    <3>1. step = "build" /\ build.pending /\ ~build'.pending
      BY <2>1 DEF Places_t
    <3>2. CASE SelectOrbitSize
      BY <3>1, <3>2 DEF SelectOrbitSize
    <3>3. CASE SelectHost \/ MeasureOrbit
      BY <2>1, <3>1, <3>3 DEF SelectHost, MeasureOrbit, ExoInv, TypeOK, Build_t
    <3>4. CASE NotPending
      BY <3>1, <3>4 DEF NotPending
    <3>5. BuildUpdate
      BY <2>1, <3>1 DEF Next, Event, Animation, Tick, Idle, MouseDown, MouseUp,
         KeyPress, Resize, Frame, LoadingUpdate, CheckBase, ViewUpdate,
         GuiUpdate, TutorialUpdate, ClickNearest, OrbitalsUpdate, WaveUpdate,
         FieldUpdate, FieldThrows, MouseUpdate, Render
    <3>6. QED
      BY <3>2, <3>3, <3>4, <3>5 DEF BuildUpdate
  <2>3. QED
    BY <2>1, <2>2 DEF ExoInv, DrawnInv, Places_t
<1>2. QED
  BY Inductive, <1>1, PTL DEF Spec, BuiltAsDrawn

\* A press that has moved the view is not a click when it ends, but at the release of
\* a second button.
THEOREM PannedIsNoClick == Spec => PanNeverClicks
<1>1. ExoInv /\ [Next]_vars =>
        [mouse'.released /\ ~mouse.released /\ dragged => ~mouse.down]_vars
  <2>1. SUFFICES ASSUME ExoInv, Next, mouse'.released, ~mouse.released, dragged
                 PROVE  ~mouse.down
    OBVIOUS
  <2>2. CASE MouseUp
    BY <2>1, <2>2 DEF MouseUp, ExoInv, DragInv, TypeOK, View_t, Mouse_t
  <2>3. CASE ~MouseUp
    BY <2>1, <2>3 DEF ExoInv, TypeOK, Mouse_t, NoEvent, Next, Event, Animation,
       Tick,
       BuildUpdate, MouseDown, KeyPress, Resize, Frame, LoadingUpdate,
       CheckBase, ViewUpdate, GuiUpdate, TutorialUpdate, NotPending,
       SelectHost, MeasureOrbit, SelectOrbitSize, ClickNearest,
       OrbitalsUpdate, WaveUpdate, FieldUpdate, FieldThrows, MouseUpdate, Render
  <2>4. QED
    BY <2>2, <2>3
<1>2. QED
  BY Inductive, <1>1, PTL DEF Spec, PanNeverClicks

\* The tutorial can be gone through, in peace.
THEOREM TutorialHolds == Spec => []TutorialCanBeFollowed
<1>1. TutorialGoesOn /\ TutorialIsPeaceful => TutorialCanBeFollowed
  BY DEF TutorialCanBeFollowed
<1>2. QED
  BY TutorialLeads, NoWaveInTutorial, <1>1, PTL

\* What the player does is what the screen has shown, if it has shown anything since
\* the last exception.
THEOREM ScreenIsTrue == Spec => PlayedAsDrawn
BY ShownIsOffered, PlacedWhereShown, PTL DEF PlayedAsDrawn

\* A release has one effect, but in the two cases that are named.
THEOREM OneReleaseOneEffect == Spec => ReleaseDoesOneThing
BY ReleaseIsUsedOnce, PannedIsNoClick, PTL DEF ReleaseDoesOneThing
=============================================================================
