-------------------------------- MODULE Exo --------------------------------
(***************************************************************************)
(* The game served from www/game.com, seen from its main loop (game.js):   *)
(* the pointer (Mouse.js), the panned and zoomed view (View.js), the build *)
(* buttons (gui.js, buttons.js), the construction of a station (Build.js), *)
(* the tutorial (Tutorial.js), the waves (WaveManager.js) and the life of  *)
(* the base, from one game to the next in the same page.                   *)
(*                                                                         *)
(* The browser runs one handler at a time: events come between two frames. *)
(* A frame runs one or more ticks, then draws; in a tick the components    *)
(* are updated one after the other, each step of it an action here.  All   *)
(* the components of a tick look at the same mouse flags, those of the     *)
(* events since the last tick, and of the last tick as well if it was cut  *)
(* short: a ship out of its grid throws, which ends the frame undrawn.     *)
(*                                                                         *)
(* Positions are left out: what the pointer is over, a button, the box of  *)
(* the tutorial or an orbital, is chosen where a component looks for it,   *)
(* since the pointer moves between two ticks, and orbitals in each.  The   *)
(* settings are in Page: the one of the tutorial is chosen where a game    *)
(* starts.  Minerals are counted in tens, as all costs are.  Stations and  *)
(* ships are in Orbits and in Swarm.                                       *)
(***************************************************************************)
EXTENDS Integers, Sequences, FiniteSets

CONSTANTS
  Null,
  Buttons,       \* the blueprints that have a button
  Hosts,         \* orbitals one can build around: planets and the star
  Others,        \* the other orbitals: moons and stations
  Missions,      \* the missions of the tutorial
  MissionDelay,  \* ticks between two missions, 60 in the code
  Cooldown, CooldownStep, MinCooldown,  \* between waves: 60, 2 and 2 seconds
  Second,        \* ticks of a second, 60 in the code
  MaxDistance,   \* the widest orbit, in spacings of 100
  MaxRepeat,     \* ticks a frame may run, 60 in the code
  MaxMinerals, MaxWaves, MaxGames  \* bounds

(***************************************************************************)
(* ORBITAL_TYPE and ORBITAL_MODULE_TYPE, as a button asks for them.        *)
(***************************************************************************)
ORBITAL_MODULE_TYPE == {"LASER", "BEAM", "ROCKET", "EMP", "LIGHTNING"}
Blueprint ==
  [what : {"SATELLITE", "MINING"}, module : {Null}]
    \cup [what : {"DEFENSE"}, module : ORBITAL_MODULE_TYPE]

getCost(b) ==
  CASE b.what = "SATELLITE" -> 3
    [] b.what = "MINING" -> 5
    [] b.module = "LASER" -> 10
    [] b.module = "BEAM" -> 15
    [] b.module = "ROCKET" -> 20
    [] b.module = "EMP" -> 25
    [] OTHER -> 30

\* Base.create(): the minerals a game starts with.
StartMinerals == 5

TUTORIAL_EVENT == {"INTRO", "MOUSE", "PAUSE", "ZOOM", "BUILD"}
Mission == [event : TUTORIAL_EVENT, auto : BOOLEAN, end : BOOLEAN]

\* The events some mission waits for: those one needs to remember.
Awaited == {Missions[i].event : i \in DOMAIN Missions}

ASSUME ExoAssumption ==
  /\ Buttons \subseteq Blueprint
  /\ [what |-> "SATELLITE", module |-> Null] \in Buttons
  /\ Null \notin Nat /\ Null \notin Blueprint \cup Hosts \cup Others
  /\ {"ring", "free"} \cap (Hosts \cup Others) = {}
  /\ Missions \in Seq(Mission)
  /\ Missions # << >>
  /\ \A i \in DOMAIN Missions : Missions[i].end <=> i = Len(Missions)
  /\ {MissionDelay, Cooldown, CooldownStep, MinCooldown, Second} \subseteq Nat
  /\ MinCooldown <= Cooldown
  /\ MaxDistance \in Nat \ {0} /\ MaxRepeat \in Nat \ {0}
  /\ MaxMinerals \in Nat /\ MaxWaves \in Nat /\ MaxGames \in Nat
  /\ MaxMinerals >= StartMinerals

VARIABLES
  gameState,   \* LOADING, RUNNING or PAUSED
  step,        \* where update() and render() stand
  repeat,      \* ticks left to this frame
  mouse,       \* click, released, down
  view,        \* an anchor is set; drag
  build,       \* the construction under way
  minerals,    \* Base.minerals
  base,        \* the planet of the base
  tutorial,    \* started, end, text shown, timer, currentMission, completed
  selection,   \* target of the selection panel
  wave,        \* timer, currentWave, cooldown
  ships,       \* some enemy ship lives
  games,       \* games started in this page
  drawn,       \* history: the orbit drawn by the last frame, unless one was cut since
  panel,       \* history: what it offered to click on, likewise
  cut,         \* history: an exception has cut a frame short since the last drawn
  dragged,     \* history: a tick saw this press drag
  used         \* history: what the release being looked at has done

vars == <<gameState, step, repeat, mouse, view, build, minerals, base,
          tutorial, selection, wave, ships, games, drawn, panel, cut, dragged,
          used>>

Orbital_t == [body : Hosts \cup Others, game : 1 .. MaxGames]
Nearest == Hosts \cup Others \cup {"ring", "free"}
Orbit == [distance : 0 .. MaxDistance, valid : BOOLEAN]
Mouse_t == [click : BOOLEAN, released : BOOLEAN, down : BOOLEAN]
View_t == [set : BOOLEAN, drag : BOOLEAN]
Build_t == [pending : BOOLEAN, what : Buttons \cup {Null}, cost : Nat,
            on : Orbital_t \cup {Null},
            distance : 0 .. MaxDistance \cup {Null}, valid : BOOLEAN]
Tutorial_t == [started : BOOLEAN, end : BOOLEAN, text : BOOLEAN,
               timer : 0 .. MissionDelay, mission : 1 .. Len(Missions) + 1,
               completed : SUBSET Awaited]
Wave_t == [timer : Nat, current : 0 .. MaxWaves, cooldown : Nat]
Panel_t == [bright : SUBSET Buttons, prompt : BOOLEAN]

TypeOK ==
  /\ gameState \in {"LOADING", "RUNNING", "PAUSED"}
  /\ step \in {"idle", "tick", "view", "gui", "tutorial", "build", "click",
               "orbitals", "waves", "ships", "mouse", "render"}
  /\ repeat \in 0 .. MaxRepeat
  /\ mouse \in Mouse_t /\ view \in View_t /\ build \in Build_t
  /\ minerals \in 0 .. MaxMinerals
  /\ base \in {"none", "alive", "doomed", "lost"}
  /\ tutorial \in Tutorial_t
  /\ selection \in Orbital_t \cup {Null}
  /\ wave \in Wave_t
  /\ ships \in BOOLEAN
  /\ games \in 0 .. MaxGames
  /\ drawn \in Orbit \cup {Null}
  /\ panel \in Panel_t \cup {Null}
  /\ {cut, dragged} \subseteq BOOLEAN
  /\ used \subseteq {"host", "build", "select"}

-----------------------------------------------------------------------------
(* Tutorial.js.                                                            *)

complete(t, event) == [t EXCEPT !.completed = @ \cup ({event} \cap Awaited)]

\* Once the missions are over, there is nothing to set.
setMission(t) ==
  IF t.mission \in DOMAIN Missions
  THEN [t EXCEPT !.text = TRUE, !.end = Missions[t.mission].end]
  ELSE t

start(t, enabled) ==
  IF enabled THEN setMission([t EXCEPT !.started = TRUE])
  ELSE [t EXCEPT !.end = TRUE]

\* The events the mission shown completes by itself, its lifetime being 0.
AutoTold(t) ==
  IF Missions[t.mission].auto THEN {Missions[t.mission].event} ELSE {}

Told(t) == [t EXCEPT !.completed = @ \cup AutoTold(t)]

clickRegion(over) == mouse.click /\ over

\* Tutorial.update() while a text is shown, and between two texts.
Shown(t, box) ==
  IF Missions[t.mission].event \in Told(t).completed /\ clickRegion(box)
  THEN [Told(t) EXCEPT !.mission = @ + 1, !.text = FALSE,
                       !.timer = MissionDelay]
  ELSE Told(t)

Decrement(n) == IF n > 0 THEN n - 1 ELSE 0

Between(t) ==
  LET next == IF t.started /\ t.timer = 0 THEN setMission(t) ELSE t
  IN  IF t.started THEN [next EXCEPT !.timer = Decrement(@)] ELSE next

-----------------------------------------------------------------------------
(* Events, between two frames.                                             *)

Idle == step = "idle"

MouseDown ==
  /\ Idle
  /\ mouse' = [mouse EXCEPT !.click = TRUE, !.down = TRUE]
  /\ dragged' = FALSE
  /\ UNCHANGED <<gameState, step, repeat, view, build, minerals, base,
                 tutorial, selection, wave, ships, games, drawn, panel, cut, used>>

\* A release counts unless the last tick saw a drag.  Whichever button it is of, and
\* whether another is still pressed, or none was: no event says, and none is asked.
MouseUp ==
  /\ Idle
  /\ mouse' = [mouse EXCEPT !.down = FALSE, !.released = @ \/ ~view.drag]
  /\ used' = IF view.drag THEN used ELSE {}
  /\ UNCHANGED <<gameState, step, repeat, view, build, minerals, base,
                 tutorial, selection, wave, ships, games, drawn, panel, cut,
                 dragged>>

\* The space bar, in the loading screen too.
KeyPress ==
  /\ Idle
  /\ tutorial' = complete(tutorial, "PAUSE")
  /\ gameState' = IF gameState = "PAUSED" THEN "RUNNING" ELSE "PAUSED"
  /\ UNCHANGED <<step, repeat, mouse, view, build, minerals, base, selection,
                 wave, ships, games, drawn, panel, cut, dragged, used>>

\* resize() makes the panels again.
Resize ==
  /\ Idle
  /\ selection' = Null
  /\ UNCHANGED <<gameState, step, repeat, mouse, view, build, minerals, base,
                 tutorial, wave, ships, games, drawn, panel, cut, dragged, used>>

\* frame(): one tick at least is due.
Frame(ticks) ==
  /\ Idle
  /\ repeat' = ticks
  /\ step' = "tick"
  /\ UNCHANGED <<gameState, mouse, view, build, minerals, base, tutorial,
                 selection, wave, ships, games, drawn, panel, cut, dragged, used>>

-----------------------------------------------------------------------------
\* NoBuild if the body to turn around were kept.
NoBuild_KeepsHost ==
  [build EXCEPT !.pending = FALSE, !.what = Null, !.distance = Null,
                !.valid = FALSE]

(***************************************************************************)
(* Game.init(): a new system with its base, and every component made new,  *)
(* but for the pointer, the anchor of the view and the tutorial's missions.*)
(***************************************************************************)
NoBuild ==
  [build EXCEPT !.pending = FALSE, !.what = Null, !.on = Null,
                !.distance = Null, !.valid = FALSE]

\* WaveManager.init()
FirstWave ==
  [timer |-> Cooldown * Second, current |-> 0, cooldown |-> Cooldown]

\* NewGame if the ships of the last game stayed.
NewGame_KeepsShips ==
  /\ games' = games + 1
  /\ base' = "alive"
  /\ minerals' = StartMinerals
  /\ build' = NoBuild
  /\ wave' = FirstWave
  /\ \E enabled \in BOOLEAN :
       /\ tutorial' = start(tutorial, enabled)
       /\ gameState' = IF enabled THEN "PAUSED" ELSE "RUNNING"
  /\ selection' = Null
  /\ UNCHANGED ships

NewGame ==
  /\ games' = games + 1
  /\ base' = "alive"
  /\ minerals' = StartMinerals
  /\ build' = NoBuild
  /\ wave' = FirstWave
  /\ ships' = FALSE
  /\ \E enabled \in BOOLEAN :
       /\ tutorial' = start(tutorial, enabled)
       /\ gameState' = IF enabled THEN "PAUSED" ELSE "RUNNING"
  /\ selection' = Null

\* LoadingScreen.update() once everything is loaded: a click on the screen.
LoadingUpdate ==
  /\ step = "tick" /\ gameState = "LOADING"
  /\ step' = "mouse"
  /\ \/ mouse.click /\ games < MaxGames /\ NewGame
     \/ UNCHANGED <<games, base, minerals, build, wave, ships, tutorial,
                    gameState, selection>>
  /\ UNCHANGED <<repeat, mouse, view, drawn, panel, cut, dragged, used>>

\* CheckBase if only a game without a base were ended.
CheckBase_Never ==
  /\ step = "tick" /\ gameState # "LOADING"
  /\ step' = "view"
  /\ gameState' = IF base = "none" THEN "LOADING" ELSE gameState
  /\ UNCHANGED <<repeat, mouse, view, build, minerals, base, tutorial,
                 selection, wave, ships, games, drawn, panel, cut, dragged, used>>

\* Outside the loading screen, a tick first looks for the base.
CheckBase ==
  /\ step = "tick" /\ gameState # "LOADING"
  /\ step' = "view"
  /\ gameState' = IF base \in {"none", "lost"} THEN "LOADING" ELSE gameState
  /\ UNCHANGED <<repeat, mouse, view, build, minerals, base, tutorial,
                 selection, wave, ships, games, drawn, panel, cut, dragged, used>>

\* Drags if it asked at each tick for the pointer to be away.
Drags_WhileAway(v, away) == v.set /\ mouse.down /\ away

(***************************************************************************)
(* View.update(): a press sets the anchor; the view is dragged while the   *)
(* button is down, once the pointer has gone away from the anchor, which   *)
(* is dropped with the drag.  The wheel may zoom, over several ticks.      *)
(***************************************************************************)
Drags(v, away) == v.set /\ mouse.down /\ (v.drag \/ away)

Dragged(v, away) ==
  [set |-> v.set /\ (Drags(v, away) \/ ~v.drag), drag |-> Drags(v, away)]

ViewUpdate ==
  /\ step = "view"
  /\ step' = "gui"
  /\ \E away, zooms \in BOOLEAN :
       /\ away => ~mouse.click
       /\ LET v == [view EXCEPT !.set = @ \/ mouse.click]
              panned == IF Drags(v, away) THEN complete(tutorial, "MOUSE")
                        ELSE tutorial
          IN  /\ view' = Dragged(v, away)
              /\ dragged' = (dragged \/ Drags(v, away))
              /\ tutorial' = IF zooms THEN complete(panned, "ZOOM") ELSE panned
  /\ UNCHANGED <<gameState, repeat, mouse, build, minerals, base, selection,
                 wave, ships, games, drawn, panel, cut, used>>

\* Affordable if a button checked nothing while a construction is pending.
Affordable_UnlessPending(b) == build.pending \/ minerals >= getCost(b)

(***************************************************************************)
(* Gui.update(): the button that is clicked checks what it costs, then     *)
(* calls Build.createBlueprint(), which leaves the rest as it is.          *)
(***************************************************************************)
Affordable(b) == minerals >= getCost(b)

createBlueprint(b) ==
  [build EXCEPT !.pending = TRUE, !.what = b, !.cost = getCost(b)]

buildOrbital(b) == IF Affordable(b) THEN createBlueprint(b) ELSE build

GuiUpdate ==
  /\ step = "gui"
  /\ step' = "tutorial"
  /\ \E icon \in Buttons \cup {Null} :
       build' = IF mouse.click /\ icon # Null THEN buildOrbital(icon) ELSE build
  /\ UNCHANGED <<gameState, repeat, mouse, view, minerals, base, tutorial,
                 selection, wave, ships, games, drawn, panel, cut, dragged, used>>

TutorialUpdate ==
  /\ step = "tutorial"
  /\ step' = "build"
  /\ \E box \in BOOLEAN :
       tutorial' = IF tutorial.text THEN Shown(tutorial, box)
                   ELSE Between(tutorial)
  /\ UNCHANGED <<gameState, repeat, mouse, view, build, minerals, base,
                 selection, wave, ships, games, drawn, panel, cut, dragged, used>>

-----------------------------------------------------------------------------
(***************************************************************************)
(* Build.update(), while a construction is pending: a release on a planet  *)
(* or on the star chooses it; from then on each tick measures the orbit    *)
(* under the pointer, and a release builds there if the orbit measured by  *)
(* an earlier tick was valid.  What is nearest to the pointer is near: an  *)
(* orbital, an orbit ("ring"), or nothing in reach ("free").               *)
(***************************************************************************)
Orbital(b) == [body |-> b, game |-> games]

\* The orbits under the pointer: at least one spacing from the body, unless
\* the pointer is on it, or nearer to another, or the body is lost.
OrbitsAt(on, near) ==
  IF base = "lost" THEN 0 .. MaxDistance
  ELSE IF near = on.body THEN {0, 1}
  ELSE IF near \in {"ring", "free"} THEN 1 .. MaxDistance
  ELSE 0 .. MaxDistance

NextStep == IF gameState = "RUNNING" THEN "click" ELSE "mouse"

NotPending ==
  /\ step = "build" /\ ~build.pending
  /\ step' = NextStep
  /\ UNCHANGED <<gameState, repeat, mouse, view, build, minerals, base,
                 tutorial, selection, wave, ships, games, drawn, panel, cut,
                 dragged, used>>

\* clickNearest(true)
SelectHost ==
  /\ step = "build" /\ build.pending /\ build.on = Null
  /\ step' = NextStep
  /\ \E near \in Nearest :
       IF mouse.released /\ near \in Hosts
       THEN /\ build' = [build EXCEPT !.on = Orbital(near)]
            /\ used' = used \cup {"host"}
       ELSE UNCHANGED <<build, used>>
  /\ selection' = IF mouse.released THEN Null ELSE selection
  /\ UNCHANGED <<gameState, repeat, mouse, view, minerals, base, tutorial,
                 wave, ships, games, drawn, panel, cut, dragged>>

MeasureOrbit ==
  /\ step = "build" /\ build.pending /\ build.on # Null /\ ~mouse.released
  /\ step' = NextStep
  /\ \E near \in Nearest : \E distance \in OrbitsAt(build.on, near) :
       build' = [build EXCEPT !.distance = distance, !.valid = (near = "free")]
  /\ UNCHANGED <<gameState, repeat, mouse, view, minerals, base, tutorial,
                 selection, wave, ships, games, drawn, panel, cut, dragged, used>>

\* Mouse.update() forgets the events of the tick.
NoEvent(m) == [m EXCEPT !.click = FALSE, !.released = FALSE]

\* SelectOrbitSize if it measured the orbit at the release.
SelectOrbitSize_Measures ==
  /\ step = "build" /\ build.pending /\ build.on # Null /\ mouse.released
  /\ step' = NextStep
  /\ mouse' = NoEvent(mouse)
  /\ \E near \in Nearest :
       IF near = "free"
       THEN /\ minerals' = minerals - build.cost
            /\ build' = [NoBuild EXCEPT !.cost = 0]
            /\ tutorial' = complete(tutorial, "BUILD")
            /\ used' = used \cup {"build"}
       ELSE UNCHANGED <<minerals, build, tutorial, used>>
  /\ UNCHANGED <<gameState, repeat, view, base, selection, wave, ships, games,
                 drawn, panel, cut, dragged>>

\* The release is forgotten first, so that it does nothing else.
SelectOrbitSize ==
  /\ step = "build" /\ build.pending /\ build.on # Null /\ mouse.released
  /\ step' = NextStep
  /\ mouse' = NoEvent(mouse)
  /\ IF build.valid
     THEN /\ minerals' = minerals - build.cost
          /\ build' = [NoBuild EXCEPT !.cost = 0]
          /\ tutorial' = complete(tutorial, "BUILD")
          /\ used' = used \cup {"build"}
     ELSE UNCHANGED <<minerals, build, tutorial, used>>
  /\ UNCHANGED <<gameState, repeat, view, base, selection, wave, ships, games,
                 drawn, panel, cut, dragged>>

BuildUpdate == NotPending \/ SelectHost \/ MeasureOrbit \/ SelectOrbitSize

-----------------------------------------------------------------------------
(* The simulation, while the game is RUNNING.                              *)

\* clickNearest(): a release selects the orbital under the pointer, or none.
ClickNearest ==
  /\ step = "click"
  /\ step' = "orbitals"
  /\ IF mouse.released
     THEN \E near \in Nearest :
            IF near \in Hosts \cup Others /\ ~build.pending
            THEN selection' = Orbital(near) /\ used' = used \cup {"select"}
            ELSE selection' = Null /\ UNCHANGED used
     ELSE UNCHANGED <<selection, used>>
  /\ UNCHANGED <<gameState, repeat, mouse, view, build, minerals, base,
                 tutorial, wave, ships, games, drawn, panel, cut, dragged>>

\* Every orbital is updated: the base goes if its hp are spent, and mining
\* stations may have brought ten more minerals, once the tutorial has ended.
OrbitalsUpdate ==
  /\ step = "orbitals"
  /\ step' = "waves"
  /\ base' = IF base = "doomed" THEN "lost" ELSE base
  /\ \E income \in {0, 1} :
       /\ income = 1 => tutorial.end /\ minerals < MaxMinerals
       /\ minerals' = minerals + income
  /\ UNCHANGED <<gameState, repeat, mouse, view, build, tutorial, selection,
                 wave, ships, games, drawn, panel, cut, dragged, used>>

Higher(a, b) == IF a > b THEN a ELSE b

Spawned(w) ==
  LET cooldown == Higher(w.cooldown - CooldownStep, MinCooldown)
  IN  [timer |-> cooldown * Second, current |-> w.current + 1,
       cooldown |-> cooldown]

\* WaveManager.update(): nothing while the tutorial runs.
WaveUpdate ==
  /\ step = "waves"
  /\ step' = "ships"
  /\ IF tutorial.end /\ wave.timer = 0 /\ wave.current < MaxWaves
     THEN wave' = Spawned(wave) /\ ships' = TRUE
     ELSE /\ wave' = IF tutorial.end THEN [wave EXCEPT !.timer = Decrement(@)]
                     ELSE wave
          /\ UNCHANGED ships
  /\ UNCHANGED <<gameState, repeat, mouse, view, build, minerals, base,
                 tutorial, selection, games, drawn, panel, cut, dragged, used>>

\* EnemyShip, Laser and Rocket: the ships may die, and may spend the base.
Fight ==
  /\ base' \in IF ships /\ base = "alive" THEN {"alive", "doomed"} ELSE {base}
  /\ ships' \in IF ships THEN BOOLEAN ELSE {FALSE}

FieldUpdate ==
  /\ step = "ships"
  /\ step' = "mouse"
  /\ Fight
  /\ UNCHANGED <<gameState, repeat, mouse, view, build, minerals, tutorial,
                 selection, wave, games, drawn, panel, cut, dragged, used>>

\* A ship out of the grid throws, after others may have been updated: neither what
\* is left of the tick, nor the other ticks of the frame, nor render() are run.  The
\* next frame, asked for already, finds the flags of the pointer as they are.
FieldThrows ==
  /\ step = "ships" /\ ships
  /\ step' = "idle" /\ repeat' = 0
  /\ Fight
  /\ cut' = TRUE /\ drawn' = Null /\ panel' = Null
  /\ used' = IF mouse.released THEN used ELSE {}
  /\ UNCHANGED <<gameState, mouse, view, build, minerals, tutorial, selection,
                 wave, games, dragged>>

-----------------------------------------------------------------------------
\* The end of a tick.
MouseUpdate ==
  /\ step = "mouse"
  /\ mouse' = NoEvent(mouse)
  /\ repeat' = repeat - 1
  /\ step' = IF repeat > 1 THEN "tick" ELSE "render"
  /\ used' = {}
  /\ UNCHANGED <<gameState, view, build, minerals, base, tutorial, selection,
                 wave, ships, games, drawn, panel, cut, dragged>>

(***************************************************************************)
(* What Gui.render() draws to be clicked on: the buttons, dimmed if their  *)
(* click would be refused, and under the text of a mission that may be     *)
(* left, the prompt to do so.                                              *)
(***************************************************************************)
Bright(b) == Affordable(b)

Prompt ==
  tutorial.text /\ Missions[tutorial.mission].event \in tutorial.completed

Panel == [bright |-> {b \in Buttons : Bright(b)}, prompt |-> Prompt]

\* render(): the orbit to build on is drawn, green or red.
Render ==
  /\ step = "render"
  /\ step' = "idle"
  /\ drawn' = IF /\ gameState # "LOADING"
                 /\ build.pending /\ build.on # Null /\ build.distance # Null
              THEN [distance |-> build.distance, valid |-> build.valid]
              ELSE Null
  /\ panel' = IF gameState = "LOADING" THEN Null ELSE Panel
  /\ cut' = FALSE
  /\ UNCHANGED <<gameState, repeat, mouse, view, build, minerals, base,
                 tutorial, selection, wave, ships, games, dragged, used>>

Init ==
  /\ gameState = "LOADING" /\ step = "idle" /\ repeat = 0
  /\ mouse = [click |-> FALSE, released |-> FALSE, down |-> FALSE]
  /\ view = [set |-> FALSE, drag |-> FALSE]
  /\ build = [pending |-> FALSE, what |-> Null, cost |-> 0, on |-> Null,
              distance |-> Null, valid |-> FALSE]
  /\ minerals = 0 /\ base = "none"
  /\ tutorial = [started |-> FALSE, end |-> FALSE, text |-> FALSE,
                 timer |-> MissionDelay, mission |-> 1, completed |-> {}]
  /\ selection = Null
  /\ wave = [timer |-> 0, current |-> 0, cooldown |-> 0]
  /\ ships = FALSE /\ games = 0
  /\ drawn = Null /\ panel = Null /\ cut = FALSE /\ dragged = FALSE /\ used = {}

Event ==
  \/ MouseDown
  \/ MouseUp
  \/ KeyPress
  \/ Resize

Tick ==
  \/ LoadingUpdate
  \/ CheckBase
  \/ ViewUpdate
  \/ GuiUpdate
  \/ TutorialUpdate
  \/ BuildUpdate
  \/ ClickNearest
  \/ OrbitalsUpdate
  \/ WaveUpdate
  \/ FieldUpdate
  \/ FieldThrows
  \/ MouseUpdate

Animation == (\E ticks \in 1 .. MaxRepeat : Frame(ticks)) \/ Tick \/ Render

Next == Event \/ Animation

\* frame() asks for the next frame before anything else (game.js:52).
Spec == Init /\ [][Next]_vars /\ WF_vars(Animation)

-----------------------------------------------------------------------------
\* The construction under way can always be paid: what it costs was checked
\* at the click on its button, is paid at the release that places it, and
\* other buttons, releases and games may come in between (Build.js:89).
PendingIsAffordable == build.pending => minerals >= build.cost

\* What the player has under the hand belongs to the game being played: no
\* construction and no selection outlives its game (game.js:30).
OfThisGame ==
  /\ build.on # Null => build.on.game = games
  /\ selection # Null => selection.game = games

\* A tutorial that holds the waves back can always be gone through: the
\* mission shown exists, another follows it, and as long as nothing has been
\* built, what the first game gave to build with is there (Tutorial.js:73,
\* 108, WaveManager.js:35).
TutorialGoesOn ==
  /\ tutorial.text => tutorial.mission \in DOMAIN Missions
  /\ games > 0 /\ ~tutorial.end =>
       tutorial.started /\ tutorial.mission \in DOMAIN Missions
  /\ games > 0 /\ "BUILD" \in Awaited \ tutorial.completed =>
       minerals >= StartMinerals

\* As long as the tutorial runs, no ship lives and the base is safe, whatever
\* the games before it and the settings were (WaveManager.js:35).
TutorialIsPeaceful ==
  games > 0 /\ ~tutorial.end =>
    ~ships /\ base = "alive" /\ wave.current = 0

\* The tutorial leads to its end and nothing attacks the player before it
\* (Tutorial.js:60-113, WaveManager.js:35).
TutorialCanBeFollowed == TutorialGoesOn /\ TutorialIsPeaceful

\* The simulation runs with a base and a game is drawn only once one exists,
\* though the space bar leaves the loading screen without starting a game
\* (game.js:15, 73).
SimulationHasBase ==
  /\ step \in {"click", "orbitals"} => base \in {"alive", "doomed"}
  /\ step = "render" /\ gameState # "LOADING" => games > 0

\* A release chooses what to build around, places a station or selects, and does
\* one of these alone (Build.js:37, utils.js:72).  Only one that a frame cut short
\* has kept may select in one tick and choose a host in another (game.js:91).
OneUse == Cardinality(used) <= 1 \/ (cut /\ used = {"select", "host"})

\* A click does what the last frame said it would: when a click is looked at,
\* the buttons drawn bright can be afforded and no other, and the prompt that
\* was drawn is still there, though a frame may run many ticks, a station may
\* be placed in each, and the space bar may come in between (buttons.js:38,
\* Tutorial.js:141).  It may not if an exception has cut a frame short since
\* that one: a click is then kept, and what it is about not drawn (game.js:91).
ClickedAsDrawn ==
  mouse.click /\ panel # Null /\ ~cut =>
    /\ step = "gui" => panel.bright = {b \in Buttons : minerals >= getCost(b)}
    /\ step = "tutorial" /\ panel.prompt => Prompt

Places_t == step = "build" /\ build.pending /\ ~build'.pending

\* A station is placed at a distance from what it turns around, and on the orbit
\* the last frame has drawn, drawn as valid, though the pointer may have moved
\* since (Build.js:36, orbital.js:36); that orbit may be another only if an
\* exception has cut a frame short since that one (game.js:91).
BuiltAsDrawn ==
  [][Places_t /\ base # "lost" =>
       /\ ~cut => drawn = [distance |-> build.distance, valid |-> TRUE]
       /\ build.distance >= 1]_vars

\* The player plays what is on the screen: clicks and releases do what the last
\* frame has drawn (buttons.js:38, Tutorial.js:141, Build.js:36).
PlayedAsDrawn == []ClickedAsDrawn /\ BuiltAsDrawn

\* A press that has moved the view neither builds nor selects when it is
\* released, even back where it was pressed (Mouse.js:66, View.js:65), unless
\* another release has come before, that of a second button (Mouse.js:64).
PanNeverClicks ==
  [][mouse'.released /\ ~mouse.released /\ dragged => ~mouse.down]_vars

\* A press and its release do one thing: they move the view, choose what to build
\* around, place a station or select an orbital (Mouse.js:66, Build.js:37, utils.js:72).
ReleaseDoesOneThing == []OneUse /\ PanNeverClicks

\* The loss of the base brings the loading screen back (game.js:73).
LostIsNoticed == base = "lost" ~> gameState = "LOADING"
=============================================================================
