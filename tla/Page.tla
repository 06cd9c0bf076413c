-------------------------------- MODULE Page --------------------------------
(***************************************************************************)
(* The page of the game served from www/game.com, around the game itself:  *)
(* its settings and their copies in localStorage (objects/Settings.js,     *)
(* objects/Storage.js), the generation of the music and of the sounds      *)
(* (music.js, lib/player-small.js) behind the loading screen               *)
(* (loadingscreen.js), the looped music, the spoken texts and their        *)
(* subtitles (speech.js, gui.js).                                          *)
(*                                                                         *)
(* The page is closed and opened again at any time: only localStorage      *)
(* survives.  Each call of localStorage may throw.  The browser may refuse *)
(* to play before the user's first gesture.                                *)
(***************************************************************************)
EXTENDS Naturals, Sequences, FiniteSets

CONSTANTS
  Keys,          \* the settings: a checkbox each, named as in localStorage
  Tracks,        \* Music.tracks
  Sounds,        \* Sound.board
  Channels,      \* numChannels of each player's song
  Texts,         \* what the game says
  Sentences,     \* the sentences of each text
  SubtitleTime,  \* 60*4 updates in the code
  MaxSubtitles   \* bound: subtitles shown at once

Players == Tracks \cup Sounds

(***************************************************************************)
(* Every player of a board is asked for one more channel at each call, so  *)
(* that a board whose songs had different lengths would ask a finished one *)
(* for a channel it has not.  The data have one track, and sounds of one   *)
(* channel each.                                                           *)
(***************************************************************************)
ASSUME PageAssumption ==
  /\ {"tutorial", "music", "voice"} \subseteq Keys
  /\ IsFiniteSet(Players)
  /\ Tracks # {} /\ Sounds # {}
  /\ Channels \in [Players -> Nat \ {0}]
  /\ \A p, q \in Tracks : Channels[p] = Channels[q]
  /\ \A p, q \in Sounds : Channels[p] = Channels[q]
  /\ Sentences \in [Texts -> Nat \ {0}]
  /\ SubtitleTime \in Nat
  /\ MaxSubtitles \in Nat
  /\ "welcome" \in Texts

VARIABLES
  open,       \* the page is shown
  store,      \* localStorage, which survives the page
  enabled,    \* ENABLE_TUTORIAL, ENABLE_MUSIC...: the checkboxes
  firstTick, ready,               \* of LoadingScreen
  loadingMusic, loadingSound,     \* Music.loading, Sound.loading
  progressMusic, progressSound,   \* loadingProgressMusic, loadingProgressSound
  column,     \* mCurrentCol of each player: channels in its mix
  src,        \* channels in the wave each player's Audio plays, 0: no wave
  listeners,  \* "ended" listeners of the music
  playing,    \* the music is not paused
  gesture,    \* the user has clicked or typed in this page
  click,      \* Mouse.click, and whether it is over the start area
  game,       \* gameState is not LOADING
  synth,      \* speechEnabled
  queue,      \* the utterances of the synthesiser, in order
  subtitles,  \* the time left to each subtitle
  wanted      \* history: the last value of each setting that was stored

loading == <<firstTick, ready, loadingMusic, loadingSound, progressMusic,
             progressSound, column, src>>
music == <<listeners, playing>>
voice == <<queue, subtitles>>
settings == <<store, enabled, wanted>>
vars == <<open, settings, loading, music, gesture, click, game, synth, voice>>

NoClick == "none"

TypeOK ==
  /\ open \in BOOLEAN
  /\ store \in [Keys -> {"absent", "true", "false"}]
  /\ enabled \in [Keys -> BOOLEAN]
  /\ wanted \in [Keys -> BOOLEAN]
  /\ firstTick \in BOOLEAN /\ ready \in BOOLEAN
  /\ loadingMusic \in BOOLEAN /\ loadingSound \in BOOLEAN
  /\ progressMusic \in Nat /\ progressSound \in Nat
  /\ column \in [Players -> Nat]
  /\ src \in [Players -> Nat]
  /\ listeners \in Nat
  /\ playing \in BOOLEAN /\ gesture \in BOOLEAN
  /\ click \in {NoClick, "elsewhere", "start"}
  /\ game \in BOOLEAN /\ synth \in BOOLEAN
  /\ queue \in Seq(Texts)
  /\ subtitles \in Seq(0 .. SubtitleTime)

-----------------------------------------------------------------------------
(***************************************************************************)
(* localStorage: set() and get() swallow what it throws; get() falls back  *)
(* on its default, "true" for every setting.                               *)
(***************************************************************************)
Written(value) == IF value THEN "true" ELSE "false"

\* What set(k, value) leaves, when the browser stores it and when it throws.
Set(k, value) ==
  \/ /\ store' = [store EXCEPT ![k] = Written(value)]
     /\ wanted' = [wanted EXCEPT ![k] = value]
  \/ UNCHANGED <<store, wanted>>

Get(k, default, throws) ==
  IF throws \/ store[k] = "absent" THEN default ELSE store[k]

(***************************************************************************)
(* musicLoop(): the music is played, with the one listener that starts it  *)
(* again when it ends, or paused.  play() is refused only to a page in     *)
(* which the user has done nothing and no music plays.                     *)
(***************************************************************************)
Allowed(acted) == IF acted \/ playing THEN {TRUE} ELSE BOOLEAN

musicLoop(on, acted) ==
  IF on THEN /\ listeners' = IF listeners = 0 THEN 1 ELSE listeners
             /\ \E allowed \in Allowed(acted) : playing' = (playing \/ allowed)
  ELSE /\ playing' = FALSE
       /\ UNCHANGED listeners

\* A browser may have no speech synthesiser, which the page asks first.
speechEnabled == BOOLEAN

(***************************************************************************)
(* speak(): a subtitle, and one utterance per sentence once those still    *)
(* waiting are cancelled.                                                  *)
(***************************************************************************)
speak(text, suppress) ==
  /\ subtitles' = IF suppress THEN subtitles
                  ELSE Append(subtitles, SubtitleTime)
  /\ queue' = IF synth /\ enabled["voice"]
              THEN [i \in 1 .. Sentences[text] |-> text] ELSE queue

-----------------------------------------------------------------------------
(***************************************************************************)
(* The page opens: the scripts run, the players are made, and last of all  *)
(* Settings.init() takes each setting from localStorage.  "failed" are the *)
(* settings whose read threw.                                              *)
(***************************************************************************)
Scripts ==
  /\ firstTick' = FALSE /\ ready' = FALSE
  /\ loadingMusic' = TRUE /\ loadingSound' = TRUE
  /\ progressMusic' = 0 /\ progressSound' = 0
  /\ column' = [p \in Players |-> 0]
  /\ src' = [p \in Players |-> 0]
  /\ listeners' = 0 /\ playing' = FALSE
  /\ gesture' = FALSE /\ click' = NoClick /\ game' = FALSE
  /\ queue' = << >> /\ subtitles' = << >>

\* Checked if the stored text were taken as a truth value: "false" is true.
Checked_Truthy(k, failed) == Get(k, "true", k \in failed) # ""

Checked(k, failed) == Get(k, "true", k \in failed) = "true"

Open(failed) ==
  /\ ~open
  /\ open' = TRUE
  /\ Scripts
  /\ synth' \in speechEnabled
  /\ enabled' = [k \in Keys |-> Checked(k, failed)]
  /\ UNCHANGED <<store, wanted>>

\* The page is closed, or left to be loaded again.
Close ==
  /\ open
  /\ open' = FALSE
  /\ playing' = FALSE
  /\ UNCHANGED <<settings, loading, listeners, gesture, click, game, synth,
                 voice>>

\* A checkbox is clicked: its value is stored, then its callback is called.
Toggle(k) ==
  /\ open
  /\ enabled' = [enabled EXCEPT ![k] = ~@]
  /\ Set(k, ~enabled[k])
  /\ gesture' = TRUE
  /\ IF k = "music" THEN musicLoop(enabled'["music"], TRUE)
     ELSE UNCHANGED music
  /\ UNCHANGED <<open, loading, click, game, synth, voice>>

MouseDown(where) ==
  /\ open
  /\ click' = where
  /\ gesture' = TRUE
  /\ UNCHANGED <<open, settings, loading, music, game, synth, voice>>

\* Any key is a gesture too.
KeyDown ==
  /\ open
  /\ gesture' = TRUE
  /\ UNCHANGED <<open, settings, loading, music, click, game, synth, voice>>

-----------------------------------------------------------------------------
(***************************************************************************)
(* LoadingScreen.update(), once per tick: nothing, then the music, then    *)
(* the sounds, one channel of every player per tick, then the title.       *)
(***************************************************************************)
Loading == open /\ ~game

FirstTick ==
  /\ Loading /\ ~firstTick
  /\ firstTick' = TRUE
  /\ click' = NoClick
  /\ UNCHANGED <<open, settings, ready, loadingMusic, loadingSound,
                 progressMusic, progressSound, column, src, music, gesture,
                 game, synth, voice>>

(***************************************************************************)
(* CPlayer.generate(): the channel mCurrentCol is played into the mix.     *)
(* What it returns is at least 1 when no channel is left.                  *)
(***************************************************************************)
HasChannel(p) == column[p] < Channels[p]
Generated(board) ==
  [p \in Players |-> IF p \in board THEN column[p] + 1 ELSE column[p]]
\* Done if what generate() returns were compared with > 1.
Done_Beyond(p) == column'[p] > Channels[p]

Done(p) == column'[p] >= Channels[p]

\* Waves if createWave() were called whatever generate() returns.
Waves_EachCall(board) ==
  [p \in Players |-> IF p \in board THEN column'[p] ELSE src[p]]

\* createWave() of the players that are done: the mix, as it stands.
Waves(board) ==
  [p \in Players |-> IF p \in board /\ Done(p) THEN column'[p] ELSE src[p]]
Finished(board) == Cardinality({p \in board : Done(p)})

generateMusic ==
  /\ Loading /\ firstTick /\ loadingMusic
  /\ \A p \in Tracks : HasChannel(p)
  /\ column' = Generated(Tracks)
  /\ src' = Waves(Tracks)
  /\ progressMusic' = progressMusic + Finished(Tracks)
  /\ loadingMusic' = ~(progressMusic' >= Cardinality(Tracks))
  /\ click' = NoClick
  /\ UNCHANGED <<open, settings, firstTick, ready, loadingSound, progressSound,
                 music, gesture, game, synth, voice>>

generateSound ==
  /\ Loading /\ firstTick /\ ~loadingMusic /\ loadingSound
  /\ \A p \in Sounds : HasChannel(p)
  /\ column' = Generated(Sounds)
  /\ src' = Waves(Sounds)
  /\ progressSound' = progressSound + Finished(Sounds)
  /\ loadingSound' = ~(progressSound' >= Cardinality(Sounds))
  /\ click' = NoClick
  /\ UNCHANGED <<open, settings, firstTick, ready, loadingMusic, progressMusic,
                 music, gesture, game, synth, voice>>

\* Title without the click that plays the music again.
Title_NoFallback ==
  /\ Loading /\ firstTick /\ ~loadingMusic /\ ~loadingSound
  /\ ready' = TRUE
  /\ IF ready THEN UNCHANGED <<voice, music>>
     ELSE speak("welcome", FALSE) /\ musicLoop(enabled["music"], gesture)
  /\ game' = (click = "start")
  /\ click' = NoClick
  /\ UNCHANGED <<open, settings, firstTick, loadingMusic, loadingSound,
                 progressMusic, progressSound, column, src, gesture, synth>>

(***************************************************************************)
(* The title: the first time, the music and a welcome; at each click, the  *)
(* music again (musSpace.pause is a method, hence always true); and a      *)
(* click on the start area starts a game.                                  *)
(***************************************************************************)
Title ==
  /\ Loading /\ firstTick /\ ~loadingMusic /\ ~loadingSound
  /\ ready' = TRUE
  /\ IF ready THEN UNCHANGED voice ELSE speak("welcome", FALSE)
  /\ IF ~ready \/ click # NoClick THEN musicLoop(enabled["music"], gesture)
     ELSE UNCHANGED music
  /\ game' = (click = "start")
  /\ click' = NoClick
  /\ UNCHANGED <<open, settings, firstTick, loadingMusic, loadingSound,
                 progressMusic, progressSound, column, src, gesture, synth>>

\* The music has come to its end: its listener starts it again.
MusicEnds ==
  /\ open /\ playing /\ \E p \in Tracks : src[p] # 0
  /\ IF listeners > 0 THEN musicLoop(enabled["music"], gesture)
     ELSE playing' = FALSE /\ UNCHANGED listeners
  /\ UNCHANGED <<open, settings, loading, gesture, click, game, synth, voice>>

\* What loadingscreen.js draws under the title.
Screen ==
  IF loadingMusic THEN "Loading music..."
  ELSE IF loadingSound THEN "Loading sounds..." ELSE "click here to play!"

-----------------------------------------------------------------------------
(* The game, as far as this module sees it.                                *)

\* Gui.update(): a subtitle whose time is 0 goes, the others, in the order they
\* were, lose one.
GuiUpdate ==
  /\ open /\ game
  /\ LET left == {i \in DOMAIN subtitles : subtitles[i] > 0} IN
     \E kept \in [1 .. Cardinality(left) -> left] :
       /\ \A i, j \in DOMAIN kept : i < j => kept[i] < kept[j]
       /\ subtitles' = [i \in DOMAIN kept |-> subtitles[kept[i]] - 1]
  /\ click' = NoClick
  /\ UNCHANGED <<open, settings, loading, music, gesture, game, synth, queue>>

\* The game speaks: a name, a wave, or a mission, which is shown elsewhere.
Announce(text, suppress) ==
  /\ open /\ game
  /\ suppress \/ Len(subtitles) < MaxSubtitles
  /\ speak(text, suppress)
  /\ UNCHANGED <<open, settings, loading, music, gesture, click, game, synth>>

UtteranceEnds ==
  /\ open /\ queue # << >>
  /\ queue' = Tail(queue)
  /\ UNCHANGED <<open, settings, loading, music, gesture, click, game, synth,
                 subtitles>>

\* The last mission turns the tutorial off for the next time.
TutorialEnds ==
  /\ open /\ game
  /\ Set("tutorial", FALSE)
  /\ UNCHANGED <<open, enabled, loading, music, gesture, click, game, synth,
                 voice>>

\* The base is lost: the loading screen is back, everything loaded.
GameOver ==
  /\ open /\ game
  /\ game' = FALSE
  /\ UNCHANGED <<open, settings, loading, music, gesture, click, synth, voice>>

-----------------------------------------------------------------------------
Init ==
  /\ open = FALSE
  /\ store = [k \in Keys |-> "absent"]
  /\ enabled = [k \in Keys |-> FALSE]
  /\ wanted = [k \in Keys |-> TRUE]
  /\ firstTick = FALSE /\ ready = FALSE
  /\ loadingMusic = TRUE /\ loadingSound = TRUE
  /\ progressMusic = 0 /\ progressSound = 0
  /\ column = [p \in Players |-> 0]
  /\ src = [p \in Players |-> 0]
  /\ listeners = 0 /\ playing = FALSE
  /\ gesture = FALSE /\ click = NoClick /\ game = FALSE /\ synth = FALSE
  /\ queue = << >> /\ subtitles = << >>

LoadingTick == FirstTick \/ generateMusic \/ generateSound \/ Title

Next ==
  \/ \E failed \in SUBSET Keys : Open(failed)
  \/ Close
  \/ \E k \in Keys : Toggle(k)
  \/ \E where \in {"elsewhere", "start"} : MouseDown(where)
  \/ KeyDown
  \/ LoadingTick
  \/ MusicEnds
  \/ GuiUpdate
  \/ \E text \in Texts, suppress \in BOOLEAN : Announce(text, suppress)
  \/ UtteranceEnds
  \/ TutorialEnds
  \/ GameOver

(***************************************************************************)
(* The browser calls frame() again before each repaint, and frame() asks   *)
(* for the next call first thing: ticks go on while the page is shown.     *)
(***************************************************************************)
Spec == Init /\ [][Next]_vars /\ WF_vars(LoadingTick)

-----------------------------------------------------------------------------
\* What plays is what the "music" box says: nothing plays once it is
\* unchecked (music.js:93), and every game has its music when it is checked,
\* even where the browser refused it before the first click
\* (loadingscreen.js:27).
MusicAsSet ==
  /\ playing => enabled["music"]
  /\ open /\ game /\ enabled["music"] => playing

\* A wave is made of the whole song, once all its channels are in the mix,
\* and a screen that asks for a click has a wave for every player (music.js:47,
\* 65, loadingscreen.js:53).
WaveIsWhole ==
  /\ \A p \in Players : src[p] \in {0, Channels[p]}
  /\ open /\ Screen = "click here to play!" => \A p \in Players : src[p] # 0

\* What is said is one text: a new one cancels the sentences of the last
\* (speech.js:34).
OneVoice == \A i, j \in DOMAIN queue : queue[i] = queue[j]

\* What is heard is what the settings and the last text ask for (music.js:77-96,
\* speech.js:24-45).
HeardAsAsked == MusicAsSet /\ OneVoice

\* A page that opens has every setting as it was last stored, by a click or
\* by the end of the tutorial, in whatever page that was, unless
\* localStorage cannot be read (Settings.js:38).
SettingsSurvive ==
  [][\A failed \in SUBSET Keys :
       Open(failed) =>
         \A k \in Keys \ failed : enabled'[k] = wanted[k]]_vars

\* A page that stays open ends its loading (loadingscreen.js:15-18).
Loaded == open ~> (ready \/ ~open)
=============================================================================
