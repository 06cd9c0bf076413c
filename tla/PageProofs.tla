----------------------------- MODULE PageProofs -----------------------------
(***************************************************************************)
(* Proofs about Page, for any settings, boards, songs and texts: waves are *)
(* whole, what is heard is what the settings ask for, and a page that      *)
(* opens finds them as they were left.                                     *)
(***************************************************************************)
EXTENDS Page, FiniteSetTheorems, TLAPS

(***************************************************************************)
(* The inductive invariant.                                                *)
(***************************************************************************)

\* The types of what the properties rest on.
Types ==
  /\ store \in [Keys -> {"absent", "true", "false"}]
  /\ enabled \in [Keys -> BOOLEAN]
  /\ wanted \in [Keys -> BOOLEAN]
  /\ column \in [Players -> Nat]
  /\ src \in [Players -> Nat]
  /\ listeners \in Nat /\ playing \in BOOLEAN
  /\ queue \in Seq(Texts)

\* The other types.
Flags ==
  /\ open \in BOOLEAN /\ gesture \in BOOLEAN /\ synth \in BOOLEAN
  /\ firstTick \in BOOLEAN /\ ready \in BOOLEAN /\ game \in BOOLEAN
  /\ click \in {NoClick, "elsewhere", "start"}
Progress ==
  /\ loadingMusic \in BOOLEAN /\ loadingSound \in BOOLEAN
  /\ progressMusic \in Nat /\ progressSound \in Nat
Shown == subtitles \in Seq(0 .. SubtitleTime)

\* A wave is made when the last channel of its player is in the mix.
WaveInv ==
  \A p \in Players :
    /\ column[p] <= Channels[p]
    /\ src[p] = IF column[p] = Channels[p] THEN Channels[p] ELSE 0

\* The players of a board go on together, and end together: those of the music
\* first, then those of the sounds.
BoardInv ==
  /\ \A p, q \in Tracks : column[p] = column[q]
  /\ loadingMusic => progressMusic = 0
  /\ ~loadingMusic => \A p \in Tracks : column[p] = Channels[p]
  /\ \A p, q \in Sounds \ Tracks : column[p] = column[q]
  /\ loadingSound => progressSound = 0
  /\ ~loadingSound => ~loadingMusic /\ \A p \in Sounds : column[p] = Channels[p]

\* The music plays with a listener, and a click is a gesture.
MusicInv ==
  /\ MusicAsSet
  /\ playing => listeners > 0
  /\ open /\ click # NoClick => gesture

\* What localStorage holds is what was last stored in it.
StoreInv ==
  \A k \in Keys :
    IF store[k] = "absent" THEN wanted[k] ELSE store[k] = Written(wanted[k])

IInv ==
  /\ Types /\ Flags /\ Progress /\ Shown
  /\ WaveInv /\ BoardInv /\ MusicInv /\ OneVoice /\ StoreInv

-----------------------------------------------------------------------------
(***************************************************************************)
(* Lemmas on the operators.                                                *)
(***************************************************************************)

\* A function on 1 .. n is a sequence.
LEMMA Tabled ==
  ASSUME NEW S, NEW n \in Nat, NEW f \in [1 .. n -> S]
  PROVE  f \in Seq(S)
OBVIOUS

\* musicLoop(): it plays what it is told to, where the browser lets it.
LEMMA PlaysAsTold ==
  ASSUME listeners \in Nat, playing \in BOOLEAN, NEW on \in BOOLEAN,
         NEW acted, musicLoop(on, acted)
  PROVE  /\ listeners' \in Nat /\ playing' \in BOOLEAN
         /\ playing' => on
         /\ on => listeners' > 0
         /\ on /\ (acted \/ playing) => playing'
<1>1. CASE on
  <2>1. listeners' = IF listeners = 0 THEN 1 ELSE listeners
    BY <1>1 DEF musicLoop
  <2>2. PICK allowed \in Allowed(acted) : playing' = (playing \/ allowed)
    BY <1>1 DEF musicLoop
  <2>3. acted \/ playing => playing'
    BY <2>2, Zenon DEF Allowed
  <2>4. playing' \in BOOLEAN
    BY <2>2, Zenon
  <2>5. listeners' \in Nat /\ listeners' > 0
    BY <2>1
  <2>6. QED
    BY <1>1, <2>3, <2>4, <2>5
<1>2. CASE ~on
  BY <1>2 DEF musicLoop
<1>3. QED
  BY <1>1, <1>2

\* speak(): the utterances are those of one text.
LEMMA SpeaksOneText ==
  ASSUME queue \in Seq(Texts), OneVoice, NEW text \in Texts, NEW suppress,
         speak(text, suppress)
  PROVE  queue' \in Seq(Texts) /\ OneVoice'
<1>1. CASE queue' = queue
  BY <1>1 DEF OneVoice
<1>2. CASE queue' = [i \in 1 .. Sentences[text] |-> text]
  <2>1. Sentences[text] \in Nat
    BY PageAssumption
  <2>2. queue' \in Seq(Texts)
    BY <1>2, <2>1
  <2>3. \A i \in DOMAIN queue' : queue'[i] = text
    BY <1>2
  <2>4. QED
    BY <2>2, <2>3 DEF OneVoice
<1>3. QED
  BY <1>1, <1>2 DEF speak

\* Set(): what is stored is what was wanted, or nothing changes.
LEMMA StoresWanted ==
  ASSUME Types, StoreInv, NEW k \in Keys, NEW value \in BOOLEAN, Set(k, value)
  PROVE  /\ store' \in [Keys -> {"absent", "true", "false"}]
         /\ wanted' \in [Keys -> BOOLEAN]
         /\ StoreInv'
<1>1. CASE UNCHANGED <<store, wanted>>
  BY <1>1 DEF Types, StoreInv
<1>2. CASE /\ store' = [store EXCEPT ![k] = Written(value)]
           /\ wanted' = [wanted EXCEPT ![k] = value]
  <2>1. Written(value) \in {"true", "false"}
    BY DEF Written
  <2>2. /\ store' \in [Keys -> {"absent", "true", "false"}]
        /\ wanted' \in [Keys -> BOOLEAN]
    BY <1>2, <2>1 DEF Types
  <2>3. ASSUME NEW j \in Keys
        PROVE  IF store'[j] = "absent" THEN wanted'[j]
                                       ELSE store'[j] = Written(wanted'[j])
    BY <1>2, <2>1 DEF Types, StoreInv
  <2>4. QED
    BY <2>2, <2>3 DEF StoreInv
<1>3. QED
  BY <1>1, <1>2 DEF Set

\* The boards: finite, and of equal songs.
LEMMA Boards ==
  /\ IsFiniteSet(Tracks) /\ Cardinality(Tracks) \in Nat \ {0}
  /\ IsFiniteSet(Sounds) /\ Cardinality(Sounds) \in Nat \ {0}
<1>1. IsFiniteSet(Tracks) /\ IsFiniteSet(Sounds)
  BY PageAssumption, FS_Subset DEF Players
<1>2. QED
  BY <1>1, PageAssumption, FS_CardinalityType, FS_EmptySet

\* A tick of the loading screen makes all the waves of a board, or none.
LEMMA AllOrNone ==
  ASSUME NEW board, board \in {Tracks, Sounds},
         \A p, q \in board : Done(p) <=> Done(q)
  PROVE  \/ (\A p \in board : Done(p)) /\ Finished(board) = Cardinality(board)
         \/ (\A p \in board : ~Done(p)) /\ Finished(board) = 0
<1>1. CASE \A p \in board : Done(p)
  <2>1. {p \in board : Done(p)} = board
    BY <1>1
  <2>2. QED
    BY <1>1, <2>1 DEF Finished
<1>2. CASE \A p \in board : ~Done(p)
  <2>1. {p \in board : Done(p)} = {}
    BY <1>2
  <2>2. QED
    BY <1>2, <2>1, FS_EmptySet DEF Finished
<1>3. QED
  BY <1>1, <1>2

-----------------------------------------------------------------------------
(***************************************************************************)
(* One lemma for each part of the invariant.                               *)
(***************************************************************************)

\* A tick that generates a board.
LEMMA BoardTick ==
  ASSUME Types, WaveInv, NEW board, board \in {Tracks, Sounds},
         \A p \in board : HasChannel(p),
         column' = Generated(board), src' = Waves(board)
  PROVE  /\ column' \in [Players -> Nat] /\ src' \in [Players -> Nat]
         /\ WaveInv'
         /\ \A p \in board : /\ column'[p] = column[p] + 1
                             /\ (Done(p) <=> column'[p] = Channels[p])
         /\ \A p \in Players \ board : column'[p] = column[p]
<1>1. board \subseteq Players
  BY DEF Players
<1>2. ASSUME NEW p \in Players
      PROVE  /\ column[p] \in Nat /\ src[p] \in Nat
             /\ Channels[p] \in Nat /\ Channels[p] > 0
             /\ column[p] <= Channels[p]
             /\ src[p] = IF column[p] = Channels[p] THEN Channels[p] ELSE 0
  BY PageAssumption DEF Types, WaveInv
<1>3. ASSUME NEW p \in board
      PROVE  /\ column'[p] = column[p] + 1 /\ column'[p] \in Nat
             /\ column'[p] <= Channels[p]
             /\ (Done(p) <=> column'[p] = Channels[p])
             /\ src[p] = 0
  <2>1. column[p] < Channels[p] /\ column'[p] = column[p] + 1
    BY <1>1, <1>3 DEF HasChannel, Generated
  <2>2. QED
    BY <1>1, <1>2, <2>1 DEF Done
<1>4. ASSUME NEW p \in Players \ board
      PROVE  column'[p] = column[p] /\ src'[p] = src[p]
  BY <1>4 DEF Generated, Waves
<1>5. ASSUME NEW p \in board
      PROVE  src'[p] = IF column'[p] = Channels[p] THEN Channels[p] ELSE 0
  <2>1. src'[p] = IF Done(p) THEN column'[p] ELSE src[p]
    BY <1>1 DEF Waves
  <2>2. QED
    BY <1>3, <2>1
<1>6. ASSUME NEW p \in Players
      PROVE  /\ column'[p] \in Nat /\ src'[p] \in Nat
             /\ column'[p] <= Channels[p]
             /\ src'[p] = IF column'[p] = Channels[p] THEN Channels[p] ELSE 0
  <2>1. CASE p \in board
    BY <1>2, <1>3, <1>5, <2>1
  <2>2. CASE p \notin board
    BY <1>2, <1>4, <2>2
  <2>3. QED
    BY <2>1, <2>2
<1>7. column' \in [Players -> Nat] /\ src' \in [Players -> Nat]
  <2>1. DOMAIN column' = Players /\ column' = [p \in Players |-> column'[p]]
    BY DEF Generated
  <2>2. src' = [p \in Players |-> src'[p]]
    BY DEF Waves
  <2>3. QED
    BY <1>6, <2>1, <2>2
<1>8. QED
  BY <1>3, <1>4, <1>6, <1>7 DEF WaveInv

\* The loading: no other step touches the players.
LEMMA LoadStep ==
  ASSUME Types, WaveInv, BoardInv, [Next]_vars
  PROVE  /\ column' \in [Players -> Nat] /\ src' \in [Players -> Nat]
         /\ WaveInv' /\ BoardInv'
<1>1. ASSUME NEW failed, Open(failed)
      PROVE  /\ column' \in [Players -> Nat] /\ src' \in [Players -> Nat]
             /\ WaveInv' /\ BoardInv'
  <2>1. /\ loadingMusic' /\ loadingSound' /\ progressMusic' = 0
        /\ progressSound' = 0 /\ column' = [p \in Players |-> 0]
        /\ src' = [p \in Players |-> 0]
    BY <1>1 DEF Open, Scripts
  <2>2. \A p \in Players : Channels[p] \in Nat /\ Channels[p] > 0
    BY PageAssumption
  <2>3. WaveInv'
    BY <2>1, <2>2 DEF WaveInv
  <2>4. BoardInv'
    BY <2>1 DEF BoardInv, Players
  <2>5. QED
    BY <2>1, <2>3, <2>4
<1>2. CASE generateMusic
  <2>1. /\ loadingMusic /\ \A p \in Tracks : HasChannel(p)
        /\ column' = Generated(Tracks) /\ src' = Waves(Tracks)
        /\ progressMusic' = progressMusic + Finished(Tracks)
        /\ loadingMusic' = ~(progressMusic' >= Cardinality(Tracks))
        /\ loadingSound' = loadingSound /\ progressSound' = progressSound
    BY <1>2 DEF generateMusic
  <2>2. /\ column' \in [Players -> Nat] /\ src' \in [Players -> Nat]
        /\ WaveInv'
        /\ \A p \in Tracks : /\ column'[p] = column[p] + 1
                             /\ (Done(p) <=> column'[p] = Channels[p])
        /\ \A p \in Players \ Tracks : column'[p] = column[p]
    BY <2>1, BoardTick
  <2>3. \A p, q \in Tracks : /\ column'[p] = column'[q]
                             /\ (Done(p) <=> Done(q))
    BY <2>2, PageAssumption DEF BoardInv
  <2>4. progressMusic = 0 /\ loadingSound
    BY <2>1 DEF BoardInv
  <2>5. \A p, q \in Sounds \ Tracks : column'[p] = column'[q]
    BY <2>2 DEF BoardInv, Players
  <2>6. CASE (\A p \in Tracks : Done(p)) /\ Finished(Tracks) = Cardinality(Tracks)
    <3>1. ~loadingMusic' /\ \A p \in Tracks : column'[p] = Channels[p]
      <4>1. progressMusic' >= Cardinality(Tracks)
        BY <2>1, <2>4, <2>6, Boards
      <4>2. ~loadingMusic'
        BY <2>1, <4>1, Zenon
      <4>3. QED
        BY <2>2, <2>6, <4>2
    <3>2. BoardInv'
      BY <2>1, <2>3, <2>4, <2>5, <3>1 DEF BoardInv
    <3>3. QED
      BY <2>2, <3>2
  <2>7. CASE (\A p \in Tracks : ~Done(p)) /\ Finished(Tracks) = 0
    <3>1. loadingMusic' /\ progressMusic' = 0
      <4>1. progressMusic' = 0 /\ ~(progressMusic' >= Cardinality(Tracks))
        BY <2>1, <2>4, <2>7, Boards
      <4>2. QED
        BY <2>1, <4>1, Zenon
    <3>2. BoardInv'
      BY <2>1, <2>3, <2>4, <2>5, <3>1 DEF BoardInv
    <3>3. QED
      BY <2>2, <3>2
  <2>8. QED
    BY <2>3, <2>6, <2>7, AllOrNone
<1>3. CASE generateSound
  <2>1. /\ ~loadingMusic /\ loadingSound /\ \A p \in Sounds : HasChannel(p)
        /\ column' = Generated(Sounds) /\ src' = Waves(Sounds)
        /\ progressSound' = progressSound + Finished(Sounds)
        /\ loadingSound' = ~(progressSound' >= Cardinality(Sounds))
        /\ loadingMusic' = loadingMusic /\ progressMusic' = progressMusic
    BY <1>3 DEF generateSound
  <2>2. /\ column' \in [Players -> Nat] /\ src' \in [Players -> Nat]
        /\ WaveInv'
        /\ \A p \in Sounds : /\ column'[p] = column[p] + 1
                             /\ (Done(p) <=> column'[p] = Channels[p])
        /\ \A p \in Players \ Sounds : column'[p] = column[p]
    BY <2>1, BoardTick
  <2>3. \A p \in Tracks : p \notin Sounds
    <3> SUFFICES ASSUME NEW p \in Tracks, p \in Sounds PROVE FALSE
      OBVIOUS
    <3>1. column[p] = Channels[p] /\ column[p] < Channels[p]
      BY <2>1 DEF BoardInv, HasChannel
    <3>2. column[p] \in Nat
      BY DEF Types, Players
    <3>3. QED
      BY <3>1, <3>2
  <2>4. \A p, q \in Sounds : /\ column'[p] = column'[q]
                             /\ (Done(p) <=> Done(q))
    BY <2>2, <2>3, PageAssumption DEF BoardInv
  <2>5. \A p \in Tracks : column'[p] = column[p]
    BY <2>2, <2>3 DEF Players
  <2>6. progressSound = 0
    BY <2>1 DEF BoardInv
  <2>7. CASE (\A p \in Sounds : Done(p)) /\ Finished(Sounds) = Cardinality(Sounds)
    <3>1. ~loadingSound' /\ \A p \in Sounds : column'[p] = Channels[p]
      <4>1. progressSound' >= Cardinality(Sounds)
        BY <2>1, <2>6, <2>7, Boards
      <4>2. ~loadingSound'
        BY <2>1, <4>1, Zenon
      <4>3. QED
        BY <2>2, <2>7, <4>2
    <3>2. BoardInv'
      BY <2>1, <2>4, <2>5, <3>1 DEF BoardInv
    <3>3. QED
      BY <2>2, <3>2
  <2>8. CASE (\A p \in Sounds : ~Done(p)) /\ Finished(Sounds) = 0
    <3>1. loadingSound' /\ progressSound' = 0
      <4>1. progressSound' = 0 /\ ~(progressSound' >= Cardinality(Sounds))
        BY <2>1, <2>6, <2>8, Boards
      <4>2. QED
        BY <2>1, <4>1, Zenon
    <3>2. BoardInv'
      BY <2>1, <2>4, <2>5, <3>1 DEF BoardInv
    <3>3. QED
      BY <2>2, <3>2
  <2>9. QED
    BY <2>4, <2>7, <2>8, AllOrNone
<1>4. ASSUME UNCHANGED <<loadingMusic, loadingSound, progressMusic, progressSound,
                         column, src>>
      PROVE  /\ column' \in [Players -> Nat] /\ src' \in [Players -> Nat]
             /\ WaveInv' /\ BoardInv'
  BY <1>4 DEF Types, WaveInv, BoardInv
<1>5. CASE FirstTick \/ Title
  BY <1>4, <1>5 DEF FirstTick, Title
<1>6. CASE \/ Close \/ KeyDown \/ MusicEnds \/ GuiUpdate \/ UtteranceEnds
           \/ TutorialEnds \/ GameOver \/ UNCHANGED vars
  BY <1>4, <1>6
     DEF Close, KeyDown, MusicEnds, GuiUpdate, UtteranceEnds, TutorialEnds,
         GameOver, vars, loading
<1>7. ASSUME NEW k, Toggle(k) PROVE UNCHANGED loading
  BY <1>7 DEF Toggle
<1>8. ASSUME NEW w, MouseDown(w) PROVE UNCHANGED loading
  BY <1>8 DEF MouseDown
<1>9. ASSUME NEW t, NEW u, Announce(t, u) PROVE UNCHANGED loading
  BY <1>9 DEF Announce
<1>10. QED
  BY <1>1, <1>2, <1>3, <1>4, <1>5, <1>6, <1>7, <1>8, <1>9
     DEF Next, LoadingTick, loading

\* The voice: only speak() and the end of an utterance change what is said.
LEMMA VoiceStep ==
  ASSUME Types, OneVoice, [Next]_vars
  PROVE  queue' \in Seq(Texts) /\ OneVoice'
<1>1. queue \in Seq(Texts)
  BY DEF Types
<1>2. ASSUME queue' = queue \/ queue' = << >>
      PROVE  queue' \in Seq(Texts) /\ OneVoice'
  <2>1. CASE queue' = queue
    BY <1>1, <2>1 DEF OneVoice
  <2>2. CASE queue' = << >>
    <3>1. << >> \in Seq(Texts) /\ DOMAIN << >> = 1 .. 0
      OBVIOUS
    <3>2. queue' \in Seq(Texts) /\ \A i \in DOMAIN queue' : FALSE
      BY <2>2, <3>1
    <3>3. QED
      BY <3>2 DEF OneVoice
  <2>3. QED
    BY <1>2, <2>1, <2>2
<1>3. CASE UtteranceEnds
  <2>1. queue # << >> /\ queue' = Tail(queue)
    BY <1>3 DEF UtteranceEnds
  <2>2. queue' \in Seq(Texts)
    BY <1>1, <2>1
  <2>3. \A i \in DOMAIN queue' : i + 1 \in DOMAIN queue /\ queue'[i] = queue[i + 1]
    BY <1>1, <2>1
  <2>4. QED
    BY <2>2, <2>3 DEF OneVoice
<1>4. CASE Title
  <2>1. CASE ready
    BY <1>2, <1>4, <2>1 DEF Title, voice
  <2>2. CASE ~ready
    <3>1. speak("welcome", FALSE) /\ "welcome" \in Texts
      BY <1>4, <2>2, PageAssumption DEF Title
    <3>2. QED
      BY <1>1, <3>1, SpeaksOneText
  <2>3. QED
    BY <2>1, <2>2
<1>5. ASSUME NEW text \in Texts, NEW suppress, Announce(text, suppress)
      PROVE  queue' \in Seq(Texts) /\ OneVoice'
  <2>1. speak(text, suppress)
    BY <1>5 DEF Announce
  <2>2. QED
    BY <1>1, <2>1, SpeaksOneText
<1>6. ASSUME NEW failed, Open(failed) PROVE queue' = << >>
  BY <1>6 DEF Open, Scripts
<1>7. ASSUME NEW k, Toggle(k) PROVE queue' = queue
  BY <1>7 DEF Toggle, voice
<1>8. ASSUME NEW w, MouseDown(w) PROVE queue' = queue
  BY <1>8 DEF MouseDown, voice
<1>9. CASE \/ Close \/ KeyDown \/ FirstTick \/ generateMusic \/ generateSound
           \/ MusicEnds \/ GuiUpdate \/ TutorialEnds \/ GameOver
           \/ UNCHANGED vars
  BY <1>2, <1>9
     DEF Close, KeyDown, FirstTick, generateMusic, generateSound, MusicEnds,
         GuiUpdate, TutorialEnds, GameOver, vars, voice
<1>10. QED
  BY <1>2, <1>3, <1>4, <1>5, <1>6, <1>7, <1>8, <1>9 DEF Next, LoadingTick

\* The settings and what localStorage holds of them.
LEMMA StoreStep ==
  ASSUME Types, StoreInv, [Next]_vars
  PROVE  /\ store' \in [Keys -> {"absent", "true", "false"}]
         /\ enabled' \in [Keys -> BOOLEAN]
         /\ wanted' \in [Keys -> BOOLEAN]
         /\ StoreInv'
<1>1. ASSUME UNCHANGED <<store, wanted>>
      PROVE  /\ store' \in [Keys -> {"absent", "true", "false"}]
             /\ wanted' \in [Keys -> BOOLEAN]
             /\ StoreInv'
  BY <1>1 DEF Types, StoreInv
<1>2. enabled \in [Keys -> BOOLEAN]
  BY DEF Types
<1>3. ASSUME NEW failed, Open(failed)
      PROVE  UNCHANGED <<store, wanted>> /\ enabled' \in [Keys -> BOOLEAN]
  <2>1. \A k : Checked(k, failed) \in BOOLEAN
    BY DEF Checked
  <2>2. enabled' = [k \in Keys |-> Checked(k, failed)] /\ UNCHANGED <<store, wanted>>
    BY <1>3 DEF Open
  <2>3. QED
    BY <2>1, <2>2
<1>4. ASSUME NEW k \in Keys, Toggle(k)
      PROVE  Set(k, ~enabled[k]) /\ enabled' \in [Keys -> BOOLEAN]
  <2>1. enabled' = [enabled EXCEPT ![k] = ~enabled[k]] /\ Set(k, ~enabled[k])
    BY <1>4 DEF Toggle
  <2>2. (~enabled[k]) \in BOOLEAN
    OBVIOUS
  <2>3. QED
    BY <1>2, <2>1, <2>2, Zenon
<1>5. CASE \E k \in Keys : Toggle(k)
  <2>1. PICK k \in Keys : Toggle(k)
    BY <1>5
  <2>2. (~enabled[k]) \in BOOLEAN
    OBVIOUS
  <2>3. QED
    BY <1>4, <2>1, <2>2, StoresWanted
<1>6. CASE TutorialEnds
  <2>1. Set("tutorial", FALSE) /\ enabled' = enabled /\ "tutorial" \in Keys
    BY <1>6, PageAssumption DEF TutorialEnds
  <2>2. QED
    BY <1>2, <2>1, StoresWanted
<1>7. ASSUME UNCHANGED settings
      PROVE  UNCHANGED <<store, wanted>> /\ enabled' \in [Keys -> BOOLEAN]
  BY <1>2, <1>7 DEF settings
<1>8. ASSUME NEW w, MouseDown(w) PROVE UNCHANGED settings
  BY <1>8 DEF MouseDown
<1>9. ASSUME NEW t, NEW u, Announce(t, u) PROVE UNCHANGED settings
  BY <1>9 DEF Announce
<1>10. ASSUME \/ Close \/ KeyDown \/ LoadingTick \/ MusicEnds \/ GuiUpdate
              \/ UtteranceEnds \/ GameOver \/ UNCHANGED vars
       PROVE  UNCHANGED settings
  BY <1>10
     DEF Close, KeyDown, LoadingTick, FirstTick, generateMusic, generateSound,
         Title, MusicEnds, GuiUpdate, UtteranceEnds, GameOver, vars
<1>11. QED
  BY <1>1, <1>3, <1>5, <1>6, <1>7, <1>8, <1>9, <1>10 DEF Next

\* The music: where musicLoop() is called, it follows the box; elsewhere
\* neither the music nor the box changes.
LEMMA MusicStep ==
  ASSUME Types, MusicInv, enabled' \in [Keys -> BOOLEAN], [Next]_vars
  PROVE  listeners' \in Nat /\ playing' \in BOOLEAN /\ MusicInv'
<1> DEFINE Kept == listeners' \in Nat /\ playing' \in BOOLEAN /\ MusicInv'
<1>1. /\ listeners \in Nat /\ playing \in BOOLEAN
      /\ "music" \in Keys
      /\ enabled["music"] \in BOOLEAN /\ enabled'["music"] \in BOOLEAN
  BY PageAssumption DEF Types
<1>2. /\ playing => enabled["music"] /\ listeners > 0
      /\ open /\ game /\ enabled["music"] => playing
      /\ open /\ click # NoClick => gesture
  BY DEF MusicInv, MusicAsSet
<1>3. ASSUME UNCHANGED <<listeners, playing>>,
             enabled'["music"] = enabled["music"],
             open' /\ game' => open /\ game,
             open' /\ click' # NoClick => gesture'
      PROVE  Kept
  BY <1>1, <1>2, <1>3 DEF MusicInv, MusicAsSet
<1>4. ASSUME listeners' = 0, playing' = FALSE, game' = FALSE, click' = NoClick
      PROVE  Kept
  BY <1>4 DEF MusicInv, MusicAsSet
<1>5. ASSUME NEW failed, Open(failed) PROVE Kept
  BY <1>4, <1>5 DEF Open, Scripts
<1>6. CASE Close
  <2>1. open' = FALSE /\ playing' = FALSE /\ listeners' = listeners
    BY <1>6 DEF Close
  <2>2. QED
    BY <1>1, <2>1 DEF MusicInv, MusicAsSet
<1>7. ASSUME NEW k \in Keys, Toggle(k) PROVE Kept
  <2>1. open' = open /\ game' = game /\ click' = click /\ gesture' = TRUE
    BY <1>7 DEF Toggle
  <2>2. CASE k = "music"
    <3>1. musicLoop(enabled'["music"], TRUE)
      BY <1>7, <2>2 DEF Toggle
    <3>2. /\ listeners' \in Nat /\ playing' \in BOOLEAN
          /\ playing' => enabled'["music"]
          /\ enabled'["music"] => listeners' > 0 /\ playing'
      BY <1>1, <3>1, PlaysAsTold
    <3>3. QED
      BY <2>1, <3>2 DEF MusicInv, MusicAsSet
  <2>3. CASE k # "music"
    <3>1. /\ UNCHANGED <<listeners, playing>>
          /\ enabled' = [enabled EXCEPT ![k] = ~enabled[k]]
      BY <1>7, <2>3 DEF Toggle, music
    <3>2. enabled'["music"] = enabled["music"]
      BY <1>1, <2>3, <3>1 DEF Types
    <3>3. QED
      BY <1>3, <2>1, <3>1, <3>2
  <2>4. QED
    BY <2>2, <2>3
<1>8. ASSUME NEW w, MouseDown(w) PROVE Kept
  BY <1>3, <1>8 DEF MouseDown, settings, music
<1>9. CASE KeyDown
  BY <1>3, <1>9 DEF KeyDown, settings, music
<1>10. CASE Title
  <2>1. /\ open /\ game' = (click = "start") /\ click' = NoClick
        /\ open' = open /\ enabled' = enabled /\ gesture' = gesture
    BY <1>10 DEF Title, Loading, settings
  <2>2. CASE ~ready \/ click # NoClick
    <3>1. musicLoop(enabled["music"], gesture)
      BY <1>10, <2>2 DEF Title
    <3>2. /\ listeners' \in Nat /\ playing' \in BOOLEAN
          /\ playing' => enabled["music"]
          /\ enabled["music"] => listeners' > 0
          /\ enabled["music"] /\ gesture => playing'
      BY <1>1, <3>1, PlaysAsTold
    <3>3. game' => gesture
      BY <1>2, <2>1 DEF NoClick
    <3>4. QED
      BY <2>1, <3>2, <3>3 DEF MusicInv, MusicAsSet
  <2>3. CASE ~(~ready \/ click # NoClick)
    <3>1. UNCHANGED <<listeners, playing>>
      BY <1>10, <2>3 DEF Title, music
    <3>2. ~game'
      BY <2>1, <2>3 DEF NoClick
    <3>3. QED
      BY <1>3, <2>1, <3>1, <3>2
  <2>4. QED
    BY <2>2, <2>3
<1>11. CASE MusicEnds
  <2>1. /\ listeners > 0 /\ playing
        /\ open' = open /\ game' = game /\ enabled' = enabled
        /\ click' = click /\ gesture' = gesture
    BY <1>2, <1>11 DEF MusicEnds, settings
  <2>2. musicLoop(enabled["music"], gesture)
    BY <1>11, <2>1 DEF MusicEnds
  <2>3. /\ listeners' \in Nat /\ playing' \in BOOLEAN
        /\ playing' => enabled["music"]
        /\ enabled["music"] => listeners' > 0 /\ playing'
    BY <1>1, <2>1, <2>2, PlaysAsTold
  <2>4. QED
    BY <1>2, <2>1, <2>3 DEF MusicInv, MusicAsSet
<1>12. CASE FirstTick \/ generateMusic \/ generateSound \/ GuiUpdate
  BY <1>3, <1>12
     DEF FirstTick, generateMusic, generateSound, GuiUpdate, settings, music
<1>13. ASSUME NEW t, NEW u, Announce(t, u) PROVE Kept
  BY <1>2, <1>3, <1>13 DEF Announce, settings, music
<1>14. CASE UtteranceEnds \/ TutorialEnds
  BY <1>2, <1>3, <1>14 DEF UtteranceEnds, TutorialEnds, settings, music
<1>15. CASE GameOver
  BY <1>2, <1>3, <1>15 DEF GameOver, settings, music
<1>16. CASE UNCHANGED vars
  BY <1>2, <1>3, <1>16 DEF vars, settings, music
<1>17. QED
  BY <1>5, <1>6, <1>7, <1>8, <1>9, <1>10, <1>11, <1>12, <1>13, <1>14, <1>15,
     <1>16
     DEF Next, LoadingTick

\* What is pressed, clicked and shown.
LEMMA FlagStep ==
  ASSUME Flags, [Next]_vars
  PROVE  Flags'
<1>1. ASSUME NEW failed, Open(failed) PROVE Flags'
  BY <1>1 DEF Open, Scripts, Flags, speechEnabled
<1>2. ASSUME NEW k, Toggle(k) PROVE Flags'
  BY <1>2 DEF Toggle, Flags, loading
<1>3. ASSUME NEW w \in {"elsewhere", "start"}, MouseDown(w) PROVE Flags'
  BY <1>3 DEF MouseDown, Flags, loading
<1>4. ASSUME NEW t, NEW u, Announce(t, u) PROVE Flags'
  BY <1>4 DEF Announce, Flags, loading
<1>5. CASE FirstTick \/ generateMusic \/ generateSound
  BY <1>5 DEF FirstTick, generateMusic, generateSound, Flags
<1>6. CASE Title
  <2>1. (click = "start") \in BOOLEAN
    OBVIOUS
  <2>2. game' \in BOOLEAN
    BY <1>6, <2>1, Zenon DEF Title
  <2>3. QED
    BY <1>6, <2>2 DEF Title, Flags
<1>7. CASE Close \/ KeyDown \/ MusicEnds \/ GuiUpdate
  BY <1>7 DEF Close, KeyDown, MusicEnds, GuiUpdate, Flags, loading
<1>8. CASE UtteranceEnds \/ TutorialEnds \/ GameOver \/ UNCHANGED vars
  BY <1>8 DEF UtteranceEnds, TutorialEnds, GameOver, vars, Flags, loading
<1>9. QED
  BY <1>1, <1>2, <1>3, <1>4, <1>5, <1>6, <1>7, <1>8 DEF Next, LoadingTick

\* How far the loading is.
LEMMA ProgressStep ==
  ASSUME Progress, [Next]_vars
  PROVE  Progress'
<1>1. ASSUME NEW board, board \in {Tracks, Sounds}
      PROVE  Finished(board) \in Nat
  <2>1. {p \in board : Done(p)} \subseteq board /\ IsFiniteSet(board)
    BY <1>1, Boards
  <2>2. IsFiniteSet({p \in board : Done(p)})
    BY <2>1, FS_Subset
  <2>3. QED
    BY <2>2, FS_CardinalityType DEF Finished
<1>2. ASSUME UNCHANGED <<loadingMusic, loadingSound, progressMusic,
                         progressSound>>
      PROVE  Progress'
  BY <1>2 DEF Progress
<1>3. ASSUME NEW failed, Open(failed) PROVE Progress'
  BY <1>3 DEF Open, Scripts, Progress
<1>4. CASE generateMusic
  <2>1. /\ progressMusic' = progressMusic + Finished(Tracks)
        /\ loadingMusic' = ~(progressMusic' >= Cardinality(Tracks))
        /\ loadingSound' = loadingSound /\ progressSound' = progressSound
    BY <1>4 DEF generateMusic
  <2>2. progressMusic' \in Nat
    BY <1>1, <2>1 DEF Progress
  <2>3. loadingMusic' \in BOOLEAN
    BY <2>1, Zenon
  <2>4. QED
    BY <2>1, <2>2, <2>3 DEF Progress
<1>5. CASE generateSound
  <2>1. /\ progressSound' = progressSound + Finished(Sounds)
        /\ loadingSound' = ~(progressSound' >= Cardinality(Sounds))
        /\ loadingMusic' = loadingMusic /\ progressMusic' = progressMusic
    BY <1>5 DEF generateSound
  <2>2. progressSound' \in Nat
    BY <1>1, <2>1 DEF Progress
  <2>3. loadingSound' \in BOOLEAN
    BY <2>1, Zenon
  <2>4. QED
    BY <2>1, <2>2, <2>3 DEF Progress
<1>6. CASE FirstTick \/ Title
  BY <1>2, <1>6 DEF FirstTick, Title
<1>7. CASE \/ Close \/ KeyDown \/ MusicEnds \/ GuiUpdate \/ UtteranceEnds
           \/ TutorialEnds \/ GameOver \/ UNCHANGED vars
  BY <1>2, <1>7
     DEF Close, KeyDown, MusicEnds, GuiUpdate, UtteranceEnds, TutorialEnds,
         GameOver, vars, loading
<1>8. ASSUME NEW k, Toggle(k) PROVE UNCHANGED loading
  BY <1>8 DEF Toggle
<1>9. ASSUME NEW w, MouseDown(w) PROVE UNCHANGED loading
  BY <1>9 DEF MouseDown
<1>10. ASSUME NEW t, NEW u, Announce(t, u) PROVE UNCHANGED loading
  BY <1>10 DEF Announce
<1>11. QED
  BY <1>2, <1>3, <1>4, <1>5, <1>6, <1>7, <1>8, <1>9, <1>10
     DEF Next, LoadingTick, loading

\* The time left to a subtitle: it goes before it would be negative.
LEMMA ShownStep ==
  ASSUME Shown, [Next]_vars
  PROVE  Shown'
<1>1. subtitles \in Seq(0 .. SubtitleTime) /\ SubtitleTime \in Nat
  BY PageAssumption DEF Shown
<1>2. ASSUME UNCHANGED subtitles PROVE Shown'
  BY <1>1, <1>2 DEF Shown
<1>3. ASSUME NEW text, NEW suppress, speak(text, suppress) PROVE Shown'
  <2>1. SubtitleTime \in 0 .. SubtitleTime
    BY <1>1
  <2>2. Append(subtitles, SubtitleTime) \in Seq(0 .. SubtitleTime)
    BY <1>1, <2>1
  <2>3. QED
    BY <1>1, <1>3, <2>2 DEF speak, Shown
<1>4. CASE GuiUpdate
  <2> DEFINE left == {i \in DOMAIN subtitles : subtitles[i] > 0}
  <2>1. PICK kept \in [1 .. Cardinality(left) -> left] :
          subtitles' = [i \in DOMAIN kept |-> subtitles[kept[i]] - 1]
    BY <1>4 DEF GuiUpdate
  <2>2. IsFiniteSet(left)
    <3>1. Len(subtitles) \in Nat /\ DOMAIN subtitles = 1 .. Len(subtitles)
      BY <1>1
    <3>2. IsFiniteSet(1 .. Len(subtitles)) /\ left \subseteq 1 .. Len(subtitles)
      BY <3>1, FS_Interval
    <3>3. QED
      BY <3>2, FS_Subset
  <2>3. PICK n \in Nat : n = Cardinality(left)
    BY <2>2, FS_CardinalityType
  <2>4. \A i \in left : subtitles[i] - 1 \in 0 .. SubtitleTime
    <3>1. \A i \in DOMAIN subtitles : subtitles[i] \in 0 .. SubtitleTime
      BY <1>1
    <3>2. QED
      BY <1>1, <3>1
  <2> HIDE DEF left
  <2>5. subtitles' \in [1 .. n -> 0 .. SubtitleTime]
    BY <2>1, <2>3, <2>4
  <2>6. QED
    BY <2>5, Tabled DEF Shown
<1>5. CASE Title
  BY <1>2, <1>3, <1>5 DEF Title, voice
<1>6. ASSUME NEW text, NEW suppress, Announce(text, suppress) PROVE Shown'
  BY <1>3, <1>6 DEF Announce
<1>7. ASSUME NEW failed, Open(failed) PROVE Shown'
  <2>1. << >> \in Seq(0 .. SubtitleTime)
    OBVIOUS
  <2>2. QED
    BY <1>7, <2>1 DEF Open, Scripts, Shown
<1>8. ASSUME NEW k, Toggle(k) PROVE UNCHANGED subtitles
  BY <1>8 DEF Toggle, voice
<1>9. ASSUME NEW w, MouseDown(w) PROVE UNCHANGED subtitles
  BY <1>9 DEF MouseDown, voice
<1>10. CASE \/ Close \/ KeyDown \/ FirstTick \/ generateMusic \/ generateSound
            \/ MusicEnds \/ UtteranceEnds \/ TutorialEnds \/ GameOver
            \/ UNCHANGED vars
  BY <1>2, <1>10
     DEF Close, KeyDown, FirstTick, generateMusic, generateSound, MusicEnds,
         UtteranceEnds, TutorialEnds, GameOver, vars, voice
<1>11. QED
  BY <1>2, <1>4, <1>5, <1>6, <1>7, <1>8, <1>9, <1>10 DEF Next, LoadingTick

-----------------------------------------------------------------------------
(***************************************************************************)
(* The invariant, and what it gives.                                       *)
(***************************************************************************)

LEMMA InvInit == Init => IInv
<1> SUFFICES ASSUME Init PROVE IInv
  OBVIOUS
<1> USE DEF Init
<1>1. Types
  <2>1. << >> \in Seq(Texts)
    OBVIOUS
  <2>2. QED
    BY <2>1 DEF Types
<1>2. WaveInv
  BY PageAssumption DEF WaveInv
<1>3. BoardInv
  BY DEF BoardInv, Players
<1>4. MusicInv
  BY DEF MusicInv, MusicAsSet
<1>5. OneVoice
  <2>1. DOMAIN << >> = 1 .. 0
    OBVIOUS
  <2>2. QED
    BY <2>1 DEF OneVoice
<1>6. StoreInv
  BY DEF StoreInv
<1>7. Flags /\ Progress
  BY DEF Flags, Progress
<1>8. Shown
  <2>1. << >> \in Seq(0 .. SubtitleTime)
    OBVIOUS
  <2>2. QED
    BY <2>1 DEF Shown
<1>9. QED
  BY <1>1, <1>2, <1>3, <1>4, <1>5, <1>6, <1>7, <1>8 DEF IInv

LEMMA InvStep == IInv /\ [Next]_vars => IInv'
<1> SUFFICES ASSUME IInv, [Next]_vars PROVE IInv'
  OBVIOUS
<1>1. /\ Types /\ WaveInv /\ BoardInv /\ MusicInv /\ OneVoice /\ StoreInv
      /\ Flags /\ Progress /\ Shown
  BY DEF IInv
<1>2. /\ column' \in [Players -> Nat] /\ src' \in [Players -> Nat]
      /\ WaveInv' /\ BoardInv'
  BY <1>1, LoadStep
<1>3. queue' \in Seq(Texts) /\ OneVoice'
  BY <1>1, VoiceStep
<1>4. /\ store' \in [Keys -> {"absent", "true", "false"}]
      /\ enabled' \in [Keys -> BOOLEAN]
      /\ wanted' \in [Keys -> BOOLEAN]
      /\ StoreInv'
  BY <1>1, StoreStep
<1>5. listeners' \in Nat /\ playing' \in BOOLEAN /\ MusicInv'
  BY <1>1, <1>4, MusicStep
<1>6. Types'
  BY <1>2, <1>3, <1>4, <1>5 DEF Types
<1>7. Flags' /\ Progress' /\ Shown'
  BY <1>1, FlagStep, ProgressStep, ShownStep
<1>8. QED
  BY <1>2, <1>3, <1>4, <1>5, <1>6, <1>7 DEF IInv

\* The inductive invariant holds in every state.
THEOREM Invariance == Spec => []IInv
<1>1. Init => IInv
  BY InvInit
<1>2. IInv /\ [Next]_vars => IInv'
  BY InvStep
<1>3. QED
  BY <1>1, <1>2, PTL DEF Spec

\* Every variable keeps its type, for any boards, texts and times: in particular
\* no subtitle is left with a negative time, which would show it for ever
\* (gui.js:41).
THEOREM TypeCorrect == Spec => []TypeOK
<1>1. IInv => TypeOK
  BY DEF IInv, Types, Flags, Progress, Shown, TypeOK
<1>2. QED
  BY <1>1, Invariance, PTL

\* A wave is made of the whole song, and the screen that asks for a click has
\* one for every player (music.js:47, 65, loadingscreen.js:53), whatever the
\* boards and the number of channels of their songs.
THEOREM WavesAreWhole == Spec => []WaveIsWhole
<1>1. IInv => WaveIsWhole
  <2> SUFFICES ASSUME IInv PROVE WaveIsWhole
    OBVIOUS
  <2>1. Types /\ WaveInv /\ BoardInv
    BY DEF IInv
  <2>2. \A p \in Players : src[p] \in {0, Channels[p]}
    BY <2>1 DEF WaveInv
  <2>3. ASSUME Screen = "click here to play!", NEW p \in Players
        PROVE  src[p] # 0
    <3>1. ~loadingMusic /\ ~loadingSound
      BY <2>3 DEF Screen
    <3>2. column[p] = Channels[p]
      BY <2>1, <3>1 DEF BoardInv, Players
    <3>3. Channels[p] # 0
      BY PageAssumption
    <3>4. QED
      BY <2>1, <3>2, <3>3 DEF WaveInv
  <2>4. QED
    BY <2>2, <2>3 DEF WaveIsWhole
<1>2. QED
  BY <1>1, Invariance, PTL

\* What is heard is what the settings and the last text ask for
\* (music.js:77-96, speech.js:24-45), wherever the browser refuses to play
\* before a gesture.
THEOREM HeardAsSet == Spec => []HeardAsAsked
<1>1. IInv => HeardAsAsked
  BY DEF IInv, MusicInv, HeardAsAsked
<1>2. QED
  BY <1>1, Invariance, PTL

\* A page that opens has every setting as it was last stored, whichever of
\* the reads threw (Settings.js:38).
THEOREM SettingsKept == Spec => SettingsSurvive
<1>1. ASSUME IInv, NEW failed \in SUBSET Keys, Open(failed),
             NEW k \in Keys \ failed
      PROVE  enabled'[k] = wanted[k]
  <2>1. /\ enabled'[k] = Checked(k, failed) /\ wanted[k] \in BOOLEAN
        /\ IF store[k] = "absent" THEN wanted[k]
           ELSE store[k] = Written(wanted[k])
    BY <1>1 DEF IInv, Types, StoreInv, Open
  <2>2. Get(k, "true", k \in failed)
          = IF store[k] = "absent" THEN "true" ELSE store[k]
    BY DEF Get
  <2>3. CASE store[k] = "absent"
    BY <2>1, <2>2, <2>3 DEF Checked
  <2>4. CASE store[k] # "absent"
    BY <2>1, <2>2, <2>4 DEF Checked, Written
  <2>5. QED
    BY <2>3, <2>4
<1>2. IInv /\ [Next]_vars =>
        [\A failed \in SUBSET Keys :
           Open(failed) => \A k \in Keys \ failed : enabled'[k] = wanted[k]]_vars
  BY <1>1
<1>3. QED
  BY <1>2, Invariance, PTL DEF Spec, SettingsSurvive

=============================================================================
