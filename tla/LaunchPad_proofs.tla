------------------------- MODULE LaunchPad_proofs -------------------------
(* Proofs about the game of LaunchPadGame, for any number of pads, plays   *)
(* and closures, and any length of the gauge.                              *)
EXTENDS LaunchPad, AudioPlayer_proofs

-----------------------------------------------------------------------------
(* The order of visibleCells is a permutation of the rows.                 *)

\* mapIndex sends different cells to different rows, and every cell of the
\* collection view to one of its rows: no pad is lit for two cells, and none
\* of the sixteen is unreachable.
THEOREM MapIndexPermutes ==
    /\ \A i \in 0..15 : MapIndex(i) \in 0..15
    /\ \A i, j \in 0..15 : MapIndex(i) = MapIndex(j) => i = j
<1>1. \A i \in 0..15 : \/ i \in 0..6 /\ MapIndex(i) = 2 * i + 2
                       \/ i \in 7..14 /\ MapIndex(i) = 2 * i - 13
                       \/ i = 15 /\ MapIndex(i) = 0
  BY DEF MapIndex
<1>2. \A i \in 0..15 : MapIndex(i) \in 0..15
  BY <1>1
<1>3. ASSUME NEW i \in 0..15, NEW j \in 0..15, MapIndex(i) = MapIndex(j)
      PROVE  i = j
  BY <1>1, <1>3
<1> QED
  BY <1>2, <1>3

-----------------------------------------------------------------------------
(* Type correctness.                                                       *)

Tempos == [start : Songs \cup {NoSong}, bpm : Songs \cup {NoSong}, settled : BOOLEAN]

\* Everything but the audio part of TypeOK.
GameTypeOK ==
    /\ screen \in Screens
    /\ isPlaying \in BOOLEAN
    /\ buttonWorkItem \in 0..MaxPlays
    /\ pending \subseteq Items
    /\ buttonEventTimer \in 0..MaxPlays
    /\ liveTimers \subseteq Items
    /\ tempo \in Tempos
    /\ heartTimers \in Nat
    /\ mainQueue \in Seq({"title", "heart"})
    /\ animating \subseteq Pads
    /\ readiedButton \subseteq Pads
    /\ count \in Int
    /\ progress \in 0..Full
    /\ isFever \in BOOLEAN
    /\ title \in [song : Songs \cup {NoSong}, settled : BOOLEAN]

LEMMA TypeParts == TypeOK <=> AudioTypeOK /\ GameTypeOK
BY DEF TypeOK, GameTypeOK, Tempos

LEMMA InitType == Init => TypeOK
<1> SUFFICES ASSUME Init PROVE AudioTypeOK /\ GameTypeOK
  BY TypeParts
<1>1. AudioTypeOK
  BY AudioInitType DEF Init
<1>2. <<"title">> \in Seq({"title", "heart"})
  OBVIOUS
<1>3. 0 \in 0..MaxPlays /\ 0 \in 0..Full
  BY MaxPlaysAssumption, FullAssumption
<1>4. isPlaying \in BOOLEAN /\ isFever \in BOOLEAN
  BY DEF Init
<1>5. NoTempo \in Tempos
  BY DEF NoTempo, Tempos
<1>6. GameTypeOK
  BY <1>2, <1>3, <1>4, <1>5 DEF Init, GameTypeOK, Screens
<1> QED
  BY <1>1, <1>6

\* The audio part of every step of the game is one of the player's own.
LEMMA AudioStep ==
    ASSUME [Next]_vars
    PROVE  [AudioNext]_audioVars
<1>1. CASE UserNext
  BY <1>1 DEF UserNext, StopTapped, PlayTapped, PadTapped, ChangeTrackTapped,
              SongsShown, ViewDidDisappear, SongSelected, BackBegun,
              BackCancelled, AudioNext
<1>2. CASE SystemNext
  BY <1>2 DEF SystemNext, RunWorkItem, Beat, GrowCompleted, SongsShown,
              ViewDidDisappear, MainShown, RunMainBlock, AudioNext
<1>3. CASE PlayerNext
  BY <1>3 DEF PlayerNext, AudioNext
<1>4. CASE Crash
  BY <1>4 DEF Crash, AudioNext
<1>5. CASE UNCHANGED vars
  BY <1>5 DEF vars
<1> QED
  BY <1>1, <1>2, <1>3, <1>4, <1>5 DEF Next

\* The game uses the player as any client may: what AudioPlayer_proofs proves of
\* AudioSafety holds of the app.
THEOREM GameIsAClient == Spec => AudioSafety
<1>1. Init => AudioInit
  BY DEF Init
<1> QED
  BY <1>1, AudioStep, PTL DEF Spec, AudioSafety

LEMMA BlocksType ==
    ASSUME NEW q \in Seq({"title", "heart"})
    PROVE  /\ Append(q, "title") \in Seq({"title", "heart"})
           /\ Append(q, "heart") \in Seq({"title", "heart"})
           /\ q # <<>> => Tail(q) \in Seq({"title", "heart"})
OBVIOUS

LEMMA LevelsType ==
    ASSUME NEW level \in 0..Full
    PROVE  Raised(level) \in 0..Full /\ Lowered(level) \in 0..Full
BY FullAssumption DEF Raised, Lowered

\* What the main screen leaves behind, whichever way it goes.
LEMMA DisappearType ==
    ASSUME GameTypeOK, ViewDidDisappear, screen' \in Screens
    PROVE  GameTypeOK'
<1>1. isPlaying' \in BOOLEAN /\ isFever' \in BOOLEAN
  BY DEF GameTypeOK, ViewDidDisappear
<1>2. count' \in Int /\ progress' \in 0..Full
  BY FullAssumption DEF ViewDidDisappear
<1> QED
  BY <1>1, <1>2
  DEF ViewDidDisappear, StopButtonEvent, GameTypeOK, padVars

LEMMA UserType ==
    ASSUME TypeOK, UserNext
    PROVE  GameTypeOK'
<1>0. GameTypeOK
  BY TypeParts
<1> USE DEF Screens, Items
<1>1. CASE StopTapped
  BY <1>0, <1>1 DEF StopTapped, StopButtonEvent, GameTypeOK, padVars, viewVars
<1>2. CASE PlayTapped
  <2>1. buttonWorkItem + 1 \in 1..MaxPlays
    BY <1>0, <1>2, MaxPlaysAssumption DEF PlayTapped, GameTypeOK
  <2>2. mainQueue' \in Seq({"title", "heart"})
    BY <1>0, <1>2, BlocksType DEF PlayTapped, GameTypeOK
  <2>3. tempo' \in Tempos
    <3> DEFINE settled == SettledVisit
    <3>1. currentItem \in Songs /\ settled \in BOOLEAN
      BY TypeParts DEF AudioTypeOK, SettledVisit
    <3>2. [start |-> currentItem, bpm |-> NoSong, settled |-> settled] \in Tempos
      <4> HIDE DEF settled
      <4> QED BY <3>1, Zenon DEF Tempos
    <3> QED BY <1>2, <3>2 DEF PlayTapped
  <2> QED
    BY <1>0, <1>2, <2>1, <2>2, <2>3
    DEF PlayTapped, GameTypeOK, scoreVars, padVars
<1>3. ASSUME NEW row \in Pads, PadTapped(row) PROVE GameTypeOK'
  <2>1. count' \in Int
    BY <1>0, <1>3 DEF PadTapped, PadHit, PadMissed, GameTypeOK
  <2>2. /\ progress' \in 0..Full /\ isFever' \in BOOLEAN
        /\ readiedButton' \subseteq Pads
    BY <1>0, <1>3, LevelsType DEF PadTapped, PadHit, PadMissed, GameTypeOK
  <2> QED
    BY <1>0, <1>3, <2>1, <2>2
    DEF PadTapped, GameTypeOK, beatVars, viewVars
<1>4. CASE ChangeTrackTapped
  BY <1>0, <1>4 DEF ChangeTrackTapped, GameTypeOK, beatVars, scoreVars, padVars
<1>5. ASSUME NEW s \in Songs, SongSelected(s) PROVE GameTypeOK'
  BY <1>0, <1>5
  DEF SongSelected, GameTypeOK, beatVars, scoreVars, padVars, viewVars
<1>6. CASE BackBegun
  BY <1>0, <1>6 DEF BackBegun, GameTypeOK, beatVars, scoreVars, padVars
<1>7. CASE BackCancelled
  BY <1>0, <1>7, DisappearType DEF BackCancelled
<1> QED
  BY <1>1, <1>2, <1>3, <1>4, <1>5, <1>6, <1>7 DEF UserNext

LEMMA SystemType ==
    ASSUME TypeOK, SystemNext
    PROVE  GameTypeOK'
<1>0. GameTypeOK
  BY TypeParts
<1> USE DEF Screens, Items
<1>1. ASSUME NEW i \in Items, RunWorkItem(i) PROVE GameTypeOK'
  <2>1. tempo' \in Tempos
    <3>1. currentItem \in Songs /\ tempo \in Tempos
      BY <1>0, TypeParts DEF AudioTypeOK, GameTypeOK
    <3> QED BY <1>1, <3>1 DEF RunWorkItem, Tempos
  <2> QED
    BY <1>0, <1>1, <2>1, MaxPlaysAssumption
    DEF RunWorkItem, GameTypeOK, scoreVars, padVars, viewVars
<1>2. ASSUME NEW p \in Pads, Beat(p) PROVE GameTypeOK'
  BY <1>0, <1>2 DEF Beat, GameTypeOK, beatVars, scoreVars, viewVars
<1>3. ASSUME NEW p \in Pads, NEW done \in BOOLEAN, GrowCompleted(p, done)
      PROVE  GameTypeOK'
  <2>1. MapIndex(p) \in Pads
    BY PadsAssumption
  <2> QED
    BY <1>0, <1>3, <2>1
    DEF GrowCompleted, GameTypeOK, beatVars, scoreVars, viewVars
<1>4. CASE SongsShown
  BY <1>0, <1>4, DisappearType DEF SongsShown
<1>5. CASE MainShown
  <2>1. mainQueue' \in Seq({"title", "heart"})
    BY <1>0, <1>5, BlocksType DEF MainShown, GameTypeOK
  <2> QED
    BY <1>0, <1>5, <2>1
    DEF MainShown, GameTypeOK, beatVars, scoreVars, padVars
<1>6. CASE RunMainBlock
  <2>1. mainQueue' \in Seq({"title", "heart"})
    BY <1>0, <1>6, BlocksType DEF RunMainBlock, GameTypeOK
  <2>2. title' \in [song : Songs \cup {NoSong}, settled : BOOLEAN]
    <3>1. currentItem \in Songs /\ (Outstanding = {}) \in BOOLEAN
      BY TypeParts DEF AudioTypeOK
    <3> DEFINE quiet == Outstanding = {}
    <3>2. [song |-> currentItem, settled |-> quiet]
            \in [song : Songs \cup {NoSong}, settled : BOOLEAN]
      <4> HIDE DEF quiet
      <4> QED
        BY <3>1, Zenon DEF quiet
    <3>3. CASE MakeHeartTimer
      BY <1>0, <3>3 DEF MakeHeartTimer, GameTypeOK
    <3>4. CASE DrawTitle
      BY <3>2, <3>4 DEF DrawTitle
    <3> QED
      BY <1>6, <3>3, <3>4 DEF RunMainBlock
  <2>3. heartTimers' \in Nat
    BY <1>0, <1>6
    DEF RunMainBlock, MakeHeartTimer, DrawTitle, GameTypeOK
  <2> QED
    BY <1>0, <1>6, <2>1, <2>2, <2>3
    DEF RunMainBlock, GameTypeOK, beatVars, scoreVars, padVars
<1> QED
  BY <1>1, <1>2, <1>3, <1>4, <1>5, <1>6 DEF SystemNext

LEMMA CrashGameType == ASSUME Crash PROVE GameTypeOK'
<1>1. <<"title">> \in Seq({"title", "heart"})
  OBVIOUS
<1>2. 0 \in 0..MaxPlays /\ 0 \in 0..Full
  BY MaxPlaysAssumption, FullAssumption
<1>3. isPlaying' \in BOOLEAN /\ isFever' \in BOOLEAN
  BY DEF Crash
<1>4. NoTempo \in Tempos
  BY DEF NoTempo, Tempos
<1> QED
  BY <1>1, <1>2, <1>3, <1>4 DEF Crash, GameTypeOK, Screens

LEMMA StepType == ASSUME TypeOK, [Next]_vars PROVE TypeOK'
<1>1. AudioTypeOK'
  BY AudioStep, AudioStepType, TypeParts
<1>2. GameTypeOK'
  <2>0. GameTypeOK
    BY TypeParts
  <2>1. CASE PlayerNext
    BY <2>0, <2>1
    DEF PlayerNext, GameTypeOK, beatVars, scoreVars, padVars, viewVars
  <2>2. CASE UNCHANGED vars
    BY <2>0, <2>2
    DEF vars, GameTypeOK, beatVars, scoreVars, padVars, viewVars
  <2> QED
    BY <2>1, <2>2, UserType, SystemType, CrashGameType DEF Next
<1> QED
  BY <1>1, <1>2 DEF TypeOK, GameTypeOK, Tempos

\* Type correctness of the whole app.
THEOREM TypeCorrect == Spec => []TypeOK
<1> QED
  BY InitType, StepType, PTL DEF Spec

-----------------------------------------------------------------------------
(* One source of beats, none behind the song table.                        *)

LEMMA OneBeatStop ==
    ASSUME OneBeat, StopButtonEvent
    PROVE  pending' = {} /\ liveTimers' = {} /\ OneBeat'
<1>1. pending' = {} /\ liveTimers' = {}
  BY DEF OneBeat, StopButtonEvent
<1> QED
  BY <1>1 DEF OneBeat

LEMMA OneBeatFrame == ASSUME OneBeat, UNCHANGED beatVars PROVE OneBeat'
BY DEF OneBeat, beatVars

LEMMA OneBeatRun ==
    ASSUME OneBeat, NEW i \in Items, RunWorkItem(i)
    PROVE  OneBeat'
<1>1. i = buttonWorkItem /\ liveTimers = {}
  BY DEF RunWorkItem, OneBeat
<1>2. pending' = {} /\ liveTimers' = {i}
  BY <1>1 DEF RunWorkItem, OneBeat
<1> QED
  BY <1>1, <1>2 DEF RunWorkItem, OneBeat

LEMMA OneBeatPlay == ASSUME OneBeat, PlayTapped PROVE OneBeat'
<1>1. pending' = {buttonWorkItem'} /\ liveTimers' = {}
  BY DEF OneBeat, PlayTapped
<1> QED
  BY <1>1 DEF OneBeat, PlayTapped

\* What the table of songs hides: no beat and no score.  OneBeat is part of
\* the invariant: it is why stopButtonEvent leaves nothing running.
BeatInv == OneBeat /\ GameOverOffScreen

LEMMA DisappearBeat ==
    ASSUME BeatInv, ViewDidDisappear
    PROVE  BeatInv'
BY OneBeatStop DEF BeatInv, ViewDidDisappear, GameOverOffScreen

LEMMA BeatStep == ASSUME BeatInv, [Next]_vars PROVE BeatInv'
<1>0. OneBeat /\ GameOverOffScreen
  BY DEF BeatInv
<1> USE DEF BeatInv
<1>1. CASE StopTapped
  BY <1>0, <1>1, OneBeatStop DEF StopTapped, viewVars, GameOverOffScreen
<1>2. CASE PlayTapped
  BY <1>0, <1>2, OneBeatPlay DEF PlayTapped, GameOverOffScreen
<1>3. ASSUME NEW row \in Pads, PadTapped(row) PROVE BeatInv'
  BY <1>0, <1>3, OneBeatFrame DEF PadTapped, viewVars, GameOverOffScreen
<1>4. CASE ChangeTrackTapped
  BY <1>0, <1>4, OneBeatFrame DEF ChangeTrackTapped, GameOverOffScreen
<1>5. ASSUME NEW s \in Songs, SongSelected(s) PROVE BeatInv'
  BY <1>0, <1>5, OneBeatFrame
  DEF SongSelected, GameOverOffScreen, beatVars, scoreVars, viewVars
<1>6. CASE BackBegun
  BY <1>0, <1>6, OneBeatFrame
  DEF BackBegun, GameOverOffScreen, beatVars, scoreVars
<1>7. CASE BackCancelled \/ SongsShown
  BY <1>0, <1>7, DisappearBeat DEF BackCancelled, SongsShown
<1>8. ASSUME NEW i \in Items, RunWorkItem(i) PROVE BeatInv'
  <2>1. screen' = screen /\ screen \notin {"songs", "toMain"}
    BY <1>0, <1>8 DEF RunWorkItem, viewVars, GameOverOffScreen
  <2> QED
    BY <1>0, <1>8, <2>1, OneBeatRun DEF GameOverOffScreen
<1>9. ASSUME NEW p \in Pads, Beat(p) PROVE BeatInv'
  BY <1>0, <1>9, OneBeatFrame
  DEF Beat, GameOverOffScreen, beatVars, scoreVars, viewVars
<1>10. ASSUME NEW p \in Pads, NEW done \in BOOLEAN, GrowCompleted(p, done)
       PROVE  BeatInv'
  BY <1>0, <1>10, OneBeatFrame
  DEF GrowCompleted, GameOverOffScreen, beatVars, scoreVars, viewVars
<1>11. CASE MainShown
  BY <1>0, <1>11, OneBeatFrame DEF MainShown, GameOverOffScreen
<1>12. CASE RunMainBlock
  BY <1>0, <1>12, OneBeatFrame
  DEF RunMainBlock, GameOverOffScreen, beatVars, scoreVars
<1>13. CASE PlayerNext
  BY <1>0, <1>13, OneBeatFrame
  DEF PlayerNext, GameOverOffScreen, beatVars, scoreVars, viewVars
<1>14. CASE Crash
  BY <1>14 DEF Crash, OneBeat, GameOverOffScreen
<1>15. CASE UNCHANGED vars
  BY <1>0, <1>15, OneBeatFrame
  DEF vars, GameOverOffScreen, beatVars, scoreVars, viewVars
<1> QED
  BY <1>1, <1>2, <1>3, <1>4, <1>5, <1>6, <1>7, <1>8, <1>9, <1>10, <1>11,
     <1>12, <1>13, <1>14, <1>15 DEF Next, UserNext, SystemNext

LEMMA BeatHolds == Spec => []BeatInv
<1>1. Init => BeatInv
  BY DEF Init, BeatInv, OneBeat, GameOverOffScreen
<1> QED
  BY <1>1, BeatStep, PTL DEF Spec

\* However often Play is tapped and whatever the user and the closures do in
\* between, there is at most one source of beats and stopButtonEvent reaches it.
THEOREM BeatsUnderControl == Spec => []OneBeat
<1>1. BeatInv => OneBeat
  BY DEF BeatInv
<1> QED
  BY <1>1, BeatHolds, PTL

\* Behind the song table no beat, score, gauge or fever is left.
THEOREM NoGameBehindSongs == Spec => []GameOverOffScreen
<1>1. BeatInv => GameOverOffScreen
  BY DEF BeatInv
<1> QED
  BY <1>1, BeatHolds, PTL

-----------------------------------------------------------------------------
(* Refinement of the metronome.                                            *)

\* OneBeat makes every step of the game one of the metronome's: the item that
\* runs is the only source of beats, and Stop reaches what there is.
LEMMA BeatRefines ==
    ASSUME TypeOK, BeatInv, [Next]_vars
    PROVE  [Beats!MetronomeNext]_Beats!metronomeVars
<1> USE DEF Beats!MetronomeNext
<1>0. OneBeat /\ isPlaying \in BOOLEAN
  BY DEF BeatInv, TypeOK
<1>1. CASE StopTapped
  <2>1. isPlaying /\ ~isPlaying' /\ pending' = {} /\ liveTimers' = {}
    BY <1>0, <1>1, OneBeatStop DEF StopTapped
  <2>2. Phase' = "silent"
    BY <2>1 DEF Phase
  <2> QED
    BY <2>1, <2>2 DEF Beats!Stop
<1>2. CASE PlayTapped
  <2>1. /\ ~isPlaying /\ isPlaying' /\ pending = {} /\ liveTimers = {}
        /\ pending' = {buttonWorkItem + 1} /\ liveTimers' = {}
    BY <1>0, <1>2 DEF PlayTapped, OneBeat
  <2>2. buttonWorkItem + 1 \in Items
    BY <1>2, MaxPlaysAssumption DEF PlayTapped, TypeOK, Items
  <2>3. Phase = "silent" /\ Phase' = "intro"
    BY <2>1, <2>2 DEF Phase
  <2> QED
    BY <2>1, <2>3 DEF Beats!Start
<1>3. CASE SongsShown \/ BackCancelled
  <2>1. ViewDidDisappear
    BY <1>3 DEF SongsShown, BackCancelled
  <2>2. pending' = {} /\ liveTimers' = {} /\ UNCHANGED isPlaying
    BY <1>0, <2>1, OneBeatStop DEF ViewDidDisappear
  <2>3. Phase' = "silent"
    BY <2>2 DEF Phase
  <2> QED
    BY <2>2, <2>3 DEF Beats!Leave
<1>4. ASSUME NEW i \in Items, RunWorkItem(i) PROVE Beats!FirstBeat
  <2>1. /\ pending = {i} /\ liveTimers = {}
        /\ pending' = {} /\ liveTimers' = {i} /\ UNCHANGED isPlaying
    BY <1>0, <1>4 DEF RunWorkItem, OneBeat
  <2>2. Phase = "intro" /\ Phase' = "beating"
    BY <2>1 DEF Phase
  <2> QED
    BY <2>1, <2>2 DEF Beats!FirstBeat
<1>5. CASE Crash
  <2>1. ~isPlaying' /\ Phase' = "silent"
    BY <1>5 DEF Crash, Phase
  <2> QED
    BY <2>1 DEF Beats!Restart
<1>6. CASE UNCHANGED <<isPlaying, pending, liveTimers>>
  BY <1>6 DEF Phase, Beats!metronomeVars
<1>7. \/ StopTapped \/ PlayTapped
      \/ SongsShown \/ BackCancelled
      \/ \E i \in Items : RunWorkItem(i)
      \/ Crash
      \/ UNCHANGED <<isPlaying, pending, liveTimers>>
  BY DEF Next, UserNext, SystemNext, PlayerNext, PadTapped, ChangeTrackTapped,
         SongSelected, BackBegun, Beat, GrowCompleted, MainShown, RunMainBlock,
         vars, beatVars
<1> QED
  BY <1>1, <1>2, <1>3, <1>4, <1>5, <1>6, <1>7

\* The game implements the metronome, for any number of plays.
THEOREM GameKeepsTheBeat == Spec => KeepsTheBeat
<1>1. Init => Beats!MetronomeInit
  BY DEF Init, Phase, Beats!MetronomeInit
<1> QED
  BY <1>1, BeatRefines, BeatHolds, TypeCorrect, PTL
  DEF Spec, KeepsTheBeat, Beats!MetronomeSpec

-----------------------------------------------------------------------------
(* Fever.                                                                  *)

LEMMA FeverStep == ASSUME TypeOK, FeverFull, [Next]_vars PROVE FeverFull'
<1>1. CASE StopTapped
  BY <1>1 DEF StopTapped, FeverFull
<1>2. ASSUME NEW row \in Pads, PadTapped(row) PROVE FeverFull'
  <2>1. CASE PadHit(row)
    <3>1. isFever' => progress = Full
      BY <2>1 DEF PadHit, FeverFull
    <3>2. progress = Full => progress' = Full
      BY <2>1, FullAssumption DEF PadHit, Raised
    <3> QED
      BY <3>1, <3>2 DEF FeverFull
  <2>2. CASE PadMissed(row)
    BY <2>2 DEF PadMissed, FeverFull
  <2> QED
    BY <1>2, <2>1, <2>2 DEF PadTapped
<1>3. CASE BackCancelled \/ SongsShown
  BY <1>3 DEF BackCancelled, SongsShown, ViewDidDisappear, FeverFull
<1>4. CASE Crash
  BY <1>4 DEF Crash, FeverFull
<1>5. CASE UNCHANGED scoreVars
  BY <1>5 DEF scoreVars, FeverFull
<1>6. \/ StopTapped
      \/ \E row \in Pads : PadTapped(row)
      \/ BackCancelled \/ SongsShown
      \/ Crash
      \/ UNCHANGED scoreVars
  BY DEF Next, UserNext, SystemNext, PlayerNext, PlayTapped, ChangeTrackTapped,
         SongSelected, BackBegun, RunWorkItem, Beat, GrowCompleted, MainShown,
         RunMainBlock, vars, scoreVars
<1> QED
  BY <1>1, <1>2, <1>3, <1>4, <1>5, <1>6

\* Fever needs a full gauge, whatever its length.
THEOREM FeverNeedsFullGauge == Spec => []FeverFull
<1>1. Init => FeverFull
  BY DEF Init, FeverFull
<1> QED
  BY <1>1, FeverStep, TypeCorrect, PTL DEF Spec

-----------------------------------------------------------------------------
(* A settled visit to the game screen.                                     *)

\* The title is the current song, and the closures that may still be on the
\* queue are resets that set this very song again.
HarmlessReset(c, song) ==
    /\ c.kind = "reset"
    /\ c.at \in {"item", "name", "store"} => c.song = song
VisitInv ==
    SettledVisit => /\ title.song = currentItem
                    /\ \A t \in Outstanding : HarmlessReset(task[t], currentItem)

\* A step that neither enters nor settles a visit, nor touches the closures.
LEMMA VisitFrame ==
    ASSUME VisitInv, SettledVisit' => SettledVisit,
           UNCHANGED <<currentItem, task, title>>
    PROVE  VisitInv'
BY DEF VisitInv, Outstanding, HarmlessReset

LEMMA VisitSame ==
    ASSUME UNCHANGED <<screen, mainQueue, title>>
    PROVE  SettledVisit' = SettledVisit
BY DEF SettledVisit

\* Appending a block draws no title.
LEMMA VisitAppend ==
    ASSUME TypeOK, NEW b \in {"title", "heart"},
           mainQueue' = Append(mainQueue, b), UNCHANGED title,
           SettledVisit'
    PROVE  /\ b # "title"
           /\ screen \in {"main", "toSongs"} => SettledVisit
<1>1. mainQueue \in Seq({"title", "heart"})
  BY DEF TypeOK
<1>2. /\ Len(mainQueue') = Len(mainQueue) + 1
      /\ mainQueue'[Len(mainQueue) + 1] = b
      /\ \A i \in 1..Len(mainQueue) : mainQueue'[i] = mainQueue[i]
      /\ Len(mainQueue) \in Nat
  BY <1>1
<1> QED
  BY <1>2 DEF SettledVisit

LEMMA VisitHeart ==
    ASSUME TypeOK, mainQueue # <<>>, Head(mainQueue) = "heart",
           mainQueue' = Tail(mainQueue), UNCHANGED <<title, screen>>,
           SettledVisit'
    PROVE  SettledVisit
<1>1. mainQueue \in Seq({"title", "heart"})
  BY DEF TypeOK
<1>2. /\ mainQueue[1] = "heart"
      /\ Len(mainQueue) \in Nat \ {0}
      /\ Len(mainQueue') = Len(mainQueue) - 1
      /\ \A i \in 1..Len(mainQueue') : mainQueue'[i] = mainQueue[i + 1]
  BY <1>1
<1>3. ASSUME NEW i \in 1..Len(mainQueue) PROVE mainQueue[i] # "title"
  <2>1. CASE i = 1
    BY <1>2, <2>1
  <2>2. CASE i # 1
    <3>1. i - 1 \in 1..Len(mainQueue') /\ (i - 1) + 1 = i
      BY <1>2, <2>2
    <3>2. mainQueue'[i - 1] # "title"
      BY <3>1 DEF SettledVisit
    <3> QED
      BY <1>2, <3>1, <3>2
  <2> QED
    BY <2>1, <2>2
<1> QED
  BY <1>3 DEF SettledVisit

LEMMA VisitStop == ASSUME TypeOK, VisitInv, StopTapped PROVE VisitInv'
<1> DEFINE c == [kind |-> "reset", at |-> "argument", song |-> NoSong]
<1>1. DispatchTask(c) /\ UNCHANGED <<currentItem, screen, mainQueue, title>>
  BY DEF StopTapped, PauseAndReset, viewVars
<1>2. PICK t \in Tasks : task' = [task EXCEPT ![t] = c]
  BY <1>1 DEF DispatchTask
<1>3. task \in [Tasks -> TaskStates]
  BY DEF TypeOK, AudioTypeOK
<1>4. \A u \in Tasks : task'[u] = IF u = t THEN c ELSE task[u]
  BY <1>2, <1>3
<1>5. ASSUME SettledVisit, NEW u \in Outstanding'
      PROVE  HarmlessReset(task'[u], currentItem)
  BY <1>4, <1>5 DEF VisitInv, Outstanding, HarmlessReset
<1>6. SettledVisit' = SettledVisit
  BY <1>1, VisitSame
<1> QED
  BY <1>1, <1>5, <1>6 DEF VisitInv

\* On a settled visit a closure moves on without changing the song and
\* without starting music.
LEMMA VisitClosure ==
    ASSUME AudioTypeOK, NEW t \in Tasks, TaskStep(t),
           HarmlessReset(task[t], currentItem)
    PROVE  /\ currentItem' = currentItem
           /\ player'.playing => player.playing
           /\ task'[t].at # "done" => HarmlessReset(task'[t], currentItem)
           /\ \A u \in Tasks : u # t => task'[u] = task[u]
<1> USE DEF HarmlessReset
<1>0. /\ task \in [Tasks -> TaskStates] /\ task[t] \in TaskStates
      /\ ClosureOK(task[t]) /\ currentItem \in Songs
  BY DEF AudioTypeOK
<1>1. CASE ReadArgument(t)
  BY <1>0, <1>1, SongsAssumption DEF ReadArgument, Advance, TaskStates
<1>2. CASE StoreItem(t)
  BY <1>0, <1>2 DEF StoreItem, Advance, TaskStates
<1>3. CASE ReadName(t)
  BY <1>0, <1>3 DEF ReadName, Advance, TaskStates
<1>4. CASE StorePlayer(t)
  BY <1>0, <1>4 DEF StorePlayer, Finish, NoTask, LoadedFrom
<1>5. CASE StartPlayback(t)
  BY <1>0, <1>5 DEF StartPlayback, ClosureOK
<1> QED
  BY <1>1, <1>2, <1>3, <1>4, <1>5 DEF TaskStep

LEMMA TaskStepOutstanding ==
    ASSUME NEW t \in Tasks, TaskStep(t)
    PROVE  t \in Outstanding
BY DEF TaskStep, ReadArgument, StoreItem, ReadName, StorePlayer,
       StartPlayback, Outstanding

LEMMA VisitPlayer == ASSUME TypeOK, VisitInv, PlayerNext PROVE VisitInv'
<1>0. SettledVisit' = SettledVisit /\ UNCHANGED title
  BY VisitSame DEF PlayerNext, viewVars
<1>1. CASE SongEnds
  BY <1>0, <1>1, VisitFrame DEF SongEnds
<1>2. ASSUME NEW t \in Tasks, TaskStep(t) PROVE VisitInv'
  <2> SUFFICES ASSUME SettledVisit
               PROVE  /\ title'.song = currentItem'
                      /\ \A u \in Outstanding' :
                            HarmlessReset(task'[u], currentItem')
    BY <1>0 DEF VisitInv
  <2>1. HarmlessReset(task[t], currentItem)
    BY <1>2, TaskStepOutstanding DEF VisitInv
  <2>2. /\ currentItem' = currentItem
        /\ task'[t].at # "done" => HarmlessReset(task'[t], currentItem)
        /\ \A u \in Tasks : u # t => task'[u] = task[u]
    BY <1>2, <2>1, VisitClosure, TypeParts
  <2>3. title'.song = currentItem'
    BY <1>0, <2>2 DEF VisitInv
  <2>4. ASSUME NEW u \in Outstanding'
        PROVE  HarmlessReset(task'[u], currentItem')
    BY <2>2, <2>4 DEF VisitInv, Outstanding
  <2> QED
    BY <2>3, <2>4
<1> QED
  BY <1>1, <1>2 DEF PlayerNext

LEMMA VisitBlock == ASSUME TypeOK, VisitInv, RunMainBlock PROVE VisitInv'
<1>1. /\ mainQueue # <<>> /\ mainQueue' = Tail(mainQueue)
      /\ UNCHANGED <<screen, currentItem, task>>
  BY DEF RunMainBlock, audioVars
<1>2. CASE MakeHeartTimer
  <2>1. SettledVisit' => SettledVisit
    BY <1>1, <1>2, VisitHeart DEF MakeHeartTimer
  <2> QED
    BY <1>1, <1>2, <2>1, VisitFrame DEF MakeHeartTimer
<1>3. CASE DrawTitle
  <2>1. title'.song = currentItem' /\ title'.settled = (Outstanding = {})
    BY <1>1, <1>3 DEF DrawTitle
  <2>2. Outstanding' = Outstanding
    BY <1>1 DEF Outstanding
  <2> QED
    BY <2>1, <2>2 DEF VisitInv, SettledVisit
<1> QED
  BY <1>2, <1>3 DEF RunMainBlock

LEMMA VisitStep == ASSUME TypeOK, VisitInv, [Next]_vars PROVE VisitInv'
<1> USE DEF audioVars, viewVars
<1>1. CASE PlayTapped
  <2>1. SettledVisit' => SettledVisit
    BY <1>1, VisitAppend DEF PlayTapped
  <2> QED
    BY <1>1, <2>1, VisitFrame DEF PlayTapped, PauseAndPlay
<1>2. CASE ChangeTrackTapped
  BY <1>2, VisitFrame DEF ChangeTrackTapped, SettledVisit
<1>3. CASE SongsShown \/ BackBegun \/ BackCancelled
           \/ \E s \in Songs : SongSelected(s)
  BY <1>3 DEF SongsShown, BackBegun, BackCancelled, SongSelected,
              VisitInv, SettledVisit
<1>4. CASE MainShown
  <2>1. ~SettledVisit'
    BY <1>4, VisitAppend DEF MainShown
  <2> QED
    BY <2>1 DEF VisitInv
<1>5. CASE Crash
  BY <1>5 DEF Crash, VisitInv, SettledVisit
<1>6. CASE \/ \E row \in Pads : PadTapped(row)
           \/ \E j \in Items : RunWorkItem(j)
           \/ \E p \in Pads : Beat(p)
           \/ \E p \in Pads, done \in BOOLEAN : GrowCompleted(p, done)
           \/ UNCHANGED vars
  <2>1. UNCHANGED <<currentItem, task, title, screen, mainQueue>>
    BY <1>6 DEF PadTapped, RunWorkItem, Beat, GrowCompleted, vars
  <2> QED
    BY <2>1, VisitFrame, VisitSame
<1> QED
  BY <1>1, <1>2, <1>3, <1>4, <1>5, <1>6, VisitStop, VisitPlayer, VisitBlock
  DEF Next, UserNext, SystemNext

\* A title drawn while the queue is empty tells the truth for the whole visit,
\* however many closures Stop sends and in whatever order they run.
THEOREM TitleTellsTheTruth == Spec => []TitleTruthful
<1>1. Init => VisitInv
  BY DEF Init, VisitInv, SettledVisit
<1>2. VisitInv => TitleTruthful
  BY DEF VisitInv, TitleTruthful
<1> QED
  BY <1>1, <1>2, VisitStep, TypeCorrect, PTL DEF Spec

\* The one step of a settled visit that makes a silent player play.
MusicAsked ==
    (SettledVisit /\ ~player.playing /\ player'.playing)
        => isPlaying' /\ ~isPlaying

LEMMA MusicStep == ASSUME TypeOK, VisitInv, [Next]_vars PROVE MusicAsked
<1> USE DEF audioVars, MusicAsked
<1>0. player \in [song : Songs \cup {NoSong}, playing : BOOLEAN]
  BY DEF TypeOK, AudioTypeOK
<1>1. CASE PlayTapped
  BY <1>1 DEF PlayTapped
<1>2. CASE StopTapped \/ BackBegun \/ BackCancelled \/ SongsShown
           \/ \E s \in Songs : SongSelected(s)
  BY <1>0, <1>2
  DEF StopTapped, BackBegun, BackCancelled, SongsShown, ViewDidDisappear,
      SongSelected, PauseAndReset, PauseOnly, SelectSong, Paused
<1>3. CASE PlayerNext
  <2>1. CASE SongEnds
    BY <2>1 DEF SongEnds
  <2>2. ASSUME NEW t \in Tasks, TaskStep(t), SettledVisit
        PROVE  player'.playing => player.playing
    <3>1. HarmlessReset(task[t], currentItem)
      BY <2>2, TaskStepOutstanding DEF VisitInv
    <3> QED
      BY <2>2, <3>1, VisitClosure, TypeParts
  <2> QED
    BY <1>3, <2>1, <2>2 DEF PlayerNext
<1>4. CASE Crash
  BY <1>4 DEF Crash, AudioCrash, AudioRelaunch, LoadedFrom
<1>5. CASE UNCHANGED player
  BY <1>5
<1>6. \/ PlayTapped
      \/ StopTapped \/ BackBegun \/ BackCancelled \/ SongsShown
      \/ \E s \in Songs : SongSelected(s)
      \/ PlayerNext
      \/ Crash
      \/ UNCHANGED player
  BY DEF Next, UserNext, SystemNext, PadTapped, ChangeTrackTapped, RunWorkItem,
         Beat, GrowCompleted, MainShown, RunMainBlock, vars
<1> QED
  BY <1>1, <1>2, <1>3, <1>4, <1>5, <1>6

\* On a settled visit no closure, however late, starts music: only Play does.
THEOREM MusicStartsWithPlay == Spec => NoMusicUnasked
<1>1. Init => VisitInv
  BY DEF Init, VisitInv, SettledVisit
<1>2. MusicAsked <=> ((SettledVisit /\ ~player.playing /\ player'.playing)
                        => isPlaying' /\ ~isPlaying)
  BY DEF MusicAsked
<1> QED
  BY <1>1, <1>2, VisitStep, MusicStep, TypeCorrect, PTL
  DEF Spec, NoMusicUnasked

\* The fields of the player agree in the app as they do under any client, once
\* the queue is empty and unless closures overlapped.
THEOREM SongsAgree == Spec => []SettledConsistent
BY GameIsAClient, AudioSettledConsistent, PTL

\* A selection that no other closure joins is carried to its end in the app,
\* whatever is tapped in the meantime.  It says nothing of one that another
\* closure joins, a reset say, which the app may lose.
THEOREM LoneSelectionsKept == Spec => SelectionKept
BY GameIsAClient, AudioSelectionKept, PTL

-----------------------------------------------------------------------------
(* The beats of a game that began on a settled visit.                      *)

Working == pending \cup liveTimers # {}

\* As long as it waits or beats, the visit lasts, and with it the song that
\* the title names.
TempoInv ==
    (Working /\ tempo.settled) =>
        /\ SettledVisit
        /\ tempo.start = title.song
        /\ liveTimers # {} => tempo.bpm = title.song

\* A step that leaves the game alone leaves a settled visit settled, unless it
\* draws a title, of which a settled visit has none to come.
LEMMA TempoFrame ==
    ASSUME TypeOK, TempoInv, UNCHANGED <<beatVars, screen, title>>,
           SettledVisit => SettledVisit'
    PROVE  TempoInv'
BY DEF TempoInv, Working, beatVars

LEMMA BlockKeepsVisit ==
    ASSUME TypeOK, RunMainBlock, SettledVisit
    PROVE  SettledVisit' /\ UNCHANGED title
<1>1. mainQueue \in Seq({"title", "heart"})
  BY DEF TypeOK
<1>2. /\ mainQueue # <<>> /\ mainQueue' = Tail(mainQueue) /\ UNCHANGED screen
      /\ MakeHeartTimer \/ DrawTitle
  BY DEF RunMainBlock
<1>3. /\ mainQueue[1] = Head(mainQueue) /\ 1 \in 1..Len(mainQueue)
      /\ Len(mainQueue') = Len(mainQueue) - 1
      /\ \A i \in 1..Len(mainQueue') : mainQueue'[i] = mainQueue[i + 1]
      /\ Len(mainQueue) \in Nat
  BY <1>1, <1>2
<1>4. Head(mainQueue) # "title"
  BY <1>3 DEF SettledVisit
<1>5. UNCHANGED title
  BY <1>2, <1>4 DEF MakeHeartTimer, DrawTitle
<1>6. \A i \in 1..Len(mainQueue') : mainQueue'[i] # "title"
  <2>1. ASSUME NEW i \in 1..Len(mainQueue') PROVE i + 1 \in 1..Len(mainQueue)
    BY <1>3
  <2> QED BY <1>3, <2>1 DEF SettledVisit
<1> QED BY <1>2, <1>5, <1>6 DEF SettledVisit

LEMMA HeartKeepsVisit ==
    ASSUME TypeOK, SettledVisit, UNCHANGED <<screen, title>>,
           mainQueue' = Append(mainQueue, "heart")
    PROVE  SettledVisit'
<1>1. mainQueue \in Seq({"title", "heart"})
  BY DEF TypeOK
<1>2. /\ Len(mainQueue') = Len(mainQueue) + 1 /\ Len(mainQueue) \in Nat
      /\ \A i \in 1..Len(mainQueue) : mainQueue'[i] = mainQueue[i]
      /\ mainQueue'[Len(mainQueue) + 1] = "heart"
  BY <1>1
<1>3. ASSUME NEW i \in 1..Len(mainQueue') PROVE mainQueue'[i] # "title"
  <2>1. i \in 1..Len(mainQueue) \/ i = Len(mainQueue) + 1
    BY <1>2
  <2> QED BY <1>2, <2>1 DEF SettledVisit
<1> QED BY <1>3 DEF SettledVisit

LEMMA TempoStep ==
    ASSUME TypeOK, OneBeat, VisitInv, TempoInv, [Next]_vars
    PROVE  TempoInv'
<1>0. tempo \in Tempos
  BY DEF TypeOK, Tempos
<1>a. ASSUME StopButtonEvent PROVE TempoInv'
  BY <1>a, OneBeatStop DEF TempoInv, Working
<1>1. CASE StopTapped
  BY <1>1, <1>a DEF StopTapped
<1>2. CASE PlayTapped
  <2>1. /\ UNCHANGED <<screen, title, currentItem>>
        /\ mainQueue' = Append(mainQueue, "heart")
        /\ tempo' = [start |-> currentItem, bpm |-> NoSong, settled |-> SettledVisit]
        /\ ~isPlaying /\ liveTimers' = liveTimers
    BY <1>2 DEF PlayTapped, PauseAndPlay
  <2>2. liveTimers' = {}
    BY <2>1 DEF OneBeat
  <2>3. SUFFICES ASSUME tempo'.settled
                 PROVE  SettledVisit' /\ tempo'.start = title'.song
    BY <2>2 DEF TempoInv
  <2>4. SettledVisit
    <3> DEFINE settled == SettledVisit
    <3>1. tempo' = [start |-> currentItem, bpm |-> NoSong, settled |-> settled]
      BY <2>1
    <3> HIDE DEF settled
    <3>2. tempo'.settled = settled
      BY <3>1
    <3>3. settled
      BY <2>3, <3>2
    <3> QED BY <3>3 DEF settled
  <2>5. tempo'.start = currentItem
    BY <2>1, Zenon
  <2> QED BY <2>1, <2>4, <2>5, HeartKeepsVisit DEF VisitInv
<1>3. ASSUME NEW row \in Pads, PadTapped(row) PROVE TempoInv'
  BY <1>3, TempoFrame, VisitSame DEF PadTapped, viewVars
<1>4. CASE ChangeTrackTapped
  <2>1. SettledVisit => SettledVisit'
    BY <1>4 DEF ChangeTrackTapped, SettledVisit
  <2> QED BY <1>4, <2>1 DEF ChangeTrackTapped, TempoInv, Working, beatVars
<1>5. ASSUME NEW s \in Songs, SongSelected(s) PROVE TempoInv'
  BY <1>5, TempoFrame, VisitSame DEF SongSelected, viewVars
<1>6. CASE BackBegun
  <2>1. ~SettledVisit /\ UNCHANGED beatVars
    BY <1>6 DEF BackBegun, SettledVisit
  <2> QED BY <2>1 DEF TempoInv, Working, beatVars
<1>7. CASE BackCancelled \/ SongsShown
  BY <1>7, <1>a DEF BackCancelled, SongsShown, ViewDidDisappear
<1>8. ASSUME NEW i \in Items, RunWorkItem(i) PROVE TempoInv'
  <2>1. /\ i \in pending /\ tempo' = [tempo EXCEPT !.bpm = currentItem]
        /\ UNCHANGED <<screen, mainQueue, title>>
    BY <1>8 DEF RunWorkItem, viewVars
  <2>2. /\ tempo'.settled = tempo.settled /\ tempo'.start = tempo.start
        /\ tempo'.bpm = currentItem
    BY <2>1, <1>0 DEF Tempos
  <2>3. SettledVisit' = SettledVisit
    BY <2>1, VisitSame
  <2>4. SettledVisit => title.song = currentItem
    BY DEF VisitInv
  <2> QED BY <2>1, <2>2, <2>3, <2>4 DEF TempoInv, Working
<1>9. ASSUME NEW p \in Pads, Beat(p) PROVE TempoInv'
  BY <1>9, TempoFrame, VisitSame DEF Beat, viewVars
<1>10. ASSUME NEW p \in Pads, NEW done \in BOOLEAN, GrowCompleted(p, done)
       PROVE  TempoInv'
  BY <1>10, TempoFrame, VisitSame DEF GrowCompleted, viewVars
<1>11. CASE MainShown
  <2>1. ~SettledVisit /\ UNCHANGED beatVars
    BY <1>11 DEF MainShown, SettledVisit
  <2> QED BY <2>1 DEF TempoInv, Working, beatVars
<1>12. CASE RunMainBlock
  <2>1. UNCHANGED beatVars
    BY <1>12 DEF RunMainBlock
  <2> QED BY <1>12, <2>1, BlockKeepsVisit DEF TempoInv, Working, beatVars
<1>13. CASE PlayerNext
  BY <1>13, TempoFrame, VisitSame DEF PlayerNext, viewVars
<1>14. CASE Crash
  BY <1>14 DEF Crash, TempoInv, Working
<1>15. CASE UNCHANGED vars
  BY <1>15, TempoFrame, VisitSame DEF vars, viewVars
<1> QED
  BY <1>1, <1>2, <1>3, <1>4, <1>5, <1>6, <1>7, <1>8, <1>9, <1>10, <1>11,
     <1>12, <1>13, <1>14, <1>15 DEF Next, UserNext, SystemNext

\* The beats of a game that began on a settled visit keep the time of the song
\* whose intro they waited for.
THEOREM BeatsInTempo == Spec => []InTempo
<1>1. Init => VisitInv /\ TempoInv
  BY DEF Init, VisitInv, SettledVisit, TempoInv, Working
<1>2. TempoInv => InTempo
  BY DEF TempoInv, Working, InTempo
<1> QED
  BY <1>1, <1>2, TempoStep, VisitStep, TypeCorrect, BeatsUnderControl, PTL DEF Spec

\* The one way in which a game ends while the button still offers Stop.
GameEndsAsShown ==
    (isPlaying /\ isPlaying' /\ pending \cup liveTimers # {})
        => (pending \cup liveTimers)' # {} \/ screen' = "songs"

LEMMA GameEnds == ASSUME [Next]_vars PROVE GameEndsAsShown
<1> USE DEF GameEndsAsShown
<1>1. CASE StopTapped \/ Crash
  BY <1>1 DEF StopTapped, Crash
<1>2. CASE PlayTapped
  BY <1>2 DEF PlayTapped
<1>3. CASE SongsShown \/ BackCancelled
  BY <1>3 DEF SongsShown, BackCancelled
<1>4. ASSUME NEW i \in Items, RunWorkItem(i) PROVE (pending \cup liveTimers)' # {}
  BY <1>4 DEF RunWorkItem
<1>5. CASE UNCHANGED <<pending, liveTimers>>
  BY <1>5
<1>6. \/ StopTapped \/ Crash
      \/ PlayTapped
      \/ SongsShown \/ BackCancelled
      \/ \E i \in Items : RunWorkItem(i)
      \/ UNCHANGED <<pending, liveTimers>>
  BY DEF Next, UserNext, SystemNext, PlayerNext, PadTapped, ChangeTrackTapped,
         SongSelected, BackBegun, Beat, GrowCompleted, MainShown, RunMainBlock,
         vars, beatVars
<1> QED BY <1>1, <1>2, <1>3, <1>4, <1>5, <1>6

\* While the button offers Stop only a change of view ends the game.
THEOREM GameEndsWithView == Spec => OnlyViewStopsBeats
<1>1. GameEndsAsShown <=> ((isPlaying /\ isPlaying' /\ pending \cup liveTimers # {})
                             => (pending \cup liveTimers)' # {} \/ screen' = "songs")
  BY DEF GameEndsAsShown
<1> QED BY <1>1, GameEnds, PTL DEF Spec, OnlyViewStopsBeats

=============================================================================
