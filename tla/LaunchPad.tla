----------------------------- MODULE LaunchPad -----------------------------
(***************************************************************************)
(* LaunchPadGame as a whole: MainViewController (the game), the song table *)
(* pushed on top of it, and the AudioPlayer singleton they share.          *)
(*                                                                         *)
(* Everything of the two controllers runs on the main thread, one handler, *)
(* timer event or main-queue block at a time; the closures they send to    *)
(* the global queue are the tasks of AudioPlayer.                          *)
(***************************************************************************)
EXTENDS AudioPlayer, Integers, Sequences

CONSTANTS
    Pads,       \* rows of the collection view: 0..15 in the app
    Full,       \* hits that fill HpGageView: 20 steps of 0.05
    MaxPlays,   \* bound: Play is tapped so often in one process
    MaxLoss, MaxCount,  \* bounds of the score, which may be negative
    MaxQueue    \* bound: blocks waiting in the main queue

ASSUME FullAssumption == Full \in Nat \ {0}
ASSUME MaxPlaysAssumption == MaxPlays \in Nat

VARIABLES
    screen,         \* which view is up, or the transition between the two
    isPlaying,      \* MainViewController.isPlaying: the icon of the button
    buttonWorkItem, \* the last DispatchWorkItem made, 0 for nil
    pending,        \* work items scheduled, not cancelled, not run yet
    buttonEventTimer, \* the item whose run made buttonEventTimer, 0 for nil
    liveTimers,     \* valid button timers, named by the item that made them
    tempo,          \* the songs whose start and bpm the last game uses, and
                    \* whether it began on a settled visit
    heartTimers,    \* how many heart timers are scheduled
    mainQueue,      \* blocks sent with DispatchQueue.main.async
    animating,      \* pads whose grow animation has not completed
    readiedButton,  \* pads that score when touched
    count,          \* the score
    progress,       \* HpGageView.progress in steps of 0.05
    isFever,        \* hits are worth 100
    title           \* titleLabel, and whether no closure ran when it was set

beatVars == <<isPlaying, buttonWorkItem, pending, buttonEventTimer, liveTimers, tempo>>
scoreVars == <<count, progress, isFever>>
padVars == <<animating, readiedButton>>
viewVars == <<screen, mainQueue, heartTimers, title>>
vars == <<audioVars, beatVars, scoreVars, padVars, viewVars>>

Screens == {"main", "toSongs", "songs", "toMain"}
NoTempo == [start |-> NoSong, bpm |-> NoSong, settled |-> FALSE]

\* Work items are numbered in the order Play makes them.
Items == 1..MaxPlays

\* The game screen is up and the title of this visit has been drawn, at a
\* moment when no closure was on the queue.
SettledVisit ==
    /\ screen \in {"main", "toSongs"}
    /\ title.settled
    /\ \A i \in 1..Len(mainQueue) : mainQueue[i] # "title"

\* MainViewModel.mapIndex: from the order of visibleCells to rows.
MapIndex(before) ==
    CASE before \in 0..6 -> 2 * before + 2
      [] before \in 7..14 -> 2 * before - 13
      [] OTHER -> 0

ASSUME PadsAssumption ==
    Pads \subseteq 0..15 /\ \A p \in Pads : MapIndex(p) \in Pads

-----------------------------------------------------------------------------
(* Launch: viewDidLoad and viewDidAppear of the main screen have run; the  *)
(* block that draws the title is in the main queue.                        *)

Init ==
    /\ AudioInit
    /\ screen = "main"
    /\ isPlaying = FALSE
    /\ buttonWorkItem = 0
    /\ pending = {}
    /\ buttonEventTimer = 0
    /\ liveTimers = {}
    /\ tempo = NoTempo
    /\ heartTimers = 0
    /\ mainQueue = <<"title">>
    /\ animating = {}
    /\ readiedButton = {}
    /\ count = 0
    /\ progress = 0
    /\ isFever = FALSE
    /\ title = [song |-> NoSong, settled |-> FALSE]

\* A crash ends the process; nothing is persisted, so the next launch starts
\* from the initial state.
Crash ==
    /\ \E t \in Tasks : AudioCrash(t)
    /\ screen' = "main"
    /\ isPlaying' = FALSE
    /\ buttonWorkItem' = 0
    /\ pending' = {}
    /\ buttonEventTimer' = 0
    /\ liveTimers' = {}
    /\ tempo' = NoTempo
    /\ heartTimers' = 0
    /\ mainQueue' = <<"title">>
    /\ animating' = {}
    /\ readiedButton' = {}
    /\ count' = 0
    /\ progress' = 0
    /\ isFever' = FALSE
    /\ title' = [song |-> NoSong, settled |-> FALSE]

-----------------------------------------------------------------------------
(* The Play/Stop button.                                                   *)

\* Mutant: the work item that still waits is not cancelled.
StopTimerOnly ==
    /\ liveTimers' = liveTimers \ {buttonEventTimer}
    /\ UNCHANGED <<pending, buttonWorkItem, buttonEventTimer, tempo>>

\* Invalidates the timer that buttonEventTimer refers to and cancels the item
\* that buttonWorkItem refers to; the references stay.
StopButtonEvent ==
    /\ liveTimers' = liveTimers \ {buttonEventTimer}
    /\ pending' = pending \ {buttonWorkItem}
    /\ UNCHANGED <<buttonWorkItem, buttonEventTimer, tempo>>

StopTapped ==
    /\ screen = "main"
    /\ isPlaying
    /\ PauseAndReset
    /\ StopButtonEvent
    /\ isPlaying' = FALSE
    /\ isFever' = FALSE
    /\ UNCHANGED <<count, progress, padVars, viewVars>>

\* The music starts now, the heart timer is made by a later block, and the
\* beats by a work item that runs when the intro of the current song is over.
PlayTapped ==
    /\ screen = "main"
    /\ ~isPlaying
    /\ buttonWorkItem < MaxPlays
    /\ Len(mainQueue) < MaxQueue
    /\ PauseAndPlay
    /\ isPlaying' = TRUE
    /\ mainQueue' = Append(mainQueue, "heart")
    /\ buttonWorkItem' = buttonWorkItem + 1
    /\ pending' = pending \cup {buttonWorkItem + 1}
    /\ tempo' = [start |-> currentItem, bpm |-> NoSong, settled |-> SettledVisit]
    /\ UNCHANGED <<buttonEventTimer, liveTimers, scoreVars, padVars, screen,
                   heartTimers, title>>

\* Mutant: Timer(...) without scheduling it.
RunWorkItemUnscheduled(i) ==
    /\ i \in pending
    /\ pending' = pending \ {i}
    /\ buttonEventTimer' = i
    /\ tempo' = [tempo EXCEPT !.bpm = currentItem]
    /\ UNCHANGED <<audioVars, isPlaying, buttonWorkItem, liveTimers, scoreVars,
                   padVars, viewVars>>

\* Mutant: the timer is not kept in buttonEventTimer.
RunWorkItemUnkept(i) ==
    /\ i \in pending
    /\ pending' = pending \ {i}
    /\ liveTimers' = liveTimers \cup {i}
    /\ tempo' = [tempo EXCEPT !.bpm = currentItem]
    /\ UNCHANGED <<audioVars, isPlaying, buttonWorkItem, buttonEventTimer,
                   scoreVars, padVars, viewVars>>

\* The work item makes the timer of the beats, with the bpm of the song that
\* is current by now.
RunWorkItem(i) ==
    /\ i \in pending
    /\ pending' = pending \ {i}
    /\ buttonEventTimer' = i
    /\ liveTimers' = liveTimers \cup {i}
    /\ tempo' = [tempo EXCEPT !.bpm = currentItem]
    /\ UNCHANGED <<audioVars, isPlaying, buttonWorkItem, scoreVars, padVars,
                   viewVars>>

\* A beat: the cell of a random pad starts to grow.
Beat(randomIndex) ==
    /\ liveTimers # {}
    /\ animating' = animating \cup {randomIndex}
    /\ UNCHANGED <<audioVars, beatVars, scoreVars, readiedButton, viewVars>>

\* The animation completes; only when it was not interrupted (done) is the
\* pad made ready.
GrowCompleted(randomIndex, done) ==
    /\ randomIndex \in animating
    /\ animating' = animating \ {randomIndex}
    /\ readiedButton' = IF done THEN readiedButton \cup {MapIndex(randomIndex)}
                                ELSE readiedButton
    /\ UNCHANGED <<audioVars, beatVars, scoreVars, viewVars>>

-----------------------------------------------------------------------------
(* didSelectItemAt: touching a pad.                                        *)

\* UIProgressView keeps its progress between 0 and 1.  In steps of 0.05 the
\* Float32 sums stay within 2e-7 of the grid and meet 1.0 exactly.
Raised(level) == IF level < Full THEN level + 1 ELSE Full
\* Mutant: no lower bound.
LoweredFreely(level) == level - 1

\* The same at the other end.
Lowered(level) == IF level > 0 THEN level - 1 ELSE 0

PadHit(row) ==
    /\ row \in readiedButton
    /\ readiedButton' = readiedButton \ {row}
    /\ count' = count + (IF isFever THEN 100 ELSE 10)
    /\ isFever' = (isFever \/ progress = Full)
    /\ progress' = Raised(progress)

\* Mutant: a miss leaves fever on.
PadMissedInFever(row) ==
    /\ row \notin readiedButton
    /\ count' = count - 10
    /\ progress' = Lowered(progress)
    /\ UNCHANGED <<isFever, readiedButton>>

PadMissed(row) ==
    /\ row \notin readiedButton
    /\ count' = count - 10
    /\ progress' = Lowered(progress)
    /\ isFever' = FALSE
    /\ UNCHANGED readiedButton

\* Without music a touch changes nothing.
PadTapped(row) ==
    /\ screen = "main"
    /\ player.playing
    /\ PadHit(row) \/ PadMissed(row)
    /\ count' \in (-MaxLoss)..MaxCount
    /\ UNCHANGED <<audioVars, beatVars, animating, viewVars>>

-----------------------------------------------------------------------------
(* Navigation.  The song table is pushed; UIKit takes no touch while a     *)
(* transition runs.                                                        *)

\* Mutant: the score survives.
ViewDidDisappearKeepingCount ==
    /\ PauseOnly
    /\ StopButtonEvent
    /\ progress' = 0
    /\ isFever' = FALSE
    /\ UNCHANGED <<count, isPlaying, padVars, mainQueue, heartTimers, title>>

\* MainViewController.viewDidDisappear: everything but the heart timers,
\* isPlaying and the readied pads.
ViewDidDisappear ==
    /\ PauseOnly
    /\ StopButtonEvent
    /\ count' = 0
    /\ progress' = 0
    /\ isFever' = FALSE
    /\ UNCHANGED <<isPlaying, padVars, mainQueue, heartTimers, title>>

ChangeTrackTapped ==
    /\ screen = "main"
    /\ screen' = "toSongs"
    /\ UNCHANGED <<audioVars, beatVars, scoreVars, padVars, mainQueue,
                   heartTimers, title>>

SongsShown ==
    /\ screen = "toSongs"
    /\ screen' = "songs"
    /\ ViewDidDisappear

SongSelected(s) ==
    /\ screen = "songs"
    /\ SelectSong(s)
    /\ UNCHANGED <<beatVars, scoreVars, padVars, viewVars>>

\* Back, or the start of a swipe back: SongTableViewController.viewWillDisappear.
BackBegun ==
    /\ screen = "songs"
    /\ screen' = "toMain"
    /\ PauseAndReset
    /\ UNCHANGED <<beatVars, scoreVars, padVars, mainQueue, heartTimers, title>>

\* Mutant: the title is drawn by viewDidLoad only.
MainShownWithoutTitle ==
    /\ screen = "toMain"
    /\ screen' = "main"
    /\ UNCHANGED <<audioVars, beatVars, scoreVars, padVars, mainQueue,
                   heartTimers, title>>

\* MainViewController.viewDidAppear sends the drawing of the title to the
\* main queue.
MainShown ==
    /\ screen = "toMain"
    /\ Len(mainQueue) < MaxQueue
    /\ screen' = "main"
    /\ mainQueue' = Append(mainQueue, "title")
    /\ UNCHANGED <<audioVars, beatVars, scoreVars, padVars, heartTimers, title>>

\* A swipe back that is let go: the main view, which had begun to appear,
\* disappears again.
BackCancelled ==
    /\ screen = "toMain"
    /\ screen' = "songs"
    /\ ViewDidDisappear

-----------------------------------------------------------------------------
(* The main queue.                                                         *)

MakeHeartTimer ==
    /\ Head(mainQueue) = "heart"
    /\ heartTimers' = heartTimers + 1
    /\ UNCHANGED title

DrawTitle ==
    /\ Head(mainQueue) = "title"
    /\ title' = [song |-> currentItem, settled |-> Outstanding = {}]
    /\ UNCHANGED heartTimers

RunMainBlock ==
    /\ mainQueue # <<>>
    /\ MakeHeartTimer \/ DrawTitle
    /\ mainQueue' = Tail(mainQueue)
    /\ UNCHANGED <<audioVars, beatVars, scoreVars, padVars, screen>>

-----------------------------------------------------------------------------
UserNext ==
    \/ StopTapped
    \/ PlayTapped
    \/ \E row \in Pads : PadTapped(row)
    \/ ChangeTrackTapped
    \/ \E s \in Songs : SongSelected(s)
    \/ BackBegun
    \/ BackCancelled

PlayerNext ==
    /\ SongEnds \/ \E t \in Tasks : TaskStep(t)
    /\ UNCHANGED <<beatVars, scoreVars, padVars, viewVars>>

SystemNext ==
    \/ \E i \in Items : RunWorkItem(i)
    \/ \E p \in Pads : Beat(p)
    \/ \E p \in Pads, done \in BOOLEAN : GrowCompleted(p, done)
    \/ SongsShown
    \/ MainShown
    \/ RunMainBlock

Next == UserNext \/ SystemNext \/ PlayerNext \/ Crash

\* What iOS runs without anyone's help: closures, expired work items, blocks
\* of the main queue and transitions.  Users do nothing they need not do, and
\* timers, which tick for ever, are not needed for any property below.
Fairness ==
    /\ \A t \in Tasks : WF_vars(TaskStep(t) /\ UNCHANGED <<beatVars, scoreVars, padVars, viewVars>>)
    /\ \A i \in Items : WF_vars(RunWorkItem(i))
    /\ WF_vars(RunMainBlock)
    /\ WF_vars(SongsShown)

Spec == Init /\ [][Next]_vars
FairSpec == Spec /\ Fairness

-----------------------------------------------------------------------------
(* Properties.                                                             *)

\* Type invariant.
TypeOK ==
    /\ AudioTypeOK
    /\ screen \in Screens
    /\ isPlaying \in BOOLEAN
    /\ buttonWorkItem \in 0..MaxPlays
    /\ pending \subseteq Items
    /\ buttonEventTimer \in 0..MaxPlays
    /\ liveTimers \subseteq Items
    /\ tempo \in [start : Songs \cup {NoSong}, bpm : Songs \cup {NoSong},
                  settled : BOOLEAN]
    /\ heartTimers \in Nat
    /\ mainQueue \in Seq({"title", "heart"})
    /\ animating \subseteq Pads
    /\ readiedButton \subseteq Pads
    /\ count \in Int
    /\ progress \in 0..Full
    /\ isFever \in BOOLEAN
    /\ title \in [song : Songs \cup {NoSong}, settled : BOOLEAN]

\* However Play, Stop, song changes and cancelled swipes follow one another,
\* the app never has two sources of beats: at most one work item waits or one
\* button timer ticks, it is the one the references buttonWorkItem and
\* buttonEventTimer still reach (so the next stopButtonEvent ends it), and
\* once the button shows Play there is none.
OneBeat ==
    /\ \A i \in pending \cup liveTimers : i = buttonWorkItem
    /\ \A i \in liveTimers : i = buttonEventTimer
    /\ pending \cap liveTimers = {}
    /\ ~isPlaying => pending \cup liveTimers = {}

\* No beat sounds, and no score, gauge or fever survives, behind the song
\* table (viewDidDisappear: stop all work and reset the view).
GameOverOffScreen ==
    screen \in {"songs", "toMain"} =>
        /\ pending \cup liveTimers = {}
        /\ count = 0 /\ progress = 0 /\ ~isFever

\* Fever is only ever on over a full gauge, whatever hits, misses, stops and
\* screen changes came before: isFever and HpGageView.progress are two fields
\* changed in four handlers.
FeverFull == isFever => progress = Full

\* The title stays the song that Play and the next reset use, whatever
\* closures Stop sends to the queue afterwards, if no closure was on the queue
\* when it was drawn.  (If one was, the title can be wrong for good.)
TitleTruthful == SettledVisit => title.song = currentItem

\* On such a visit music starts only with the button: no closure left over
\* from the song table, and none that Stop sends, can start it.
NoMusicUnasked ==
    [][(SettledVisit /\ ~player.playing /\ player'.playing)
            => isPlaying' /\ ~isPlaying]_vars

\* The beats keep the time of the song whose intro they waited for, although
\* the two are read from currentItem in two handlers with an intro in between,
\* if the game began on a settled visit: nothing that changes the song leaves
\* a work item or a timer of an earlier game behind.
InTempo ==
    (liveTimers # {} /\ tempo.settled) => tempo.bpm = tempo.start

\* While the button offers Stop there is a beat to stop or one to come, until
\* the view disappears: only that ends the game behind the button's back.
OnlyViewStopsBeats ==
    [][(isPlaying /\ isPlaying' /\ pending \cup liveTimers # {})
            => (pending \cup liveTimers)' # {} \/ screen' = "songs"]_vars

\* The beats as the player of the game knows them: any work item waiting next
\* to another or to a timer, and any two timers, would be "several".
Phase ==
    CASE pending = {} /\ liveTimers = {} -> "silent"
      [] liveTimers = {} /\ (\E i \in Items : pending = {i}) -> "intro"
      [] pending = {} /\ (\E i \in Items : liveTimers = {i}) -> "beating"
      [] OTHER -> "several"

\* The game is a metronome: whatever taps, screen changes and late work items
\* come together, a game is one intro, then one series of beats, then silence,
\* and Play is never offered before the silence.
Beats == INSTANCE Metronome
            WITH phase <- Phase,
                 button <- IF isPlaying THEN "stop" ELSE "play"
KeepsTheBeat == Beats!MetronomeSpec

\* After Play the beats begin, unless the user stops or changes the track.
BeatsBegin ==
    pending # {} ~> (liveTimers # {} \/ ~isPlaying \/ screen # "main")

\* The comment in viewDidDisappear: every work is stopped on a change of view.
AllWorkStopped ==
    screen \in {"songs", "toMain"} =>
        pending = {} /\ liveTimers = {} /\ heartTimers = 0

\* The comment in SongTableViewController.viewWillDisappear: its closure puts
\* the playing position back to the start.  It must not change the song.
ResetKeepsSong ==
    [][\A t \in Tasks : (task[t].kind = "reset" /\ StoreItem(t))
                            => currentItem' = currentItem]_vars
=============================================================================
