---------------------------- MODULE AudioPlayer ----------------------------
(***************************************************************************)
(* LaunchPadGame: the singleton AudioPlayer (Model/AudioPlayer.swift) and  *)
(* the closures its two screens send to                                    *)
(* DispatchQueue.global(qos: .userInitiated).  That queue is concurrent,   *)
(* so two closures interleave with each other and with the main thread,    *)
(* at every access to the shared `currentItem` and `player`.               *)
(***************************************************************************)
EXTENDS Naturals, FiniteSets

CONSTANTS
    Songs,      \* the names in songList
    Default,    \* "ily", loaded by viewDidLoad and used when there is no song
    Playable,   \* songs whose mp3 is in the bundle and decodes
    NoSong,     \* currentItem = nil, and the song of an empty AVAudioPlayer()
    Tasks       \* worker threads that can run closures at the same time

ASSUME SongsAssumption == Default \in Songs /\ NoSong \notin Songs
ASSUME PlayableAssumption == Playable \subseteq Songs

VARIABLES
    currentItem,  \* AudioPlayer.currentItem, by name
    player,       \* AudioPlayer.player: its song, and isPlaying
    task,         \* the closure each worker runs: where it is, and its song
    overlapped    \* history: did the closures of the last burst overlap?

audioVars == <<currentItem, player, task, overlapped>>

-----------------------------------------------------------------------------
(* A closure ends in "done".  "argument" is the evaluation of              *)
(* currentItem?.name ?? "ily", before the call of setCurrentItem; "item",  *)
(* "name" and "store" are the three accesses setCurrentItem makes; "play"  *)
(* is playCurrentSong.                                                     *)

Steps == {"argument", "item", "name", "store", "play", "done"}
TaskStates == [kind : {"select", "reset"}, at : Steps,
               song : Songs \cup {NoSong}]
NoTask == [kind |-> "reset", at |-> "done", song |-> NoSong]

Outstanding == {t \in Tasks : task[t].at # "done"}

\* What a lone setCurrentItem(s) leaves in player, when it held p before.
LoadedFrom(s, p) == IF s \in Playable THEN [song |-> s, playing |-> FALSE]
                                      ELSE p

\* MainViewController.viewDidLoad has called setCurrentItem("ily").
AudioInit ==
    /\ currentItem = Default
    /\ player = LoadedFrom(Default, [song |-> NoSong, playing |-> FALSE])
    /\ task = [t \in Tasks |-> NoTask]
    /\ overlapped = FALSE

-----------------------------------------------------------------------------
(* What the main thread asks of the player.                                *)

\* play(): an AVAudioPlayer() without a file plays nothing.
Started(p) == [p EXCEPT !.playing = p.song # NoSong]

\* pause(), a no-op on a player that is not playing.
Paused(p) == [p EXCEPT !.playing = FALSE]

\* DispatchQueue.global.async: any free worker takes the closure.
DispatchTask(closure) ==
    /\ \E t \in Tasks \ Outstanding : task' = [task EXCEPT ![t] = closure]
    /\ overlapped' = (Outstanding # {})

\* Mutant: the closure reads the current song, not the one it was sent for.
SelectCurrentSong(s) ==
    /\ player' = Paused(player)
    /\ DispatchTask([kind |-> "select", at |-> "argument", song |-> NoSong])
    /\ UNCHANGED currentItem

\* SongTableViewController didSelectRowAt: silence now, load and play later.
SelectSong(s) ==
    /\ player' = Paused(player)
    /\ DispatchTask([kind |-> "select", at |-> "item", song |-> s])
    /\ UNCHANGED currentItem

\* What SongTableViewController.viewWillDisappear and the Stop branch of
\* playButtonTapped do to the player: silence now, reload the song later.
PauseAndReset ==
    /\ player' = Paused(player)
    /\ DispatchTask([kind |-> "reset", at |-> "argument", song |-> NoSong])
    /\ UNCHANGED currentItem

\* The Play branch of playButtonTapped: pause(), then playCurrentSong().
PauseAndPlay ==
    /\ player' = Started(Paused(player))
    /\ UNCHANGED <<currentItem, task, overlapped>>

\* MainViewController.viewDidDisappear.
PauseOnly ==
    /\ player' = Paused(player)
    /\ UNCHANGED <<currentItem, task, overlapped>>

-----------------------------------------------------------------------------
(* The closures, one access of the shared fields per step.                 *)

Advance(t, next, s) == task' = [task EXCEPT ![t].at = next, ![t].song = s]
Finish(t) == task' = [task EXCEPT ![t] = NoTask]

\* The closure of a reset reads the song it is going to set again.
ReadArgument(t) ==
    /\ task[t].at = "argument"
    /\ Advance(t, "item", IF currentItem = NoSong THEN Default ELSE currentItem)
    /\ UNCHANGED <<currentItem, player, overlapped>>

\* Mutant: the song is found but not stored.
StoreNoItem(t) ==
    /\ task[t].at = "item"
    /\ Advance(t, "name", task[t].song)
    /\ UNCHANGED <<currentItem, player, overlapped>>

\* self.currentItem = song
StoreItem(t) ==
    /\ task[t].at = "item"
    /\ currentItem' = task[t].song
    /\ Advance(t, "name", task[t].song)
    /\ UNCHANGED <<player, overlapped>>

\* guard let name = self.currentItem?.name: a second read of the shared
\* field, so the file opened is the one of whatever song is current by now.
ReadName(t) ==
    /\ task[t].at = "name"
    /\ Advance(t, "store", currentItem)
    /\ UNCHANGED <<currentItem, player, overlapped>>

\* Mutant: the new player is a local of the same name.
ShadowPlayer(t) ==
    /\ task[t].at = "store"
    /\ IF task[t].kind = "select" THEN Advance(t, "play", task[t].song)
                                  ELSE Finish(t)
    /\ UNCHANGED <<currentItem, player, overlapped>>

\* Mutant: setCurrentItem plays what it has loaded.
StorePlayerAndPlay(t) ==
    /\ task[t].at = "store"
    /\ player' = LoadedFrom(task[t].song, player)
    /\ Advance(t, "play", task[t].song)
    /\ UNCHANGED <<currentItem, overlapped>>

\* self.player = try AVAudioPlayer(contentsOf:); prepareToPlay().  The old
\* player is released, and silent with it.  Without a file, or when the
\* initialiser throws, the old player stays.
StorePlayer(t) ==
    /\ task[t].at = "store"
    /\ player' = LoadedFrom(task[t].song, player)
    /\ IF task[t].kind = "select" THEN Advance(t, "play", task[t].song)
                                  ELSE Finish(t)
    /\ UNCHANGED <<currentItem, overlapped>>

\* Mutant: the selection is loaded and never played.
StartNothing(t) ==
    /\ task[t].at = "play"
    /\ Finish(t)
    /\ UNCHANGED <<currentItem, player, overlapped>>

\* self.player.playCurrentSong(), on the player that is shared by now.
StartPlayback(t) ==
    /\ task[t].at = "play"
    /\ player' = Started(player)
    /\ Finish(t)
    /\ UNCHANGED <<currentItem, overlapped>>

TaskStep(t) ==
    \/ ReadArgument(t)
    \/ StoreItem(t)
    \/ ReadName(t)
    \/ StorePlayer(t)
    \/ StartPlayback(t)

\* AVAudioPlayer reaches the end of its file; the app has no delegate for it.
SongEnds ==
    /\ player.playing
    /\ player' = Paused(player)
    /\ UNCHANGED <<currentItem, task, overlapped>>

\* currentItem and player are stored without a lock while another thread may
\* be reading them.  Such a race either reads one of the two values, as the
\* steps above do, or uses a released reference: the process dies, and the
\* app starts again with nothing kept.
Racing(t) == task[t].at \in {"item", "store"}

AudioRelaunch ==
    /\ currentItem' = Default
    /\ player' = LoadedFrom(Default, [song |-> NoSong, playing |-> FALSE])
    /\ task' = [t \in Tasks |-> NoTask]
    /\ overlapped' = FALSE

AudioCrash(t) == Racing(t) /\ AudioRelaunch

-----------------------------------------------------------------------------
(* The player under any client: main-thread calls in any order.            *)

AudioNext ==
    \/ \E s \in Songs : SelectSong(s)
    \/ PauseAndReset
    \/ PauseAndPlay
    \/ PauseOnly
    \/ \E t \in Tasks : TaskStep(t)
    \/ SongEnds
    \/ \E t \in Tasks : AudioCrash(t)

AudioSafety == AudioInit /\ [][AudioNext]_audioVars

\* A closure on a global queue runs until it ends; nobody has to call, no song
\* has to end, no race has to be lost.
AudioSpec ==
    /\ AudioSafety
    /\ \A t \in Tasks : WF_audioVars(TaskStep(t))

-----------------------------------------------------------------------------
(* Properties.                                                             *)

\* A selection knows its song from the start, a reset from its first step on.
ClosureOK(c) ==
    /\ c.at = "argument" => c.kind = "reset"
    /\ c.at = "play" => c.kind = "select"
    /\ c.at \in {"item", "name", "store", "play"} => c.song \in Songs

\* Type invariant of the singleton and of the closures on the queue.  After
\* viewDidLoad there always is a current song: ?? "ily" is never needed.
AudioTypeOK ==
    /\ currentItem \in Songs
    /\ player \in [song : Songs \cup {NoSong}, playing : BOOLEAN]
    /\ task \in [Tasks -> TaskStates]
    /\ \A t \in Tasks : ClosureOK(task[t])
    /\ overlapped \in BOOLEAN

\* currentItem and player are two unsynchronised fields that name one song.
\* Once the queue is empty they agree again, unless two closures overlapped:
\* no order of calls, songs without a file, songs ending or late closures can
\* separate them on its own.
SettledConsistent ==
    (Outstanding = {} /\ ~overlapped /\ currentItem \in Playable)
        => player.song = currentItem

\* A closure that runs alone performs setCurrentItem as if it were atomic:
\* between its store of currentItem and its store of player, the song whose
\* file it opens is the current one, and the one it was sent for.
LoneTask(t) ==
    /\ task[t].at \in {"name", "store", "play"} => task[t].song = currentItem
    /\ task[t].at = "play" /\ currentItem \in Playable
            => player.song = currentItem

\* The inductive invariant behind SettledConsistent.
LoneTasks ==
    ~overlapped => /\ \A t, u \in Outstanding : t = u
                   /\ \A t \in Outstanding : LoneTask(t)

\* The queue holds a selection of s and nothing else, and nothing has joined it.
Carrying(t, s) ==
    /\ ~overlapped
    /\ Outstanding = {t}
    /\ task[t].kind = "select" /\ task[t].song = s

\* The selection has come to its end: its song is the current one, and plays; one
\* that cannot be loaded leaves the old player to play under its name.
Selected(s) == currentItem' = s /\ player' = Started(LoadedFrom(s, player))

CarriedOn(t, s) ==
    \/ Carrying(t, s)'
    \/ Selected(s)
    \/ overlapped'
    \/ AudioInit'

\* A selection that is alone on the queue is not lost: whatever the main thread
\* calls between its steps (a pause, Play, the end of a song), it stays the
\* selection of that song until it has come to its end, with a file or without,
\* unless another closure joins it or the process dies.
SelectionKept ==
    [][\A s \in Songs, t \in Tasks :
            Carrying(t, s) => CarriedOn(t, s)]_audioVars

\* A song selected while the queue is empty gets to play, however late its
\* closure runs and whatever is paused or stopped in the meantime, unless
\* another closure joins it or the process dies on the way.
SelectionPlays ==
    \A s \in Playable, t \in Tasks :
        (Outstanding = {t} /\ task[t] = [kind |-> "select", at |-> "item", song |-> s])
            ~> \/ player = [song |-> s, playing |-> TRUE]
               \/ overlapped
               \/ AudioInit
=============================================================================
