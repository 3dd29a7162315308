------------------------ MODULE AudioPlayer_proofs ------------------------
(* Proofs about AudioPlayer, for any songs, any files missing and any      *)
(* number of closures running at once.                                     *)
EXTENDS AudioPlayer, TLAPS

LEMMA LoadedFromType ==
    ASSUME NEW s \in Songs \cup {NoSong},
           NEW p \in [song : Songs \cup {NoSong}, playing : BOOLEAN]
    PROVE  LoadedFrom(s, p) \in [song : Songs \cup {NoSong}, playing : BOOLEAN]
BY PlayableAssumption DEF LoadedFrom

\* A worker that is given a new state has it, and the others keep theirs.
LEMMA AdvanceType ==
    ASSUME AudioTypeOK, NEW t \in Tasks, NEW c \in TaskStates, ClosureOK(c)
    PROVE  /\ [task EXCEPT ![t] = c] \in [Tasks -> TaskStates]
           /\ \A u \in Tasks : ClosureOK([task EXCEPT ![t] = c][u])
BY DEF AudioTypeOK

LEMMA NoTaskOK == NoTask \in TaskStates /\ ClosureOK(NoTask)
BY DEF NoTask, TaskStates, ClosureOK, Steps

LEMMA AudioInitType == AudioInit => AudioTypeOK
<1> SUFFICES ASSUME AudioInit PROVE AudioTypeOK
  OBVIOUS
<1>1. player \in [song : Songs \cup {NoSong}, playing : BOOLEAN]
  BY LoadedFromType, SongsAssumption DEF AudioInit
<1>2. task \in [Tasks -> TaskStates] /\ \A t \in Tasks : ClosureOK(task[t])
  BY NoTaskOK DEF AudioInit
<1> QED
  BY <1>1, <1>2, SongsAssumption DEF AudioInit, AudioTypeOK

\* What Advance stores is a closure of the right shape.
LEMMA AdvancedOK ==
    ASSUME AudioTypeOK, NEW t \in Tasks, NEW next \in Steps,
           NEW s \in Songs \cup {NoSong}, Advance(t, next, s),
           next = "argument" => task[t].kind = "reset",
           next = "play" => task[t].kind = "select",
           next \in {"item", "name", "store", "play"} => s \in Songs
    PROVE  /\ task' \in [Tasks -> TaskStates]
           /\ \A u \in Tasks : ClosureOK(task'[u])
<1> DEFINE c == [task[t] EXCEPT !.at = next, !.song = s]
<1>1. task[t] \in TaskStates
  BY DEF AudioTypeOK
<1>2. c \in TaskStates /\ ClosureOK(c)
  BY <1>1 DEF TaskStates, ClosureOK
<1>3. task' = [task EXCEPT ![t] = c]
  BY <1>1 DEF Advance, AudioTypeOK, TaskStates
<1> QED
  BY <1>2, <1>3, AdvanceType

LEMMA FinishedOK ==
    ASSUME AudioTypeOK, NEW t \in Tasks, Finish(t)
    PROVE  /\ task' \in [Tasks -> TaskStates]
           /\ \A u \in Tasks : ClosureOK(task'[u])
BY NoTaskOK, AdvanceType DEF Finish

LEMMA DispatchOK ==
    ASSUME AudioTypeOK, NEW c \in TaskStates, ClosureOK(c), DispatchTask(c)
    PROVE  /\ task' \in [Tasks -> TaskStates]
           /\ \A u \in Tasks : ClosureOK(task'[u])
           /\ overlapped' \in BOOLEAN
<1>1. PICK t \in Tasks : task' = [task EXCEPT ![t] = c]
  BY DEF DispatchTask
<1> QED
  BY <1>1, AdvanceType DEF DispatchTask

LEMMA PausedStartedType ==
    ASSUME NEW p \in [song : Songs \cup {NoSong}, playing : BOOLEAN]
    PROVE  /\ Paused(p) \in [song : Songs \cup {NoSong}, playing : BOOLEAN]
           /\ Started(p) \in [song : Songs \cup {NoSong}, playing : BOOLEAN]
BY DEF Paused, Started

\* The calls of the main thread keep the types.
LEMMA CallsType ==
    ASSUME AudioTypeOK,
           \/ \E s \in Songs : SelectSong(s)
           \/ PauseAndReset
           \/ PauseAndPlay
           \/ PauseOnly
           \/ SongEnds
    PROVE  AudioTypeOK'
<1>1. ASSUME NEW s \in Songs, SelectSong(s) PROVE AudioTypeOK'
  <2> DEFINE c == [kind |-> "select", at |-> "item", song |-> s]
  <2>1. c \in TaskStates /\ ClosureOK(c)
    BY DEF TaskStates, Steps, ClosureOK
  <2>2. DispatchTask(c) /\ player' = Paused(player) /\ UNCHANGED currentItem
    BY <1>1 DEF SelectSong
  <2> QED
    BY <2>1, <2>2, DispatchOK, PausedStartedType DEF AudioTypeOK
<1>2. CASE PauseAndReset
  <2> DEFINE c == [kind |-> "reset", at |-> "argument", song |-> NoSong]
  <2>1. c \in TaskStates /\ ClosureOK(c)
    BY DEF TaskStates, Steps, ClosureOK
  <2>2. DispatchTask(c) /\ player' = Paused(player) /\ UNCHANGED currentItem
    BY <1>2 DEF PauseAndReset
  <2> QED
    BY <2>1, <2>2, DispatchOK, PausedStartedType DEF AudioTypeOK
<1>3. CASE PauseAndPlay
  BY <1>3, PausedStartedType DEF PauseAndPlay, AudioTypeOK
<1>4. CASE PauseOnly
  BY <1>4, PausedStartedType DEF PauseOnly, AudioTypeOK
<1>5. CASE SongEnds
  BY <1>5, PausedStartedType DEF SongEnds, AudioTypeOK
<1> QED
  BY <1>1, <1>2, <1>3, <1>4, <1>5

\* So do the steps of the closures and a crash.
LEMMA TaskStepType ==
    ASSUME AudioTypeOK, NEW t \in Tasks, TaskStep(t)
    PROVE  AudioTypeOK'
<1> USE DEF Steps
<1>0. task[t] \in TaskStates /\ ClosureOK(task[t])
  BY DEF AudioTypeOK
<1>1. CASE ReadArgument(t)
  <2> DEFINE s == IF currentItem = NoSong THEN Default ELSE currentItem
  <2>1. s \in Songs
    BY SongsAssumption DEF AudioTypeOK
  <2>2. Advance(t, "item", s) /\ UNCHANGED <<currentItem, player, overlapped>>
    BY <1>1 DEF ReadArgument
  <2> QED
    BY <2>1, <2>2, AdvancedOK DEF AudioTypeOK
<1>2. CASE StoreItem(t)
  <2>1. task[t].song \in Songs
    BY <1>0, <1>2 DEF StoreItem, ClosureOK
  <2> QED
    BY <1>2, <2>1, AdvancedOK DEF StoreItem, AudioTypeOK
<1>3. CASE ReadName(t)
  BY <1>3, AdvancedOK DEF ReadName, AudioTypeOK
<1>4. CASE StorePlayer(t)
  <2>1. task[t].song \in Songs
    BY <1>0, <1>4 DEF StorePlayer, ClosureOK
  <2>2. player' \in [song : Songs \cup {NoSong}, playing : BOOLEAN]
    BY <1>4, <2>1, LoadedFromType DEF StorePlayer, AudioTypeOK
  <2>3. task' \in [Tasks -> TaskStates] /\ \A u \in Tasks : ClosureOK(task'[u])
    <3>1. CASE task[t].kind = "select"
      BY <1>4, <2>1, <3>1, AdvancedOK DEF StorePlayer
    <3>2. CASE task[t].kind # "select"
      BY <1>4, <3>2, FinishedOK DEF StorePlayer
    <3> QED
      BY <3>1, <3>2
  <2> QED
    BY <1>4, <2>2, <2>3 DEF StorePlayer, AudioTypeOK
<1>5. CASE StartPlayback(t)
  BY <1>5, FinishedOK, PausedStartedType DEF StartPlayback, AudioTypeOK
<1> QED
  BY <1>1, <1>2, <1>3, <1>4, <1>5 DEF TaskStep

LEMMA CrashType ==
    ASSUME NEW t \in Tasks, AudioCrash(t)
    PROVE  AudioTypeOK'
<1>1. player' \in [song : Songs \cup {NoSong}, playing : BOOLEAN]
  BY LoadedFromType, SongsAssumption DEF AudioCrash, AudioRelaunch
<1>2. task' \in [Tasks -> TaskStates] /\ \A u \in Tasks : ClosureOK(task'[u])
  BY NoTaskOK DEF AudioCrash, AudioRelaunch
<1> QED
  BY <1>1, <1>2, SongsAssumption DEF AudioCrash, AudioRelaunch, AudioTypeOK

LEMMA AudioStepType ==
    ASSUME AudioTypeOK, [AudioNext]_audioVars
    PROVE  AudioTypeOK'
<1>1. CASE UNCHANGED audioVars
  BY <1>1 DEF audioVars, AudioTypeOK
<1>2. CASE AudioNext
  BY <1>2, CallsType, TaskStepType, CrashType DEF AudioNext
<1> QED
  BY <1>1, <1>2

\* Type correctness: whatever the calls and however the closures interleave,
\* there is a current song, and every closure knows the song it is about.
THEOREM AudioTypeCorrect == AudioSafety => []AudioTypeOK
BY AudioStepType, AudioInitType, PTL DEF AudioSafety

-----------------------------------------------------------------------------
(* A closure that is alone on the queue leaves currentItem and player in   *)
(* agreement.                                                              *)

\* While no two closures overlapped, the queue holds at most one, it is where
\* LoneTask says, and an empty queue leaves the two fields in agreement.
LoneInv == LoneTasks /\ SettledConsistent

\* A call that leaves the queue and currentItem alone, and at most pauses or
\* starts the player it finds.
LEMMA LoneQuietCall ==
    ASSUME LoneInv, UNCHANGED <<currentItem, task, overlapped>>,
           player'.song = player.song
    PROVE  LoneInv'
BY DEF LoneInv, LoneTasks, LoneTask, SettledConsistent, Outstanding

\* A closure sent to the queue has stored nothing yet.
LEMMA LoneDispatch ==
    ASSUME AudioTypeOK, LoneInv, NEW c \in TaskStates,
           c.at \in {"argument", "item"}, DispatchTask(c)
    PROVE  LoneInv'
<1>1. PICK t \in Tasks \ Outstanding : task' = [task EXCEPT ![t] = c]
  BY DEF DispatchTask
<1>2. /\ task'[t] = c
      /\ \A u \in Tasks : u # t => task'[u] = task[u]
  BY <1>1 DEF AudioTypeOK
<1>3. t \in Outstanding'
  BY <1>2 DEF Outstanding
<1>4. overlapped' = (Outstanding # {})
  BY DEF DispatchTask
<1>5. ~overlapped' => \A u \in Outstanding' : u = t
  BY <1>2, <1>4 DEF Outstanding
<1>6. LoneTask(t)'
  BY <1>2 DEF LoneTask
<1> QED
  BY <1>3, <1>5, <1>6 DEF LoneInv, LoneTasks, SettledConsistent

\* A closure that is not done stays the only one when it moves on, and it is
\* enough to look at the place it moves to.
LEMMA LoneAdvance ==
    ASSUME AudioTypeOK, LoneInv, NEW t \in Tasks, NEW next \in Steps \ {"done"},
           NEW s \in Songs, task[t].at # "done", Advance(t, next, s),
           UNCHANGED overlapped,
           ~overlapped /\ next \in {"name", "store", "play"} => s = currentItem',
           ~overlapped /\ next = "play" /\ currentItem' \in Playable
                => player'.song = currentItem'
    PROVE  LoneInv'
<1>1. task[t] \in TaskStates
  BY DEF AudioTypeOK
<1>2. /\ task'[t].at = next /\ task'[t].song = s
      /\ \A u \in Tasks : u # t => task'[u] = task[u]
  BY <1>1 DEF Advance, AudioTypeOK, TaskStates
<1>3. t \in Outstanding /\ Outstanding' = Outstanding
  BY <1>2 DEF Outstanding
<1>4. ~overlapped' => LoneTask(t)'
  BY <1>2 DEF LoneTask
<1> QED
  BY <1>3, <1>4 DEF LoneInv, LoneTasks, SettledConsistent

\* When the only closure ends, the queue is empty.
LEMMA LoneFinish ==
    ASSUME AudioTypeOK, LoneInv, NEW t \in Tasks, task[t].at # "done", Finish(t),
           UNCHANGED <<currentItem, overlapped>>,
           ~overlapped /\ currentItem \in Playable => player'.song = currentItem
    PROVE  LoneInv'
<1>1. /\ task'[t].at = "done"
      /\ \A u \in Tasks : u # t => task'[u] = task[u]
  BY DEF Finish, NoTask, AudioTypeOK
<1>2. t \in Outstanding /\ Outstanding' = Outstanding \ {t}
  BY <1>1 DEF Outstanding
<1>3. ~overlapped => Outstanding' = {}
  BY <1>2 DEF LoneInv, LoneTasks
<1> QED
  BY <1>3 DEF LoneInv, LoneTasks, SettledConsistent

LEMMA LoneTaskStep ==
    ASSUME AudioTypeOK, LoneInv, NEW t \in Tasks, TaskStep(t)
    PROVE  LoneInv'
<1>0. task[t].at # "done" => t \in Outstanding
  BY DEF Outstanding
<1>a. ClosureOK(task[t])
  BY DEF AudioTypeOK
<1>1. CASE ReadArgument(t)
  <2>1. Advance(t, "item", currentItem)
    BY <1>1, SongsAssumption DEF ReadArgument, AudioTypeOK
  <2> QED
    BY <1>1, <2>1, LoneAdvance DEF ReadArgument, AudioTypeOK, Steps
<1>2. CASE StoreItem(t)
  <2>1. task[t].song \in Songs
    BY <1>a, <1>2 DEF StoreItem, ClosureOK
  <2> QED
    BY <1>2, <2>1, LoneAdvance DEF StoreItem, Steps
<1>3. CASE ReadName(t)
  BY <1>3, LoneAdvance DEF ReadName, AudioTypeOK, Steps
<1>4. CASE StorePlayer(t)
  <2>1. task[t].song \in Songs /\ task[t].at = "store"
    BY <1>a, <1>4 DEF StorePlayer, ClosureOK
  <2>2. ~overlapped => task[t].song = currentItem
    BY <1>0, <2>1 DEF LoneInv, LoneTasks, LoneTask
  <2>3. ~overlapped /\ currentItem \in Playable => player'.song = currentItem
    BY <1>4, <2>2 DEF StorePlayer, LoadedFrom
  <2>4. CASE task[t].kind = "select"
    BY <1>4, <2>1, <2>2, <2>3, <2>4, LoneAdvance DEF StorePlayer, Steps
  <2>5. CASE task[t].kind # "select"
    BY <1>4, <2>1, <2>3, <2>5, LoneFinish DEF StorePlayer
  <2> QED
    BY <2>4, <2>5
<1>5. CASE StartPlayback(t)
  <2>1. ~overlapped /\ currentItem \in Playable => player.song = currentItem
    BY <1>0, <1>5 DEF StartPlayback, LoneInv, LoneTasks, LoneTask
  <2>2. player'.song = player.song
    BY <1>5 DEF StartPlayback, Started, AudioTypeOK
  <2> QED
    BY <1>5, <2>1, <2>2, LoneFinish DEF StartPlayback
<1> QED
  BY <1>1, <1>2, <1>3, <1>4, <1>5 DEF TaskStep

LEMMA LoneFresh ==
    ASSUME currentItem = Default,
           player = LoadedFrom(Default, [song |-> NoSong, playing |-> FALSE]),
           task = [t \in Tasks |-> NoTask]
    PROVE  LoneInv
BY DEF LoneInv, LoneTasks, SettledConsistent, Outstanding, NoTask, LoadedFrom

LEMMA LoneCrash ==
    ASSUME NEW t \in Tasks, AudioCrash(t)
    PROVE  LoneInv'
<1>1. Outstanding' = {}
  BY DEF AudioCrash, AudioRelaunch, Outstanding, NoTask
<1>2. currentItem' \in Playable => player'.song = currentItem'
  BY DEF AudioCrash, AudioRelaunch, LoadedFrom
<1> QED
  BY <1>1, <1>2 DEF LoneInv, LoneTasks, SettledConsistent

LEMMA LoneCalls ==
    ASSUME AudioTypeOK, LoneInv,
           \/ \E s \in Songs : SelectSong(s)
           \/ PauseAndReset
           \/ PauseAndPlay
           \/ PauseOnly
           \/ SongEnds
    PROVE  LoneInv'
<1> USE DEF TaskStates, Steps
<1>1. ASSUME NEW s \in Songs, SelectSong(s) PROVE LoneInv'
  BY <1>1, LoneDispatch DEF SelectSong
<1>2. CASE PauseAndReset
  BY <1>2, LoneDispatch DEF PauseAndReset
<1>3. CASE PauseAndPlay
  BY <1>3, LoneQuietCall DEF PauseAndPlay, Paused, Started, AudioTypeOK
<1>4. CASE PauseOnly
  BY <1>4, LoneQuietCall DEF PauseOnly, Paused, AudioTypeOK
<1>5. CASE SongEnds
  BY <1>5, LoneQuietCall DEF SongEnds, Paused, AudioTypeOK
<1> QED
  BY <1>1, <1>2, <1>3, <1>4, <1>5

LEMMA LoneStep ==
    ASSUME AudioTypeOK, LoneInv, [AudioNext]_audioVars
    PROVE  LoneInv'
<1>1. CASE UNCHANGED audioVars
  BY <1>1, LoneQuietCall DEF audioVars
<1>2. CASE AudioNext
  BY <1>2, LoneCalls, LoneTaskStep, LoneCrash DEF AudioNext
<1> QED
  BY <1>1, <1>2

LEMMA LoneHolds == AudioSafety => []LoneInv
<1>1. AudioInit => LoneInv
  BY LoneFresh DEF AudioInit
<1> QED
  BY <1>1, LoneStep, AudioTypeCorrect, PTL DEF AudioSafety

\* For any number of songs and of closures at once: the song currentItem names
\* and the song of the player can only come apart when closures overlap.
THEOREM AudioSettledConsistent == AudioSafety => []SettledConsistent
<1>1. LoneInv => SettledConsistent
  BY DEF LoneInv
<1> QED
  BY <1>1, LoneHolds, PTL

\* A closure that runs alone opens the file of the song it was sent for, which
\* is the current one.
THEOREM AudioLoneTasks == AudioSafety => []LoneTasks
<1>1. LoneInv => LoneTasks
  BY DEF LoneInv
<1> QED
  BY <1>1, LoneHolds, PTL

-----------------------------------------------------------------------------
(* A selection that stays alone on the queue is carried to its end.        *)

\* A call of the main thread leaves the closure where it is, unless it sends
\* another.
LEMMA KeptByCalls ==
    ASSUME AudioTypeOK, NEW s \in Songs, NEW t \in Tasks, Carrying(t, s),
           \/ \E r \in Songs : SelectSong(r)
           \/ PauseAndReset
           \/ PauseAndPlay
           \/ PauseOnly
           \/ SongEnds
    PROVE  CarriedOn(t, s)
<1>1. ASSUME NEW c, DispatchTask(c) PROVE CarriedOn(t, s)
  BY <1>1 DEF DispatchTask, Carrying, CarriedOn
<1>2. ASSUME UNCHANGED <<task, overlapped>> PROVE CarriedOn(t, s)
  BY <1>2 DEF Carrying, CarriedOn, Outstanding
<1> QED
  BY <1>1, <1>2 DEF SelectSong, PauseAndReset, PauseAndPlay, PauseOnly, SongEnds

\* A step of its own changes its place, not its song.
LEMMA KeptAdvance ==
    ASSUME AudioTypeOK, NEW s \in Songs, NEW t \in Tasks, Carrying(t, s),
           NEW next \in Steps \ {"done"}, Advance(t, next, s),
           UNCHANGED overlapped
    PROVE  CarriedOn(t, s)
<1>1. task[t] \in TaskStates
  BY DEF AudioTypeOK
<1>2. /\ task'[t].at = next /\ task'[t].song = s
      /\ task'[t].kind = task[t].kind
      /\ \A u \in Tasks : u # t => task'[u] = task[u]
  BY <1>1 DEF Advance, AudioTypeOK, TaskStates
<1>3. Outstanding' = Outstanding
  BY <1>2 DEF Outstanding, Carrying
<1> QED
  BY <1>2, <1>3 DEF CarriedOn, Carrying

LEMMA KeptByTask ==
    ASSUME AudioTypeOK, LoneInv, NEW s \in Songs, NEW t \in Tasks,
           Carrying(t, s), TaskStep(t)
    PROVE  CarriedOn(t, s)
<1> USE DEF Steps
<1>1. /\ ClosureOK(task[t]) /\ LoneTask(t)
      /\ task[t].kind = "select" /\ task[t].song = s
      /\ player \in [song : Songs \cup {NoSong}, playing : BOOLEAN]
  BY DEF AudioTypeOK, Carrying, LoneInv, LoneTasks
<1>2. CASE ReadArgument(t)
  BY <1>1, <1>2 DEF ReadArgument, ClosureOK
<1>3. CASE StoreItem(t)
  BY <1>1, <1>3, KeptAdvance DEF StoreItem
<1>4. CASE ReadName(t)
  BY <1>1, <1>4, KeptAdvance DEF ReadName, LoneTask
<1>5. CASE StorePlayer(t)
  BY <1>1, <1>5, KeptAdvance DEF StorePlayer
<1>6. CASE StartPlayback(t)
  <2>1. currentItem' = s /\ player' = Started(player)
    BY <1>1, <1>6 DEF StartPlayback, LoneTask
  <2>2. s \in Playable => player.song = s
    BY <1>1, <1>6 DEF StartPlayback, LoneTask
  <2>3. Started(LoadedFrom(s, player)) = Started(player)
    <3>1. CASE s \in Playable
      <4>1. s # NoSong
        BY SongsAssumption
      <4> QED
        BY <1>1, <2>2, <3>1, <4>1 DEF Started, LoadedFrom
    <3>2. CASE s \notin Playable
      BY <3>2 DEF LoadedFrom
    <3> QED
      BY <3>1, <3>2
  <2> QED
    BY <2>1, <2>3 DEF CarriedOn, Selected
<1> QED
  BY <1>2, <1>3, <1>4, <1>5, <1>6 DEF TaskStep

LEMMA KeptByStep ==
    ASSUME AudioTypeOK, LoneInv, NEW s \in Songs, NEW t \in Tasks,
           Carrying(t, s), AudioNext
    PROVE  CarriedOn(t, s)
<1>1. ASSUME NEW u \in Tasks, TaskStep(u) PROVE CarriedOn(t, s)
  <2>1. u \in Outstanding
    BY <1>1 DEF TaskStep, ReadArgument, StoreItem, ReadName, StorePlayer,
                StartPlayback, Outstanding
  <2> QED
    BY <1>1, <2>1, KeptByTask DEF Carrying
<1>2. ASSUME NEW u \in Tasks, AudioCrash(u) PROVE CarriedOn(t, s)
  BY <1>2 DEF AudioCrash, AudioRelaunch, AudioInit, CarriedOn
<1> QED
  BY <1>1, <1>2, KeptByCalls DEF AudioNext

\* A selection that nothing joins is carried to its end whatever the main
\* thread does in the meantime, under any client of the player.
THEOREM AudioSelectionKept == AudioSafety => SelectionKept
<1>1. AudioTypeOK /\ LoneInv /\ [AudioNext]_audioVars
        => [\A s \in Songs, t \in Tasks :
                Carrying(t, s) => CarriedOn(t, s)]_audioVars
  BY KeptByStep
<1> QED
  BY <1>1, AudioTypeCorrect, LoneHolds, PTL DEF AudioSafety, SelectionKept

=============================================================================
