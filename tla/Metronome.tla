----------------------------- MODULE Metronome -----------------------------
(***************************************************************************)
(* What the Play button of LaunchPadGame promises about the beats: they    *)
(* begin once per game, after an intro, and end with the game.  How work   *)
(* items and timers bring that about is not its business.                  *)
(***************************************************************************)
VARIABLES
    phase,   \* "silent", "intro" (the beats are to come) or "beating"
    button   \* what the button offers: "play" or "stop"

metronomeVars == <<phase, button>>

MetronomeInit == phase = "silent" /\ button = "play"

\* Play is only ever offered in silence.
Start ==
    /\ button = "play" /\ phase = "silent"
    /\ button' = "stop" /\ phase' = "intro"

FirstBeat ==
    /\ phase = "intro" /\ phase' = "beating"
    /\ UNCHANGED button

\* Stop always brings silence, and a silent game can be stopped too.
Stop ==
    /\ button = "stop"
    /\ button' = "play" /\ phase' = "silent"

\* The screen goes away: silence, and the button keeps its picture.
Leave ==
    /\ phase' = "silent"
    /\ UNCHANGED button

\* The process died and was launched again.
Restart == button' = "play" /\ phase' = "silent"

MetronomeNext == Start \/ FirstBeat \/ Stop \/ Leave \/ Restart

MetronomeSpec == MetronomeInit /\ [][MetronomeNext]_metronomeVars
=============================================================================
