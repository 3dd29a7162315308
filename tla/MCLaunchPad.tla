---------------------------- MODULE MCLaunchPad ----------------------------
(* Model-checking instances of LaunchPad.  The pads are sets of rows that  *)
(* MapIndex maps onto themselves: 13 to 13, and 3 and 8 to each other.     *)
EXTENDS LaunchPad, TLC

TaskSymmetry == Permutations(Tasks)
=============================================================================
