----------------------------- MODULE MCBehavioral -----------------------------
(***************************************************************************)
(* Behavioral for TLC.                                                     *)
(***************************************************************************)
EXTENDS Behavioral

SomeTimes == {0, 1, 2}
SomeDurations == {0, 1, 3}

===============================================================================
