-------------------------- MODULE MCHbTaskQueueCore ---------------------------
(***************************************************************************)
(* Instances of HbTaskQueueCore for TLC.  Two words besides the all-zero   *)
(* one tell any two neighbouring tasks apart; the depth is small enough    *)
(* for the pointers to wrap many times.                                    *)
(***************************************************************************)
EXTENDS HbTaskQueueCore

MCData == {"zero", "a", "b"}
MCZero == "zero"

===============================================================================
