------------------------------ MODULE MCHwHarness ------------------------------
(***************************************************************************)
(* HwHarness for TLC: the deterministic script has the shape of the one in *)
(* run_deterministic_test (four pushes, two pops, two pushes, drain); OPS  *)
(* is enough for the random test to fill the queue, be refused, and wrap   *)
(* both pointers.                                                          *)
(***************************************************************************)
EXTENDS HwHarness

MCData == {"zero", "a", "b"}
MCZero == "zero"

Push(w) == [op |-> "push", v |-> w]
Pop == [op |-> "pop"]
MCDetScript ==
  <<Push("a"), Push("b"), Push("zero"), Push("a"), Pop, Pop, Push("b"), Push("zero")>>

===============================================================================
