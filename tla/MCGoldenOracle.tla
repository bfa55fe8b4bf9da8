---------------------------- MODULE MCGoldenOracle ----------------------------
(***************************************************************************)
(* GoldenOracle for TLC.                                                   *)
(***************************************************************************)
EXTENDS GoldenOracle

MCData == {"a", "b"}

===============================================================================
