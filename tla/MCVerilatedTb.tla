----------------------------- MODULE MCVerilatedTb -----------------------------
(***************************************************************************)
(* VerilatedTb for TLC.                                                    *)
(***************************************************************************)
EXTENDS VerilatedTb

MCData == {"zero", "a"}
MCZero == "zero"

===============================================================================
