----------------------------- MODULE MCTbTaskQueue -----------------------------
(***************************************************************************)
(* TbTaskQueue for TLC.                                                    *)
(***************************************************************************)
EXTENDS TbTaskQueue

MCData == {"zero", "a", "b"}
MCZero == "zero"

===============================================================================
