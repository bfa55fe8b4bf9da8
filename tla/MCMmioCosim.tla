------------------------------ MODULE MCMmioCosim ------------------------------
(***************************************************************************)
(* MmioCosim for TLC: a queue of two, a deterministic test that fills it   *)
(* and leaves one word behind as the real one leaves two, two random       *)
(* operations, and a timeout of one or two polls.                          *)
(***************************************************************************)
EXTENDS MmioCosim

MCData == {"zero", "a"}
MCWords == {"zero", "a", "b"}
MCZero == "zero"
MCDetVals == <<"a", "zero">>
MCThreeVals == <<"a", "b", "zero">>

\* clean never becomes true again, so a run about clean states need not
\* follow the others.
OnlyClean == clean

AsWritten == {ProgramOrder}
AsBuilt == {RequestFirst}

===============================================================================
