----------------------------- MODULE MCMmioStartup -----------------------------
(***************************************************************************)
(* MmioStartup for TLC.                                                    *)
(***************************************************************************)
EXTENDS MmioStartup

AllDirs == Dirs
AnyExplicit == {<<>>} \cup {<<d>> : d \in Dirs}

===============================================================================
