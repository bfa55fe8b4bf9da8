------------------------------- MODULE MCAblation -------------------------------
(***************************************************************************)
(* Ablation for TLC: the parameters the last experiments of                *)
(* DEFAULT_EXPERIMENTS set, in their order, after a baseline.              *)
(***************************************************************************)
EXTENDS Ablation, TLC

MCParams == {"NUM_FOLLOWERS", "NUM_LEADERS", "ARRIVAL_RATE"}
MCValues == {"default", "16", "0.6", "2", "1.0"}
MCDefaults == [p \in MCParams |-> "default"]
MCExperiments ==
  << [mode |-> "sw", sets |-> << >>],
     [mode |-> "hw", sets |-> "NUM_FOLLOWERS" :> "16" @@ "ARRIVAL_RATE" :> "0.6"],
     [mode |-> "hw", sets |-> "NUM_LEADERS" :> "2" @@ "ARRIVAL_RATE" :> "1.0"] >>

===============================================================================
