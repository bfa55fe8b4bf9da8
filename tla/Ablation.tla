-------------------------------- MODULE Ablation --------------------------------
(***************************************************************************)
(* model/run_ablation.py: every experiment for every seed, through         *)
(* run_sim of model/behavioral.py, or, when that cannot be imported or     *)
(* raises, through a subprocess.                                           *)
(*                                                                         *)
(* What a run leaves in its JSON file or in the CSV is stood for by its    *)
(* summary, the parameters run_sim worked with.  run_sim writes its config *)
(* into the globals of its module, which live as long as the process.  One *)
(* step is one run, or the end of an experiment.                           *)
(***************************************************************************)
EXTENDS Naturals, Sequences, FiniteSets

CONSTANTS
  Params,        \* the tunable parameters
  Values,        \* and what they may be set to
  Defaults,      \* the values behavioral.py gives them
  Experiments,   \* a sequence of [mode, sets]: "sw" or "hw", and parameters
  SEEDS,         \* how many seeds
  INVOCATIONS    \* bound: how often the script is run

ASSUME AblationAssumption ==
  /\ Defaults \in [Params -> Values]
  /\ Experiments \in Seq([mode : {"sw", "hw"}, sets : UNION {[P -> Values] : P \in SUBSET Params}])
  /\ SEEDS \in Nat \ {0} /\ INVOCATIONS \in Nat \ {0}

VARIABLES
  globals,     \* the tunables, as the imported module holds them
  imported,    \* try_import_run_sim found run_sim
  exp, seed,   \* the run to do next
  rows,        \* experiment_runner's rows
  csv, json,   \* the files
  status,      \* "running", "finished" or "aborted"
  invocation

runnerVars == <<globals, imported, exp, seed, rows, csv, json, status, invocation>>

\* What run_sim returns, and what behavioral.py's main writes: two results.
RunSim(params) == [summary |-> params]
BothModes == [software |-> RunSim(Defaults), hardware |-> RunSim(Defaults)]

\* The result of this run among them: itself, or the one under its mode.
Single(results, mode) ==
  IF "summary" \notin DOMAIN results /\ mode \in DOMAIN results THEN results[mode] ELSE results

\* The fields of a row are read with get(), from the summary if there is one.
Empty == << >>
SummaryOf(single) == IF "summary" \in DOMAIN single THEN single.summary ELSE Empty
Row(e, s, single) == [exp |-> e, seed |-> s, summary |-> SummaryOf(single)]

NoFile == [file |-> "none"]
Runs == (1 .. Len(Experiments)) \X (1 .. SEEDS)

AblationInit ==
  /\ globals = Defaults /\ imported \in BOOLEAN
  /\ exp = 1 /\ seed = 1 /\ rows = <<>> /\ csv = <<>>
  /\ json = [r \in Runs |-> NoFile]
  /\ status = "running" /\ invocation = 1

Running == status = "running" /\ exp <= Len(Experiments)

\* run_sim's first loop.
Configured(cfg) == [p \in Params |-> IF p \in DOMAIN cfg THEN cfg[p] ELSE globals[p]]

\* Fault: the row kept although its file was not written.
RecordRowOnly(results) ==
  /\ rows' = Append(rows, Row(exp, seed, Single(results, Experiments[exp].mode)))
  /\ seed' = seed + 1
  /\ UNCHANGED <<json, exp, csv>>

Record(results) ==
  LET single == Single(results, Experiments[exp].mode)
  IN  /\ json' = [json EXCEPT ![<<exp, seed>>] = single]
      /\ rows' = Append(rows, Row(exp, seed, single))
      /\ seed' = seed + 1
      /\ UNCHANGED <<exp, csv>>

RunDirect ==
  /\ Running /\ seed <= SEEDS /\ imported
  /\ globals' = Configured(Experiments[exp].sets)
  /\ Record(RunSim(Configured(Experiments[exp].sets)))
  /\ UNCHANGED <<imported, status, invocation>>

\* Fault: a config that takes effect only when run_sim succeeds.
TriedLater == globals

\* run_sim not imported, or it raised after it had stored the config.
Tried == IF imported THEN Configured(Experiments[exp].sets) ELSE globals

RunFallback ==
  /\ Running /\ seed <= SEEDS
  /\ globals' = Tried
  /\ Record(BothModes)
  /\ UNCHANGED <<imported, status, invocation>>

\* The subprocess fails too: RuntimeError, and the script ends.
RunFails ==
  /\ Running /\ seed <= SEEDS
  /\ status' = "aborted"
  /\ globals' = Tried
  /\ UNCHANGED <<imported, exp, seed, rows, csv, json, invocation>>

\* Fault: the rows of all experiments written again after each.
EndExperimentKeepsRows ==
  /\ Running /\ seed > SEEDS
  /\ csv' = csv \o rows
  /\ exp' = exp + 1 /\ seed' = 1
  /\ UNCHANGED <<rows, globals, imported, json, status, invocation>>

\* write_csv_rows, after each experiment.
EndExperiment ==
  /\ Running /\ seed > SEEDS
  /\ csv' = csv \o rows
  /\ rows' = <<>>
  /\ exp' = exp + 1 /\ seed' = 1
  /\ UNCHANGED <<globals, imported, json, status, invocation>>

Finish ==
  /\ status = "running" /\ exp > Len(Experiments)
  /\ status' = "finished"
  /\ UNCHANGED <<globals, imported, exp, seed, rows, csv, json, invocation>>

\* The script is run again: a new process, the old files.
Invoke ==
  /\ status # "running" /\ invocation < INVOCATIONS
  /\ invocation' = invocation + 1
  /\ globals' = Defaults /\ imported' \in BOOLEAN
  /\ exp' = 1 /\ seed' = 1 /\ rows' = <<>> /\ status' = "running"
  /\ UNCHANGED <<csv, json>>

AblationNext == RunDirect \/ RunFallback \/ RunFails \/ EndExperiment \/ Finish \/ Invoke

AblationSpec == AblationInit /\ [][AblationNext]_runnerVars

-------------------------------------------------------------------------------
(***************************************************************************)
(* Properties.                                                             *)
(***************************************************************************)

\* Rows that report a configuration are comparable: those of one experiment
\* report the same one, whatever the seed and the invocation, and whichever
\* runs before them fell back or failed after they had stored theirs.  Rows of
\* a fallback report none: it runs with the defaults and its results are not
\* found.
RunsComparable ==
  LET all == csv \o rows
  IN  \A a, b \in 1 .. Len(all) :
        all[a].exp = all[b].exp /\ Empty \notin {all[a].summary, all[b].summary}
          => all[a].summary = all[b].summary

\* The CSV holds whole experiments, each seed in its order and no run more
\* often than the script was invoked, also after an abort: the failed
\* experiment leaves no row.
CsvHoldsWholeExperiments ==
  /\ \A k \in 1 .. Len(csv) :
       LET first == k - (csv[k].seed - 1)
       IN  /\ first >= 1 /\ first + SEEDS - 1 <= Len(csv)
           /\ \A s \in 1 .. SEEDS : /\ csv[first + s - 1].exp = csv[k].exp
                                    /\ csv[first + s - 1].seed = s
           /\ first > 1 => csv[k].exp \in {1, csv[first - 1].exp + 1}
  /\ \A r \in Runs :
       Cardinality({k \in 1 .. Len(csv) : <<csv[k].exp, csv[k].seed>> = r}) <= invocation

\* When the script has finished, the last row of every run and its JSON
\* file tell the same, also if an earlier invocation was aborted.
FilesAgreeWhenFinished ==
  status = "finished" =>
    \A r \in Runs :
      \E k \in 1 .. Len(csv) :
        /\ <<csv[k].exp, csv[k].seed>> = r
        /\ csv[k].summary = SummaryOf(json[r])
        /\ \A l \in k + 1 .. Len(csv) : <<csv[l].exp, csv[l].seed>> # r

===============================================================================
