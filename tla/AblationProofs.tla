----------------------------- MODULE AblationProofs -----------------------------
(***************************************************************************)
(* For every list of experiments, every number of seeds and of             *)
(* invocations, and whichever runs fall back or fail: what the rows, the   *)
(* CSV and the JSON files say.                                             *)
(*                                                                         *)
(* run_sim's globals are never reset, so the configuration a run works     *)
(* with is Inherited: it folds over all experiments up to its own.  While  *)
(* the process lives, the globals are exactly that.                        *)
(***************************************************************************)
EXTENDS Ablation, SequenceTheorems, FiniteSetTheorems, TLAPS

Configs == [Params -> Values]
Results == {NoFile, BothModes} \cup {RunSim(c) : c \in Configs}
RowSet == [exp : Nat, seed : Nat, summary : {Empty} \cup Configs]

\* The experiments up to e that set p, and what they leave in p.
Setters(e, p) == {j \in 1 .. e : p \in DOMAIN Experiments[j].sets}
LastSetter(e, p) == CHOOSE j \in Setters(e, p) : \A i \in Setters(e, p) : i <= j
Inherited(e) ==
  [p \in Params |-> IF Setters(e, p) = {} THEN Defaults[p] ELSE Experiments[LastSetter(e, p)].sets[p]]

AblationTypeOK ==
  /\ globals \in Configs /\ imported \in BOOLEAN
  /\ exp \in 1 .. Len(Experiments) + 1 /\ seed \in 1 .. SEEDS + 1
  /\ rows \in Seq(RowSet) /\ csv \in Seq(RowSet)
  /\ json \in [Runs -> Results]
  /\ status \in {"running", "finished", "aborted"}
  /\ invocation \in 1 .. INVOCATIONS

\* No seed is left over once all experiments are done.
Progress ==
  /\ exp = Len(Experiments) + 1 => seed = 1
  /\ status = "finished" => exp = Len(Experiments) + 1

\* The globals hold what the last run that stored a config left.
GlobalsInherited ==
  imported /\ status # "aborted" => globals = Inherited(IF seed = 1 THEN exp - 1 ELSE exp)

\* The rows are those of the seeds done so far, with what their files say.
RowsOfExperiment ==
  /\ Len(rows) = seed - 1
  /\ \A k \in 1 .. Len(rows) :
       /\ rows[k].exp = exp /\ rows[k].seed = k
       /\ rows[k].summary \in {Empty, Inherited(exp)}
       /\ rows[k].summary = SummaryOf(json[<<exp, k>>])

\* The CSV is made of blocks, one per experiment ...
Blocks ==
  /\ \A k \in 1 .. Len(csv) :
       LET first == k - (csv[k].seed - 1)
       IN  /\ first >= 1 /\ first + SEEDS - 1 <= Len(csv)
           /\ \A s \in 1 .. SEEDS : /\ csv[first + s - 1].exp = csv[k].exp
                                    /\ csv[first + s - 1].seed = s
           /\ first > 1 => csv[k].exp \in {1, csv[first - 1].exp + 1}
  /\ exp > 1 => Len(csv) >= 1 /\ csv[Len(csv)].exp = exp - 1

\* ... this invocation has written those of the experiments before exp ...
At(r) == {k \in 1 .. Len(csv) : <<csv[k].exp, csv[k].seed>> = r}
Copies ==
  \A r \in Runs : /\ IsFiniteSet(At(r))
                  /\ Cardinality(At(r)) <= IF r[1] < exp THEN invocation ELSE invocation - 1

\* ... and their last rows agree with the files.
FilesAgree ==
  \A r \in Runs : r[1] < exp =>
    \E k \in 1 .. Len(csv) :
      /\ <<csv[k].exp, csv[k].seed>> = r
      /\ csv[k].summary = SummaryOf(json[r])
      /\ \A l \in k + 1 .. Len(csv) : <<csv[l].exp, csv[l].seed>> # r

\* A row that has left the process still tells of its experiment's config.
CsvInherited == \A k \in 1 .. Len(csv) : csv[k].summary \in {Empty, Inherited(csv[k].exp)}

AblationInv ==
  /\ AblationTypeOK /\ Progress /\ GlobalsInherited /\ RowsOfExperiment /\ CsvInherited
  /\ Blocks /\ Copies /\ FilesAgree

-------------------------------------------------------------------------------
LEMMA ExperimentTyped ==
  ASSUME NEW e \in 1 .. Len(Experiments)
  PROVE  /\ Experiments[e].mode \in {"sw", "hw"}
         /\ DOMAIN Experiments[e].sets \subseteq Params
         /\ \A p \in DOMAIN Experiments[e].sets : Experiments[e].sets[p] \in Values
<1> DEFINE R == [mode : {"sw", "hw"}, sets : UNION {[P -> Values] : P \in SUBSET Params}]
<1>1. Experiments[e] \in R
  BY ElementOfSeq, AblationAssumption
<1>2. PICK P \in SUBSET Params : Experiments[e].sets \in [P -> Values]
  BY <1>1
<1> QED BY <1>1, <1>2

LEMMA Bounds ==
  /\ Len(Experiments) \in Nat
  /\ SEEDS \in Nat /\ SEEDS >= 1 /\ INVOCATIONS \in Nat /\ INVOCATIONS >= 1
BY LenProperties, AblationAssumption

LEMMA LastSetterIsLast ==
  ASSUME NEW e \in 1 .. Len(Experiments), NEW p \in DOMAIN Experiments[e].sets
  PROVE  LastSetter(e, p) = e
<1>1. e \in Nat /\ e >= 1
  BY Bounds
<1>2. e \in Setters(e, p) /\ \A i \in Setters(e, p) : i \in Nat /\ i <= e
  BY <1>1 DEF Setters
<1>3. \E j \in Setters(e, p) : \A i \in Setters(e, p) : i <= j
  BY <1>2
<1>4. LastSetter(e, p) \in Setters(e, p) /\ \A i \in Setters(e, p) : i <= LastSetter(e, p)
  BY <1>3 DEF LastSetter
<1> QED BY <1>1, <1>2, <1>4

\* Inherited is run_sim's first loop, repeated: no setter counts but the last.
LEMMA InheritedStep ==
  ASSUME NEW e \in 1 .. Len(Experiments), globals \in Configs,
         globals \in {Inherited(e - 1), Inherited(e)}
  PROVE  Configured(Experiments[e].sets) = Inherited(e)
<1>1. e \in Nat /\ e >= 1
  BY Bounds
<1> SUFFICES ASSUME NEW p \in Params
             PROVE  (IF p \in DOMAIN Experiments[e].sets THEN Experiments[e].sets[p] ELSE globals[p])
                       = Inherited(e)[p]
  BY DEF Configured, Inherited
<1>2. CASE p \in DOMAIN Experiments[e].sets
  <2>1. Setters(e, p) # {}
    BY <1>1, <1>2 DEF Setters
  <2> QED BY <1>2, <2>1, LastSetterIsLast DEF Inherited
<1>3. CASE p \notin DOMAIN Experiments[e].sets
  <2>1. \A j : j \in 1 .. e => j \in 1 .. e - 1 \/ j = e
    BY <1>1
  <2>2. 1 .. e - 1 \subseteq 1 .. e
    BY <1>1
  <2>3. Setters(e, p) = Setters(e - 1, p)
    BY <1>3, <2>1, <2>2 DEF Setters
  <2>4. Inherited(e)[p] = Inherited(e - 1)[p]
    BY <2>3 DEF Inherited, LastSetter
  <2> QED BY <1>3, <2>4
<1> QED BY <1>2, <1>3

LEMMA InheritedNothing == Inherited(0) = Defaults
<1>1. \A p \in Params : Setters(0, p) = {}
  BY DEF Setters
<1> QED BY <1>1, AblationAssumption DEF Inherited

LEMMA ConfiguredTyped ==
  ASSUME NEW e \in 1 .. Len(Experiments), globals \in Configs
  PROVE  Configured(Experiments[e].sets) \in Configs
BY ExperimentTyped DEF Configured, Configs

\* What a run leaves, whichever way it was taken: a file with main's two
\* results is stored as it is, and its row is empty.
LEMMA ResultsTold ==
  ASSUME NEW mode \in {"sw", "hw"}, NEW c \in Configs
  PROVE  /\ Single(BothModes, mode) = BothModes /\ SummaryOf(BothModes) = Empty
         /\ Single(RunSim(c), mode) = RunSim(c) /\ SummaryOf(RunSim(c)) = c
<1>1. DOMAIN BothModes = {"software", "hardware"}
  BY DEF BothModes
<1>2. DOMAIN RunSim(c) = {"summary"}
  BY DEF RunSim
<1> QED BY <1>1, <1>2 DEF Single, SummaryOf, RunSim

-------------------------------------------------------------------------------
LEMMA AblationInvInit == AblationInit => AblationInv
<1> SUFFICES ASSUME AblationInit PROVE AblationInv
  OBVIOUS
<1>1. rows = <<>> /\ csv = <<>> /\ Len(rows) = 0 /\ Len(csv) = 0
      /\ rows \in Seq(RowSet) /\ csv \in Seq(RowSet)
  BY DEF AblationInit
<1>2. AblationTypeOK
  BY <1>1, Bounds, AblationAssumption DEF AblationInit, AblationTypeOK, Configs, Results
<1>3. Progress /\ RowsOfExperiment
  BY <1>1 DEF AblationInit, Progress, RowsOfExperiment
<1>4. GlobalsInherited
  BY InheritedNothing DEF AblationInit, GlobalsInherited
<1>5. Blocks /\ CsvInherited
  BY <1>1 DEF AblationInit, Blocks, CsvInherited
<1>6. Copies
  <2> SUFFICES ASSUME NEW r \in Runs
               PROVE  /\ IsFiniteSet(At(r))
                      /\ Cardinality(At(r)) <= IF r[1] < exp THEN invocation ELSE invocation - 1
    BY DEF Copies
  <2>1. At(r) = {}
    BY <1>1 DEF At
  <2> QED BY <2>1, FS_EmptySet DEF AblationInit
<1>7. FilesAgree
  <2>1. \A r \in Runs : ~(r[1] < exp)
    BY Bounds DEF AblationInit, Runs
  <2> QED BY <2>1 DEF FilesAgree
<1> QED BY <1>2, <1>3, <1>4, <1>5, <1>6, <1>7 DEF AblationInv

\* A run that comes back, with a result that tells the inherited config or
\* nothing.
LEMMA RecordKeepsInv ==
  ASSUME AblationInv, Running, seed <= SEEDS,
         NEW results,
         results = BothModes \/ (results = RunSim(Inherited(exp)) /\ Inherited(exp) \in Configs),
         Record(results), UNCHANGED <<imported, status, invocation>>,
         globals' \in Configs, imported => globals' = Inherited(exp)
  PROVE  AblationInv'
<1> DEFINE single == Single(results, Experiments[exp].mode)
<1>1. /\ exp \in Nat /\ exp >= 1 /\ exp <= Len(Experiments)
      /\ seed \in Nat /\ seed >= 1 /\ seed <= SEEDS
      /\ rows \in Seq(RowSet) /\ csv \in Seq(RowSet) /\ json \in [Runs -> Results]
      /\ Len(rows) = seed - 1 /\ Len(csv) \in Nat
  BY Bounds, LenProperties DEF AblationInv, AblationTypeOK, RowsOfExperiment, Running
<1>2. /\ single = results /\ SummaryOf(single) \in {Empty, Inherited(exp)}
      /\ SummaryOf(single) \in {Empty} \cup Configs
  <2>1. Experiments[exp].mode \in {"sw", "hw"} /\ globals \in Configs
    BY <1>1, ExperimentTyped DEF AblationInv, AblationTypeOK
  <2> QED BY <2>1, ResultsTold
<1>3. single \in Results
  BY <1>2 DEF Results
<1>4. /\ json' = [json EXCEPT ![<<exp, seed>>] = single]
      /\ rows' = Append(rows, Row(exp, seed, single))
      /\ seed' = seed + 1 /\ exp' = exp /\ csv' = csv
  BY DEF Record
<1> HIDE DEF single
<1>5. Row(exp, seed, single) = [exp |-> exp, seed |-> seed, summary |-> SummaryOf(single)]
  BY DEF Row
<1>6. Row(exp, seed, single) \in RowSet
  BY <1>1, <1>2, <1>5 DEF RowSet
<1>7. /\ rows' \in Seq(RowSet) /\ Len(rows') = seed
      /\ \A k \in 1 .. Len(rows) : rows'[k] = rows[k]
      /\ rows'[seed] = Row(exp, seed, single)
  BY <1>1, <1>4, <1>6, AppendProperties
<1>8. <<exp, seed>> \in Runs
  BY <1>1, Bounds DEF Runs
<1>9. /\ json' \in [Runs -> Results] /\ json'[<<exp, seed>>] = single
      /\ \A r \in Runs : r # <<exp, seed>> => json'[r] = json[r]
  BY <1>1, <1>3, <1>4, <1>8
<1>10. AblationTypeOK'
  BY <1>1, <1>4, <1>7, <1>9, Bounds DEF AblationInv, AblationTypeOK
<1>11. Progress'
  BY <1>1, <1>4, Bounds DEF AblationInv, Progress
<1>12. GlobalsInherited'
  BY <1>1, <1>4 DEF GlobalsInherited
<1>13. RowsOfExperiment'
  <2> SUFFICES ASSUME NEW k \in 1 .. seed
               PROVE  /\ rows'[k].exp = exp /\ rows'[k].seed = k
                      /\ rows'[k].summary \in {Empty, Inherited(exp)}
                      /\ rows'[k].summary = SummaryOf(json'[<<exp, k>>])
    BY <1>1, <1>4, <1>7 DEF RowsOfExperiment
  <2>1. CASE k = seed
    BY <2>1, <1>2, <1>5, <1>7, <1>9
  <2>2. CASE k # seed
    <3>1. k \in 1 .. Len(rows) /\ <<exp, k>> \in Runs /\ <<exp, k>> # <<exp, seed>>
      BY <2>2, <1>1, Bounds DEF Runs
    <3>2. rows'[k] = rows[k] /\ json'[<<exp, k>>] = json[<<exp, k>>]
      BY <3>1, <1>7, <1>9
    <3> QED BY <3>1, <3>2 DEF AblationInv, RowsOfExperiment
  <2> QED BY <2>1, <2>2
<1>14. Blocks' /\ CsvInherited'
  BY <1>4 DEF AblationInv, Blocks, CsvInherited
<1>15. Copies'
  BY <1>4 DEF AblationInv, Copies, At
<1>16. FilesAgree'
  <2> SUFFICES ASSUME NEW r \in Runs, r[1] < exp
               PROVE  \E k \in 1 .. Len(csv) :
                        /\ <<csv[k].exp, csv[k].seed>> = r
                        /\ csv[k].summary = SummaryOf(json'[r])
                        /\ \A l \in k + 1 .. Len(csv) : <<csv[l].exp, csv[l].seed>> # r
    BY <1>4 DEF FilesAgree
  <2>1. json'[r] = json[r]
    BY <1>1, <1>9
  <2> QED BY <2>1 DEF AblationInv, FilesAgree
<1> QED BY <1>10, <1>11, <1>12, <1>13, <1>14, <1>15, <1>16 DEF AblationInv

\* What run_sim stores on its way.
LEMMA ConfiguredIsInherited ==
  ASSUME AblationInv, Running
  PROVE  /\ Tried \in Configs
         /\ imported => /\ Configured(Experiments[exp].sets) = Inherited(exp)
                        /\ Inherited(exp) \in Configs /\ Tried = Inherited(exp)
<1>1. exp \in 1 .. Len(Experiments) /\ globals \in Configs
  BY Bounds DEF AblationInv, AblationTypeOK, Running
<1>2. imported => Configured(Experiments[exp].sets) = Inherited(exp)
  BY <1>1, InheritedStep DEF AblationInv, GlobalsInherited, Running
<1> QED BY <1>1, <1>2, ConfiguredTyped DEF Tried

LEMMA RunFailsKeepsInv ==
  ASSUME AblationInv, RunFails
  PROVE  AblationInv'
<1>1. globals' \in Configs
  BY ConfiguredIsInherited DEF RunFails
<1>2. AblationTypeOK' /\ Progress' /\ GlobalsInherited'
  BY <1>1, Bounds DEF RunFails, Running, AblationInv, AblationTypeOK, Progress, GlobalsInherited
<1>3. RowsOfExperiment' /\ Blocks' /\ CsvInherited'
  BY DEF RunFails, AblationInv, RowsOfExperiment, Blocks, CsvInherited
<1>4. Copies' /\ FilesAgree'
  BY DEF RunFails, AblationInv, Copies, At, FilesAgree
<1> QED BY <1>2, <1>3, <1>4 DEF AblationInv

LEMMA InvokeKeepsInv ==
  ASSUME AblationInv, Invoke
  PROVE  AblationInv'
<1>1. /\ rows' = <<>> /\ Len(rows') = 0 /\ rows' \in Seq(RowSet)
      /\ exp' = 1 /\ seed' = 1 /\ status' = "running" /\ csv' = csv /\ json' = json
      /\ invocation' = invocation + 1 /\ globals' = Defaults
  BY DEF Invoke
<1>2. AblationTypeOK'
  BY <1>1, Bounds, AblationAssumption DEF Invoke, AblationInv, AblationTypeOK, Configs
<1>3. Progress' /\ RowsOfExperiment'
  BY <1>1 DEF Progress, RowsOfExperiment
<1>4. GlobalsInherited'
  BY <1>1, InheritedNothing DEF GlobalsInherited
<1>5. Blocks' /\ CsvInherited'
  BY <1>1 DEF AblationInv, Blocks, CsvInherited
<1>6. \A r \in Runs : ~(r[1] < exp')
  BY <1>1, Bounds DEF Runs
<1>7. Copies'
  <2> SUFFICES ASSUME NEW r \in Runs
               PROVE  IsFiniteSet(At(r)) /\ Cardinality(At(r)) <= invocation
    <3>0. \A n \in Runs : At(n)' = At(n) /\ ~(n[1] < exp')
      BY <1>1, <1>6 DEF At
    <3>1. invocation' - 1 = invocation
      BY <1>1, Bounds DEF AblationInv, AblationTypeOK
    <3> QED BY <3>0, <3>1 DEF Copies
  <2>1. /\ IsFiniteSet(At(r))
        /\ Cardinality(At(r)) <= IF r[1] < exp THEN invocation ELSE invocation - 1
    BY DEF AblationInv, Copies
  <2>2. invocation \in Nat /\ Cardinality(At(r)) \in Nat
    BY <2>1, FS_CardinalityType, Bounds DEF AblationInv, AblationTypeOK
  <2> QED BY <2>1, <2>2
<1>8. FilesAgree'
  BY <1>6 DEF FilesAgree
<1> QED BY <1>2, <1>3, <1>4, <1>5, <1>7, <1>8 DEF AblationInv

LEMMA EndExperimentKeepsInv ==
  ASSUME AblationInv, EndExperiment
  PROVE  AblationInv'
<1>1. /\ exp \in Nat /\ exp >= 1 /\ exp <= Len(Experiments) /\ seed = SEEDS + 1
      /\ SEEDS \in Nat /\ SEEDS >= 1
      /\ rows \in Seq(RowSet) /\ csv \in Seq(RowSet)
      /\ Len(rows) = SEEDS /\ Len(csv) \in Nat
  BY Bounds, LenProperties DEF AblationInv, AblationTypeOK, RowsOfExperiment, Running, EndExperiment
<1>2. /\ csv' = csv \o rows /\ rows' = <<>> /\ Len(rows') = 0 /\ rows' \in Seq(RowSet)
      /\ exp' = exp + 1 /\ seed' = 1
      /\ UNCHANGED <<globals, imported, json, status, invocation>>
  BY DEF EndExperiment
<1>3. /\ csv' \in Seq(RowSet) /\ Len(csv') = Len(csv) + SEEDS
      /\ \A k \in 1 .. Len(csv) : csv'[k] = csv[k]
      /\ \A s \in 1 .. SEEDS : csv'[Len(csv) + s] = rows[s]
  <2>1. /\ csv' \in Seq(RowSet) /\ Len(csv') = Len(csv) + SEEDS
        /\ \A i \in 1 .. Len(csv) + Len(rows) :
              csv'[i] = IF i <= Len(csv) THEN csv[i] ELSE rows[i - Len(csv)]
    BY <1>1, <1>2, ConcatProperties
  <2>2. ASSUME NEW s \in 1 .. SEEDS PROVE csv'[Len(csv) + s] = rows[s]
    <3>1. /\ Len(csv) + s \in 1 .. Len(csv) + Len(rows)
          /\ ~(Len(csv) + s <= Len(csv)) /\ (Len(csv) + s) - Len(csv) = s
      BY <1>1
    <3> QED BY <2>1, <3>1
  <2>3. ASSUME NEW k \in 1 .. Len(csv) PROVE csv'[k] = csv[k]
    <3>1. k \in 1 .. Len(csv) + Len(rows) /\ k <= Len(csv)
      BY <1>1
    <3> QED BY <2>1, <3>1
  <2> QED BY <2>1, <2>2, <2>3
<1>4. \A s \in 1 .. SEEDS : /\ csv'[Len(csv) + s].exp = exp /\ csv'[Len(csv) + s].seed = s
                             /\ csv'[Len(csv) + s].summary = SummaryOf(json[<<exp, s>>])
  BY <1>1, <1>3 DEF AblationInv, RowsOfExperiment
<1>5. \A k \in 1 .. Len(csv') : k \in 1 .. Len(csv) \/ \E s \in 1 .. SEEDS : k = Len(csv) + s
  <2> SUFFICES ASSUME NEW k \in 1 .. Len(csv'), k \notin 1 .. Len(csv)
               PROVE  \E s \in 1 .. SEEDS : k = Len(csv) + s
    OBVIOUS
  <2>1. k - Len(csv) \in 1 .. SEEDS /\ k = Len(csv) + (k - Len(csv))
    BY <1>1, <1>3
  <2> QED BY <2>1
<1>6. AblationTypeOK'
  BY <1>1, <1>2, <1>3, Bounds DEF AblationInv, AblationTypeOK
<1>7. Progress' /\ RowsOfExperiment'
  BY <1>1, <1>2 DEF AblationInv, Progress, RowsOfExperiment, EndExperiment, Running
<1>8. GlobalsInherited'
  BY <1>1, <1>2 DEF AblationInv, GlobalsInherited
<1>9. Blocks'
  <2>1. exp' > 1 => Len(csv') >= 1 /\ csv'[Len(csv')].exp = exp' - 1
    <3>1. SEEDS \in 1 .. SEEDS /\ exp' - 1 = exp /\ Len(csv') = Len(csv) + SEEDS /\ Len(csv') >= 1
      BY <1>1, <1>2, <1>3
    <3> QED BY <1>4, <3>1
  <2> SUFFICES ASSUME NEW k \in 1 .. Len(csv')
               PROVE  LET first == k - (csv'[k].seed - 1)
                      IN  /\ first >= 1 /\ first + SEEDS - 1 <= Len(csv')
                          /\ \A s \in 1 .. SEEDS : /\ csv'[first + s - 1].exp = csv'[k].exp
                                                   /\ csv'[first + s - 1].seed = s
                          /\ first > 1 => csv'[k].exp \in {1, csv'[first - 1].exp + 1}
    BY <2>1 DEF Blocks
  <2>2. CASE k \in 1 .. Len(csv)
    <3> DEFINE first == k - (csv[k].seed - 1)
    <3>1. /\ csv'[k] = csv[k] /\ csv[k] \in RowSet
      BY <1>1, <1>3, <2>2, ElementOfSeq
    <3>2. first \in Int
      <4>1. csv[k].seed \in Nat /\ k \in Int
        BY <2>2, <3>1 DEF RowSet
      <4> QED BY <4>1
    <3>3. /\ first >= 1 /\ first + SEEDS - 1 <= Len(csv)
          /\ \A s \in 1 .. SEEDS : /\ csv[first + s - 1].exp = csv[k].exp
                                   /\ csv[first + s - 1].seed = s
          /\ first > 1 => csv[k].exp \in {1, csv[first - 1].exp + 1}
      BY <2>2 DEF AblationInv, Blocks
    <3> HIDE DEF first
    <3>4. ASSUME NEW s \in 1 .. SEEDS PROVE csv'[first + s - 1] = csv[first + s - 1]
      <4>1. first >= 1 /\ first + SEEDS - 1 <= Len(csv)
        BY <3>3
      <4>2. first + s - 1 \in 1 .. Len(csv)
        BY <1>1, <3>2, <4>1
      <4> QED BY <1>3, <4>2
    <3>5. ASSUME first > 1 PROVE csv'[first - 1] = csv[first - 1]
      <4>1. first >= 1 /\ first + SEEDS - 1 <= Len(csv)
        BY <3>3
      <4>2. first - 1 \in 1 .. Len(csv)
        BY <1>1, <3>2, <3>5, <4>1
      <4> QED BY <1>3, <4>2
    <3>6. /\ first >= 1 /\ first + SEEDS - 1 <= Len(csv')
          /\ \A s \in 1 .. SEEDS : /\ csv'[first + s - 1].exp = csv'[k].exp
                                   /\ csv'[first + s - 1].seed = s
          /\ first > 1 => csv'[k].exp \in {1, csv'[first - 1].exp + 1}
      <4>1. first + SEEDS - 1 <= Len(csv')
        <5>1. first + SEEDS - 1 <= Len(csv)
          BY <3>3
        <5> QED BY <1>1, <1>3, <3>2, <5>1
      <4>2. first >= 1
        BY <3>3
      <4>3. \A s \in 1 .. SEEDS : /\ csv'[first + s - 1].exp = csv'[k].exp
                                 /\ csv'[first + s - 1].seed = s
        BY <3>1, <3>3, <3>4
      <4>4. first > 1 => csv'[k].exp \in {1, csv'[first - 1].exp + 1}
        BY <3>1, <3>3, <3>5
      <4> QED BY <4>1, <4>2, <4>3, <4>4
    <3> QED BY <3>1, <3>6 DEF first
  <2>3. ASSUME NEW i \in 1 .. SEEDS, k = Len(csv) + i
        PROVE  LET first == k - (csv'[k].seed - 1)
               IN  /\ first >= 1 /\ first + SEEDS - 1 <= Len(csv')
                   /\ \A s \in 1 .. SEEDS : /\ csv'[first + s - 1].exp = csv'[k].exp
                                            /\ csv'[first + s - 1].seed = s
                   /\ first > 1 => csv'[k].exp \in {1, csv'[first - 1].exp + 1}
    <3>0. csv'[k].seed = i /\ csv'[k].exp = exp
      BY <1>4, <2>3
    <3>1. k - (csv'[k].seed - 1) = Len(csv) + 1
      BY <1>1, <2>3, <3>0
    <3>2. \A s \in 1 .. SEEDS : (Len(csv) + 1) + s - 1 = Len(csv) + s
      BY <1>1
    <3>3. Len(csv) + 1 > 1 => exp \in {1, csv'[(Len(csv) + 1) - 1].exp + 1}
      <4> SUFFICES ASSUME Len(csv) >= 1, exp > 1
                   PROVE  exp = csv'[Len(csv)].exp + 1
        BY <1>1
      <4>1. csv'[Len(csv)] = csv[Len(csv)] /\ csv[Len(csv)].exp = exp - 1
        BY <1>1, <1>3 DEF AblationInv, Blocks
      <4> QED BY <1>1, <4>1
    <3>4. ASSUME NEW s \in 1 .. SEEDS
          PROVE  /\ csv'[(Len(csv) + 1) + s - 1].exp = csv'[k].exp
                 /\ csv'[(Len(csv) + 1) + s - 1].seed = s
      <4>1. (Len(csv) + 1) + s - 1 = Len(csv) + s
        BY <3>2
      <4>2. csv'[Len(csv) + s].exp = exp /\ csv'[Len(csv) + s].seed = s
        BY <1>4
      <4> QED BY <3>0, <4>1, <4>2
    <3>5. Len(csv) + 1 >= 1 /\ (Len(csv) + 1) + SEEDS - 1 <= Len(csv')
      BY <1>1, <1>3
    <3> QED BY <3>0, <3>1, <3>3, <3>4, <3>5
  <2> QED BY <1>5, <2>2, <2>3
<1>10. Copies'
  <2> SUFFICES ASSUME NEW r \in Runs
               PROVE  /\ IsFiniteSet(At(r)')
                      /\ Cardinality(At(r)') <= IF r[1] < exp' THEN invocation ELSE invocation - 1
    BY <1>2 DEF Copies
  <2>1. /\ IsFiniteSet(At(r))
        /\ Cardinality(At(r)) <= IF r[1] < exp THEN invocation ELSE invocation - 1
    BY DEF AblationInv, Copies
  <2>2. invocation \in Nat /\ Cardinality(At(r)) \in Nat
    BY <2>1, FS_CardinalityType, Bounds DEF AblationInv, AblationTypeOK
  <2>3. r[1] \in Nat /\ r[2] \in 1 .. SEEDS /\ r = <<r[1], r[2]>>
    BY Bounds DEF Runs
  <2>4. CASE r[1] # exp
    <3>1. At(r)' = At(r)
      <4>1. ASSUME NEW k \in At(r)' PROVE k \in At(r)
        <5>1. k \in 1 .. Len(csv') /\ csv'[k].exp = r[1]
          BY <2>3 DEF At
        <5>2. k \in 1 .. Len(csv)
          <6>1. ASSUME NEW s \in 1 .. SEEDS, k = Len(csv) + s PROVE FALSE
            BY <1>4, <2>4, <5>1, <6>1
          <6> QED BY <1>5, <5>1, <6>1
        <5> QED BY <1>3, <5>2 DEF At
      <4>2. ASSUME NEW k \in At(r) PROVE k \in At(r)'
        <5>1. k \in 1 .. Len(csv) /\ k \in 1 .. Len(csv')
          BY <1>1, <1>3 DEF At
        <5> QED BY <1>3, <5>1 DEF At
      <4> QED BY <4>1, <4>2
    <3> QED BY <1>1, <1>2, <2>1, <2>2, <2>3, <2>4, <3>1
  <2>5. CASE r[1] = exp
    <3>1. At(r)' = At(r) \cup {Len(csv) + r[2]}
      <4>1. ASSUME NEW k \in At(r)', k \notin 1 .. Len(csv) PROVE k = Len(csv) + r[2]
        <5>1. k \in 1 .. Len(csv') /\ csv'[k].seed = r[2]
          BY <2>3 DEF At
        <5>2. PICK s \in 1 .. SEEDS : k = Len(csv) + s
          BY <1>5, <4>1, <5>1
        <5> QED BY <1>4, <5>1, <5>2
      <4>2. ASSUME NEW k \in At(r)', k \in 1 .. Len(csv) PROVE k \in At(r)
        BY <1>3, <4>2 DEF At
      <4>3. ASSUME NEW k \in At(r) PROVE k \in At(r)'
        <5>1. k \in 1 .. Len(csv) /\ k \in 1 .. Len(csv')
          BY <1>1, <1>3 DEF At
        <5> QED BY <1>3, <5>1 DEF At
      <4>4. Len(csv) + r[2] \in At(r)'
        <5>1. Len(csv) + r[2] \in 1 .. Len(csv')
          BY <1>1, <1>3, <2>3
        <5>2. <<csv'[Len(csv) + r[2]].exp, csv'[Len(csv) + r[2]].seed>> = r
          BY <1>4, <2>3, <2>5
        <5> QED BY <5>1, <5>2 DEF At
      <4> QED BY <4>1, <4>2, <4>3, <4>4
    <3>2. IsFiniteSet(At(r)') /\ Cardinality(At(r)') <= Cardinality(At(r)) + 1
      BY <2>1, <2>2, <3>1, FS_AddElement
    <3>3. Cardinality(At(r)') \in Nat
      BY <3>2, FS_CardinalityType
    <3> QED BY <1>1, <1>2, <2>1, <2>2, <2>3, <2>5, <3>2, <3>3
  <2> QED BY <2>4, <2>5
<1>11. FilesAgree'
  <2> SUFFICES ASSUME NEW r \in Runs, r[1] < exp + 1
               PROVE  \E k \in 1 .. Len(csv') :
                        /\ <<csv'[k].exp, csv'[k].seed>> = r
                        /\ csv'[k].summary = SummaryOf(json[r])
                        /\ \A l \in k + 1 .. Len(csv') : <<csv'[l].exp, csv'[l].seed>> # r
    BY <1>2 DEF FilesAgree
  <2>1. r[1] \in Nat /\ r[2] \in 1 .. SEEDS /\ r = <<r[1], r[2]>>
    BY Bounds DEF Runs
  <2>2. CASE r[1] < exp
    <3>1. PICK k \in 1 .. Len(csv) :
            /\ <<csv[k].exp, csv[k].seed>> = r
            /\ csv[k].summary = SummaryOf(json[r])
            /\ \A l \in k + 1 .. Len(csv) : <<csv[l].exp, csv[l].seed>> # r
      BY <2>2 DEF AblationInv, FilesAgree
    <3>2. csv'[k] = csv[k] /\ k \in 1 .. Len(csv')
      BY <1>1, <1>3
    <3>3. ASSUME NEW l \in k + 1 .. Len(csv') PROVE <<csv'[l].exp, csv'[l].seed>> # r
      <4>1. CASE l \in 1 .. Len(csv)
        BY <1>1, <1>3, <3>1, <4>1
      <4>2. CASE \E s \in 1 .. SEEDS : l = Len(csv) + s
        <5>1. csv'[l].exp = exp
          BY <1>4, <4>2
        <5>2. r[1] # exp
          BY <1>1, <2>1, <2>2
        <5> QED BY <2>1, <5>1, <5>2
      <4>3. l \in 1 .. Len(csv')
        BY <1>1, <1>3
      <4> QED BY <1>5, <4>1, <4>2, <4>3
    <3> QED BY <3>1, <3>2, <3>3
  <2>3. CASE r[1] = exp
    <3> DEFINE k == Len(csv) + r[2]
    <3>1. k \in 1 .. Len(csv')
      BY <1>1, <1>3, <2>1
    <3>2. /\ <<csv'[k].exp, csv'[k].seed>> = r
          /\ csv'[k].summary = SummaryOf(json[r])
      BY <1>4, <2>1, <2>3
    <3>3. ASSUME NEW l \in k + 1 .. Len(csv') PROVE <<csv'[l].exp, csv'[l].seed>> # r
      <4>1. l - Len(csv) \in 1 .. SEEDS /\ l - Len(csv) > r[2] /\ l = Len(csv) + (l - Len(csv))
        BY <1>1, <1>3, <2>1
      <4>2. csv'[l].seed = l - Len(csv)
        BY <1>4, <4>1
      <4> QED BY <2>1, <4>1, <4>2
    <3> HIDE DEF k
    <3> QED BY <3>1, <3>2, <3>3
  <2> QED BY <1>1, <2>1, <2>2, <2>3
<1>12. CsvInherited'
  <2> SUFFICES ASSUME NEW k \in 1 .. Len(csv')
               PROVE  csv'[k].summary \in {Empty, Inherited(csv'[k].exp)}
    BY DEF CsvInherited, Inherited, Setters, LastSetter
  <2>1. CASE k \in 1 .. Len(csv)
    BY <1>3, <2>1 DEF AblationInv, CsvInherited
  <2>2. ASSUME NEW s \in 1 .. SEEDS, k = Len(csv) + s
        PROVE  csv'[k].summary \in {Empty, Inherited(csv'[k].exp)}
    <3>1. csv'[k] = rows[s] /\ s \in 1 .. Len(rows)
      BY <1>1, <1>3, <2>2
    <3> QED BY <3>1 DEF AblationInv, RowsOfExperiment
  <2> QED BY <1>5, <2>1, <2>2
<1> QED BY <1>6, <1>7, <1>8, <1>9, <1>10, <1>11, <1>12 DEF AblationInv

\* Every step, the direct and the fallback run among them.
LEMMA AblationInvStep == AblationInv /\ [AblationNext]_runnerVars => AblationInv'
<1> SUFFICES ASSUME AblationInv, [AblationNext]_runnerVars PROVE AblationInv'
  OBVIOUS
<1>1. CASE RunDirect
  <2> DEFINE results == RunSim(Configured(Experiments[exp].sets))
  <2>1. Running /\ seed <= SEEDS /\ imported /\ Record(results)
        /\ UNCHANGED <<imported, status, invocation>>
    BY <1>1 DEF RunDirect
  <2>2. globals' = Inherited(exp) /\ results = RunSim(Inherited(exp)) /\ Inherited(exp) \in Configs
    BY <1>1, <2>1, ConfiguredIsInherited DEF RunDirect
  <2> HIDE DEF results
  <2> QED BY <2>1, <2>2, RecordKeepsInv
<1>2. CASE RunFallback
  <2> DEFINE results == BothModes
  <2>1. /\ Running /\ seed <= SEEDS /\ Record(results) /\ results = BothModes
        /\ UNCHANGED <<imported, status, invocation>>
    BY <1>2 DEF RunFallback
  <2>2. globals' \in Configs /\ (imported => globals' = Inherited(exp))
    BY <1>2, <2>1, ConfiguredIsInherited DEF RunFallback
  <2> HIDE DEF results
  <2> QED BY <2>1, <2>2, RecordKeepsInv
<1>3. CASE RunFails
  BY <1>3, RunFailsKeepsInv
<1>4. CASE EndExperiment
  BY <1>4, EndExperimentKeepsInv
<1>5. CASE Finish
  <2>1. exp = Len(Experiments) + 1
    BY <1>5, Bounds DEF Finish, AblationInv, AblationTypeOK
  <2>2. AblationTypeOK' /\ Progress' /\ GlobalsInherited'
    BY <1>5, <2>1 DEF Finish, AblationInv, AblationTypeOK, Progress, GlobalsInherited
  <2>3. RowsOfExperiment' /\ Blocks' /\ CsvInherited'
    BY <1>5 DEF Finish, AblationInv, RowsOfExperiment, Blocks, CsvInherited
  <2>4. Copies' /\ FilesAgree'
    BY <1>5 DEF Finish, AblationInv, Copies, At, FilesAgree
  <2> QED BY <2>2, <2>3, <2>4 DEF AblationInv
<1>6. CASE Invoke
  BY <1>6, InvokeKeepsInv
<1>7. CASE UNCHANGED runnerVars
  <2>1. AblationTypeOK' /\ Progress' /\ GlobalsInherited'
    BY <1>7 DEF runnerVars, AblationInv, AblationTypeOK, Progress, GlobalsInherited
  <2>2. RowsOfExperiment' /\ Blocks' /\ CsvInherited'
    BY <1>7 DEF runnerVars, AblationInv, RowsOfExperiment, Blocks, CsvInherited
  <2>3. Copies' /\ FilesAgree'
    BY <1>7 DEF runnerVars, AblationInv, Copies, At, FilesAgree
  <2> QED BY <2>1, <2>2, <2>3 DEF AblationInv
<1> QED BY <1>1, <1>2, <1>3, <1>4, <1>5, <1>6, <1>7 DEF AblationNext

\* Whatever is run, falls back or fails, the invariant holds.
THEOREM AblationInvariant == AblationSpec => []AblationInv
<1> QED BY AblationInvInit, AblationInvStep, PTL DEF AblationSpec

\* Rows that report a configuration report the same one for the same
\* experiment: every new process starts from behavioral.py's values, and a
\* run that falls back has stored its config all the same.
THEOREM AblationRunsComparable == AblationSpec => []RunsComparable
<1>1. AblationInv => RunsComparable
  <2> SUFFICES ASSUME AblationInv
               PROVE  \A k \in 1 .. Len(csv \o rows) :
                        (csv \o rows)[k].summary \in {Empty, Inherited((csv \o rows)[k].exp)}
    BY DEF RunsComparable
  <2>1. /\ Len(csv \o rows) = Len(csv) + Len(rows) /\ Len(csv) \in Nat /\ Len(rows) \in Nat
        /\ \A i \in 1 .. Len(csv) + Len(rows) :
              (csv \o rows)[i] = IF i <= Len(csv) THEN csv[i] ELSE rows[i - Len(csv)]
    BY ConcatProperties, LenProperties DEF AblationInv, AblationTypeOK
  <2> TAKE k \in 1 .. Len(csv \o rows)
  <2>2. CASE k <= Len(csv)
    <3>1. (csv \o rows)[k] = csv[k] /\ k \in 1 .. Len(csv)
      BY <2>1, <2>2
    <3> QED BY <3>1 DEF AblationInv, CsvInherited
  <2>3. CASE ~(k <= Len(csv))
    <3>1. (csv \o rows)[k] = rows[k - Len(csv)] /\ k - Len(csv) \in 1 .. Len(rows)
      BY <2>1, <2>3
    <3> QED BY <3>1 DEF AblationInv, RowsOfExperiment
  <2> QED BY <2>2, <2>3
<1> QED BY <1>1, AblationInvariant, PTL

\* write_csv_rows appends whole experiments only, in their order, and none
\* twice in one invocation, whether or not an earlier one was aborted.
THEOREM AblationCsvWhole == AblationSpec => []CsvHoldsWholeExperiments
<1>1. AblationInv => CsvHoldsWholeExperiments
  <2> SUFFICES ASSUME AblationInv, NEW r \in Runs PROVE Cardinality(At(r)) <= invocation
    BY DEF AblationInv, Blocks, CsvHoldsWholeExperiments, At
  <2>1. /\ IsFiniteSet(At(r))
        /\ Cardinality(At(r)) <= IF r[1] < exp THEN invocation ELSE invocation - 1
    BY DEF AblationInv, Copies
  <2>2. invocation \in Nat /\ Cardinality(At(r)) \in Nat
    BY <2>1, FS_CardinalityType, Bounds DEF AblationInv, AblationTypeOK
  <2> QED BY <2>1, <2>2
<1> QED BY <1>1, AblationInvariant, PTL

\* After a whole run of the script, every run's last CSV row and its JSON
\* file were written from the same result.
THEOREM AblationFilesAgree == AblationSpec => []FilesAgreeWhenFinished
<1>1. AblationInv => FilesAgreeWhenFinished
  <2> SUFFICES ASSUME AblationInv, status = "finished", NEW r \in Runs PROVE r[1] < exp
    BY DEF AblationInv, FilesAgree, FilesAgreeWhenFinished
  <2> QED BY Bounds DEF AblationInv, Progress, Runs
<1> QED BY <1>1, AblationInvariant, PTL

===============================================================================
