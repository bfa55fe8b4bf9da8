---------------------------- MODULE CoreUsersProofs ----------------------------
(***************************************************************************)
(* The two systems built on the core, for every Data and every             *)
(* power-of-two DEPTH.                                                     *)
(*                                                                         *)
(* The testbench keeps TbInv, the distributor offers the head of the queue *)
(* or the task popped one edge before, and grants alternate.               *)
(*                                                                         *)
(* The HW-only harness, for every deterministic script and every number of *)
(* random operations, reports no mismatch, and its published counters      *)
(* balance.                                                                *)
(***************************************************************************)
EXTENDS TbTaskQueue, HwHarness, HbTaskQueueCoreProofs

(***************************************************************************)
(* What the core's edge does for the modules behind it: RingInv goes on,   *)
(* and the word on data_out is the oldest task, which then either stays    *)
(* the oldest or is the one delivered.                                     *)
(***************************************************************************)
LEMMA EdgeOfCore ==
  ASSUME PowerOfTwoDepth, RingInv, NEW p, NEW q, NEW d \in Data, CoreEdge(p, d, q)
  PROVE  /\ RingInv'
         /\ valid_out <=> tasks # <<>>
         /\ valid_out => data_out = Head(tasks)
         /\ valid_out => IF Pops THEN delivered' = Head(tasks)
                                 ELSE tasks' # <<>> /\ Head(tasks') = Head(tasks)
<1> USE CoreAssumption
<1>1. valid_out <=> tasks # <<>>
  BY DEF valid_out, RingInv, CoreTypeOK, ContentsAgree
<1>2. ASSUME valid_out PROVE data_out = Head(tasks)
  <2>1. count \in 1 .. DEPTH /\ head \in Slots /\ SlotOf(1) = head
    BY <1>2 DEF valid_out, RingInv, CoreTypeOK, SlotOf, Ptrs, Slots, PowerOfTwoDepth
  <2>2. mem[head] = tasks[1]
    BY <2>1 DEF RingInv, ContentsAgree
  <2> QED BY <1>1, <1>2, <2>1, <2>2 DEF data_out, MemAt, RingInv, CoreTypeOK
<1>3. CASE PushEdge(d)
  <2>1. RingInv' /\ head' = head /\ ~Pops
    BY <1>3, RingInvPush DEF PushEdge, Pops
  <2>2. ASSUME tasks # <<>> PROVE tasks' # <<>> /\ Head(tasks') = Head(tasks)
    BY <1>3, <2>2, AppendProperties DEF PushEdge, RingInv, CoreTypeOK
  <2> QED BY <1>1, <1>2, <2>1, <2>2
<1>4. CASE PopEdge
  <2>1. RingInv' /\ delivered' = Head(tasks) /\ tasks # <<>>
    BY <1>4, RingInvPop
  <2>2. head' # head
    <3>1. head \in Slots
      BY DEF RingInv, CoreTypeOK, Ptrs, Slots, PowerOfTwoDepth
    <3>2. head' = IF head = DEPTH - 1 THEN 0 ELSE head + 1
      BY <1>4, <3>1, NextPtrWraps DEF PopEdge
    <3> QED BY <3>1, <3>2 DEF Slots
  <2> QED BY <1>1, <1>2, <2>1, <2>2 DEF Pops
<1>5. CASE UNCHANGED coreVars
  <2>1. RingInv'
    BY <1>5 DEF coreVars, RingInv, CoreTypeOK, PointersAgree, ContentsAgree, SlotOf
  <2> QED BY <1>1, <1>2, <1>5, <2>1 DEF coreVars, Pops
<1> QED BY <1>3, <1>4, <1>5 DEF CoreEdge

LEMMA TbInvInit ==
  ASSUME PowerOfTwoDepth, TbInit
  PROVE  TbInv
<1>1. RingInv
  BY RingInvInit DEF TbInit
<1> QED
  BY <1>1, WordAssumption
  DEF TbInit, TbInv, TbTypeOK, CaptureIsHead, TurnAgrees, OneBankPerRun, Banks

LEMMA TbInvReset ==
  ASSUME PowerOfTwoDepth, TbInv, TbReset
  PROVE  TbInv'
<1>1. RingInv'
  BY RingInvReset DEF TbReset, TbInv
<1> QED
  BY <1>1, WordAssumption
  DEF TbReset, TbInv, TbTypeOK, CaptureIsHead, TurnAgrees, OneBankPerRun, Banks

LEMMA TbInvEdge ==
  ASSUME PowerOfTwoDepth, TbInv, NEW m \in BOOLEAN, NEW p \in BOOLEAN,
         NEW d \in Data, NEW q \in BOOLEAN, ClockEdge(m, p, d, q)
  PROVE  TbInv'
<1> DEFINE e == IF m THEN d ELSE ZERO
<1>1. e \in Data /\ CoreEdge(m /\ p, e, m /\ q)
  BY WordAssumption DEF ClockEdge
<1> HIDE DEF e
<1>2. /\ RingInv'
      /\ valid_out <=> tasks # <<>>
      /\ valid_out => data_out = Head(tasks)
      /\ valid_out => IF Pops THEN delivered' = Head(tasks)
                              ELSE tasks' # <<>> /\ Head(tasks') = Head(tasks)
  BY <1>1, EdgeOfCore DEF TbInv
<1>3. data_out \in Data
  BY WordAssumption DEF TbInv, RingInv, CoreTypeOK, data_out, MemAt
<1>4. TbTypeOK'
  BY <1>3 DEF TbInv, TbTypeOK, ClockEdge, DistributorEdge, ArbiterEdge, Banks, Pops, Offers, valid_out
<1>5. CaptureIsHead'
  BY <1>2 DEF CaptureIsHead, ClockEdge, DistributorEdge
<1>6. /\ grant_out' = IF ~valid_out THEN 0 ELSE IF rr THEN 2 ELSE 1
      /\ rr' = IF valid_out THEN ~rr ELSE rr
      /\ buffered_valid' = (valid_out /\ ~buffered_valid)
      /\ granted' = IF grant_out' = 0 THEN granted ELSE grant_out'
      /\ runBank' = IF ~valid_out THEN 0 ELSE IF runBank = 0 THEN grant_out' ELSE runBank
  BY DEF ClockEdge, ArbiterEdge, DistributorEdge
<1>7. TurnAgrees' /\ OneBankPerRun'
  <2>1. CASE ~valid_out
    <3>1. /\ rr' = rr /\ grant_out' = 0 /\ granted' = granted
          /\ runBank' = 0 /\ ~buffered_valid'
      BY <1>6, <2>1
    <3> QED BY <3>1 DEF TbInv, TurnAgrees, OneBankPerRun
  <2>2. CASE valid_out
    <3>1. /\ grant_out' = IF rr THEN 2 ELSE 1
          /\ granted' = grant_out'
          /\ runBank' = IF runBank = 0 THEN grant_out' ELSE runBank
      BY <1>6, <2>2
    <3>2. rr' = ~rr /\ buffered_valid' = ~buffered_valid
      BY <1>6, <2>2
    <3>3. TurnAgrees'
      BY <3>1, <3>2 DEF TurnAgrees
    <3>4. CASE runBank = 0
      <4>1. buffered_valid' = TRUE
        BY <3>2, <3>4 DEF TbInv, OneBankPerRun
      <4>2. grant_out' # 0 /\ runBank' = grant_out' /\ granted' = grant_out'
        BY <3>1, <3>4
      <4> QED BY <3>3, <4>1, <4>2 DEF OneBankPerRun
    <3>5. CASE runBank # 0
      <4>1. runBank' = runBank /\ runBank \in {1, 2}
        BY <3>1, <3>5 DEF TbInv, TbTypeOK, Banks
      <4>2. grant_out = granted /\ granted # 0 /\ (buffered_valid <=> grant_out = runBank)
        BY <3>5 DEF TbInv, OneBankPerRun
      <4>3. granted = IF rr THEN 1 ELSE IF granted = 0 THEN 0 ELSE 2
        BY DEF TbInv, TurnAgrees
      <4>4. grant_out' = runBank <=> grant_out # runBank
        BY <3>1, <4>1, <4>2, <4>3
      <4>5. buffered_valid' <=> grant_out' = runBank'
        BY <3>2, <4>1, <4>2, <4>4
      <4>6. grant_out' # 0 /\ granted' = grant_out' /\ runBank' # 0
        BY <3>1, <4>1
      <4> QED BY <3>3, <4>5, <4>6 DEF OneBankPerRun
    <3> QED BY <3>4, <3>5, <3>3
  <2> QED BY <2>1, <2>2
<1> QED BY <1>2, <1>4, <1>5, <1>7 DEF TbInv

LEMMA TbInvStep ==
  ASSUME PowerOfTwoDepth, TbInv, [TbNext]_tbVars
  PROVE  TbInv'
<1>1. CASE TbReset
  BY <1>1, TbInvReset
<1>2. ASSUME NEW m \in BOOLEAN, NEW r \in {"push", "pop", "none"}, NEW d \in Data,
             ClockEdge(m, r = "push", d, r = "pop")
      PROVE  TbInv'
  BY <1>2, TbInvEdge
<1>3. CASE UNCHANGED tbVars
  BY <1>3 DEF tbVars, coreVars, distributorVars, arbiterVars, tbHistory, TbInv, RingInv,
       CoreTypeOK, PointersAgree, ContentsAgree, SlotOf, TbTypeOK, CaptureIsHead, TurnAgrees,
       OneBankPerRun
<1> QED BY <1>1, <1>2, <1>3 DEF TbNext

(***************************************************************************)
(* The queue's invariant survives behind the distributor and the arbiter,  *)
(* the captured word is the head or the task just delivered, and the       *)
(* distributor's buffer fills exactly on the grants of one bank            *)
(* (OneBankPerRun) as long as the queue stays non-empty.                   *)
(***************************************************************************)
THEOREM TbKeepsTbInv ==
  ASSUME PowerOfTwoDepth
  PROVE  TbSpec => []TbInv
<1>1. TbInit => TbInv
  BY TbInvInit
<1>2. TbInv /\ [TbNext]_tbVars => TbInv'
  BY TbInvStep
<1> QED BY <1>1, <1>2, PTL DEF TbSpec

\* In a busy period hb_arbiter_banked.sv's grants and hb_task_distributor.sv's
\* offers keep step: every offer of the period falls on the same bank.
THEOREM TbKeepsOneBankPerRun ==
  ASSUME PowerOfTwoDepth
  PROVE  TbSpec => []OneBankPerRun
<1>1. TbInv => OneBankPerRun
  BY DEF TbInv
<1> QED BY <1>1, TbKeepsTbInv, PTL

\* The word in buffered_data when buffered_valid rises, from the second edge
\* of a busy period on, is the head of the queue or the task popped one edge
\* before: the capture register of hb_task_distributor.sv lags by one edge only.
THEOREM TbOffersHeadOrDelivered ==
  ASSUME PowerOfTwoDepth
  PROVE  TbSpec => OffersHeadOrDelivered
<1> DEFINE A == Offers /\ steady => buffered_data' = IF popped THEN delivered ELSE Head(tasks)
<1>1. TbInv /\ [TbNext]_tbVars => [A]_tbVars
  BY DEF TbNext, TbReset, ClockEdge, DistributorEdge, Offers, TbInv, CaptureIsHead
<1> QED BY <1>1, TbKeepsTbInv, PTL DEF TbSpec, OffersHeadOrDelivered

\* hb_arbiter_banked.sv never grants one bank twice in a row: rr is the turn,
\* whatever the number of idle cycles between two grants.
THEOREM TbGrantsAlternate ==
  ASSUME PowerOfTwoDepth
  PROVE  TbSpec => GrantsAlternate
<1> DEFINE A == grant_out' # 0 => grant_out' # granted
<1>1. TbInv /\ [TbNext]_tbVars => [A]_tbVars
  BY DEF TbNext, TbReset, ClockEdge, ArbiterEdge, TbInv, TbTypeOK, TurnAgrees, Banks
<1> QED BY <1>1, TbKeepsTbInv, PTL DEF TbSpec, GrantsAlternate

-------------------------------------------------------------------------------
(***************************************************************************)
(* The HW-only harness.  NoMismatch is not inductive: a comparison         *)
(* succeeds only because the deque equals the waiting tasks and the core   *)
(* shows the oldest of them.  HwInv adds both facts; RingInv's             *)
(* preservation is cited from HbTaskQueueCoreProofs.                       *)
(***************************************************************************)
\* metrics after an operation: each counter hit grows by one.
LEMMA BumpedType ==
  ASSUME metrics \in [Counters -> Nat], NEW hit
  PROVE  /\ Bumped(hit) \in [Counters -> Nat]
         /\ \A c \in Counters :
              Bumped(hit)[c] = IF c \in hit THEN metrics[c] + 1 ELSE metrics[c]
BY DEF Bumped

\* While nothing is pushed or popped RingInv rests on coreVars alone.
LEMMA RingInvUnchanged ==
  ASSUME RingInv, UNCHANGED coreVars
  PROVE  RingInv'
BY DEF coreVars, RingInv, CoreTypeOK, PointersAgree, ContentsAgree, SlotOf

\* One call of host_try_push keeps the deque and the queue equal.
LEMMA PushKeepsSync ==
  ASSUME PowerOfTwoDepth, HwInv, NEW v \in Data, HostTryPush(v)
  PROVE  /\ RingInv'
         /\ sw' \in Seq(Data)
         /\ metrics' \in [Counters -> Nat]
         /\ metrics'["mismatches"] = 0
         /\ OracleInSync'
<1> USE DEF HwInv
<1>1. CASE /\ full
           /\ metrics' = Bumped({"attempted_pushes", "refused_pushes"})
           /\ UNCHANGED <<sw, coreVars>>
  <2>1. RingInv' /\ sw' \in Seq(Data) /\ OracleInSync'
    BY <1>1, RingInvUnchanged DEF HwTypeOK, OracleInSync, coreVars
  <2>2. metrics' \in [Counters -> Nat] /\ metrics'["mismatches"] = 0
    BY <1>1, BumpedType DEF HwTypeOK, NoMismatch, Counters
  <2> QED BY <2>1, <2>2
<1>2. CASE /\ PushEdge(v)
           /\ metrics' = Bumped({"attempted_pushes", "successful_pushes"})
           /\ sw' = Append(sw, v)
  <2>1. RingInv'
    BY <1>2, RingInvPush
  <2>2. sw' \in Seq(Data) /\ OracleInSync'
    BY <1>2 DEF HwTypeOK, OracleInSync, PushEdge
  <2>3. metrics' \in [Counters -> Nat] /\ metrics'["mismatches"] = 0
    BY <1>2, BumpedType DEF HwTypeOK, NoMismatch, Counters
  <2> QED BY <2>1, <2>2, <2>3
<1> QED BY <1>1, <1>2 DEF HostTryPush

\* One call of host_try_pop does too, and finds nothing to complain about.
LEMMA PopKeepsSync ==
  ASSUME PowerOfTwoDepth, HwInv, HostTryPop
  PROVE  /\ RingInv'
         /\ sw' \in Seq(Data)
         /\ metrics' \in [Counters -> Nat]
         /\ metrics'["mismatches"] = 0
         /\ OracleInSync'
<1> USE DEF HwInv
<1>1. CASE PopRefused
  <2>1. sw = <<>>
    BY <1>1 DEF PopRefused, valid_out, RingInv, CoreTypeOK, ContentsAgree, OracleInSync
  <2>2. RingInv' /\ sw' \in Seq(Data) /\ OracleInSync'
    BY <1>1, RingInvUnchanged DEF PopRefused, HwTypeOK, OracleInSync, coreVars
  <2>3. metrics' = Bumped({"attempted_pops", "refused_pops"})
    BY <1>1, <2>1 DEF PopRefused
  <2>4. metrics' \in [Counters -> Nat] /\ metrics'["mismatches"] = 0
    BY <2>3, BumpedType DEF HwTypeOK, NoMismatch, Counters
  <2> QED BY <2>2, <2>4
<1>2. CASE PopAccepted
  <2>1. RingInv' /\ delivered' = Head(tasks) /\ tasks # <<>>
    BY <1>2, RingInvPop DEF PopAccepted
  <2>2. sw # <<>> /\ Head(sw) = data_out
    BY <1>2, <2>1 DEF PopAccepted, PopEdge, OracleInSync
  <2>3. sw' \in Seq(Data) /\ OracleInSync'
    BY <1>2, <2>1, <2>2, HeadTailProperties DEF PopAccepted, PopEdge, HwTypeOK, OracleInSync
  <2>4. metrics' = Bumped({"attempted_pops", "successful_pops"})
    BY <1>2, <2>2 DEF PopAccepted
  <2>5. metrics' \in [Counters -> Nat] /\ metrics'["mismatches"] = 0
    BY <2>4, BumpedType DEF HwTypeOK, NoMismatch, Counters
  <2> QED BY <2>1, <2>3, <2>5
<1> QED BY <1>1, <1>2 DEF HostTryPop

\* Starting a test leaves both sides empty.
LEMMA BeginTestInSync ==
  ASSUME PowerOfTwoDepth, HwInv, NEW next, BeginTest(next)
  PROVE  /\ RingInv'
         /\ i' \in Nat
         /\ sw' \in Seq(Data)
         /\ metrics' \in [Counters -> Nat]
         /\ metrics'["mismatches"] = 0
         /\ OracleInSync'
<1>1. RingInv'
  BY RingInvReset DEF HwInv, BeginTest
<1>2. OracleInSync' /\ sw' \in Seq(Data) /\ i' \in Nat
  BY DEF BeginTest, Reset, OracleInSync
<1>3. metrics' \in [Counters -> Nat] /\ metrics'["mismatches"] = 0
  BY DEF BeginTest, NoMetrics, Counters
<1> QED BY <1>1, <1>2, <1>3

LEMMA HwInvStep ==
  ASSUME PowerOfTwoDepth, HwInv, [HwNext]_hwVars
  PROVE  HwInv'
<1> USE HwAssumption DEF HwInv
<1>1. CASE StartDeterministic
  BY <1>1, BeginTestInSync DEF StartDeterministic, BeginTest, HwTypeOK, NoMismatch
<1>2. CASE DetOp
  <2> DEFINE o == DetScript[i + 1]
  <2>1. o \in Operations
    BY <1>2 DEF DetOp, HwTypeOK
  <2>2. CASE o.op = "push"
    <3>1. o.v \in Data /\ HostTryPush(o.v)
      BY <1>2, <2>1, <2>2 DEF DetOp, Operations
    <3> QED BY <1>2, <3>1, PushKeepsSync DEF DetOp, HwTypeOK, NoMismatch
  <2>3. CASE o.op # "push"
    <3>1. HostTryPop
      BY <1>2, <2>3 DEF DetOp
    <3> QED BY <1>2, <3>1, PopKeepsSync DEF DetOp, HwTypeOK, NoMismatch
  <2> QED BY <2>2, <2>3
<1>3. CASE DetDrain
  BY <1>3, PopKeepsSync DEF DetDrain, HwTypeOK, NoMismatch
<1>4. CASE StartRandomized
  BY <1>4, BeginTestInSync DEF StartRandomized, BeginTest, HwTypeOK, NoMismatch
<1>5. CASE RandOp
  <2>1. phase' = phase /\ i' \in Nat /\ mism1' = mism1
    BY <1>5 DEF RandOp, HwTypeOK
  <2>2. ASSUME NEW v \in Data, HostTryPush(v)
        PROVE  HwInv'
    BY <2>1, <2>2, PushKeepsSync DEF HwTypeOK, NoMismatch
  <2>3. CASE HostTryPop
    BY <2>1, <2>3, PopKeepsSync DEF HwTypeOK, NoMismatch
  <2>4. CASE UNCHANGED <<sw, metrics, coreVars>>
    BY <2>1, <2>4, RingInvUnchanged DEF HwTypeOK, NoMismatch, OracleInSync, coreVars
  <2> QED BY <1>5, <2>2, <2>3, <2>4 DEF RandOp
<1>6. CASE RandDrain
  BY <1>6, PopKeepsSync DEF RandDrain, HwTypeOK, NoMismatch
<1>7. CASE Exit \/ UNCHANGED hwVars
  <2>1. UNCHANGED <<i, sw, metrics, mism1, coreVars>> /\ phase' \in {phase, "exited"}
    BY <1>7 DEF Exit, hwVars
  <2> QED BY <2>1, RingInvUnchanged DEF HwTypeOK, NoMismatch, OracleInSync, coreVars
<1> QED BY <1>1, <1>2, <1>3, <1>4, <1>5, <1>6, <1>7 DEF HwNext

(***************************************************************************)
(* The deque of the HW-only harness and the hardware hold the same words   *)
(* between any two calls, through both tests and both drains, and the ring *)
(* stays sound.                                                            *)
(***************************************************************************)
THEOREM HwKeepsHwInv ==
  ASSUME PowerOfTwoDepth
  PROVE  HwSpec => []HwInv
<1>1. HwInit => HwInv
  <2> SUFFICES ASSUME HwInit PROVE HwInv
    OBVIOUS
  <2>1. RingInv
    BY RingInvInit DEF HwInit
  <2>2. OracleInSync /\ HwTypeOK /\ NoMismatch
    BY DEF HwInit, CoreInit, OracleInSync, HwTypeOK, NoMismatch, NoMetrics, Counters
  <2> QED BY <2>1, <2>2 DEF HwInv
<1>2. HwInv /\ [HwNext]_hwVars => HwInv'
  BY HwInvStep
<1> QED BY <1>1, <1>2, PTL DEF HwSpec

(***************************************************************************)
(* The verdict of hw/verilator_main.cpp is always "0 mismatches": main     *)
(* returns 0 whatever rand() draws.                                        *)
(***************************************************************************)
THEOREM HwReportsNoMismatch ==
  ASSUME PowerOfTwoDepth
  PROVE  HwSpec => []NoMismatch
<1>1. HwInv => NoMismatch
  BY DEF HwInv
<1> QED BY <1>1, HwKeepsHwInv, PTL

LEMMA BalanceStep ==
  ASSUME HwInv, MetricsBalance, [HwNext]_hwVars
  PROVE  MetricsBalance'
<1> USE DEF HwInv
<1>0. /\ metrics \in [Counters -> Nat]
      /\ count \in Nat
      /\ \A c \in Counters : metrics[c] \in Nat
  BY DEF HwTypeOK, RingInv, CoreTypeOK
<1>1. ASSUME NEW next, BeginTest(next)
      PROVE  MetricsBalance'
  BY <1>1 DEF BeginTest, Reset, NoMetrics, Counters, MetricsBalance
<1>2. ASSUME NEW v \in Data, HostTryPush(v)
      PROVE  MetricsBalance'
  <2>1. CASE /\ metrics' = Bumped({"attempted_pushes", "refused_pushes"})
             /\ UNCHANGED <<sw, coreVars>>
    BY <1>0, <2>1, BumpedType DEF MetricsBalance, Counters, coreVars
  <2>2. CASE /\ PushEdge(v)
             /\ metrics' = Bumped({"attempted_pushes", "successful_pushes"})
    <3>1. /\ count' = count + 1
          /\ metrics'["attempted_pushes"] = metrics["attempted_pushes"] + 1
          /\ metrics'["successful_pushes"] = metrics["successful_pushes"] + 1
          /\ metrics'["refused_pushes"] = metrics["refused_pushes"]
          /\ metrics'["attempted_pops"] = metrics["attempted_pops"]
          /\ metrics'["successful_pops"] = metrics["successful_pops"]
          /\ metrics'["refused_pops"] = metrics["refused_pops"]
      BY <1>0, <2>2, BumpedType DEF Counters, PushEdge
    <3>2. /\ metrics["successful_pushes"] \in Nat
          /\ metrics["refused_pushes"] \in Nat
          /\ metrics["successful_pops"] \in Nat
      BY <1>0 DEF Counters
    <3> QED BY <1>0, <3>1, <3>2 DEF MetricsBalance
  <2> QED BY <1>2, <2>1, <2>2 DEF HostTryPush
<1>3. ASSUME HostTryPop
      PROVE  MetricsBalance'
  <2>1. CASE PopRefused
    <3>1. /\ count' = count
          /\ \E m \in SUBSET {"mismatches"} :
               metrics' = Bumped({"attempted_pops", "refused_pops"} \cup m)
      BY <2>1 DEF PopRefused, coreVars
    <3> QED BY <1>0, <3>1, BumpedType DEF MetricsBalance, Counters
  <2>2. CASE PopAccepted
    <3>1. /\ count' = count - 1
          /\ \E m \in SUBSET {"mismatches"} :
               metrics' = Bumped({"attempted_pops", "successful_pops"} \cup m)
      BY <2>2 DEF PopAccepted, PopEdge
    <3> QED BY <1>0, <3>1, BumpedType DEF MetricsBalance, Counters
  <2> QED BY <1>3, <2>1, <2>2 DEF HostTryPop
<1>4. CASE UNCHANGED <<metrics, coreVars>>
  BY <1>4 DEF MetricsBalance, coreVars
<1>5. CASE StartDeterministic \/ StartRandomized
  BY <1>5, <1>1 DEF StartDeterministic, StartRandomized
<1>6. CASE DetOp
  <2>1. DetScript[i + 1] \in Operations
    BY <1>6, HwAssumption DEF DetOp, HwTypeOK
  <2> QED BY <1>6, <1>2, <1>3, <2>1 DEF DetOp, Operations
<1>7. CASE RandOp
  BY <1>7, <1>2, <1>3, <1>4 DEF RandOp
<1>8. CASE DetDrain \/ RandDrain
  BY <1>8, <1>3 DEF DetDrain, RandDrain
<1>9. CASE Exit \/ UNCHANGED hwVars
  BY <1>9, <1>4 DEF Exit, hwVars
<1> QED BY <1>5, <1>6, <1>7, <1>8, <1>9 DEF HwNext

(***************************************************************************)
(* The counters the harness publishes in results.json and metrics.csv      *)
(* balance after every operation: attempts are successes plus refusals,    *)
(* and successful pushes are successful pops plus what the core holds.     *)
(***************************************************************************)
THEOREM HwMetricsBalance ==
  ASSUME PowerOfTwoDepth
  PROVE  HwSpec => []MetricsBalance
<1>1. HwInit => MetricsBalance
  BY DEF HwInit, CoreInit, NoMetrics, Counters, MetricsBalance
<1>2. HwInv /\ MetricsBalance /\ [HwNext]_hwVars => MetricsBalance'
  BY BalanceStep
<1> QED BY <1>1, <1>2, HwKeepsHwInv, PTL DEF HwSpec

\* The harness is an environment the core was proved in: every operation
\* is at most one request.
LEMMA HwStepIsCoreStep ==
  ASSUME HwTypeOK, [HwNext]_hwVars
  PROVE  [CoreNext]_coreVars
<1>1. \A v \in Data : HostTryPush(v) => [CoreNext]_coreVars
  BY DEF HostTryPush, CoreNext
<1>2. HostTryPop => [CoreNext]_coreVars
  BY DEF HostTryPop, PopRefused, PopAccepted, CoreNext
<1>3. CASE StartDeterministic \/ StartRandomized
  BY <1>3 DEF StartDeterministic, StartRandomized, BeginTest, CoreNext
<1>4. CASE DetOp
  <2>1. DetScript[i + 1] \in Operations
    BY <1>4, HwAssumption DEF DetOp, HwTypeOK
  <2> QED BY <1>1, <1>2, <1>4, <2>1 DEF DetOp, Operations
<1>5. CASE RandOp
  BY <1>1, <1>2, <1>5 DEF RandOp
<1>6. CASE DetDrain \/ RandDrain
  BY <1>2, <1>6 DEF DetDrain, RandDrain
<1>7. CASE Exit \/ UNCHANGED hwVars
  BY <1>7 DEF Exit, hwVars
<1> QED BY <1>3, <1>4, <1>5, <1>6, <1>7 DEF HwNext

===============================================================================
