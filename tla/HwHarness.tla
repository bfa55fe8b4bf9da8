------------------------------- MODULE HwHarness -------------------------------
(***************************************************************************)
(* hw/verilator_main.cpp: the HW-only harness.  It resets the core, runs   *)
(* the deterministic script, drains, resets again, runs OPS random         *)
(* operations, drains, and exits with 0 only if no comparison with its     *)
(* deque sw failed.                                                        *)
(*                                                                         *)
(* The harness is one thread and clocks the core itself, so one step is    *)
(* one call of host_try_push or host_try_pop with the caller's             *)
(* bookkeeping, one idle tick, or the start of a test.  rand() is a        *)
(* nondeterministic choice; every operation sequence of length OPS is      *)
(* covered.                                                                *)
(***************************************************************************)
EXTENDS HbTaskQueueCore

CONSTANTS
  DetScript,  \* the deterministic test: a sequence of Operations
  OPS         \* operations of the randomized test

Operations == [op : {"push"}, v : Data] \cup [op : {"pop"}]

ASSUME HwAssumption == DetScript \in Seq(Operations) /\ OPS \in Nat

VARIABLES
  phase,      \* "start", "det", "rand" or "exited"
  i,          \* operations done in this test
  sw,         \* the deque of words the harness expects, oldest first
  metrics,    \* struct Metrics
  mism1       \* the deterministic test's mismatches

hwVars == <<phase, i, sw, metrics, mism1, coreVars>>

Counters == {"attempted_pushes", "successful_pushes", "refused_pushes",
             "attempted_pops", "successful_pops", "refused_pops", "mismatches"}

NoMetrics == [c \in Counters |-> 0]

Bumped(hit) == [c \in Counters |-> IF c \in hit THEN metrics[c] + 1 ELSE metrics[c]]

HwInit ==
  /\ CoreInit
  /\ phase = "start"
  /\ i = 0
  /\ sw = <<>>
  /\ metrics = NoMetrics
  /\ mism1 = 0

\* Fault: a refused push that is not counted as an attempt.
HostTryPushUncounted(v) ==
  \/ /\ full
     /\ metrics' = Bumped({"refused_pushes"})
     /\ UNCHANGED <<sw, coreVars>>
  \/ /\ PushEdge(v)
     /\ metrics' = Bumped({"attempted_pushes", "successful_pushes"})
     /\ sw' = Append(sw, v)

HostTryPush(v) ==
  \/ /\ full
     /\ metrics' = Bumped({"attempted_pushes", "refused_pushes"})
     /\ UNCHANGED <<sw, coreVars>>
  \/ /\ PushEdge(v)
     /\ metrics' = Bumped({"attempted_pushes", "successful_pushes"})
     /\ sw' = Append(sw, v)

\* A refusal while sw expects a word is a mismatch.
PopRefused ==
  /\ ~valid_out
  /\ metrics' = Bumped({"attempted_pops", "refused_pops"}
                         \cup IF sw = <<>> THEN {} ELSE {"mismatches"})
  /\ UNCHANGED <<sw, coreVars>>

\* Fault: data_out sampled after the edge.
PopAcceptedLateSample ==
  /\ PopEdge
  /\ LET agrees == sw # <<>> /\ Head(sw) = data_out'
     IN  metrics' = Bumped({"attempted_pops", "successful_pops"}
                             \cup IF agrees THEN {} ELSE {"mismatches"})
  /\ sw' = IF sw = <<>> THEN sw ELSE Tail(sw)

\* data_out is sampled before the edge that moves head.
PopAccepted ==
  /\ PopEdge
  /\ LET agrees == sw # <<>> /\ Head(sw) = data_out
     IN  metrics' = Bumped({"attempted_pops", "successful_pops"}
                             \cup IF agrees THEN {} ELSE {"mismatches"})
  /\ sw' = IF sw = <<>> THEN sw ELSE Tail(sw)

HostTryPop == PopRefused \/ PopAccepted

\* Both tests begin with fresh metrics, an empty deque and a reset core.
BeginTest(next) ==
  /\ Reset
  /\ phase' = next
  /\ i' = 0
  /\ sw' = <<>>
  /\ metrics' = NoMetrics

StartDeterministic ==
  /\ phase = "start"
  /\ BeginTest("det")
  /\ UNCHANGED mism1

DetOp ==
  /\ phase = "det"
  /\ i < Len(DetScript)
  /\ LET o == DetScript[i + 1]
     IN  IF o.op = "push" THEN HostTryPush(o.v) ELSE HostTryPop
  /\ i' = i + 1
  /\ UNCHANGED <<phase, mism1>>

\* while (!sw.empty()) pop();  -- a refusal does not leave this loop.
DetDrain ==
  /\ phase = "det"
  /\ i = Len(DetScript)
  /\ sw # <<>>
  /\ HostTryPop
  /\ UNCHANGED <<phase, i, mism1>>

StartRandomized ==
  /\ phase = "det"
  /\ i = Len(DetScript)
  /\ sw = <<>>
  /\ BeginTest("rand")
  /\ mism1' = metrics["mismatches"]

RandOp ==
  /\ phase = "rand"
  /\ i < OPS
  /\ \/ \E v \in Data : HostTryPush(v)
     \/ HostTryPop
     \/ UNCHANGED <<sw, metrics, coreVars>>     \* a tick without a request
  /\ i' = i + 1
  /\ UNCHANGED <<phase, mism1>>

RandDrain ==
  /\ phase = "rand"
  /\ i = OPS
  /\ sw # <<>>
  /\ HostTryPop
  /\ phase' = IF valid_out THEN phase ELSE "exited"     \* break on a refusal
  /\ UNCHANGED <<i, mism1>>

\* Fault: waiting for valid_out with the wrong polarity before leaving.
ExitOnValid ==
  /\ phase = "rand"
  /\ i = OPS
  /\ sw = <<>>
  /\ valid_out
  /\ phase' = "exited"
  /\ UNCHANGED <<i, sw, metrics, mism1, coreVars>>

Exit ==
  /\ phase = "rand"
  /\ i = OPS
  /\ sw = <<>>
  /\ phase' = "exited"
  /\ UNCHANGED <<i, sw, metrics, mism1, coreVars>>

HwNext ==
  \/ StartDeterministic \/ DetOp \/ DetDrain
  \/ StartRandomized \/ RandOp \/ RandDrain \/ Exit

\* One thread that never blocks: it goes on as long as it has a statement
\* to execute.
HwSpec == HwInit /\ [][HwNext]_hwVars /\ WF_hwVars(HwNext)

-------------------------------------------------------------------------------
(***************************************************************************)
(* Properties.                                                             *)
(***************************************************************************)

HwTypeOK ==
  /\ phase \in {"start", "det", "rand", "exited"}
  /\ i \in Nat
  /\ sw \in Seq(Data)
  /\ metrics \in [Counters -> Nat]
  /\ mism1 \in Nat

\* The harness never reports a mismatch: neither test counts one, so main
\* returns 0.
NoMismatch == mism1 = 0 /\ metrics["mismatches"] = 0

\* The deque and the hardware hold the same words between any two calls,
\* full and empty included: an accepted call is accepted on both sides.
OracleInSync == sw = tasks

\* The inductive invariant behind NoMismatch: the core's registers are
\* sound, and the deque is the task list they stand for.
HwInv == RingInv /\ HwTypeOK /\ OracleInSync /\ NoMismatch

\* The published counters add up, whatever was refused on the way: every
\* attempt is counted once, and what was pushed and not popped is waiting.
MetricsBalance ==
  /\ metrics["attempted_pushes"] = metrics["successful_pushes"] + metrics["refused_pushes"]
  /\ metrics["attempted_pops"] = metrics["successful_pops"] + metrics["refused_pops"]
  /\ metrics["successful_pushes"] = metrics["successful_pops"] + count

\* Both drain loops end and main returns, although the deterministic one
\* has no way out when the hardware refuses a pop.
HwTermination == <>(phase = "exited")

===============================================================================
