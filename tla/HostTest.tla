------------------------------- MODULE HostTest -------------------------------
(***************************************************************************)
(* main of sw/tests/test_task_queue_host.c: four pushes and two pops       *)
(* nobody compares, a randomized test compared with the ring buffer swbuf, *)
(* a drain of what swbuf still holds, and TB_DONE.                         *)
(*                                                                         *)
(* swbuf, swhead, swtail and swcount are one sequence, oldest word first.  *)
(* The counters that are only printed are left out; mismatches decides the *)
(* exit status and stays.  The path search that finds the region file for  *)
(* TB_DONE is taken to find the mapped one.                                *)
(***************************************************************************)
EXTENDS MmioDriver

CONSTANTS
  DetVals,   \* vals: the words of the deterministic test
  DET_POPS,  \* its pops
  OPS,       \* operations of the randomized test
  SWDEPTH    \* swdepth

ASSUME HostAssumption ==
  /\ DetVals \in Seq(Data)
  /\ {DET_POPS, OPS, SWDEPTH} \subseteq Nat

VARIABLES
  phase,       \* "detPush", "detPop", "random", "drain", "signal" or "exited"
  n,           \* calls begun in this phase
  swbuf,       \* the software golden queue
  mismatches

testPrivate == <<phase, n, swbuf, mismatches>>
hostPrivate == <<driverPrivate, testPrivate>>

HostInit ==
  /\ DriverInit
  /\ phase = "detPush"
  /\ n = 0
  /\ swbuf = <<>>
  /\ mismatches = 0

InPhase(p, limit) == hpc = "idle" /\ phase = p /\ n < limit

DetPush ==
  /\ InPhase("detPush", Len(DetVals))
  /\ mmio_push(DetVals[n + 1])
  /\ n' = n + 1
  /\ UNCHANGED <<phase, swbuf, mismatches>>

DetPop ==
  /\ InPhase("detPop", DET_POPS)
  /\ mmio_pop
  /\ n' = n + 1
  /\ UNCHANGED <<phase, swbuf, mismatches>>

RandomOp ==
  /\ InPhase("random", OPS)
  /\ \/ \E v \in Data : mmio_push(v)
     \/ mmio_pop
     \/ UNCHANGED <<driverPrivate, regionVars>>      \* idle
  /\ n' = n + 1
  /\ UNCHANGED <<phase, swbuf, mismatches>>

DrainPop ==
  /\ hpc = "idle"
  /\ phase = "drain"
  /\ swbuf # <<>>
  /\ mmio_pop
  /\ UNCHANGED testPrivate

NextPhase ==
  /\ hpc = "idle"
  /\ \/ phase = "detPush" /\ n = Len(DetVals) /\ phase' = "detPop"
     \/ phase = "detPop" /\ n = DET_POPS /\ phase' = "random"
     \/ phase = "random" /\ n = OPS /\ phase' = "drain"
  /\ n' = 0
  /\ UNCHANGED <<swbuf, mismatches, driverPrivate, regionVars>>

\* Fault: a refused word entered in swbuf as if accepted.
PushReturnedUnchecked ==
  /\ op = "push"
  /\ Return
  /\ swbuf' = IF phase = "random" /\ Len(swbuf) < SWDEPTH
              THEN Append(swbuf, arg) ELSE swbuf
  /\ UNCHANGED <<phase, n, mismatches>>

\* What main does with the answer to a push.
PushReturned ==
  /\ op = "push"
  /\ Return
  /\ swbuf' = IF phase = "random" /\ rc = 0 /\ Len(swbuf) < SWDEPTH
              THEN Append(swbuf, arg) ELSE swbuf
  /\ UNCHANGED <<phase, n, mismatches>>

\* Fault: a drain that goes on after a pop that failed.
PopReturnedNoBreak ==
  /\ op = "pop"
  /\ Return
  /\ IF phase # "detPop" /\ rc = 0
     THEN /\ swbuf' = IF swbuf = <<>> THEN swbuf ELSE Tail(swbuf)
          /\ mismatches' = IF swbuf # <<>> /\ Head(swbuf) = out
                           THEN mismatches ELSE mismatches + 1
     ELSE UNCHANGED <<swbuf, mismatches>>
  /\ UNCHANGED <<phase, n>>

\* What it does with the answer to a pop.  The drain stops at the first
\* pop that fails.
PopReturned ==
  /\ op = "pop"
  /\ Return
  /\ IF phase # "detPop" /\ rc = 0
     THEN /\ swbuf' = IF swbuf = <<>> THEN swbuf ELSE Tail(swbuf)
          /\ mismatches' = IF swbuf # <<>> /\ Head(swbuf) = out
                           THEN mismatches ELSE mismatches + 1
     ELSE UNCHANGED <<swbuf, mismatches>>
  /\ phase' = IF phase = "drain" /\ rc # 0 THEN "signal" ELSE phase
  /\ UNCHANGED n

SignalDone ==
  /\ hpc = "idle"
  /\ phase = "signal" \/ (phase = "drain" /\ swbuf = <<>>)
  /\ TB_DONE' = TRUE
  /\ phase' = "exited"
  /\ UNCHANGED <<n, swbuf, mismatches, driverPrivate>>
  /\ UNCHANGED <<CTRL, DATA_IN, ACK, STATUS, DATA_OUT>>

TestNext ==
  \/ DetPush \/ DetPop \/ RandomOp \/ DrainPop
  \/ NextPhase \/ PushReturned \/ PopReturned \/ SignalDone

HostNext == (DriverNext /\ UNCHANGED testPrivate) \/ TestNext

HostTypeOK ==
  /\ DriverTypeOK
  /\ phase \in {"detPush", "detPop", "random", "drain", "signal", "exited"}
  /\ n \in Nat
  /\ swbuf \in Seq(Data)
  /\ mismatches \in Nat

===============================================================================
