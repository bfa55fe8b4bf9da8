------------------------------- MODULE MmioCosim -------------------------------
(***************************************************************************)
(* The MMIO co-simulation: the host test and the bridge as two processes   *)
(* over one region, each step of either interleaved with any step of the   *)
(* other.                                                                  *)
(*                                                                         *)
(* Four history variables, which no guard reads, say what the register     *)
(* values cannot:                                                          *)
(*   issued  - the words passed to mmio_push so far;                       *)
(*   outcome - what the bridge did with the request of the call in         *)
(*             progress: "none" until it served one;                       *)
(*   ledger  - the tasks that wait if every return value so far was true;  *)
(*   clean   - so far every call was answered before its timeout, and      *)
(*             every call loaded CTRL after the bridge had cleared the     *)
(*             request before it.                                          *)
(***************************************************************************)
EXTENDS MmioBridge, HostTest

VARIABLES issued, outcome, ledger, clean

history == <<issued, outcome, ledger, clean>>
vars == <<regionVars, bridgeVars, hostPrivate, history>>

CosimInit ==
  /\ RegionInit
  /\ BridgeInit
  /\ HostInit
  /\ issued = {}
  /\ outcome = "none"
  /\ ledger = <<>>
  /\ clean = TRUE

Begins == hpc = "idle" /\ hpc' = "readCtrl"
Ends == hpc # "returned" /\ hpc' = "returned"

HostStep ==
  /\ HostNext
  /\ UNCHANGED bridgeVars
  /\ issued' = IF Begins /\ op' = "push" THEN issued \cup {arg'} ELSE issued
  /\ outcome' = IF Begins THEN "none" ELSE outcome
  /\ ledger' = IF ~Ends \/ rc' # 0 THEN ledger
               ELSE IF op = "push" THEN Append(ledger, arg)
               ELSE IF ledger = <<>> THEN ledger ELSE Tail(ledger)
  /\ clean' = /\ clean
              /\ ~(Ends /\ rc' = -2)
              /\ ~(hpc = "readCtrl" /\ bpc \in {"pushClear", "popClear"})

\* The bridge serves the request of the call in progress.
Serves(o) == bpc = o /\ op = o /\ hpc # "idle"

BridgeStep ==
  /\ BridgeNext
  /\ UNCHANGED <<hostPrivate, issued, ledger, clean>>
  /\ outcome' = IF ~Serves("push") /\ ~Serves("pop") THEN outcome
                ELSE IF tasks' = tasks THEN "refused" ELSE "ok"

CosimNext == HostStep \/ BridgeStep

CosimSpec == CosimInit /\ [][CosimNext]_vars

(***************************************************************************)
(* Two processes on a preemptive scheduler: each that can take a step      *)
(* takes one eventually.  The host always can (its polls are bounded), the *)
(* bridge until it exits.                                                  *)
(***************************************************************************)
FairCosimSpec == CosimSpec /\ WF_vars(HostStep) /\ WF_vars(BridgeStep)

-------------------------------------------------------------------------------
(***************************************************************************)
(* Properties of every run, timeouts and lost requests included.           *)
(***************************************************************************)

CosimTypeOK ==
  /\ RegionTypeOK
  /\ BridgeTypeOK
  /\ HostTypeOK
  /\ issued \subseteq Data
  /\ outcome \in {"none", "ok", "refused"}
  /\ ledger \in Seq(Data)
  /\ clean \in BOOLEAN

\* Only words the host passed to mmio_push enter the hardware: the bridge
\* never pushes a DATA_IN the host has not written yet.
NoFabricatedPush == \A k \in 1 .. Len(tasks) : tasks[k] \in issued

\* As long as only pushes have been called none is served twice: CTRL may
\* keep the request of a call that timed out and the host may store it again
\* with the next one, but the bridge pushes no more words than calls were
\* begun.  (Later a pop can bring a push back; see ClearRequest.)
PushesServedAtMostOnce == phase = "detPush" => Len(tasks) <= n

\* Both processes end: lost requests run into the timeout, the drain stops
\* at the first failure, and TB_DONE reaches the bridge.
CosimTermination == <>(phase = "exited" /\ bpc = "exited")

(***************************************************************************)
(* Properties of clean runs: the handshake works as long as no call times  *)
(* out and none starts inside the bridge's window between ACK and CTRL.    *)
(***************************************************************************)

\* Between calls the caller knows what the hardware holds: the words whose
\* push returned 0, without those whose pop returned 0, and no answer is
\* left over that the next call could take for its own.
CleanLedger == clean /\ hpc = "idle" => tasks = ledger /\ ACK = {}

\* A return value is the truth about this call: 0 when the bridge pushed or
\* popped for it, -1 when it refused, and then the queue is full or empty.
CleanOutcome ==
  clean /\ hpc = "returned" =>
    /\ rc = 0 => outcome = "ok"
    /\ rc = -1 => /\ outcome = "refused"
                  /\ IF op = "push" THEN full ELSE ~valid_out

\* The words swbuf expects are the youngest of those that wait: it lacks
\* exactly the oldest ones, left over by the deterministic test, and loses
\* its own oldest word with every pop as the hardware does.
Lag == Len(tasks) - Len(swbuf)
CleanSwbufIsSuffix ==
  clean /\ hpc = "idle" /\ phase \in {"random", "drain"} =>
    /\ Lag >= 0
    /\ \A k \in 1 .. Len(swbuf) : swbuf[k] = tasks[Lag + k]

\* A pop that returns 0 hands out the word after the one it removed, if any
\* waits: the bridge samples data_out after the edge that moved head.
CleanPopReturnsNext ==
  [][clean /\ Ends /\ op = "pop" /\ rc' = 0 /\ tasks # <<>>
       => out' = Head(tasks)]_vars

\* The flags of a queue in which that many words wait, and how many waited
\* before the bridge served the call in progress.
FlagsAt(waiting) ==
  (IF waiting = DEPTH THEN {"FULL"} ELSE {}) \cup (IF waiting # 0 THEN {"VALID"} ELSE {})
WaitedBefore ==
  IF outcome # "ok" THEN Len(tasks) ELSE IF op = "push" THEN Len(tasks) - 1 ELSE Len(tasks) + 1

\* STATUS is stored after the answer, so a caller that asks for the flags as
\* a call returns may get old ones; but they are those from just before this
\* call, never older, and after a refusal they are right.
StatusLagsOneCall ==
  clean /\ hpc = "returned" => STATUS \in {FlagsAt(Len(tasks)), FlagsAt(WaitedBefore)}

-------------------------------------------------------------------------------
(***************************************************************************)
(* What the repository says of the co-simulation and the code does not do. *)
(***************************************************************************)

\* "DATA_OUT : uint32_t (value popped)": a pop that returns 0 hands out the
\* word the core delivered for it.
PopReturnsPoppedWord ==
  [][clean /\ Ends /\ op = "pop" /\ rc' = 0 => out' = delivered]_vars

\* "no lost operations": while a call waits for its answer its request is
\* in CTRL, or in the bridge's copy and still to be answered, or answered.
NoLostRequest ==
  hpc = "poll" => \/ op \in CTRL
                  \/ op \in bctrl
                  \/ {OkBit(op), RefusedBit(op)} \cap ACK # {}

===============================================================================
