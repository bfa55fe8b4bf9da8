------------------------------ MODULE MmioDriver ------------------------------
(***************************************************************************)
(* sw/src/task_queue_mmio.c: mmio_push and mmio_pop, the host's side of    *)
(* the handshake.  One step is one load or store of a shared register.     *)
(*                                                                         *)
(* The two calls share every step but the stores that make the request and *)
(* the load of DATA_OUT.  A poll is one iteration of the wait loop with    *)
(* its sleep; after TIMEOUT of them the call gives up and leaves the       *)
(* request and any late answer where they are.                             *)
(***************************************************************************)
EXTENDS MmioRegion, Integers, Sequences

CONSTANTS
  TIMEOUT,     \* timeout_ms / step_ms: polls before a call gives up
  PushStores   \* the orders in which a build may store DATA_IN and CTRL

ProgramOrder == <<"DATA_IN", "CTRL">>
RequestFirst == <<"CTRL", "DATA_IN">>

(***************************************************************************)
(* The two stores are memcpy calls through a pointer whose volatile        *)
(* qualifier is cast away, so the compiler may swap them; the checked-in   *)
(* sw/test_task_queue_host does.                                           *)
(***************************************************************************)
ASSUME DriverAssumption ==
  /\ TIMEOUT \in Nat \ {0}
  /\ PushStores \subseteq {ProgramOrder, RequestFirst}

VARIABLES
  hpc,       \* "idle" between calls, "returned" when rc and out are set
  op,        \* the call in progress: "push" or "pop"
  arg,       \* the argument value of mmio_push
  stores,    \* the stores of the request still to make
  hctrl,     \* ctrl
  hack,      \* ack
  waited,    \* waited
  out,       \* *out
  rc         \* the return value

driverPrivate == <<hpc, op, arg, stores, hctrl, hack, waited, out, rc>>

DriverInit ==
  /\ hpc = "idle"
  /\ op = "push"
  /\ arg = ZERO
  /\ stores = <<>>
  /\ hctrl = {}
  /\ hack = {}
  /\ waited = 0
  /\ out = ZERO
  /\ rc = 0

Call(o, v, order) ==
  /\ hpc = "idle"
  /\ hpc' = "readCtrl"
  /\ op' = o
  /\ arg' = v
  /\ stores' = order
  /\ UNCHANGED <<hctrl, hack, waited, out, rc, regionVars>>

\* Fault: the request made before its word is in place.
mmio_pushRequestFirst(value) == Call("push", value, RequestFirst)

mmio_push(value) == \E order \in PushStores : Call("push", value, order)
mmio_pop == Call("pop", ZERO, <<"CTRL">>)

LoadCtrl ==
  /\ hpc = "readCtrl"
  /\ hctrl' = CTRL
  /\ hpc' = "store"
  /\ UNCHANGED <<op, arg, stores, hack, waited, out, rc, regionVars>>

StoreRequest ==
  /\ hpc = "store"
  /\ CTRL' = IF Head(stores) = "CTRL" THEN hctrl \cup {op} ELSE CTRL
  /\ DATA_IN' = IF Head(stores) = "DATA_IN" THEN arg ELSE DATA_IN
  /\ stores' = Tail(stores)
  /\ hpc' = IF stores' = <<>> THEN "poll" ELSE "store"
  /\ UNCHANGED <<op, arg, hctrl, hack, waited, out, rc, ACK, STATUS, DATA_OUT, TB_DONE>>

\* OK is looked for before REFUSED.
Poll ==
  /\ hpc = "poll"
  /\ hack' = ACK
  /\ \/ /\ OkBit(op) \in ACK
        /\ hpc' = IF op = "pop" THEN "readDataOut" ELSE "clearOk"
        /\ UNCHANGED <<waited, rc>>
     \/ /\ OkBit(op) \notin ACK
        /\ RefusedBit(op) \in ACK
        /\ hpc' = "clearRefused"
        /\ UNCHANGED <<waited, rc>>
     \/ /\ OkBit(op) \notin ACK
        /\ RefusedBit(op) \notin ACK
        /\ waited' = waited + 1
        /\ IF waited' < TIMEOUT THEN UNCHANGED <<hpc, rc>>
                                ELSE hpc' = "returned" /\ rc' = -2
  /\ UNCHANGED <<op, arg, stores, hctrl, out, regionVars>>

LoadDataOut ==
  /\ hpc = "readDataOut"
  /\ out' = DATA_OUT
  /\ hpc' = "clearOk"
  /\ UNCHANGED <<op, arg, stores, hctrl, hack, waited, rc, regionVars>>

\* Fault: a refusal left in ACK.
ClearAnswerKeepsRefusal ==
  /\ \/ hpc = "clearOk" /\ ACK' = hack \ {OkBit(op)} /\ rc' = 0
     \/ hpc = "clearRefused" /\ ACK' = hack /\ rc' = -1
  /\ hpc' = "returned"
  /\ UNCHANGED <<op, arg, stores, hctrl, hack, waited, out>>
  /\ UNCHANGED <<CTRL, DATA_IN, STATUS, DATA_OUT, TB_DONE>>

ClearAnswer ==
  /\ \/ hpc = "clearOk" /\ ACK' = hack \ {OkBit(op)} /\ rc' = 0
     \/ hpc = "clearRefused" /\ ACK' = hack \ {RefusedBit(op)} /\ rc' = -1
  /\ hpc' = "returned"
  /\ UNCHANGED <<op, arg, stores, hctrl, hack, waited, out>>
  /\ UNCHANGED <<CTRL, DATA_IN, STATUS, DATA_OUT, TB_DONE>>

DriverNext == LoadCtrl \/ StoreRequest \/ Poll \/ LoadDataOut \/ ClearAnswer

\* Back in the caller; the call's locals are gone.
Return ==
  /\ hpc = "returned"
  /\ hpc' = "idle"
  /\ op' = "push"
  /\ arg' = ZERO
  /\ hctrl' = {}
  /\ hack' = {}
  /\ waited' = 0
  /\ out' = ZERO
  /\ rc' = 0
  /\ UNCHANGED <<stores, regionVars>>

DriverTypeOK ==
  /\ hpc \in {"idle", "readCtrl", "store", "poll", "readDataOut", "clearOk",
              "clearRefused", "returned"}
  /\ op \in Requests
  /\ arg \in Data
  /\ stores \in {<<>>, <<"CTRL">>, <<"DATA_IN">>, ProgramOrder, RequestFirst}
  /\ hctrl \subseteq Requests
  /\ hack \subseteq Answers
  /\ waited \in 0 .. TIMEOUT
  /\ out \in Data
  /\ rc \in {0, -1, -2}

===============================================================================
