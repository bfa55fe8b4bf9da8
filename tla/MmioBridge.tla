------------------------------ MODULE MmioBridge ------------------------------
(***************************************************************************)
(* sw/sw_hw/verilator_main.cpp: the process that serves the region from    *)
(* the simulated core.  One step is one load or store of a shared register *)
(* with the private computation next to it; the core is private to this    *)
(* process, so a clock edge is part of the step that follows it.           *)
(*                                                                         *)
(* The loop loads CTRL once and works from that copy, bctrl: clearing a    *)
(* request stores bctrl minus the bit, whatever CTRL holds by then.        *)
(***************************************************************************)
EXTENDS MmioRegion, HbTaskQueueCore

VARIABLES
  bpc,       \* the next statement that touches the region
  bctrl,     \* ctrl
  bdata,     \* data_in
  back,      \* ack, as loaded at the top of the loop
  bnew       \* new_ack, about to be stored

bridgePrivate == <<bpc, bctrl, bdata, back, bnew>>
bridgeVars == <<bridgePrivate, coreVars>>

\* The statement reached once the push block is behind.
AfterPush == IF "pop" \in bctrl THEN "pop" ELSE "status"

StatusBits ==
  (IF full THEN {"FULL"} ELSE {}) \cup (IF valid_out THEN {"VALID"} ELSE {})

\* The simulated memory starts cleared; the five ticks under reset happen
\* before the first load.
BridgeInit ==
  /\ CoreInit
  /\ mem = [s \in Slots |-> ZERO]
  /\ bpc = "readCtrl"
  /\ bctrl = {}
  /\ bdata = ZERO
  /\ back = {}
  /\ bnew = {}

ReadCtrl ==
  /\ bpc = "readCtrl"
  /\ bctrl' = CTRL
  /\ bpc' = "readDataIn"
  /\ UNCHANGED <<bdata, back, bnew, regionVars, coreVars>>

ReadDataIn ==
  /\ bpc = "readDataIn"
  /\ bdata' = DATA_IN
  /\ bpc' = "readAck"
  /\ UNCHANGED <<bctrl, back, bnew, regionVars, coreVars>>

ReadAck ==
  /\ bpc = "readAck"
  /\ back' = ACK
  /\ bpc' = "readTbDone"
  /\ UNCHANGED <<bctrl, bdata, bnew, regionVars, coreVars>>

\* if (tb_done != 0) break;
ReadTbDone ==
  /\ bpc = "readTbDone"
  /\ bpc' = IF TB_DONE THEN "exited"
            ELSE IF "push" \in bctrl THEN "push" ELSE AfterPush
  /\ UNCHANGED <<bctrl, bdata, back, bnew, regionVars, coreVars>>

\* Fault: a refusal answered with the bit of a success.
RefusePushAsOk ==
  /\ bpc = "push"
  /\ full
  /\ bnew' = ACK \cup {"PUSH_OK"}
  /\ bpc' = "pushAck"
  /\ UNCHANGED <<bctrl, bdata, back, regionVars, coreVars>>

(***************************************************************************)
(* The source loads ACK again here; the accesses are plain memory copies,  *)
(* and the checked-in build uses the value loaded at the top of the loop   *)
(* instead.  Either may be the base of the new value.                      *)
(***************************************************************************)
RefusePush ==
  /\ bpc = "push"
  /\ full
  /\ \E seen \in {ACK, back} : bnew' = seen \cup {"PUSH_REFUSED"}
  /\ bpc' = "pushAck"
  /\ UNCHANGED <<bctrl, bdata, back, regionVars, coreVars>>

AcceptPush ==
  /\ bpc = "push"
  /\ PushEdge(bdata)
  /\ bnew' = ACK \cup {"PUSH_OK"}
  /\ bpc' = "pushAck"
  /\ UNCHANGED <<bctrl, bdata, back, regionVars>>

RefusePop ==
  /\ bpc = "pop"
  /\ ~valid_out
  /\ bnew' = ACK \cup {"POP_REFUSED"}
  /\ bpc' = "popAck"
  /\ UNCHANGED <<bctrl, bdata, back, regionVars, coreVars>>

\* Fault: DATA_OUT written from the word of the push register.
AcceptPopEchoesDataIn ==
  /\ bpc = "pop"
  /\ PopEdge
  /\ DATA_OUT' = bdata
  /\ bpc' = "popReadAck"
  /\ UNCHANGED <<bctrl, bdata, back, bnew, CTRL, DATA_IN, ACK, STATUS, TB_DONE>>

\* DATA_OUT gets what data_out shows after the edge.
AcceptPop ==
  /\ bpc = "pop"
  /\ PopEdge
  /\ DATA_OUT' = data_out'
  /\ bpc' = "popReadAck"
  /\ UNCHANGED <<bctrl, bdata, back, bnew, CTRL, DATA_IN, ACK, STATUS, TB_DONE>>

PopReadAck ==
  /\ bpc = "popReadAck"
  /\ bnew' = ACK \cup {"POP_OK"}
  /\ bpc' = "popAck"
  /\ UNCHANGED <<bctrl, bdata, back, regionVars, coreVars>>

\* Fault: the answer stored at CTRL's offset.
WriteAckAtCtrl ==
  /\ bpc \in {"pushAck", "popAck"}
  /\ CTRL' = bnew
  /\ bpc' = IF bpc = "pushAck" THEN "pushClear" ELSE "popClear"
  /\ UNCHANGED <<bctrl, bdata, back, bnew, coreVars>>
  /\ UNCHANGED <<ACK, DATA_IN, STATUS, DATA_OUT, TB_DONE>>

WriteAck ==
  /\ bpc \in {"pushAck", "popAck"}
  /\ ACK' = bnew
  /\ bpc' = IF bpc = "pushAck" THEN "pushClear" ELSE "popClear"
  /\ UNCHANGED <<bctrl, bdata, back, bnew, coreVars>>
  /\ UNCHANGED <<CTRL, DATA_IN, STATUS, DATA_OUT, TB_DONE>>

\* Fault: the line of the pop copied to the push.
ClearRequestOfPop ==
  /\ bpc \in {"pushClear", "popClear"}
  /\ CTRL' = bctrl \ {"pop"}
  /\ bpc' = IF bpc = "pushClear" THEN AfterPush ELSE "status"
  /\ UNCHANGED <<bctrl, bdata, back, bnew, coreVars>>
  /\ UNCHANGED <<DATA_IN, ACK, STATUS, DATA_OUT, TB_DONE>>

\* What is stored is the copy from the top of the loop: a request stored
\* since is erased, and after a copy that held both the push comes back.
ClearRequest ==
  /\ \/ /\ bpc = "pushClear"
        /\ CTRL' = bctrl \ {"push"}
        /\ bpc' = AfterPush
     \/ /\ bpc = "popClear"
        /\ CTRL' = bctrl \ {"pop"}
        /\ bpc' = "status"
  /\ UNCHANGED <<bctrl, bdata, back, bnew, coreVars>>
  /\ UNCHANGED <<DATA_IN, ACK, STATUS, DATA_OUT, TB_DONE>>

\* Fault: STATUS refreshed by idle iterations only.
WriteStatusWhenIdle ==
  /\ bpc = "status"
  /\ STATUS' = IF bctrl = {} THEN StatusBits ELSE STATUS
  /\ bpc' = "readCtrl"
  /\ bctrl' = {}
  /\ bdata' = ZERO
  /\ back' = {}
  /\ bnew' = {}
  /\ UNCHANGED <<CTRL, DATA_IN, ACK, DATA_OUT, TB_DONE, coreVars>>

\* The end of the loop body, after an idle tick if nothing was requested;
\* the loop's locals end here.
WriteStatus ==
  /\ bpc = "status"
  /\ STATUS' = StatusBits
  /\ bpc' = "readCtrl"
  /\ bctrl' = {}
  /\ bdata' = ZERO
  /\ back' = {}
  /\ bnew' = {}
  /\ UNCHANGED <<CTRL, DATA_IN, ACK, DATA_OUT, TB_DONE, coreVars>>

BridgeNext ==
  \/ ReadCtrl \/ ReadDataIn \/ ReadAck \/ ReadTbDone
  \/ RefusePush \/ AcceptPush \/ RefusePop \/ AcceptPop \/ PopReadAck
  \/ WriteAck \/ ClearRequest \/ WriteStatus

BridgeTypeOK ==
  /\ CoreTypeOK
  /\ bpc \in {"readCtrl", "readDataIn", "readAck", "readTbDone", "push", "pushAck",
              "pushClear", "pop", "popReadAck", "popAck", "popClear", "status", "exited"}
  /\ bctrl \subseteq Requests
  /\ bdata \in Data
  /\ back \subseteq Answers
  /\ bnew \subseteq Answers

===============================================================================
