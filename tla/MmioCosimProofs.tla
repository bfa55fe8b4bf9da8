---------------------------- MODULE MmioCosimProofs ----------------------------
(***************************************************************************)
(* For every Data, every power-of-two DEPTH, every timeout and every       *)
(* length of the tests: whatever the interleaving of host and bridge, and  *)
(* whichever requests are lost, repeated or answered late, the hardware    *)
(* keeps its ring invariant and, if mmio_push stores in program order,     *)
(* only words the host issued enter it.  In clean runs the caller's        *)
(* picture of the queue is exact and STATUS at most one call behind.       *)
(***************************************************************************)
EXTENDS MmioCosim, HbTaskQueueCoreProofs

\* The locals of a call between its steps.
CallShape ==
  /\ hpc \in {"idle", "readCtrl", "store"} => waited = 0
  /\ hpc = "poll" => waited < TIMEOUT
  /\ hpc \in {"readCtrl", "store"} => stores # <<>>
  /\ op = "pop" /\ hpc \in {"readCtrl", "store"} => stores = <<"CTRL">>

\* STATUS is right until the bridge serves something.
StatusFresh ==
  /\ bpc \in {"push", "pushAck", "pushClear"} => "push" \in bctrl
  /\ \/ bpc \in {"readCtrl", "readDataIn", "readAck", "readTbDone", "push", "exited"}
     \/ bpc = "pop" /\ "push" \notin bctrl
     => STATUS = StatusBits

\* What holds in every run.
CosimInv == RingInv /\ CosimTypeOK /\ CallShape /\ StatusFresh

-------------------------------------------------------------------------------
(***************************************************************************)
(* The bridge's steps seen from the core: a clock edge or nothing.         *)
(***************************************************************************)
LEMMA BridgeStepOfCore ==
  ASSUME CosimTypeOK, BridgeNext
  PROVE  [CoreNext]_coreVars
<1>1. bdata \in Data
  BY DEF CosimTypeOK, BridgeTypeOK
<1>2. CASE AcceptPush
  BY <1>1, <1>2 DEF AcceptPush, CoreNext
<1>3. CASE AcceptPop
  BY <1>3 DEF AcceptPop, CoreNext
<1>4. CASE UNCHANGED coreVars
  BY <1>4
<1> QED
  BY <1>2, <1>3, <1>4
  DEF BridgeNext, ReadCtrl, ReadDataIn, ReadAck, ReadTbDone, RefusePush, RefusePop,
      PopReadAck, WriteAck, ClearRequest, WriteStatus

LEMMA CosimInvInit ==
  ASSUME PowerOfTwoDepth, CosimInit
  PROVE  CosimInv
<1> USE CoreAssumption, WordAssumption, DriverAssumption, HostAssumption
<1>1. RingInv
  BY RingInvInit DEF CosimInit, BridgeInit
<1>2. RegionTypeOK /\ BridgeTypeOK
  BY <1>1 DEF CosimInit, RegionInit, BridgeInit, RegionTypeOK, BridgeTypeOK, RingInv
<1>3. HostTypeOK
  BY DEF CosimInit, HostInit, DriverInit, HostTypeOK, DriverTypeOK, Requests
<1>4. CosimTypeOK
  BY <1>2, <1>3 DEF CosimInit, CosimTypeOK
<1>5. CallShape
  BY DEF CosimInit, HostInit, DriverInit, CallShape
<1>6. StatusFresh
  BY DEF CosimInit, RegionInit, BridgeInit, CoreInit, StatusFresh, StatusBits, full, valid_out
<1> QED BY <1>1, <1>4, <1>5, <1>6 DEF CosimInv

LEMMA BridgeKeepsInv ==
  ASSUME PowerOfTwoDepth, CosimInv, BridgeStep
  PROVE  CosimInv'
<1> USE CoreAssumption, WordAssumption
<1>1. RingInv'
  <2>1. [CoreNext]_coreVars
    BY BridgeStepOfCore DEF CosimInv, BridgeStep
  <2> QED BY <2>1, RingInvStep DEF CosimInv
<1>2. CoreTypeOK' /\ data_out' \in Data
  BY <1>1 DEF RingInv, CoreTypeOK, data_out, MemAt
<1>3. RegionTypeOK' /\ BridgeTypeOK'
  <2> USE DEF RegionTypeOK, BridgeTypeOK, Requests, Answers
  <2>1. /\ RegionTypeOK /\ BridgeTypeOK
    BY DEF CosimInv, CosimTypeOK
  <2>2. CASE ReadCtrl \/ ReadDataIn \/ ReadAck
    BY <1>2, <2>1, <2>2 DEF ReadCtrl, ReadDataIn, ReadAck, regionVars
  <2>3. CASE ReadTbDone
    BY <1>2, <2>1, <2>3 DEF ReadTbDone, AfterPush, regionVars
  <2>4. CASE RefusePush
    BY <1>2, <2>1, <2>4 DEF RefusePush, regionVars
  <2>5. CASE AcceptPush
    BY <1>2, <2>1, <2>5 DEF AcceptPush, regionVars
  <2>6. CASE RefusePop \/ PopReadAck
    BY <1>2, <2>1, <2>6 DEF RefusePop, PopReadAck, regionVars
  <2>7. CASE AcceptPop
    BY <1>2, <2>1, <2>7 DEF AcceptPop
  <2>8. CASE WriteAck
    BY <1>2, <2>1, <2>8 DEF WriteAck
  <2>9. CASE ClearRequest
    BY <1>2, <2>1, <2>9 DEF ClearRequest, AfterPush
  <2>10. CASE WriteStatus
    <3>1. StatusBits \subseteq {"FULL", "VALID"}
      BY DEF StatusBits
    <3> QED BY <1>2, <2>1, <2>10, <3>1 DEF WriteStatus
  <2> QED
    BY <2>2, <2>3, <2>4, <2>5, <2>6, <2>7, <2>8, <2>9, <2>10 DEF BridgeStep, BridgeNext
<1>4. HostTypeOK' /\ CallShape'
  BY DEF BridgeStep, CosimInv, CosimTypeOK, HostTypeOK, DriverTypeOK, CallShape,
         hostPrivate, driverPrivate, testPrivate
<1>5. CosimTypeOK'
  BY <1>3, <1>4 DEF CosimTypeOK, CosimInv, BridgeStep
<1>6. StatusFresh'
  <2> USE DEF StatusFresh
  <2>1. StatusFresh /\ bpc # "exited"
    BY DEF CosimInv, BridgeStep, BridgeNext, ReadCtrl, ReadDataIn, ReadAck, ReadTbDone, RefusePush,
           AcceptPush, RefusePop, AcceptPop, PopReadAck, WriteAck, ClearRequest, WriteStatus
  <2>2. UNCHANGED coreVars => UNCHANGED StatusBits
    BY DEF coreVars, StatusBits, full, valid_out
  <2>3. CASE ReadCtrl \/ ReadDataIn \/ ReadAck
    BY <2>1, <2>2, <2>3 DEF ReadCtrl, ReadDataIn, ReadAck, regionVars
  <2>4. CASE ReadTbDone
    BY <2>1, <2>2, <2>4 DEF ReadTbDone, AfterPush, regionVars
  <2>5. CASE RefusePush \/ AcceptPush \/ RefusePop \/ AcceptPop \/ PopReadAck
    BY <2>1, <2>5 DEF RefusePush, AcceptPush, RefusePop, AcceptPop, PopReadAck
  <2>6. CASE WriteAck
    BY <2>1, <2>6 DEF WriteAck
  <2>7. CASE ClearRequest
    BY <2>1, <2>7 DEF ClearRequest, AfterPush
  <2>8. CASE WriteStatus
    BY <2>2, <2>8 DEF WriteStatus
  <2> QED BY <2>3, <2>4, <2>5, <2>6, <2>7, <2>8 DEF BridgeStep, BridgeNext
<1> QED BY <1>1, <1>4, <1>5, <1>6 DEF CosimInv

(***************************************************************************)
(* The host's steps: of the region they store CTRL, DATA_IN, ACK and       *)
(* TB_DONE, and of the bridge nothing.                                     *)
(***************************************************************************)
LEMMA CallKeepsTypes ==
  ASSUME RegionTypeOK, DriverTypeOK, CallShape, NEW o \in Requests, NEW v \in Data,
         NEW order \in {ProgramOrder, RequestFirst, <<"CTRL">>},
         o = "pop" => order = <<"CTRL">>,
         Call(o, v, order)
  PROVE  RegionTypeOK' /\ DriverTypeOK' /\ CallShape'
<1>1. RegionTypeOK'
  BY DEF Call, regionVars, RegionTypeOK
<1>2. order # <<>>
  BY DEF ProgramOrder, RequestFirst
<1>3. DriverTypeOK'
  BY DEF Call, DriverTypeOK
<1>4. CallShape'
  BY <1>2 DEF Call, CallShape
<1> QED BY <1>1, <1>3, <1>4

LEMMA DriverKeepsTypes ==
  ASSUME RegionTypeOK, DriverTypeOK, CallShape, DriverNext
  PROVE  RegionTypeOK' /\ DriverTypeOK' /\ CallShape'
<1> USE DriverAssumption DEF RegionTypeOK, DriverTypeOK, CallShape, Requests, Answers
<1>1. CASE LoadCtrl
  BY <1>1 DEF LoadCtrl, regionVars
<1>2. CASE StoreRequest
  <2>1. /\ stores \in {<<"CTRL">>, <<"DATA_IN">>, ProgramOrder, RequestFirst}
        /\ op = "pop" => stores = <<"CTRL">>
        /\ hpc = "store" /\ waited = 0
    BY <1>2 DEF StoreRequest
  <2>2. /\ Tail(<<"CTRL">>) = <<>> /\ Tail(<<"DATA_IN">>) = <<>>
        /\ Tail(ProgramOrder) = <<"CTRL">> /\ Tail(RequestFirst) = <<"DATA_IN">>
    BY DEF ProgramOrder, RequestFirst
  <2>3. /\ Tail(stores) \in {<<>>, <<"CTRL">>, <<"DATA_IN">>}
        /\ op = "pop" => Tail(stores) = <<>>
    BY <2>1, <2>2
  <2> QED BY <1>2, <2>1, <2>2, <2>3 DEF StoreRequest
<1>3. CASE Poll
  BY <1>3 DEF Poll, regionVars
<1>4. CASE LoadDataOut
  BY <1>4 DEF LoadDataOut, regionVars
<1>5. CASE ClearAnswer
  BY <1>5 DEF ClearAnswer
<1> QED BY <1>1, <1>2, <1>3, <1>4, <1>5 DEF DriverNext

LEMMA ReturnKeepsTypes ==
  ASSUME RegionTypeOK, DriverTypeOK, CallShape, Return
  PROVE  RegionTypeOK' /\ DriverTypeOK' /\ CallShape'
BY WordAssumption, DriverAssumption
DEF Return, regionVars, RegionTypeOK, DriverTypeOK, CallShape, Requests

LEMMA HostKeepsTypes ==
  ASSUME RegionTypeOK, HostTypeOK, CallShape, HostNext
  PROVE  RegionTypeOK' /\ HostTypeOK' /\ CallShape'
<1> USE DriverAssumption, HostAssumption, WordAssumption DEF HostTypeOK
<1>1. ASSUME NEW v \in Data, mmio_push(v)
      PROVE  RegionTypeOK' /\ DriverTypeOK' /\ CallShape'
  <2>1. PICK order \in PushStores : Call("push", v, order)
    BY <1>1 DEF mmio_push
  <2> QED BY <2>1, CallKeepsTypes DEF Requests
<1>2. ASSUME mmio_pop
      PROVE  RegionTypeOK' /\ DriverTypeOK' /\ CallShape'
  BY <1>2, CallKeepsTypes DEF mmio_pop, Requests
<1>3. CASE DriverNext /\ UNCHANGED testPrivate
  BY <1>3, DriverKeepsTypes DEF testPrivate
<1>4. CASE DetPush
  <2>1. DetVals[n + 1] \in Data
    BY <1>4 DEF DetPush, InPhase
  <2> QED BY <1>4, <2>1, <1>1 DEF DetPush
<1>5. CASE DetPop
  BY <1>5, <1>2 DEF DetPop
<1>6. CASE RandomOp
  <2>1. CASE UNCHANGED <<driverPrivate, regionVars>>
    <3>1. RegionTypeOK' /\ DriverTypeOK' /\ CallShape'
      BY <2>1 DEF driverPrivate, regionVars, RegionTypeOK, DriverTypeOK, CallShape
    <3> QED BY <1>6, <3>1 DEF RandomOp
  <2>2. CASE mmio_pop
    BY <1>6, <2>2, <1>2 DEF RandomOp
  <2>3. ASSUME NEW v \in Data, mmio_push(v)
        PROVE  RegionTypeOK' /\ HostTypeOK' /\ CallShape'
    BY <1>6, <2>3, <1>1 DEF RandomOp
  <2> QED BY <1>6, <2>1, <2>2, <2>3 DEF RandomOp
<1>7. CASE DrainPop
  BY <1>7, <1>2 DEF DrainPop, testPrivate
<1>8. CASE NextPhase
  <2>1. RegionTypeOK' /\ DriverTypeOK' /\ CallShape'
    BY <1>8 DEF NextPhase, driverPrivate, regionVars, RegionTypeOK, DriverTypeOK, CallShape
  <2> QED BY <1>8, <2>1 DEF NextPhase
<1>9. CASE PushReturned
  <2>1. Append(swbuf, arg) \in Seq(Data)
    BY DEF DriverTypeOK
  <2> QED BY <1>9, <2>1, ReturnKeepsTypes DEF PushReturned
<1>10. CASE PopReturned
  <2>1. RegionTypeOK' /\ DriverTypeOK' /\ CallShape'
    BY <1>10, ReturnKeepsTypes DEF PopReturned
  <2>2. swbuf' \in Seq(Data)
    <3>1. swbuf' = swbuf \/ (swbuf # <<>> /\ swbuf' = Tail(swbuf))
      BY <1>10 DEF PopReturned
    <3>2. swbuf # <<>> => Tail(swbuf) \in Seq(Data)
      BY SMT DEF HostTypeOK
    <3> QED BY <3>1, <3>2
  <2>3. mismatches' \in Nat
    BY <1>10 DEF PopReturned
  <2>4. phase' \in {"detPush", "detPop", "random", "drain", "signal", "exited"} /\ n' \in Nat
    BY <1>10 DEF PopReturned
  <2> QED BY <2>1, <2>2, <2>3, <2>4
<1>11. CASE SignalDone
  <2>1. RegionTypeOK'
    BY <1>11 DEF SignalDone, RegionTypeOK
  <2>2. DriverTypeOK' /\ CallShape'
    BY <1>11 DEF SignalDone, driverPrivate, DriverTypeOK, CallShape
  <2> QED BY <1>11, <2>1, <2>2 DEF SignalDone
<1> QED
  BY <1>3, <1>4, <1>5, <1>6, <1>7, <1>8, <1>9, <1>10, <1>11 DEF HostNext, TestNext

LEMMA HostKeepsStatus ==
  ASSUME HostNext
  PROVE  STATUS' = STATUS
BY DEF HostNext, TestNext, DriverNext, LoadCtrl, StoreRequest, Poll, LoadDataOut, ClearAnswer,
       DetPush, DetPop, RandomOp, DrainPop, NextPhase, PushReturned, PopReturned, SignalDone,
       mmio_push, mmio_pop, Call, Return, regionVars

LEMMA HostKeepsInv ==
  ASSUME PowerOfTwoDepth, CosimInv, HostStep
  PROVE  CosimInv'
<1>1. RegionTypeOK' /\ HostTypeOK' /\ CallShape'
  BY HostKeepsTypes DEF CosimInv, CosimTypeOK, HostStep
<1>2. UNCHANGED <<bpc, bctrl, bdata, back, bnew, mem, head, tail, count, tasks, delivered>>
  BY DEF HostStep, bridgeVars, bridgePrivate, coreVars
<1>3. RingInv' /\ BridgeTypeOK'
  BY <1>2 DEF CosimInv, CosimTypeOK, RingInv, CoreTypeOK, PointersAgree, ContentsAgree, SlotOf,
              BridgeTypeOK
<1>4. /\ arg' \in Data /\ arg \in Data /\ op \in Requests
      /\ issued \subseteq Data /\ ledger \in Seq(Data)
      /\ clean \in BOOLEAN /\ outcome \in {"none", "ok", "refused"}
  BY <1>1 DEF CosimInv, CosimTypeOK, HostTypeOK, DriverTypeOK
<1>5. issued' \subseteq Data /\ outcome' \in {"none", "ok", "refused"} /\ clean' \in BOOLEAN
  BY <1>4 DEF HostStep
<1>6. ledger' \in Seq(Data)
  <2>1. Append(ledger, arg) \in Seq(Data) /\ (ledger # <<>> => Tail(ledger) \in Seq(Data))
    BY <1>4
  <2> QED BY <1>4, <2>1 DEF HostStep
<1>7. StatusFresh'
  <2>1. STATUS' = STATUS
    BY HostKeepsStatus DEF HostStep
  <2> QED BY <1>2, <2>1 DEF CosimInv, StatusFresh, StatusBits, full, valid_out
<1> QED BY <1>1, <1>3, <1>5, <1>6, <1>7 DEF CosimInv, CosimTypeOK

LEMMA CosimInvStep ==
  ASSUME PowerOfTwoDepth, CosimInv, [CosimNext]_vars
  PROVE  CosimInv'
<1>1. CASE UNCHANGED vars
  BY <1>1
  DEF vars, regionVars, bridgeVars, bridgePrivate, coreVars, hostPrivate, driverPrivate,
      testPrivate, history, CosimInv, RingInv, CoreTypeOK, PointersAgree, ContentsAgree, SlotOf,
      CosimTypeOK, RegionTypeOK, BridgeTypeOK, HostTypeOK, DriverTypeOK, CallShape, StatusFresh,
      StatusBits, full, valid_out
<1> QED BY <1>1, BridgeKeepsInv, HostKeepsInv DEF CosimNext

(***************************************************************************)
(* The registers and both programs' locals keep their types through every  *)
(* interleaving of the two processes, and the core behind the bridge keeps *)
(* its ring: pointers, counter and memory describe the waiting tasks.      *)
(***************************************************************************)
THEOREM CosimKeepsTypeOK ==
  ASSUME PowerOfTwoDepth
  PROVE  CosimSpec => [](CosimTypeOK /\ RingInv)
<1>1. CosimInit => CosimInv
  BY CosimInvInit
<1>2. CosimInv /\ [CosimNext]_vars => CosimInv'
  BY CosimInvStep
<1>3. CosimInv => CosimTypeOK /\ RingInv
  BY DEF CosimInv
<1> QED BY <1>1, <1>2, <1>3, PTL DEF CosimSpec

-------------------------------------------------------------------------------
(***************************************************************************)
(* A build that stores the word before the request.  NoFabricatedPush is   *)
(* not inductive: what the bridge pushes is what it loaded from DATA_IN    *)
(* some steps after it loaded CTRL.  So: wherever a push request is, in    *)
(* CTRL or in a copy of it, DATA_IN already holds an issued word; and a    *)
(* request is only made once that is so.                                   *)
(***************************************************************************)
RequestHasWord == "push" \in CTRL \cup hctrl \cup bctrl => DATA_IN \in issued

WordBeforeRequest ==
  op = "push" =>
    /\ hpc # "idle" => arg \in issued
    /\ hpc \in {"readCtrl", "store"} =>
         stores = ProgramOrder \/ (stores = <<"CTRL">> /\ DATA_IN \in issued)

CopyIsIssued ==
  /\ bpc = "push" => "push" \in bctrl
  /\ bpc \notin {"readCtrl", "readDataIn"} /\ "push" \in bctrl => bdata \in issued

IssuedInv ==
  CosimInv /\ RequestHasWord /\ WordBeforeRequest /\ CopyIsIssued /\ NoFabricatedPush

LEMMA IssuedGrows ==
  ASSUME [CosimNext]_vars
  PROVE  issued \subseteq issued'
<1>1. CASE HostStep
  BY <1>1 DEF HostStep
<1>2. CASE BridgeStep
  BY <1>2 DEF BridgeStep
<1>3. CASE UNCHANGED vars
  BY <1>3 DEF vars, history
<1> QED BY <1>1, <1>2, <1>3 DEF CosimNext

LEMMA BridgeKeepsIssued ==
  ASSUME PowerOfTwoDepth, IssuedInv, BridgeStep
  PROVE  IssuedInv'
<1>1. CosimInv'
  BY BridgeKeepsInv DEF IssuedInv
<1>2. /\ UNCHANGED <<hpc, op, arg, stores, hctrl, issued>>
      /\ bpc # "exited"
  BY DEF BridgeStep, hostPrivate, driverPrivate, BridgeNext, ReadCtrl, ReadDataIn, ReadAck,
         ReadTbDone, RefusePush, AcceptPush, RefusePop, AcceptPop, PopReadAck, WriteAck,
         ClearRequest, WriteStatus
<1>3. DATA_IN' = DATA_IN /\ CTRL' \subseteq CTRL \cup bctrl /\ bctrl' \subseteq CTRL \cup bctrl
  BY DEF BridgeStep, BridgeNext, ReadCtrl, ReadDataIn, ReadAck, ReadTbDone, RefusePush,
         AcceptPush, RefusePop, AcceptPop, PopReadAck, WriteAck, ClearRequest, WriteStatus,
         regionVars
<1>4. RequestHasWord' /\ WordBeforeRequest'
  BY <1>2, <1>3 DEF IssuedInv, RequestHasWord, WordBeforeRequest
<1>5. CopyIsIssued'
  <2>1. RequestHasWord /\ CopyIsIssued
    BY DEF IssuedInv
  <2>2. CASE ReadCtrl
    BY <2>2, <1>2 DEF ReadCtrl, CopyIsIssued
  <2>3. CASE ReadDataIn
    BY <2>1, <2>3, <1>2 DEF ReadDataIn, CopyIsIssued, RequestHasWord
  <2>4. CASE ReadAck \/ RefusePush \/ RefusePop \/ PopReadAck \/ WriteAck
    BY <2>1, <2>4, <1>2 DEF ReadAck, RefusePush, RefusePop, PopReadAck, WriteAck, CopyIsIssued
  <2>5. CASE AcceptPush \/ AcceptPop
    BY <2>1, <2>5, <1>2 DEF AcceptPush, AcceptPop, CopyIsIssued
  <2>6. CASE ReadTbDone \/ ClearRequest
    BY <2>1, <2>6, <1>2 DEF ReadTbDone, ClearRequest, AfterPush, CopyIsIssued
  <2>7. CASE WriteStatus
    BY <2>7 DEF WriteStatus, CopyIsIssued
  <2> QED BY <2>2, <2>3, <2>4, <2>5, <2>6, <2>7 DEF BridgeStep, BridgeNext
<1>6. NoFabricatedPush'
  <2>1. tasks \in Seq(Data) /\ NoFabricatedPush
    BY DEF IssuedInv, CosimInv, RingInv, CoreTypeOK
  <2>2. CASE AcceptPush
    <3>1. bdata \in Data /\ bdata \in issued /\ tasks' = Append(tasks, bdata)
      BY <2>2 DEF IssuedInv, CosimInv, CosimTypeOK, BridgeTypeOK, CopyIsIssued, AcceptPush, PushEdge
    <3> QED BY <2>1, <3>1, <1>2 DEF NoFabricatedPush
  <2>3. CASE AcceptPop
    <3>1. tasks # <<>> /\ tasks' = Tail(tasks)
      BY <2>1, <2>3 DEF AcceptPop, PopEdge, valid_out, IssuedInv, CosimInv, RingInv, ContentsAgree
    <3>2. /\ Len(tasks') = Len(tasks) - 1
          /\ \A k \in 1 .. Len(tasks') : tasks'[k] = tasks[k + 1]
      BY <2>1, <3>1
    <3> QED BY <2>1, <3>2, <1>2 DEF NoFabricatedPush
  <2>4. CASE UNCHANGED tasks
    BY <2>1, <2>4, <1>2 DEF NoFabricatedPush
  <2> QED
    BY <2>2, <2>3, <2>4
    DEF BridgeStep, BridgeNext, ReadCtrl, ReadDataIn, ReadAck, ReadTbDone, RefusePush, RefusePop,
        PopReadAck, WriteAck, ClearRequest, WriteStatus, coreVars
<1> QED BY <1>1, <1>4, <1>5, <1>6 DEF IssuedInv

\* A step of a call keeps the request behind its word.
LEMMA DriverKeepsIssued ==
  ASSUME CosimInv, RequestHasWord, WordBeforeRequest, DriverNext, UNCHANGED <<bctrl, issued>>
  PROVE  RequestHasWord' /\ WordBeforeRequest'
<1> USE DEF RequestHasWord, WordBeforeRequest
<1>1. CASE LoadCtrl
  BY <1>1 DEF LoadCtrl, regionVars
<1>2. CASE StoreRequest
  <2>1. /\ hpc = "store" /\ hpc' \in {"store", "poll"}
        /\ UNCHANGED <<op, arg, hctrl>>
    BY <1>2 DEF StoreRequest
  <2>2. CASE op = "push" /\ stores = ProgramOrder
    <3>1. stores' = <<"CTRL">> /\ DATA_IN' = arg /\ CTRL' = CTRL
      BY <1>2, <2>2 DEF StoreRequest, ProgramOrder
    <3> QED BY <2>1, <2>2, <3>1
  <2>3. CASE op = "push" /\ stores = <<"CTRL">>
    <3>1. stores' = <<>> /\ hpc' = "poll" /\ DATA_IN' = DATA_IN
      BY <1>2, <2>3 DEF StoreRequest
    <3> QED BY <2>1, <2>3, <3>1 DEF ProgramOrder
  <2>4. CASE op = "pop"
    <3>1. CTRL' = hctrl \cup {"pop"} /\ DATA_IN' = DATA_IN
      BY <1>2, <2>1, <2>4 DEF StoreRequest, CosimInv, CallShape
    <3> QED BY <2>1, <2>4, <3>1
  <2> QED BY <2>1, <2>2, <2>3, <2>4 DEF CosimInv, CosimTypeOK, HostTypeOK, DriverTypeOK, Requests
<1>3. CASE Poll
  BY <1>3 DEF Poll, regionVars
<1>4. CASE LoadDataOut
  BY <1>4 DEF LoadDataOut, regionVars
<1>5. CASE ClearAnswer
  BY <1>5 DEF ClearAnswer
<1> QED BY <1>1, <1>2, <1>3, <1>4, <1>5 DEF DriverNext

\* What the rest of main does to the registers: it begins a call, ends one,
\* or touches neither.
LEMMA TestStepShape ==
  ASSUME PushStores = {ProgramOrder}, TestNext
  PROVE  \/ \E v \in Data \cup {DetVals[n + 1]} : Call("push", v, ProgramOrder)
         \/ Call("pop", ZERO, <<"CTRL">>)
         \/ Return
         \/ UNCHANGED <<driverPrivate, CTRL, DATA_IN>>
BY DEF TestNext, DetPush, DetPop, RandomOp, DrainPop, NextPhase, PushReturned, PopReturned,
       SignalDone, mmio_push, mmio_pop, regionVars

LEMMA HostKeepsIssued ==
  ASSUME PowerOfTwoDepth, PushStores = {ProgramOrder}, IssuedInv, HostStep
  PROVE  IssuedInv'
<1>1. CosimInv'
  BY HostKeepsInv DEF IssuedInv
<1>2. UNCHANGED <<bpc, bctrl, bdata, tasks>>
  BY DEF HostStep, bridgeVars, bridgePrivate, coreVars
<1>3. issued \subseteq issued'
  BY DEF HostStep
<1>4. RequestHasWord' /\ WordBeforeRequest'
  <2> USE DEF RequestHasWord, WordBeforeRequest
  <2>1. RequestHasWord /\ WordBeforeRequest
    BY DEF IssuedInv
  <2>2. CASE DriverNext
    <3>1. issued' = issued
      BY <2>2 DEF HostStep, Begins, DriverNext, LoadCtrl, StoreRequest, Poll, LoadDataOut,
                  ClearAnswer
    <3> QED BY <1>2, <2>2, <3>1, DriverKeepsIssued DEF IssuedInv
  <2>3. ASSUME NEW v, Call("push", v, ProgramOrder)
        PROVE  RequestHasWord' /\ WordBeforeRequest'
    BY <1>2, <1>3, <2>1, <2>3 DEF HostStep, Begins, Call, regionVars
  <2>4. CASE Call("pop", ZERO, <<"CTRL">>)
    BY <1>2, <1>3, <2>1, <2>4 DEF Call, regionVars
  <2>5. CASE Return
    BY <1>2, <1>3, <2>1, <2>5 DEF Return, regionVars
  <2>6. CASE UNCHANGED <<driverPrivate, CTRL, DATA_IN>>
    BY <1>2, <1>3, <2>1, <2>6 DEF driverPrivate
  <2> QED
    BY <2>2, <2>3, <2>4, <2>5, <2>6, TestStepShape DEF HostStep, HostNext
<1>5. CopyIsIssued' /\ NoFabricatedPush'
  BY <1>2, <1>3 DEF IssuedInv, CopyIsIssued, NoFabricatedPush
<1> QED BY <1>1, <1>4, <1>5 DEF IssuedInv

LEMMA IssuedInvInit ==
  ASSUME PowerOfTwoDepth, CosimInit
  PROVE  IssuedInv
<1>1. CosimInv
  BY CosimInvInit
<1>2. /\ CTRL = {} /\ hctrl = {} /\ bctrl = {} /\ tasks = <<>>
      /\ hpc = "idle" /\ bpc = "readCtrl"
  BY DEF CosimInit, RegionInit, BridgeInit, CoreInit, HostInit, DriverInit
<1> QED
  BY <1>1, <1>2
  DEF IssuedInv, RequestHasWord, WordBeforeRequest, CopyIsIssued, NoFabricatedPush

LEMMA IssuedInvStep ==
  ASSUME PowerOfTwoDepth, PushStores = {ProgramOrder}, IssuedInv, [CosimNext]_vars
  PROVE  IssuedInv'
<1>1. CASE UNCHANGED vars
  <2>1. CosimInv'
    BY CosimInvStep DEF IssuedInv
  <2> QED
    BY <1>1, <2>1
    DEF vars, regionVars, bridgeVars, bridgePrivate, coreVars, hostPrivate, driverPrivate,
        history, IssuedInv, RequestHasWord, WordBeforeRequest, CopyIsIssued, NoFabricatedPush
<1> QED BY <1>1, BridgeKeepsIssued, HostKeepsIssued DEF CosimNext

\* If mmio_push stores DATA_IN before CTRL, the bridge never pushes a word
\* the host did not pass to it, however late, lost or repeated a request is.
THEOREM CosimNoFabricatedPush ==
  ASSUME PowerOfTwoDepth, PushStores = {ProgramOrder}
  PROVE  CosimSpec => []NoFabricatedPush
<1>1. CosimInit => IssuedInv
  BY IssuedInvInit
<1>2. IssuedInv /\ [CosimNext]_vars => IssuedInv'
  BY IssuedInvStep
<1>3. IssuedInv => NoFabricatedPush
  BY DEF IssuedInv
<1> QED BY <1>1, <1>2, <1>3, PTL DEF CosimSpec

-------------------------------------------------------------------------------
(***************************************************************************)
(* Service at most once while only pushes are called.  A call counts from  *)
(* its begin: first its request is still to be stored (Unsent), then it is *)
(* in CTRL and not yet served (Unserved), then its word may be in the      *)
(* queue.  Between service and clearing whatever is in CTRL is as good as  *)
(* erased, since only one kind of request exists.                          *)
(***************************************************************************)
Unsent == IF hpc = "readCtrl" \/ (hpc = "store" /\ stores # <<"DATA_IN">>) THEN 1 ELSE 0
Unserved == IF "push" \in CTRL /\ bpc \notin {"pushAck", "pushClear"} THEN 1 ELSE 0

OnlyPushes ==
  /\ op = "push" /\ CTRL \cup hctrl \cup bctrl \subseteq {"push"}
  /\ hpc = "readCtrl" => stores \in {ProgramOrder, RequestFirst}
  /\ bpc \notin {"pop", "popReadAck", "popAck", "popClear"}
  /\ bpc \in {"readDataIn", "readAck", "readTbDone", "push"} => bctrl \subseteq CTRL
  /\ n \in Nat /\ Len(tasks) + Unsent + Unserved <= n

OnceInv == CosimInv /\ (phase = "detPush" => OnlyPushes)

LEMMA BridgeKeepsOnce ==
  ASSUME PowerOfTwoDepth, CosimInv, OnlyPushes, BridgeStep
  PROVE  OnlyPushes'
<1>1. UNCHANGED <<hpc, op, stores, hctrl, n>>
  BY DEF BridgeStep, hostPrivate, driverPrivate, testPrivate
<1>2. Unsent' = Unsent
  BY <1>1 DEF Unsent
<1>3. Unsent \in {0, 1} /\ Unserved \in {0, 1} /\ Len(tasks) \in Nat
  BY DEF Unsent, Unserved, CosimInv, RingInv, CoreTypeOK
<1>4. bpc = "push" => "push" \in bctrl
  BY DEF CosimInv, StatusFresh
<1>5. CASE ReadCtrl \/ ReadDataIn \/ ReadAck
  <2>1. tasks' = tasks /\ CTRL' = CTRL /\ Unserved' = Unserved
    BY <1>5 DEF ReadCtrl, ReadDataIn, ReadAck, regionVars, coreVars, Unserved
  <2> QED BY <1>1, <1>2, <1>5, <2>1 DEF OnlyPushes, ReadCtrl, ReadDataIn, ReadAck
<1>6. CASE ReadTbDone
  <2>1. /\ tasks' = tasks /\ CTRL' = CTRL /\ bctrl' = bctrl
        /\ bpc = "readTbDone" /\ bpc' \in {"exited", "push", "status"}
    BY <1>6 DEF ReadTbDone, regionVars, coreVars, AfterPush, OnlyPushes
  <2>2. Unserved' = Unserved
    BY <2>1 DEF Unserved
  <2> QED BY <1>1, <1>2, <2>1, <2>2 DEF OnlyPushes
<1>7. CASE RefusePush \/ AcceptPush
  <2>1. bpc = "push" /\ bpc' = "pushAck" /\ CTRL' = CTRL /\ bctrl' = bctrl
    BY <1>7 DEF RefusePush, AcceptPush, regionVars
  <2>2. Unserved = 1 /\ Unserved' = 0
    BY <1>4, <2>1 DEF Unserved, OnlyPushes
  <2>3. Len(tasks') \in {Len(tasks), Len(tasks) + 1}
    <3>1. CASE RefusePush
      BY <3>1, <1>3 DEF RefusePush, coreVars
    <3>2. CASE AcceptPush
      <4>1. tasks \in Seq(Data) /\ tasks' = Append(tasks, bdata)
        BY <3>2 DEF AcceptPush, PushEdge, CosimInv, RingInv, CoreTypeOK
      <4> QED BY <4>1
    <3> QED BY <1>7, <3>1, <3>2
  <2>4. Len(tasks') + Unsent' + Unserved' <= n'
    BY <1>1, <1>2, <1>3, <2>2, <2>3 DEF OnlyPushes
  <2> QED BY <1>1, <2>1, <2>4 DEF OnlyPushes
<1>8. CASE WriteAck
  <2>1. /\ bpc = "pushAck" /\ bpc' = "pushClear"
        /\ CTRL' = CTRL /\ bctrl' = bctrl /\ tasks' = tasks
    BY <1>8 DEF WriteAck, coreVars, OnlyPushes
  <2>2. Unserved' = Unserved
    BY <2>1 DEF Unserved
  <2> QED BY <1>1, <1>2, <2>1, <2>2 DEF OnlyPushes
<1>9. CASE ClearRequest
  <2>1. /\ bpc = "pushClear" /\ bpc' = "status"
        /\ CTRL' = {} /\ bctrl' = bctrl /\ tasks' = tasks
    BY <1>9 DEF ClearRequest, AfterPush, coreVars, OnlyPushes
  <2>2. Unserved = 0 /\ Unserved' = 0
    BY <2>1 DEF Unserved
  <2> QED BY <1>1, <1>2, <2>1, <2>2 DEF OnlyPushes
<1>10. CASE WriteStatus
  <2>1. /\ bpc = "status" /\ bpc' = "readCtrl"
        /\ CTRL' = CTRL /\ bctrl' = {} /\ tasks' = tasks
    BY <1>10 DEF WriteStatus, coreVars
  <2>2. Unserved' = Unserved
    BY <2>1 DEF Unserved
  <2> QED BY <1>1, <1>2, <2>1, <2>2 DEF OnlyPushes
<1>11. bpc \notin {"pop", "popReadAck"}
  BY DEF OnlyPushes
<1> QED
  BY <1>5, <1>6, <1>7, <1>8, <1>9, <1>10, <1>11
  DEF BridgeStep, BridgeNext, RefusePop, AcceptPop, PopReadAck

LEMMA HostKeepsOnce ==
  ASSUME CosimInv, OnlyPushes, HostStep, phase = "detPush", phase' = "detPush"
  PROVE  OnlyPushes'
<1>1. UNCHANGED <<bpc, bctrl, tasks>>
  BY DEF HostStep, bridgeVars, bridgePrivate, coreVars
<1>2. Unsent \in {0, 1} /\ Unserved \in {0, 1} /\ Len(tasks) \in Nat
  BY DEF Unsent, Unserved, CosimInv, RingInv, CoreTypeOK
<1>3. CASE LoadCtrl /\ UNCHANGED testPrivate
  <2>1. /\ hpc = "readCtrl" /\ hpc' = "store" /\ hctrl' = CTRL
        /\ UNCHANGED <<op, stores, CTRL, n>>
    BY <1>3 DEF LoadCtrl, regionVars, testPrivate
  <2>2. stores # <<"DATA_IN">>
    BY <2>1 DEF OnlyPushes, ProgramOrder, RequestFirst
  <2>3. Unsent' = Unsent /\ Unserved' = Unserved
    BY <1>1, <2>1, <2>2 DEF Unsent, Unserved
  <2> QED BY <1>1, <2>1, <2>3 DEF OnlyPushes
<1>4. CASE StoreRequest /\ UNCHANGED testPrivate
  <2>1. /\ hpc = "store" /\ hpc' \in {"store", "poll"}
        /\ op' = op /\ hctrl' = hctrl /\ n' = n
    BY <1>4 DEF StoreRequest, testPrivate
  <2>2. CASE stores \in {ProgramOrder, <<"DATA_IN">>}
    <3>1. CTRL' = CTRL /\ (stores = <<"DATA_IN">> => hpc' = "poll")
      <4>1. CASE stores = ProgramOrder
        BY <1>4, <4>1 DEF StoreRequest, ProgramOrder
      <4>2. CASE stores = <<"DATA_IN">>
        BY <1>4, <4>2 DEF StoreRequest
      <4> QED BY <2>2, <4>1, <4>2
    <3>2. Unsent' <= Unsent /\ Unsent' \in {0, 1} /\ Unserved' = Unserved
      BY <1>1, <2>1, <2>2, <3>1 DEF Unsent, Unserved, ProgramOrder
    <3> QED BY <1>1, <1>2, <2>1, <3>1, <3>2 DEF OnlyPushes
  <2>3. CASE stores \in {<<"CTRL">>, RequestFirst}
    <3>1. /\ CTRL' = {"push"}
          /\ hpc' = "poll" \/ stores' = <<"DATA_IN">>
      <4>1. hctrl \cup {op} = {"push"}
        BY DEF OnlyPushes
      <4>2. CASE stores = <<"CTRL">>
        BY <1>4, <4>1, <4>2 DEF StoreRequest
      <4>3. CASE stores = RequestFirst
        BY <1>4, <4>1, <4>3 DEF StoreRequest, RequestFirst
      <4> QED BY <2>3, <4>2, <4>3
    <3>2. Unsent = 1 /\ Unsent' = 0 /\ Unserved' \in {0, 1}
      BY <2>1, <2>3, <3>1 DEF Unsent, Unserved, RequestFirst
    <3>3. Len(tasks') + Unsent' + Unserved' <= n'
      BY <1>1, <1>2, <2>1, <3>2 DEF OnlyPushes
    <3>4. /\ op' = "push" /\ CTRL' \cup hctrl' \cup bctrl' \subseteq {"push"}
          /\ hpc' # "readCtrl" /\ bctrl' \subseteq CTRL'
      BY <1>1, <2>1, <3>1 DEF OnlyPushes
    <3> QED BY <1>1, <2>1, <3>3, <3>4 DEF OnlyPushes
  <2>4. stores # <<>>
    BY <2>1 DEF CosimInv, CallShape
  <2> QED
    BY <2>2, <2>3, <2>4 DEF CosimInv, CosimTypeOK, HostTypeOK, DriverTypeOK
<1>5. CASE (Poll \/ LoadDataOut \/ ClearAnswer) /\ UNCHANGED testPrivate
  <2>1. /\ hpc \notin {"readCtrl", "store"} /\ hpc' \notin {"readCtrl", "store"}
        /\ UNCHANGED <<op, hctrl, CTRL, n>>
    BY <1>5 DEF Poll, LoadDataOut, ClearAnswer, regionVars, testPrivate
  <2>2. Unsent' = Unsent /\ Unserved' = Unserved
    BY <1>1, <2>1 DEF Unsent, Unserved
  <2> QED BY <1>1, <2>1, <2>2 DEF OnlyPushes
<1>6. CASE DetPush
  <2>1. PICK order \in PushStores : Call("push", DetVals[n + 1], order)
    BY <1>6 DEF DetPush, mmio_push
  <2>2. /\ hpc = "idle" /\ hpc' = "readCtrl" /\ op' = "push" /\ n' = n + 1
        /\ stores' \in {ProgramOrder, RequestFirst} /\ UNCHANGED <<hctrl, CTRL>>
    BY <1>6, <2>1, DriverAssumption DEF DetPush, Call, regionVars
  <2>3. Unsent = 0 /\ Unsent' = 1 /\ Unserved' = Unserved
    BY <1>1, <2>2 DEF Unsent, Unserved
  <2>4. n' \in Nat /\ Len(tasks') + Unsent' + Unserved' <= n'
    BY <1>1, <1>2, <2>2, <2>3 DEF OnlyPushes
  <2> QED BY <1>1, <2>2, <2>4 DEF OnlyPushes
<1>7. CASE PushReturned \/ PopReturned
  <2>1. /\ hpc = "returned" /\ hpc' = "idle" /\ op' = "push" /\ hctrl' = {}
        /\ UNCHANGED <<CTRL, n>>
    BY <1>7 DEF PushReturned, PopReturned, Return, regionVars
  <2>2. Unsent' = Unsent /\ Unserved' = Unserved
    BY <1>1, <2>1 DEF Unsent, Unserved
  <2> QED BY <1>1, <2>1, <2>2 DEF OnlyPushes
<1> QED
  BY <1>3, <1>4, <1>5, <1>6, <1>7
  DEF HostStep, HostNext, DriverNext, TestNext, DetPop, RandomOp, DrainPop, NextPhase, SignalDone,
      InPhase

(***************************************************************************)
(* In the deterministic pushes the bridge never pushes more words than     *)
(* calls were begun, whichever of them time out, are erased or are still   *)
(* in CTRL when the next one is stored, in either order of the stores.     *)
(***************************************************************************)
THEOREM CosimPushesAtMostOnce ==
  ASSUME PowerOfTwoDepth
  PROVE  CosimSpec => []PushesServedAtMostOnce
<1>1. CosimInit => OnceInv
  <2> SUFFICES ASSUME CosimInit PROVE OnceInv
    OBVIOUS
  <2>1. /\ op = "push" /\ CTRL = {} /\ hctrl = {} /\ bctrl = {} /\ tasks = <<>>
        /\ hpc = "idle" /\ bpc = "readCtrl" /\ n = 0
    BY DEF CosimInit, RegionInit, BridgeInit, CoreInit, HostInit, DriverInit
  <2> QED BY <2>1, CosimInvInit DEF OnceInv, OnlyPushes, Unsent, Unserved
<1>2. OnceInv /\ [CosimNext]_vars => OnceInv'
  <2> SUFFICES ASSUME OnceInv, [CosimNext]_vars PROVE OnceInv'
    OBVIOUS
  <2>1. CosimInv /\ CosimInv'
    BY CosimInvStep DEF OnceInv
  <2>2. ASSUME phase' = "detPush" PROVE OnlyPushes'
    <3>1. phase = "detPush"
      BY <2>2
      DEF CosimNext, HostStep, BridgeStep, hostPrivate, testPrivate, vars, HostNext, TestNext,
          DetPush, DetPop, RandomOp, DrainPop, NextPhase, PushReturned, PopReturned, SignalDone
    <3>2. OnlyPushes
      BY <3>1 DEF OnceInv
    <3>3. CASE UNCHANGED vars
      BY <3>2, <3>3
      DEF vars, regionVars, bridgeVars, bridgePrivate, coreVars, hostPrivate, driverPrivate,
          testPrivate, OnlyPushes, Unsent, Unserved
    <3> QED BY <2>1, <2>2, <3>1, <3>2, <3>3, BridgeKeepsOnce, HostKeepsOnce DEF CosimNext
  <2> QED BY <2>1, <2>2 DEF OnceInv
<1>3. OnceInv => PushesServedAtMostOnce
  <2> SUFFICES ASSUME OnceInv, phase = "detPush" PROVE Len(tasks) <= n
    BY DEF PushesServedAtMostOnce
  <2>1. Len(tasks) \in Nat /\ Unsent \in {0, 1} /\ Unserved \in {0, 1}
    BY DEF Unsent, Unserved, OnceInv, CosimInv, RingInv, CoreTypeOK
  <2> QED BY <2>1 DEF OnceInv, OnlyPushes
<1> QED BY <1>1, <1>2, <1>3, PTL DEF CosimSpec

-------------------------------------------------------------------------------
(***************************************************************************)
(* The runs in which the handshake works: as long as no call has timed out *)
(* and none loaded CTRL between the bridge's two stores of an answer, the  *)
(* caller's picture of the queue is exact.                                 *)
(*                                                                         *)
(* The invariant follows a call through its handshake.  Outside a call,    *)
(* and until the request is stored, no answer is left and the bridge has   *)
(* nothing to serve or only a request to clear (Quiet).  Then the request  *)
(* waits in CTRL or in the bridge's copy of it (Requested), is served but  *)
(* not answered (Served), and is answered (Answered), after which the      *)
(* bridge can touch neither the queue nor the answer.                      *)
(***************************************************************************)
\* The bridge holds no request it could still serve ...
Free ==
  \/ bpc = "status"
  \/ bctrl = {} /\ bpc \in {"readCtrl", "readDataIn", "readAck", "readTbDone", "exited"}

\* ... or it holds one it has answered and not yet cleared.
Clearing ==
  \/ bpc = "pushClear" /\ bctrl = {"push"}
  \/ bpc = "popClear" /\ bctrl = {"pop"}

Behind == (Free /\ CTRL = {}) \/ Clearing

AnswerBit == IF outcome = "ok" THEN OkBit(op) ELSE RefusedBit(op)

Quiet ==
  hpc \in {"idle", "readCtrl", "store", "returned"} =>
    /\ ACK = {}
    /\ tasks = ledger
    /\ Behind
    /\ hpc \in {"readCtrl", "store"} => outcome = "none"
    /\ hpc = "readCtrl" /\ op = "push" => stores = ProgramOrder
    /\ hpc = "store" => hctrl = {} /\ Free
    /\ hpc = "store" /\ op = "push" /\ stores = <<"CTRL">> => DATA_IN = arg

Requested ==
  hpc = "poll" /\ outcome = "none" =>
    /\ ACK = {}
    /\ tasks = ledger
    /\ CTRL = {op}
    /\ op = "push" => DATA_IN = arg
    /\ \/ Free
       \/ /\ bctrl = {op}
          /\ bpc \in {"readDataIn", "readAck", "readTbDone", op, "exited"}
          /\ op = "push" /\ bpc \in {"readAck", "readTbDone", op} => bdata = arg
          /\ bpc \in {"readTbDone", op} => back = {}

Served ==
  /\ hpc = "poll"
  /\ ACK = {}
  /\ bctrl = {op}
  /\ bpc \in {"pushAck", "popReadAck", "popAck"}
  /\ bpc = "pushAck" <=> op = "push"
  /\ bpc = "popReadAck" => outcome = "ok"
  /\ bpc # "popReadAck" => bnew = {AnswerBit}

Answered ==
  /\ ACK = {AnswerBit}
  /\ Behind
  /\ hpc # "poll" => hack = ACK /\ (hpc = "clearRefused" <=> outcome = "refused")

InAnswer == hpc \in {"poll", "readDataOut", "clearOk", "clearRefused"}

\* What the bridge did, while the caller does not know it yet.
Effect ==
  InAnswer /\ outcome # "none" =>
    /\ Served \/ Answered
    /\ outcome = "ok" /\ op = "push" => tasks = Append(ledger, arg)
    /\ outcome = "ok" /\ op = "pop" => ledger # <<>> /\ tasks = Tail(ledger)
    /\ outcome = "refused" => tasks = ledger

\* Two facts that stay with the call until it returns.
Verdict ==
  /\ hpc \in {"readDataOut", "clearOk", "clearRefused"} => outcome # "none"
  /\ hpc = "readDataOut" => op = "pop"
  /\ hpc # "idle" /\ outcome = "refused" => IF op = "push" THEN full ELSE ~valid_out
  /\ InAnswer /\ outcome = "ok" /\ op = "pop" => DATA_OUT = data_out
  /\ hpc = "clearOk" /\ op = "pop" => out = data_out
  /\ hpc = "returned" => \/ rc = 0 /\ outcome = "ok"
                         \/ rc = -1 /\ outcome = "refused"

Handshake == Quiet /\ Requested /\ Effect /\ Verdict

CleanInv == IssuedInv /\ (clean => Handshake)

-------------------------------------------------------------------------------
(***************************************************************************)
(* The bridge's steps.                                                     *)
(***************************************************************************)
\* With nothing left to serve it serves nothing.
LEMMA BehindStep ==
  ASSUME Behind, BridgeNext
  PROVE  /\ Behind'
         /\ Free /\ CTRL = {} => Free' /\ CTRL' = {}
         /\ UNCHANGED <<ACK, DATA_IN, DATA_OUT, coreVars>>
         /\ bpc \notin {"push", "pop"}
<1> USE DEF Behind, Free, Clearing
<1>1. CASE ReadCtrl
  BY <1>1 DEF ReadCtrl, regionVars
<1>2. CASE ReadDataIn \/ ReadAck
  BY <1>2 DEF ReadDataIn, ReadAck, regionVars
<1>3. CASE ReadTbDone
  BY <1>3 DEF ReadTbDone, AfterPush, regionVars
<1>4. CASE ClearRequest
  BY <1>4 DEF ClearRequest, AfterPush
<1>5. CASE WriteStatus
  BY <1>5 DEF WriteStatus
<1>6. ~(RefusePush \/ AcceptPush \/ RefusePop \/ AcceptPop \/ PopReadAck \/ WriteAck)
  BY DEF RefusePush, AcceptPush, RefusePop, AcceptPop, PopReadAck, WriteAck
<1> QED BY <1>1, <1>2, <1>3, <1>4, <1>5, <1>6 DEF BridgeNext

\* With nothing to serve yet it finds the request in CTRL, if anything.
LEMMA FreeStep ==
  ASSUME Free, BridgeNext
  PROVE  /\ Free' \/ (bpc' = "readDataIn" /\ bctrl' = CTRL)
         /\ UNCHANGED <<CTRL, ACK, DATA_IN, DATA_OUT, coreVars>>
         /\ bpc \notin {"push", "pop"}
<1> USE DEF Free
<1>1. CASE ReadCtrl
  BY <1>1 DEF ReadCtrl, regionVars
<1>2. CASE ReadDataIn \/ ReadAck
  BY <1>2 DEF ReadDataIn, ReadAck, regionVars
<1>3. CASE ReadTbDone
  BY <1>3 DEF ReadTbDone, AfterPush, regionVars
<1>4. CASE WriteStatus
  BY <1>4 DEF WriteStatus
<1>5. ~(ClearRequest \/ RefusePush \/ AcceptPush \/ RefusePop \/ AcceptPop \/ PopReadAck
        \/ WriteAck)
  BY DEF ClearRequest, RefusePush, AcceptPush, RefusePop, AcceptPop, PopReadAck, WriteAck
<1> QED BY <1>1, <1>2, <1>3, <1>4, <1>5 DEF BridgeNext

\* A request in the bridge's copy: the loads that follow, up to serving it.
Held ==
  /\ bctrl = {op}
  /\ bpc \in {"readDataIn", "readAck", "readTbDone", op, "exited"}
  /\ op = "push" /\ bpc \in {"readAck", "readTbDone", op} => bdata = arg
  /\ bpc \in {"readTbDone", op} => back = {}

LEMMA HeldStep ==
  ASSUME Held, bpc # op, op \in Requests, ACK = {}, op = "push" => DATA_IN = arg,
         BridgeNext, UNCHANGED <<op, arg>>
  PROVE  Held' /\ UNCHANGED <<CTRL, ACK, DATA_IN, DATA_OUT, coreVars>>
<1> USE DEF Held, Requests
<1>1. CASE ReadDataIn
  BY <1>1 DEF ReadDataIn, regionVars
<1>2. CASE ReadAck
  BY <1>2 DEF ReadAck, regionVars
<1>3. CASE ReadTbDone
  BY <1>3 DEF ReadTbDone, AfterPush, regionVars
<1>4. ~(ReadCtrl \/ WriteStatus \/ ClearRequest \/ RefusePush \/ AcceptPush \/ RefusePop
        \/ AcceptPop \/ PopReadAck \/ WriteAck)
  BY DEF ReadCtrl, WriteStatus, ClearRequest, RefusePush, AcceptPush, RefusePop, AcceptPop,
         PopReadAck, WriteAck
<1> QED BY <1>1, <1>2, <1>3, <1>4 DEF BridgeNext

LEMMA TailDiffers ==
  ASSUME NEW S, NEW s \in Seq(S), s # <<>>
  PROVE  Tail(s) # s
<1>1. Len(s) \in Nat /\ Len(Tail(s)) = Len(s) - 1
  BY HeadTailProperties
<1>2. \A k \in Nat : k - 1 # k
  OBVIOUS
<1>3. Len(Tail(s)) # Len(s)
  BY <1>1, <1>2
<1> QED BY <1>3

LEMMA ServeStep ==
  ASSUME RingInv, bdata \in Data, Held, bpc = op, op \in Requests, ACK = {}, hpc = "poll",
         BridgeStep
  PROVE  /\ Served'
         /\ \/ /\ outcome' = "ok" /\ op = "push" /\ tasks' = Append(tasks, arg)
            \/ /\ outcome' = "ok" /\ op = "pop" /\ tasks # <<>> /\ tasks' = Tail(tasks)
               /\ DATA_OUT' = data_out'
            \/ /\ outcome' = "refused" /\ UNCHANGED coreVars
               /\ IF op = "push" THEN full ELSE ~valid_out
<1> USE DEF Held, Requests
<1>1. UNCHANGED <<hpc, op, arg>>
  BY DEF BridgeStep, hostPrivate, driverPrivate
<1>2. tasks \in Seq(Data) /\ Len(tasks) = count
  BY DEF RingInv, CoreTypeOK, ContentsAgree
<1>3. outcome' = IF tasks' = tasks THEN "refused" ELSE "ok"
  BY DEF BridgeStep, Serves
<1>4. CASE RefusePush
  <2>1. outcome' = "refused" /\ op = "push" /\ back = {}
    BY <1>3, <1>4 DEF RefusePush, coreVars
  <2>2. /\ bnew' = {"PUSH_REFUSED"} /\ bpc' = "pushAck" /\ full
        /\ UNCHANGED <<ACK, bctrl, coreVars>>
    BY <1>4, <2>1 DEF RefusePush, regionVars
  <2> QED BY <1>1, <2>1, <2>2 DEF Served, AnswerBit, RefusedBit
<1>5. CASE AcceptPush
  <2>1. /\ op = "push" /\ bdata = arg /\ tasks' = Append(tasks, bdata)
        /\ bnew' = {"PUSH_OK"} /\ bpc' = "pushAck"
        /\ UNCHANGED <<ACK, bctrl>>
    BY <1>5 DEF AcceptPush, PushEdge, regionVars
  <2>2. Append(tasks, bdata) # tasks
    <3>1. Len(Append(tasks, bdata)) = Len(tasks) + 1 /\ Len(tasks) \in Nat
      BY <1>2
    <3> QED BY <3>1
  <2>3. outcome' = "ok"
    BY <1>3, <2>1, <2>2
  <2> QED BY <1>1, <2>1, <2>3 DEF Served, AnswerBit, OkBit
<1>6. CASE RefusePop
  <2>1. outcome' = "refused" /\ op = "pop"
    BY <1>3, <1>6 DEF RefusePop, coreVars
  <2>2. /\ bnew' = {"POP_REFUSED"} /\ bpc' = "popAck" /\ ~valid_out
        /\ UNCHANGED <<ACK, bctrl, coreVars>>
    BY <1>6, <2>1 DEF RefusePop, regionVars
  <2> QED BY <1>1, <2>1, <2>2 DEF Served, AnswerBit, RefusedBit
<1>7. CASE AcceptPop
  <2>1. /\ op = "pop" /\ tasks' = Tail(tasks) /\ valid_out
        /\ DATA_OUT' = data_out' /\ bpc' = "popReadAck"
        /\ UNCHANGED <<ACK, bctrl>>
    BY <1>7 DEF AcceptPop, PopEdge
  <2>2. tasks # <<>> /\ Tail(tasks) # tasks
    <3>1. Len(tasks) \in Nat /\ Len(tasks) # 0
      BY <1>2, <2>1 DEF valid_out
    <3>2. tasks # <<>>
      BY <1>2, <3>1
    <3> QED BY <1>2, <3>2, TailDiffers
  <2>3. outcome' = "ok"
    BY <1>3, <2>1, <2>2
  <2> QED BY <1>1, <2>1, <2>2, <2>3 DEF Served
<1>8. ~(ReadCtrl \/ ReadDataIn \/ ReadAck \/ ReadTbDone \/ WriteStatus \/ ClearRequest
        \/ PopReadAck \/ WriteAck)
  BY DEF ReadCtrl, ReadDataIn, ReadAck, ReadTbDone, WriteStatus, ClearRequest, PopReadAck,
         WriteAck
<1> QED BY <1>4, <1>5, <1>6, <1>7, <1>8 DEF BridgeStep, BridgeNext

LEMMA ServedStep ==
  ASSUME Served, op \in Requests, outcome \in {"ok", "refused"}, BridgeNext,
         UNCHANGED <<op, hpc, outcome>>
  PROVE  /\ Served' \/ Answered'
         /\ UNCHANGED <<DATA_IN, DATA_OUT, coreVars>>
<1> USE DEF Served, Requests
<1>1. CASE PopReadAck
  <2>1. bnew' = {"POP_OK"} /\ op = "pop" /\ outcome = "ok" /\ bpc' = "popAck"
    BY <1>1 DEF PopReadAck
  <2> QED BY <1>1, <2>1 DEF PopReadAck, AnswerBit, OkBit, regionVars
<1>2. CASE WriteAck
  <2>1. /\ ACK' = {AnswerBit}
        /\ bpc' = IF op = "push" THEN "pushClear" ELSE "popClear"
        /\ bctrl' = {op}
    BY <1>2 DEF WriteAck
  <2>2. AnswerBit' = AnswerBit
    BY DEF AnswerBit
  <2>3. Clearing'
    BY <2>1 DEF Clearing
  <2> QED BY <1>2, <2>1, <2>2, <2>3 DEF WriteAck, Answered, Behind
<1>3. ~(ReadCtrl \/ ReadDataIn \/ ReadAck \/ ReadTbDone \/ WriteStatus \/ ClearRequest
        \/ RefusePush \/ AcceptPush \/ RefusePop \/ AcceptPop)
  BY DEF ReadCtrl, ReadDataIn, ReadAck, ReadTbDone, WriteStatus, ClearRequest, RefusePush,
         AcceptPush, RefusePop, AcceptPop
<1> QED BY <1>1, <1>2, <1>3 DEF BridgeNext

LEMMA BridgeKeepsHandshake ==
  ASSUME IssuedInv, Handshake, BridgeStep
  PROVE  Handshake'
<1>1. /\ UNCHANGED <<hpc, op, arg, stores, hctrl, hack, out, rc, ledger>>
      /\ BridgeNext
  BY DEF BridgeStep, hostPrivate, driverPrivate
<1>2. /\ RingInv /\ bdata \in Data /\ op \in Requests
      /\ outcome \in {"none", "ok", "refused"}
      /\ hpc \in {"idle", "readCtrl", "store", "poll", "readDataOut", "clearOk",
                  "clearRefused", "returned"}
  BY DEF IssuedInv, CosimInv, CosimTypeOK, BridgeTypeOK, HostTypeOK, DriverTypeOK
<1>3. bpc \notin {"push", "pop"} => outcome' = outcome
  BY DEF BridgeStep, Serves
<1>4. UNCHANGED coreVars => UNCHANGED <<tasks, full, valid_out, data_out>>
  BY DEF coreVars, full, valid_out, data_out, MemAt
<1>5. CASE hpc \in {"idle", "readCtrl", "store", "returned"}
  <2>1. /\ Behind' /\ (Free /\ CTRL = {} => Free')
        /\ UNCHANGED <<ACK, DATA_IN, DATA_OUT, coreVars, outcome>>
    BY <1>1, <1>3, <1>5, BehindStep DEF Handshake, Quiet
  <2>2. hpc = "store" => Free'
    BY <2>1, <1>5 DEF Handshake, Quiet, Behind, Free, Clearing
  <2>3. Quiet'
    BY <1>1, <1>4, <1>5, <2>1, <2>2 DEF Handshake, Quiet
  <2>4. Requested' /\ Effect' /\ Verdict'
    BY <1>1, <1>4, <1>5, <2>1 DEF Handshake, Requested, Effect, Verdict, InAnswer
  <2> QED BY <2>3, <2>4 DEF Handshake
<1>6. CASE hpc = "poll" /\ outcome = "none" /\ Free
  <2>1. /\ Free' \/ (bpc' = "readDataIn" /\ bctrl' = CTRL)
        /\ UNCHANGED <<CTRL, ACK, DATA_IN, DATA_OUT, coreVars, outcome>>
    BY <1>1, <1>3, <1>6, FreeStep
  <2>2. Requested'
    BY <1>1, <1>2, <1>4, <1>6, <2>1 DEF Handshake, Requested, Requests
  <2>3. Quiet' /\ Effect' /\ Verdict'
    BY <1>1, <1>4, <1>6, <2>1 DEF Handshake, Quiet, Effect, Verdict, InAnswer
  <2> QED BY <2>2, <2>3 DEF Handshake
<1>7. CASE hpc = "poll" /\ outcome = "none" /\ Held /\ bpc # op
  <2>1. /\ Held'
        /\ UNCHANGED <<CTRL, ACK, DATA_IN, DATA_OUT, coreVars>>
    BY <1>1, <1>2, <1>7, HeldStep DEF Handshake, Requested
  <2>2. outcome' = outcome
    BY <1>2, <1>3, <1>7 DEF Held, Requests
  <2>3. Requested'
    BY <1>1, <1>4, <1>7, <2>1, <2>2 DEF Handshake, Requested, Held
  <2>4. Quiet' /\ Effect' /\ Verdict'
    BY <1>1, <1>4, <1>7, <2>1, <2>2 DEF Handshake, Quiet, Effect, Verdict, InAnswer
  <2> QED BY <2>3, <2>4 DEF Handshake
<1>8. CASE hpc = "poll" /\ outcome = "none" /\ Held /\ bpc = op
  <2>1. ACK = {} /\ tasks = ledger
    BY <1>8 DEF Handshake, Requested
  <2>2. /\ Served'
        /\ \/ /\ outcome' = "ok" /\ op = "push" /\ tasks' = Append(tasks, arg)
           \/ /\ outcome' = "ok" /\ op = "pop" /\ tasks # <<>> /\ tasks' = Tail(tasks)
              /\ DATA_OUT' = data_out'
           \/ /\ outcome' = "refused" /\ UNCHANGED coreVars
              /\ IF op = "push" THEN full ELSE ~valid_out
    BY <1>2, <1>8, <2>1, ServeStep
  <2>3. Quiet' /\ Requested'
    BY <1>1, <1>8, <2>2 DEF Quiet, Requested
  <2>4. Effect'
    BY <1>1, <1>2, <1>4, <2>1, <2>2 DEF Effect, Requests
  <2>5. Verdict'
    BY <1>1, <1>2, <1>4, <1>8, <2>2 DEF Verdict, Requests
  <2> QED BY <2>3, <2>4, <2>5 DEF Handshake
<1>9. CASE outcome # "none" /\ Served
  <2>1. outcome' = outcome
    BY <1>3, <1>9 DEF Served
  <2>2. /\ Served' \/ Answered'
        /\ UNCHANGED <<DATA_IN, DATA_OUT, coreVars>>
    BY <1>1, <1>2, <1>9, <2>1, ServedStep
  <2>3. Effect'
    BY <1>1, <1>4, <1>9, <2>1, <2>2 DEF Handshake, Effect, InAnswer, Served
  <2>4. Quiet' /\ Requested' /\ Verdict'
    BY <1>1, <1>4, <1>9, <2>1, <2>2 DEF Handshake, Quiet, Requested, Verdict, InAnswer, Served
  <2> QED BY <2>3, <2>4 DEF Handshake
<1>10. CASE outcome # "none" /\ InAnswer /\ Answered
  <2>1. /\ Behind'
        /\ UNCHANGED <<ACK, DATA_IN, DATA_OUT, coreVars, outcome>>
    BY <1>1, <1>3, <1>10, BehindStep DEF Answered
  <2>2. Answered'
    BY <1>1, <1>10, <2>1 DEF Answered, AnswerBit
  <2>3. Effect'
    BY <1>1, <1>4, <1>10, <2>1, <2>2 DEF Handshake, Effect, InAnswer
  <2>4. Quiet' /\ Requested' /\ Verdict'
    BY <1>1, <1>4, <1>10, <2>1 DEF Handshake, Quiet, Requested, Verdict, InAnswer
  <2> QED BY <2>3, <2>4 DEF Handshake
<1>11. InAnswer /\ outcome # "none" => Served \/ Answered
  BY DEF Handshake, Effect
<1>12. hpc \in {"readDataOut", "clearOk", "clearRefused"} => outcome # "none"
  BY DEF Handshake, Verdict
<1>13. hpc = "poll" /\ outcome = "none" => Free \/ Held
  BY DEF Handshake, Requested, Held
<1> QED
  BY <1>2, <1>5, <1>6, <1>7, <1>8, <1>9, <1>10, <1>11, <1>12, <1>13 DEF InAnswer

-------------------------------------------------------------------------------
(***************************************************************************)
(* The host's steps.  The bridge stands still, so Behind, Free and Served  *)
(* can only be disturbed through CTRL and ACK.                             *)
(***************************************************************************)
LEMMA DriverKeepsHandshake ==
  ASSUME PowerOfTwoDepth, IssuedInv, Handshake, HostStep, DriverNext, clean'
  PROVE  Handshake'
<1>1. /\ UNCHANGED <<bpc, bctrl, bdata, back, bnew, tasks, outcome, op, arg>>
      /\ UNCHANGED <<full, valid_out, data_out, DATA_OUT>>
  BY DEF HostStep, bridgeVars, bridgePrivate, coreVars, Begins, DriverNext, LoadCtrl,
         StoreRequest, Poll, LoadDataOut, ClearAnswer, full, valid_out, data_out, MemAt, regionVars
<1>2. /\ op \in Requests /\ outcome \in {"none", "ok", "refused"}
      /\ (op = "pop" /\ hpc \in {"readCtrl", "store"} => stores = <<"CTRL">>)
  BY DEF IssuedInv, CosimInv, CallShape, CosimTypeOK, HostTypeOK, DriverTypeOK
<1>3. UNCHANGED <<Free, Clearing, AnswerBit>>
  BY <1>1 DEF Free, Clearing, AnswerBit
<1>4. CASE LoadCtrl
  <2>1. /\ bpc \notin {"pushClear", "popClear"}
        /\ hpc = "readCtrl" /\ hpc' = "store" /\ hctrl' = CTRL
        /\ UNCHANGED <<CTRL, ACK, DATA_IN, DATA_OUT, stores, ledger>>
    BY <1>4 DEF HostStep, LoadCtrl, Ends, regionVars
  <2>2. Free /\ CTRL = {}
    BY <2>1 DEF Handshake, Quiet, Behind, Clearing
  <2>3. op = "push" => stores # <<"CTRL">>
    BY <2>1 DEF Handshake, Quiet, ProgramOrder
  <2>4. Quiet'
    BY <1>1, <1>3, <2>1, <2>2, <2>3 DEF Handshake, Quiet, Behind
  <2>5. Requested' /\ Effect' /\ Verdict'
    BY <1>1, <2>1 DEF Handshake, Requested, Effect, Verdict, InAnswer
  <2> QED BY <2>4, <2>5 DEF Handshake
<1>5. CASE StoreRequest
  <2>1. /\ hpc = "store" /\ ledger' = ledger /\ ACK' = ACK
        /\ Free /\ CTRL = {} /\ hctrl = {} /\ ACK = {} /\ tasks = ledger /\ outcome = "none"
    BY <1>5 DEF HostStep, StoreRequest, Ends, Handshake, Quiet, Behind, Free, Clearing
  <2>2. CASE op = "push" /\ stores = ProgramOrder
    <3>1. stores' = <<"CTRL">> /\ hpc' = "store" /\ DATA_IN' = arg /\ UNCHANGED <<CTRL, hctrl>>
      BY <1>5, <2>2 DEF StoreRequest, ProgramOrder
    <3> QED
      BY <1>1, <1>3, <2>1, <3>1
      DEF Handshake, Quiet, Behind, Requested, Effect, Verdict, InAnswer
  <2>3. CASE stores = <<"CTRL">>
    <3>1. hpc' = "poll" /\ CTRL' = {op} /\ DATA_IN' = DATA_IN
      BY <1>5, <2>1, <2>3 DEF StoreRequest
    <3>2. op = "push" => DATA_IN = arg
      BY <2>1, <2>3 DEF Handshake, Quiet
    <3> QED
      BY <1>1, <1>3, <2>1, <3>1, <3>2
      DEF Handshake, Quiet, Requested, Effect, Verdict, InAnswer
  <2>4. stores = <<"CTRL">> \/ (op = "push" /\ stores = ProgramOrder)
    BY <1>2, <2>1 DEF IssuedInv, WordBeforeRequest, Requests
  <2> QED BY <2>2, <2>3, <2>4
<1>6. CASE Poll
  <2>1. /\ hpc = "poll" /\ hack' = ACK
        /\ UNCHANGED <<CTRL, DATA_IN, ACK, out>>
    BY <1>6 DEF Poll, regionVars
  <2>2. CASE OkBit(op) \notin ACK /\ RefusedBit(op) \notin ACK
    <3>1. hpc' = "poll" /\ ledger' = ledger
      BY <1>6, <2>2 DEF Poll, HostStep, Ends
    <3>2. ~Answered
      BY <2>2 DEF Answered, AnswerBit
    <3> QED
      BY <1>1, <1>3, <2>1, <3>1, <3>2
      DEF Handshake, Quiet, Requested, Effect, Served, Verdict, InAnswer
  <2>3. CASE OkBit(op) \in ACK \/ RefusedBit(op) \in ACK
    <3>1. outcome # "none" /\ Answered
      BY <2>1, <2>3 DEF Handshake, Requested, Effect, Served, InAnswer
    <3>2. OkBit(op) \in ACK <=> outcome = "ok"
      BY <1>2, <3>1 DEF Answered, AnswerBit, OkBit, RefusedBit, Requests
    <3>3. /\ ledger' = ledger
          /\ hpc' = IF outcome = "ok" THEN IF op = "pop" THEN "readDataOut" ELSE "clearOk"
                    ELSE "clearRefused"
      BY <1>2, <1>6, <2>3, <3>1, <3>2 DEF Poll, HostStep, Ends
    <3>4. Answered'
      BY <1>1, <1>2, <1>3, <2>1, <3>1, <3>3 DEF Answered, Behind
    <3> QED
      BY <1>1, <1>2, <2>1, <3>1, <3>3, <3>4
      DEF Handshake, Quiet, Requested, Effect, Verdict, InAnswer, Requests
  <2> QED BY <2>2, <2>3
<1>7. CASE LoadDataOut
  <2>1. /\ hpc = "readDataOut" /\ hpc' = "clearOk" /\ out' = DATA_OUT /\ ledger' = ledger
        /\ UNCHANGED <<CTRL, ACK, hack>>
    BY <1>7 DEF LoadDataOut, HostStep, Ends, regionVars
  <2>2. outcome = "ok" /\ Answered
    BY <1>2, <2>1 DEF Handshake, Verdict, Effect, InAnswer, Served, Answered
  <2>3. Answered'
    BY <1>1, <1>3, <2>1, <2>2 DEF Answered, Behind
  <2> QED
    BY <1>1, <2>1, <2>2, <2>3 DEF Handshake, Quiet, Requested, Effect, Verdict, InAnswer
<1>8. CASE ClearAnswer
  <2>1. /\ hpc \in {"clearOk", "clearRefused"} /\ hpc' = "returned" /\ CTRL' = CTRL
        /\ outcome # "none" /\ Answered /\ hack = {AnswerBit}
        /\ hpc = "clearRefused" <=> outcome = "refused"
    BY <1>8 DEF ClearAnswer, Handshake, Verdict, Effect, InAnswer, Served, Answered
  <2>2. /\ ACK' = {}
        /\ rc' = IF outcome = "ok" THEN 0 ELSE -1
    BY <1>2, <1>8, <2>1 DEF ClearAnswer, AnswerBit
  <2>3. tasks = ledger'
    <3>1. CASE outcome = "ok" /\ op = "push"
      BY <2>1, <2>2, <3>1 DEF HostStep, Ends, Handshake, Effect, InAnswer
    <3>2. CASE outcome = "ok" /\ op = "pop"
      BY <2>1, <2>2, <3>2 DEF HostStep, Ends, Handshake, Effect, InAnswer
    <3>3. CASE outcome = "refused"
      <4>1. ledger' = ledger
        BY <2>2, <3>3 DEF HostStep, Ends
      <4> QED BY <2>1, <3>3, <4>1 DEF Handshake, Effect, InAnswer
    <3> QED BY <1>2, <2>1, <3>1, <3>2, <3>3 DEF Requests
  <2>4. Quiet'
    BY <1>1, <1>3, <2>1, <2>2, <2>3 DEF Quiet, Answered, Behind
  <2>5. Requested' /\ Effect' /\ Verdict'
    BY <1>1, <1>2, <2>1, <2>2 DEF Handshake, Requested, Effect, Verdict, InAnswer
  <2> QED BY <2>4, <2>5 DEF Handshake
<1> QED BY <1>4, <1>5, <1>6, <1>7, <1>8 DEF DriverNext

LEMMA TestKeepsHandshake ==
  ASSUME PushStores = {ProgramOrder}, IssuedInv, Handshake, HostStep, TestNext
  PROVE  Handshake'
<1>1. /\ UNCHANGED <<bpc, bctrl, bdata, back, bnew, tasks>>
      /\ UNCHANGED <<full, valid_out, data_out>>
  BY DEF HostStep, bridgeVars, bridgePrivate, coreVars, full, valid_out, data_out, MemAt
<1>2. UNCHANGED <<Free, Clearing>>
  BY <1>1 DEF Free, Clearing
<1>3. UNCHANGED <<ACK, DATA_OUT>>
  BY DEF TestNext, DetPush, DetPop, RandomOp, DrainPop, NextPhase, PushReturned, PopReturned,
         SignalDone, mmio_push, mmio_pop, Call, Return, regionVars
<1>4. ASSUME NEW o, NEW v, NEW order, Call(o, v, order),
             o = "push" => order = ProgramOrder
      PROVE  Handshake'
  <2>1. /\ hpc = "idle" /\ hpc' = "readCtrl" /\ outcome' = "none" /\ ledger' = ledger
        /\ CTRL' = CTRL /\ op' = o /\ stores' = order
    BY <1>4 DEF Call, HostStep, Begins, Ends, regionVars
  <2> QED
    BY <1>1, <1>2, <1>3, <1>4, <2>1
    DEF Handshake, Quiet, Behind, Requested, Effect, Verdict, InAnswer
<1>5. CASE Return
  <2>1. /\ hpc = "returned" /\ hpc' = "idle" /\ CTRL' = CTRL /\ ledger' = ledger
    BY <1>5 DEF Return, HostStep, Ends, regionVars
  <2> QED
    BY <1>1, <1>2, <1>3, <2>1
    DEF Handshake, Quiet, Behind, Requested, Effect, Verdict, InAnswer
<1>6. CASE UNCHANGED <<driverPrivate, CTRL, DATA_IN>>
  <2>1. /\ UNCHANGED <<hpc, op, arg, stores, hctrl, hack, out, rc, CTRL, DATA_IN>>
        /\ UNCHANGED <<outcome, ledger>>
    BY <1>6 DEF driverPrivate, HostStep, Begins, Ends
  <2> QED
    BY <1>1, <1>2, <1>3, <2>1
    DEF Handshake, Quiet, Behind, Requested, Effect, Served, Answered, AnswerBit, Verdict, InAnswer
<1> QED BY <1>4, <1>5, <1>6, TestStepShape

-------------------------------------------------------------------------------
(***************************************************************************)
(* The theorems.                                                           *)
(***************************************************************************)
LEMMA CleanInvInit ==
  ASSUME PowerOfTwoDepth, CosimInit
  PROVE  CleanInv
<1>1. IssuedInv
  BY IssuedInvInit
<1>2. /\ hpc = "idle" /\ bpc = "readCtrl" /\ bctrl = {} /\ CTRL = {} /\ ACK = {}
      /\ tasks = <<>> /\ ledger = <<>>
  BY DEF CosimInit, RegionInit, BridgeInit, CoreInit, HostInit, DriverInit
<1>3. Handshake
  BY <1>2 DEF Handshake, Quiet, Behind, Free, Requested, Effect, Verdict, InAnswer
<1> QED BY <1>1, <1>3 DEF CleanInv

LEMMA CleanInvStep ==
  ASSUME PowerOfTwoDepth, PushStores = {ProgramOrder}, CleanInv, [CosimNext]_vars
  PROVE  CleanInv'
<1>1. IssuedInv'
  BY IssuedInvStep DEF CleanInv
<1>2. ASSUME clean' PROVE Handshake'
  <2>1. clean
    BY <1>2 DEF CosimNext, HostStep, BridgeStep, vars, history
  <2>2. CASE BridgeStep
    BY <2>1, <2>2, BridgeKeepsHandshake DEF CleanInv
  <2>3. CASE HostStep
    BY <1>2, <2>1, <2>3, DriverKeepsHandshake, TestKeepsHandshake
    DEF CleanInv, HostStep, HostNext
  <2>4. CASE UNCHANGED vars
    BY <2>1, <2>4
    DEF vars, regionVars, bridgeVars, bridgePrivate, coreVars, hostPrivate, driverPrivate,
        testPrivate, history, CleanInv, Handshake, Quiet, Behind, Free, Clearing, Requested,
        Effect, Served, Answered, AnswerBit, Verdict, InAnswer, full, valid_out, data_out, MemAt
  <2> QED BY <2>2, <2>3, <2>4 DEF CosimNext
<1> QED BY <1>1, <1>2 DEF CleanInv

\* Between the calls of a clean run the return values so far say exactly
\* what waits in the hardware, and no answer is left for the next call to
\* take for its own.
THEOREM CosimCleanLedger ==
  ASSUME PowerOfTwoDepth, PushStores = {ProgramOrder}
  PROVE  CosimSpec => []CleanLedger
<1>1. CosimInit => CleanInv
  BY CleanInvInit
<1>2. CleanInv /\ [CosimNext]_vars => CleanInv'
  BY CleanInvStep
<1>3. CleanInv => CleanLedger
  BY DEF CleanInv, CleanLedger, Handshake, Quiet
<1> QED BY <1>1, <1>2, <1>3, PTL DEF CosimSpec

\* In a clean run mmio_push and mmio_pop return 0 exactly when the bridge
\* moved a word for this call, and -1 only when it refused and the queue is
\* full or empty.
THEOREM CosimCleanOutcome ==
  ASSUME PowerOfTwoDepth, PushStores = {ProgramOrder}
  PROVE  CosimSpec => []CleanOutcome
<1>1. CosimInit => CleanInv
  BY CleanInvInit
<1>2. CleanInv /\ [CosimNext]_vars => CleanInv'
  BY CleanInvStep
<1>3. CleanInv => CleanOutcome
  BY DEF CleanInv, CleanOutcome, Handshake, Verdict
<1> QED BY <1>1, <1>2, <1>3, PTL DEF CosimSpec

LEMMA OldestAtHead ==
  ASSUME PowerOfTwoDepth, RingInv, tasks # <<>>
  PROVE  data_out = Head(tasks)
<1>1. /\ head \in 0 .. DEPTH - 1 /\ DEPTH \in Nat /\ tasks \in Seq(Data) /\ Len(tasks) = count
  BY CoreAssumption DEF PowerOfTwoDepth, Ptrs, RingInv, CoreTypeOK, ContentsAgree
<1>2. 1 \in 1 .. count
  BY <1>1
<1>3. SlotOf(1) = head
  BY <1>1 DEF SlotOf
<1>4. mem[head] = tasks[1]
  BY <1>2, <1>3 DEF RingInv, ContentsAgree
<1>5. data_out = mem[head]
  BY <1>1 DEF data_out, MemAt, Slots
<1> QED BY <1>1, <1>4, <1>5

\* In a clean run mmio_pop hands out the word behind the one it removed, if
\* one waits.
THEOREM CosimPopReturnsNext ==
  ASSUME PowerOfTwoDepth, PushStores = {ProgramOrder}
  PROVE  CosimSpec => CleanPopReturnsNext
<1>1. CosimInit => CleanInv
  BY CleanInvInit
<1>2. CleanInv /\ [CosimNext]_vars => CleanInv'
  BY CleanInvStep
<1>3. CleanInv /\ [CosimNext]_vars
        => [clean /\ Ends /\ op = "pop" /\ rc' = 0 /\ tasks # <<>> => out' = Head(tasks)]_vars
  <2> SUFFICES ASSUME CleanInv, CosimNext, clean, Ends, op = "pop", rc' = 0, tasks # <<>>
               PROVE  out' = Head(tasks)
    BY DEF vars
  <2>1. DriverNext
    BY DEF CosimNext, BridgeStep, hostPrivate, driverPrivate, Ends, HostStep, HostNext, TestNext,
           DetPush, DetPop, RandomOp, DrainPop, NextPhase, PushReturned, PopReturned, SignalDone,
           mmio_push, mmio_pop, Call, Return
  <2>2. hpc = "clearOk" /\ out' = out
    BY <2>1 DEF DriverNext, LoadCtrl, StoreRequest, Poll, LoadDataOut, ClearAnswer, Ends
  <2>3. out = data_out
    BY <2>2 DEF CleanInv, Handshake, Verdict
  <2>4. data_out = Head(tasks)
    BY OldestAtHead DEF CleanInv, IssuedInv, CosimInv
  <2> QED BY <2>2, <2>3, <2>4
<1> QED BY <1>1, <1>2, <1>3, PTL DEF CosimSpec, CleanPopReturnsNext

-------------------------------------------------------------------------------
(***************************************************************************)
(* STATUS.  When the bridge serves a call STATUS still is what it was at   *)
(* the top of the loop, and no other call is served before it is stored    *)
(* again.                                                                  *)
(***************************************************************************)
StatusLag ==
  (InAnswer /\ outcome # "none") \/ hpc = "returned" =>
    STATUS \in {FlagsAt(Len(tasks)), FlagsAt(WaitedBefore)}

StatusInv == CleanInv /\ (clean => StatusLag)

LEMMA BitsAreFlags ==
  ASSUME RingInv
  PROVE  StatusBits = FlagsAt(Len(tasks))
BY DEF RingInv, ContentsAgree, StatusBits, FlagsAt, full, valid_out

LEMMA BridgeKeepsLag ==
  ASSUME PowerOfTwoDepth, CleanInv, Handshake, StatusLag, BridgeStep
  PROVE  StatusLag'
<1>1. UNCHANGED <<hpc, op, arg>> /\ BridgeNext
  BY DEF BridgeStep, hostPrivate, driverPrivate
<1>2. /\ RingInv /\ bdata \in Data /\ op \in Requests /\ arg \in Data /\ StatusFresh
      /\ tasks \in Seq(Data)
  BY DEF CleanInv, IssuedInv, CosimInv, CosimTypeOK, BridgeTypeOK, HostTypeOK, DriverTypeOK,
         RingInv, CoreTypeOK
<1>3. CASE bpc \notin {"push", "pop"}
  <2>1. outcome' = outcome /\ tasks' = tasks
    BY <1>3
    DEF BridgeStep, Serves, BridgeNext, ReadCtrl, ReadDataIn, ReadAck, ReadTbDone, RefusePush,
        AcceptPush, RefusePop, AcceptPop, PopReadAck, WriteAck, ClearRequest, WriteStatus, coreVars
  <2>2. STATUS' \in {STATUS, StatusBits}
    BY <1>1, <1>3
    DEF BridgeNext, ReadCtrl, ReadDataIn, ReadAck, ReadTbDone, RefusePush, AcceptPush, RefusePop,
        AcceptPop, PopReadAck, WriteAck, ClearRequest, WriteStatus, regionVars
  <2>3. /\ FlagsAt(Len(tasks))' = FlagsAt(Len(tasks))
        /\ FlagsAt(WaitedBefore)' = FlagsAt(WaitedBefore)
    BY <1>1, <2>1 DEF WaitedBefore, FlagsAt
  <2>4. StatusBits = FlagsAt(Len(tasks))
    BY <1>2, BitsAreFlags
  <2> QED BY <1>1, <2>1, <2>2, <2>3, <2>4 DEF StatusLag, InAnswer
<1>4. CASE bpc \in {"push", "pop"}
  <2>1. hpc \notin {"idle", "readCtrl", "store", "returned"}
    BY <1>4 DEF Handshake, Quiet, Behind, Free, Clearing
  <2>2. CASE ~InAnswer
    BY <1>1, <2>1, <2>2 DEF StatusLag, InAnswer
  <2>3. CASE InAnswer
    <3>1. hpc = "poll" /\ outcome = "none"
      BY <1>4, <2>3
      DEF Handshake, Verdict, Effect, Served, Answered, Behind, Free, Clearing, InAnswer
    <3>2. /\ bctrl = {op} /\ bpc = op /\ ACK = {} /\ Held
      BY <1>4, <3>1 DEF Handshake, Requested, Free, Held
    <3>3. STATUS = FlagsAt(Len(tasks))
      <4>1. STATUS = StatusBits
        BY <1>2, <1>4, <3>2 DEF StatusFresh
      <4> QED BY <4>1, <1>2, BitsAreFlags
    <3>4. STATUS' = STATUS
      BY <1>1, <1>4
      DEF BridgeNext, ReadCtrl, ReadDataIn, ReadAck, ReadTbDone, RefusePush, AcceptPush,
          RefusePop, AcceptPop, PopReadAck, WriteAck, ClearRequest, WriteStatus, regionVars
    <3>5. \/ outcome' = "ok" /\ op = "push" /\ tasks' = Append(tasks, arg)
          \/ outcome' = "ok" /\ op = "pop" /\ tasks # <<>> /\ tasks' = Tail(tasks)
          \/ outcome' = "refused" /\ tasks' = tasks
      BY <1>2, <3>1, <3>2, ServeStep DEF coreVars
    <3>6. WaitedBefore' = Len(tasks)
      <4>1. Len(tasks) \in Nat
        BY <1>2
      <4>2. CASE outcome' = "ok" /\ op = "push" /\ tasks' = Append(tasks, arg)
        <5>1. Len(tasks') = Len(tasks) + 1
          BY <1>2, <4>2
        <5> QED BY <1>1, <4>1, <4>2, <5>1 DEF WaitedBefore
      <4>3. CASE outcome' = "ok" /\ op = "pop" /\ tasks # <<>> /\ tasks' = Tail(tasks)
        <5>1. Len(tasks') = Len(tasks) - 1
          BY <1>2, <4>3, HeadTailProperties
        <5> QED BY <1>1, <4>1, <4>3, <5>1 DEF WaitedBefore
      <4>4. CASE outcome' = "refused" /\ tasks' = tasks
        BY <4>4 DEF WaitedBefore
      <4> QED BY <3>5, <4>2, <4>3, <4>4
    <3>7. FlagsAt(WaitedBefore)' = FlagsAt(Len(tasks))
      BY <3>6 DEF FlagsAt
    <3> QED BY <3>3, <3>4, <3>7 DEF StatusLag
  <2> QED BY <2>2, <2>3
<1> QED BY <1>3, <1>4

LEMMA HostKeepsLagOfStatus ==
  ASSUME CleanInv, Handshake, StatusLag, HostStep, clean'
  PROVE  StatusLag'
<1>1. STATUS' = STATUS /\ tasks' = tasks
  BY HostKeepsStatus DEF HostStep, bridgeVars, bridgePrivate, coreVars
<1>2. CASE DriverNext
  <2>1. outcome' = outcome /\ op' = op
    BY <1>2 DEF HostStep, Begins, DriverNext, LoadCtrl, StoreRequest, Poll, LoadDataOut, ClearAnswer
  <2>2. /\ FlagsAt(Len(tasks))' = FlagsAt(Len(tasks))
        /\ FlagsAt(WaitedBefore)' = FlagsAt(WaitedBefore)
    BY <1>1, <2>1 DEF WaitedBefore, FlagsAt
  <2>3. CASE hpc \in {"readCtrl", "store"}
    <3>1. outcome = "none" /\ hpc' # "returned"
      BY <1>2, <2>3
      DEF Handshake, Quiet, DriverNext, LoadCtrl, StoreRequest, Poll, LoadDataOut, ClearAnswer
    <3> QED BY <2>1, <3>1 DEF StatusLag
  <2>4. CASE hpc \notin {"readCtrl", "store"}
    <3>1. InAnswer
      BY <1>2, <2>4
      DEF InAnswer, DriverNext, LoadCtrl, StoreRequest, Poll, LoadDataOut, ClearAnswer
    <3>2. CASE outcome # "none"
      BY <1>1, <2>1, <2>2, <3>1, <3>2 DEF StatusLag
    <3>3. CASE outcome = "none"
      <4>1. hpc = "poll"
        BY <3>1, <3>3 DEF Handshake, Verdict, InAnswer
      <4>2. Poll
        BY <1>2, <4>1 DEF DriverNext, LoadCtrl, StoreRequest, Poll, LoadDataOut, ClearAnswer
      <4>3. hpc' # "returned"
        BY <4>1, <4>2 DEF HostStep, Ends, Poll
      <4> QED BY <2>1, <3>3, <4>3 DEF StatusLag
    <3> QED BY <3>2, <3>3
  <2> QED BY <2>3, <2>4
<1>3. CASE TestNext
  <2>1. \/ hpc' \in {"idle", "readCtrl"}
        \/ hpc = "idle" /\ hpc' = hpc
    BY <1>3
    DEF TestNext, DetPush, DetPop, RandomOp, DrainPop, NextPhase, PushReturned, PopReturned,
        SignalDone, mmio_push, mmio_pop, Call, Return, driverPrivate, InPhase
  <2> QED BY <2>1 DEF StatusLag, InAnswer
<1> QED BY <1>2, <1>3 DEF HostStep, HostNext

\* In a clean run the flags a caller finds in STATUS as its call returns are
\* those of the queue now or those from just before this call.
THEOREM CosimStatusLagsOneCall ==
  ASSUME PowerOfTwoDepth, PushStores = {ProgramOrder}
  PROVE  CosimSpec => []StatusLagsOneCall
<1>1. CosimInit => StatusInv
  <2> SUFFICES ASSUME CosimInit PROVE StatusInv
    OBVIOUS
  <2>1. hpc = "idle"
    BY DEF CosimInit, HostInit, DriverInit
  <2> QED BY <2>1, CleanInvInit DEF StatusInv, StatusLag, InAnswer
<1>2. StatusInv /\ [CosimNext]_vars => StatusInv'
  <2> SUFFICES ASSUME StatusInv, [CosimNext]_vars PROVE StatusInv'
    OBVIOUS
  <2>1. CleanInv'
    BY CleanInvStep DEF StatusInv
  <2>2. ASSUME clean' PROVE StatusLag'
    <3>1. clean
      BY <2>2 DEF CosimNext, HostStep, BridgeStep, vars, history
    <3>2. CleanInv /\ Handshake /\ StatusLag
      BY <3>1 DEF StatusInv, CleanInv
    <3>3. CASE BridgeStep
      BY <3>2, <3>3, BridgeKeepsLag
    <3>4. CASE HostStep
      BY <2>2, <3>2, <3>4, HostKeepsLagOfStatus
    <3>5. CASE UNCHANGED vars
      BY <3>2, <3>5
      DEF vars, regionVars, bridgeVars, coreVars, hostPrivate, driverPrivate, history, StatusLag,
          InAnswer, FlagsAt, WaitedBefore
    <3> QED BY <3>3, <3>4, <3>5 DEF CosimNext
  <2> QED BY <2>1, <2>2 DEF StatusInv
<1>3. StatusInv => StatusLagsOneCall
  BY DEF StatusInv, StatusLag, StatusLagsOneCall
<1> QED BY <1>1, <1>2, <1>3, PTL DEF CosimSpec

-------------------------------------------------------------------------------
(***************************************************************************)
(* swbuf.  It follows ledger one step late: ledger moves when a call sets  *)
(* its return value, swbuf when main has looked at it.                     *)
(***************************************************************************)
\* s is the end of the first len elements of t.
EndsAt(s, t, len) ==
  /\ Len(s) <= len
  /\ \A k \in 1 .. Len(s) : s[k] = t[len - Len(s) + k]

SwbufPhases ==
  /\ phase \in {"detPush", "detPop"} => swbuf = <<>>
  /\ phase = "drain" /\ hpc # "idle" => op = "pop"
  /\ phase \in {"signal", "exited"} => hpc = "idle"

SwbufLags ==
  IF hpc # "returned" \/ rc # 0 THEN EndsAt(swbuf, ledger, Len(ledger))
  ELSE IF op = "push"
  THEN /\ ledger # <<>>
       /\ ledger[Len(ledger)] = arg
       /\ EndsAt(swbuf, ledger, Len(ledger) - 1)
  ELSE swbuf # <<>> => EndsAt(Tail(swbuf), ledger, Len(ledger))

SwbufInv == CleanInv /\ SwbufPhases /\ (clean => SwbufLags)

LEMMA EndsAtAppendBoth ==
  ASSUME NEW s \in Seq(Data), NEW t \in Seq(Data), NEW d \in Data, EndsAt(s, t, Len(t))
  PROVE  EndsAt(s, Append(t, d), Len(Append(t, d)) - 1)
<1>1. Len(Append(t, d)) - 1 = Len(t) /\ Len(s) \in Nat /\ Len(t) \in Nat /\ Len(s) <= Len(t)
  BY DEF EndsAt
<1>2. ASSUME NEW k \in 1 .. Len(s)
      PROVE  s[k] = Append(t, d)[Len(t) - Len(s) + k]
  <2>1. Len(t) - Len(s) + k \in 1 .. Len(t)
    BY <1>1
  <2>2. Append(t, d)[Len(t) - Len(s) + k] = t[Len(t) - Len(s) + k]
    BY <2>1
  <2> QED BY <2>2 DEF EndsAt
<1> QED BY <1>1, <1>2 DEF EndsAt

LEMMA EndsAtAppend ==
  ASSUME NEW s \in Seq(Data), NEW t \in Seq(Data), NEW d \in Data,
         t # <<>>, t[Len(t)] = d, EndsAt(s, t, Len(t) - 1)
  PROVE  EndsAt(Append(s, d), t, Len(t))
<1> DEFINE r == Append(s, d)
<1>1. Len(r) = Len(s) + 1 /\ Len(s) \in Nat /\ Len(t) \in Nat /\ Len(s) <= Len(t) - 1
  BY DEF EndsAt
<1>2. ASSUME NEW k \in 1 .. Len(r)
      PROVE  r[k] = t[Len(t) - Len(r) + k]
  <2>1. CASE k \in 1 .. Len(s)
    <3>1. r[k] = s[k] /\ s[k] = t[Len(t) - 1 - Len(s) + k]
      BY <2>1 DEF EndsAt
    <3>2. Len(t) - 1 - Len(s) + k = Len(t) - Len(r) + k
      BY <1>1
    <3> QED BY <3>1, <3>2
  <2>2. CASE k = Len(s) + 1
    <3>1. r[k] = d /\ Len(t) - Len(r) + k = Len(t)
      BY <1>1, <2>2
    <3> QED BY <3>1
  <2> QED BY <1>1, <2>1, <2>2
<1>3. Len(r) <= Len(t)
  BY <1>1
<1> QED BY <1>2, <1>3 DEF EndsAt

LEMMA EndsAtTails ==
  ASSUME NEW s \in Seq(Data), NEW t \in Seq(Data), s # <<>>, t # <<>>, EndsAt(s, t, Len(t))
  PROVE  EndsAt(Tail(s), Tail(t), Len(Tail(t)))
<1>1. /\ Len(Tail(s)) = Len(s) - 1 /\ Len(Tail(t)) = Len(t) - 1
      /\ \A k \in 1 .. Len(Tail(s)) : Tail(s)[k] = s[k + 1]
      /\ \A k \in 1 .. Len(Tail(t)) : Tail(t)[k] = t[k + 1]
  BY HeadTailProperties
<1>2. Len(s) \in Nat /\ Len(t) \in Nat /\ Len(s) <= Len(t)
  BY DEF EndsAt
<1>3. ASSUME NEW k \in 1 .. Len(Tail(s))
      PROVE  Tail(s)[k] = Tail(t)[Len(Tail(t)) - Len(Tail(s)) + k]
  <2> DEFINE j == Len(Tail(t)) - Len(Tail(s)) + k
  <2>1. j \in 1 .. Len(Tail(t)) /\ k + 1 \in 1 .. Len(s) /\ j + 1 = Len(t) - Len(s) + (k + 1)
    BY <1>1, <1>2
  <2>2. Tail(s)[k] = s[k + 1] /\ Tail(t)[j] = t[j + 1]
    BY <1>1, <2>1
  <2>3. s[k + 1] = t[Len(t) - Len(s) + (k + 1)]
    BY <2>1 DEF EndsAt
  <2> QED BY <2>1, <2>2, <2>3
<1>4. Len(Tail(s)) <= Len(Tail(t))
  BY <1>1, <1>2
<1> QED BY <1>3, <1>4 DEF EndsAt

LEMMA EmptyEndsAnywhere ==
  ASSUME NEW t, NEW len \in Nat
  PROVE  EndsAt(<<>>, t, len)
BY DEF EndsAt

\* main between the phases and calls.
LEMMA HostKeepsPhases ==
  ASSUME SwbufInv, HostStep
  PROVE  SwbufPhases'
<1> USE DEF SwbufPhases
<1>1. SwbufPhases
  BY DEF SwbufInv
<1>2. CASE DriverNext /\ UNCHANGED testPrivate
  BY <1>1, <1>2 DEF testPrivate, DriverNext, LoadCtrl, StoreRequest, Poll, LoadDataOut, ClearAnswer
<1>3. CASE DetPush
  BY <1>1, <1>3 DEF DetPush, InPhase
<1>4. CASE DetPop
  BY <1>1, <1>4 DEF DetPop, InPhase
<1>5. CASE RandomOp
  BY <1>1, <1>5 DEF RandomOp, InPhase
<1>6. CASE DrainPop
  BY <1>1, <1>6 DEF DrainPop, mmio_pop, Call, testPrivate
<1>7. CASE NextPhase
  BY <1>1, <1>7 DEF NextPhase, driverPrivate
<1>8. CASE PushReturned
  BY <1>1, <1>8 DEF PushReturned, Return
<1>9. CASE PopReturned
  <2>1. hpc' = "idle" /\ (phase' = phase \/ (phase = "drain" /\ phase' = "signal"))
    BY <1>9 DEF PopReturned, Return
  <2>2. swbuf = <<>> => swbuf' = <<>>
    BY <1>9 DEF PopReturned
  <2> QED BY <1>1, <2>1, <2>2
<1>10. CASE SignalDone
  BY <1>1, <1>10 DEF SignalDone, driverPrivate
<1> QED
  BY <1>2, <1>3, <1>4, <1>5, <1>6, <1>7, <1>8, <1>9, <1>10 DEF HostStep, HostNext, TestNext

LEMMA HostKeepsLag ==
  ASSUME SWDEPTH >= DEPTH, SwbufInv, HostStep, clean, clean'
  PROVE  SwbufLags'
<1> USE HostAssumption, CoreAssumption
<1>1. /\ swbuf \in Seq(Data) /\ ledger \in Seq(Data) /\ arg \in Data /\ op \in Requests
      /\ count \in 0 .. DEPTH /\ Len(tasks) = count
  BY DEF SwbufInv, CleanInv, IssuedInv, CosimInv, CosimTypeOK, HostTypeOK, DriverTypeOK, RingInv,
         CoreTypeOK, ContentsAgree
<1>2. SwbufLags /\ SwbufPhases
  BY DEF SwbufInv
<1>3. CASE DriverNext /\ UNCHANGED testPrivate
  <2>1. swbuf' = swbuf /\ hpc # "returned" /\ UNCHANGED <<op, arg>>
    BY <1>3 DEF testPrivate, DriverNext, LoadCtrl, StoreRequest, Poll, LoadDataOut, ClearAnswer
  <2>2. EndsAt(swbuf, ledger, Len(ledger))
    BY <1>2, <2>1 DEF SwbufLags
  <2>3. CASE ~Ends \/ rc' # 0
    <3>1. ledger' = ledger /\ (hpc' # "returned" \/ rc' # 0)
      BY <2>1, <2>3 DEF HostStep, Ends
    <3> QED BY <2>1, <2>2, <3>1 DEF SwbufLags
  <2>4. CASE Ends /\ rc' = 0 /\ op = "push"
    <3>1. ledger' = Append(ledger, arg) /\ hpc' = "returned"
      BY <2>4 DEF HostStep, Ends
    <3>2. EndsAt(swbuf, ledger', Len(ledger') - 1)
      BY <1>1, <2>2, <3>1, EndsAtAppendBoth
    <3>3. ledger' # <<>> /\ ledger'[Len(ledger')] = arg
      BY <1>1, <3>1
    <3> QED BY <2>1, <2>4, <3>1, <3>2, <3>3 DEF SwbufLags
  <2>5. CASE Ends /\ rc' = 0 /\ op = "pop"
    <3>1. (ledger # <<>> => ledger' = Tail(ledger)) /\ hpc' = "returned"
      BY <2>5 DEF HostStep, Ends
    <3>2. swbuf # <<>> => ledger # <<>>
      BY <1>1, <2>2 DEF EndsAt
    <3>3. swbuf # <<>> => EndsAt(Tail(swbuf), ledger', Len(ledger'))
      BY <1>1, <2>2, <3>1, <3>2, EndsAtTails
    <3> QED BY <2>1, <2>5, <3>1, <3>3 DEF SwbufLags
  <2> QED BY <1>1, <2>3, <2>4, <2>5 DEF Requests
<1>4. CASE PushReturned
  <2>1. hpc = "returned" /\ op = "push" /\ hpc' = "idle" /\ ledger' = ledger
    BY <1>4 DEF PushReturned, Return, HostStep, Ends
  <2>2. SwbufLags' <=> EndsAt(swbuf', ledger, Len(ledger))
    BY <2>1 DEF SwbufLags
  <2>3. CASE rc # 0
    BY <1>2, <1>4, <2>1, <2>2, <2>3 DEF PushReturned, SwbufLags
  <2>4. CASE rc = 0 /\ phase = "random"
    <3>1. ledger # <<>> /\ ledger[Len(ledger)] = arg /\ EndsAt(swbuf, ledger, Len(ledger) - 1)
      BY <1>2, <2>1, <2>4 DEF SwbufLags
    <3>2. tasks = ledger
      BY <2>1 DEF SwbufInv, CleanInv, Handshake, Quiet
    <3>3. Len(swbuf) < SWDEPTH
      BY <1>1, <3>1, <3>2 DEF EndsAt
    <3>4. swbuf' = Append(swbuf, arg)
      BY <1>4, <2>4, <3>3 DEF PushReturned
    <3>5. EndsAt(Append(swbuf, arg), ledger, Len(ledger))
      BY <1>1, <3>1, EndsAtAppend
    <3> QED BY <2>2, <3>4, <3>5
  <2>5. CASE phase # "random"
    <3>1. swbuf' = swbuf /\ swbuf = <<>>
      BY <1>2, <1>4, <2>1, <2>5
      DEF PushReturned, SwbufPhases, SwbufInv, CleanInv, IssuedInv, CosimInv, CosimTypeOK,
          HostTypeOK
    <3> QED BY <1>1, <2>2, <3>1, EmptyEndsAnywhere
  <2> QED BY <2>3, <2>4, <2>5
<1>5. CASE PopReturned
  <2>1. hpc = "returned" /\ op = "pop" /\ hpc' = "idle" /\ ledger' = ledger
    BY <1>5 DEF PopReturned, Return, HostStep, Ends
  <2>2. SwbufLags' <=> EndsAt(swbuf', ledger, Len(ledger))
    BY <2>1 DEF SwbufLags
  <2>3. CASE rc # 0
    BY <1>2, <1>5, <2>1, <2>2, <2>3 DEF PopReturned, SwbufLags
  <2>4. CASE rc = 0 /\ swbuf = <<>>
    <3>1. swbuf' = <<>>
      BY <1>5, <2>4 DEF PopReturned
    <3> QED BY <1>1, <2>2, <3>1, EmptyEndsAnywhere
  <2>5. CASE rc = 0 /\ swbuf # <<>>
    <3>1. swbuf' = Tail(swbuf)
      BY <1>2, <1>5, <2>5 DEF PopReturned, SwbufPhases
    <3> QED BY <1>2, <2>1, <2>2, <2>5, <3>1 DEF SwbufLags
  <2> QED BY <2>3, <2>4, <2>5
<1>6. CASE TestNext /\ ~PushReturned /\ ~PopReturned
  <2>1. hpc = "idle" /\ hpc' # "returned" /\ swbuf' = swbuf
    BY <1>6 DEF TestNext, DetPush, DetPop, RandomOp, DrainPop, NextPhase, SignalDone, InPhase,
                mmio_push, mmio_pop, Call, driverPrivate, testPrivate
  <2>2. ledger' = ledger
    BY <2>1 DEF HostStep, Ends
  <2> QED BY <1>2, <2>1, <2>2 DEF SwbufLags
<1> QED BY <1>3, <1>4, <1>5, <1>6 DEF HostStep, HostNext

\* In a clean run swbuf, which main compares the pops with, is the young end
\* of what waits in the hardware: all it lacks are older words, the ones the
\* deterministic test left over.  (swdepth is as large as DEPTH.)
THEOREM CosimSwbufIsSuffix ==
  ASSUME PowerOfTwoDepth, PushStores = {ProgramOrder}, SWDEPTH >= DEPTH
  PROVE  CosimSpec => []CleanSwbufIsSuffix
<1>1. CosimInit => SwbufInv
  <2> SUFFICES ASSUME CosimInit PROVE SwbufInv
    OBVIOUS
  <2>1. CleanInv
    BY CleanInvInit
  <2>2. hpc = "idle" /\ swbuf = <<>> /\ ledger = <<>> /\ phase = "detPush"
    BY DEF CosimInit, HostInit, DriverInit
  <2>3. SwbufLags
    BY <2>2 DEF SwbufLags, EndsAt
  <2> QED BY <2>1, <2>2, <2>3 DEF SwbufInv, SwbufPhases
<1>2. SwbufInv /\ [CosimNext]_vars => SwbufInv'
  <2> SUFFICES ASSUME SwbufInv, [CosimNext]_vars PROVE SwbufInv'
    OBVIOUS
  <2>1. CleanInv' /\ (clean' => clean)
    <3>1. CleanInv'
      BY CleanInvStep DEF SwbufInv
    <3>2. ASSUME clean' PROVE clean
      BY <3>2 DEF CosimNext, HostStep, BridgeStep, vars, history
    <3> QED BY <3>1, <3>2
  <2>2. CASE HostStep
    BY <2>1, <2>2, HostKeepsPhases, HostKeepsLag DEF SwbufInv
  <2>3. CASE UNCHANGED <<hostPrivate, ledger>>
    BY <2>1, <2>3
    DEF hostPrivate, driverPrivate, testPrivate, SwbufInv, SwbufPhases, SwbufLags, EndsAt
  <2> QED BY <2>2, <2>3 DEF CosimNext, BridgeStep, vars, history
<1>3. SwbufInv => CleanSwbufIsSuffix
  <2> SUFFICES ASSUME SwbufInv, clean, hpc = "idle"
               PROVE  Lag >= 0 /\ \A k \in 1 .. Len(swbuf) : swbuf[k] = tasks[Lag + k]
    BY DEF CleanSwbufIsSuffix
  <2>1. tasks = ledger /\ EndsAt(swbuf, ledger, Len(ledger))
    BY DEF SwbufInv, CleanInv, Handshake, Quiet, SwbufLags
  <2>2. Len(swbuf) \in Nat /\ Len(tasks) \in Nat
    BY DEF SwbufInv, CleanInv, IssuedInv, CosimInv, CosimTypeOK, HostTypeOK, RingInv, CoreTypeOK
  <2>3. Lag = Len(ledger) - Len(swbuf) /\ Len(swbuf) <= Len(ledger) /\ Len(ledger) \in Nat
    BY <2>1, <2>2 DEF EndsAt, Lag
  <2>4. Lag >= 0
    <3>1. \A a, b \in Nat : a <= b => b - a >= 0
      OBVIOUS
    <3> QED BY <2>2, <2>3, <3>1
  <2>5. \A k \in 1 .. Len(swbuf) : swbuf[k] = tasks[Lag + k]
    BY <2>1, <2>3 DEF EndsAt
  <2> QED BY <2>4, <2>5
<1> QED BY <1>1, <1>2, <1>3, PTL DEF CosimSpec

===============================================================================
