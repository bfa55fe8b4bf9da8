------------------------- MODULE HbTaskQueueCoreProofs -------------------------
(***************************************************************************)
(* For every Data, and every DEPTH that is a power of two: the core keeps  *)
(* RingInv, and implements TaskFifo, when push and pop are never requested *)
(* on the same edge.                                                       *)
(***************************************************************************)
EXTENDS HbTaskQueueCore, SequenceTheorems, TLAPS

(***************************************************************************)
(* The PTR_W-bit increment as a case distinction: hb_task_queue_core.sv    *)
(* relies on tail + 1 and head + 1 wrapping from DEPTH - 1 to 0.           *)
(***************************************************************************)
LEMMA NextPtrWraps ==
  ASSUME PowerOfTwoDepth, NEW p \in Slots
  PROVE  NextPtr(p) = IF p = DEPTH - 1 THEN 0 ELSE p + 1
<1>1. CASE p = DEPTH - 1
  BY <1>1, CoreAssumption DEF PowerOfTwoDepth, NextPtr, Slots
<1>2. CASE p # DEPTH - 1
  BY <1>2, CoreAssumption DEF PowerOfTwoDepth, NextPtr, Slots
<1> QED BY <1>1, <1>2

LEMMA RingInvInit ==
  ASSUME PowerOfTwoDepth
  PROVE  CoreInit => RingInv
<1> SUFFICES ASSUME CoreInit PROVE RingInv
  OBVIOUS
<1>1. tasks = <<>> /\ tasks \in Seq(Data) /\ Len(tasks) = 0
  BY DEF CoreInit
<1>2. CoreTypeOK
  BY <1>1, CoreAssumption, WordAssumption DEF CoreInit, CoreTypeOK, Ptrs
<1>3. PointersAgree /\ ContentsAgree
  BY <1>1, CoreAssumption DEF CoreInit, PointersAgree, ContentsAgree
<1> QED BY <1>2, <1>3 DEF RingInv

LEMMA RingInvReset ==
  ASSUME PowerOfTwoDepth, RingInv, Reset
  PROVE  RingInv'
<1>1. tasks' = <<>> /\ tasks' \in Seq(Data) /\ Len(tasks') = 0
  BY DEF Reset
<1>2. CoreTypeOK'
  BY <1>1, CoreAssumption DEF Reset, RingInv, CoreTypeOK, Ptrs
<1>3. PointersAgree' /\ ContentsAgree'
  BY <1>1, CoreAssumption DEF Reset, PointersAgree, ContentsAgree
<1> QED BY <1>2, <1>3 DEF RingInv

LEMMA RingInvPush ==
  ASSUME PowerOfTwoDepth, RingInv, NEW d \in Data, PushEdge(d)
  PROVE  RingInv'
<1> USE CoreAssumption
<1>1. /\ tail \in Slots
      /\ tail' = IF tail = DEPTH - 1 THEN 0 ELSE tail + 1
      /\ mem' = [mem EXCEPT ![tail] = d]
  BY NextPtrWraps DEF PushEdge, RingInv, CoreTypeOK, Ptrs, Slots, MemWith, PowerOfTwoDepth
<1>2. /\ tasks' \in Seq(Data)
      /\ Len(tasks') = count + 1
      /\ \A i \in 1 .. count : tasks'[i] = tasks[i]
      /\ tasks'[count + 1] = d
  BY AppendProperties DEF PushEdge, RingInv, CoreTypeOK, ContentsAgree
<1>3. CoreTypeOK'
  BY <1>1, <1>2 DEF PushEdge, RingInv, CoreTypeOK, full, Ptrs, Slots, PowerOfTwoDepth
<1>4. PointersAgree'
  BY <1>1 DEF PushEdge, RingInv, CoreTypeOK, PointersAgree, full, Slots, Ptrs, PowerOfTwoDepth
<1>5. ContentsAgree'
  <2>1. ASSUME NEW i \in 1 .. count
        PROVE  mem'[SlotOf(i)] = tasks'[i]
    <3>1. SlotOf(i) \in Slots /\ SlotOf(i) # tail
      BY DEF PushEdge, RingInv, CoreTypeOK, PointersAgree, full, Slots, Ptrs, SlotOf, PowerOfTwoDepth
    <3> QED BY <1>1, <1>2, <3>1 DEF RingInv, CoreTypeOK, ContentsAgree
  <2>2. SlotOf(count + 1) = tail
    BY DEF PushEdge, RingInv, CoreTypeOK, PointersAgree, full, Ptrs, SlotOf, PowerOfTwoDepth
  <2>3. mem'[SlotOf(count + 1)] = tasks'[count + 1]
    BY <1>1, <1>2, <2>2 DEF RingInv, CoreTypeOK
  <2>4. \A i : SlotOf(i)' = SlotOf(i)
    BY DEF PushEdge, SlotOf
  <2> QED
    BY <1>2, <2>1, <2>3, <2>4 DEF PushEdge, RingInv, CoreTypeOK, ContentsAgree
<1> QED BY <1>3, <1>4, <1>5 DEF RingInv

LEMMA RingInvPop ==
  ASSUME PowerOfTwoDepth, RingInv, PopEdge
  PROVE  RingInv' /\ delivered' = Head(tasks) /\ tasks # <<>>
<1> USE CoreAssumption
<1>1. /\ head \in Slots
      /\ head' = IF head = DEPTH - 1 THEN 0 ELSE head + 1
      /\ data_out = mem[head]
  BY NextPtrWraps DEF PopEdge, RingInv, CoreTypeOK, Ptrs, Slots, MemAt, data_out, PowerOfTwoDepth
<1>2. tasks # <<>> /\ count \in 1 .. DEPTH
  BY DEF PopEdge, RingInv, CoreTypeOK, ContentsAgree, valid_out
<1>3. /\ tasks' \in Seq(Data)
      /\ Len(tasks') = count - 1
      /\ \A i \in 1 .. count - 1 : tasks'[i] = tasks[i + 1]
  BY <1>2, HeadTailProperties DEF PopEdge, RingInv, CoreTypeOK, ContentsAgree
<1>4. CoreTypeOK'
  BY <1>1, <1>2, <1>3 DEF PopEdge, RingInv, CoreTypeOK, Ptrs, Slots, PowerOfTwoDepth
<1>5. PointersAgree'
  BY <1>1, <1>2 DEF PopEdge, RingInv, CoreTypeOK, PointersAgree, Slots, Ptrs, PowerOfTwoDepth
<1>6. ContentsAgree'
  <2>1. \A i \in 1 .. count - 1 : SlotOf(i)' = SlotOf(i + 1)
    BY <1>1, <1>2 DEF PopEdge, SlotOf, Slots
  <2> QED
    BY <1>2, <1>3, <2>1 DEF PopEdge, RingInv, CoreTypeOK, ContentsAgree
<1>7. delivered' = Head(tasks)
  <2>1. SlotOf(1) = head
    BY <1>1 DEF SlotOf, Slots
  <2>2. mem[head] = tasks[1]
    BY <1>2, <2>1 DEF RingInv, ContentsAgree
  <2> QED BY <1>1, <2>2, <1>2 DEF PopEdge, RingInv, CoreTypeOK
<1> QED BY <1>2, <1>4, <1>5, <1>6, <1>7 DEF RingInv

LEMMA RingInvStep ==
  ASSUME PowerOfTwoDepth, RingInv, [CoreNext]_coreVars
  PROVE  RingInv'
<1>1. CASE Reset
  BY <1>1, RingInvReset
<1>2. ASSUME NEW d \in Data, PushEdge(d)
      PROVE  RingInv'
  BY <1>2, RingInvPush
<1>3. CASE PopEdge
  BY <1>3, RingInvPop
<1>4. CASE UNCHANGED coreVars
  BY <1>4 DEF coreVars, RingInv, CoreTypeOK, PointersAgree, ContentsAgree, SlotOf
<1> QED BY <1>1, <1>2, <1>3, <1>4 DEF CoreNext

(***************************************************************************)
(* The registers stay in range, tail is count slots after head, and the    *)
(* slots from head on hold exactly the accepted, undelivered tasks in      *)
(* order: the always_ff block of hb_task_queue_core.sv never overwrites a  *)
(* waiting task and never skips one.                                       *)
(***************************************************************************)
THEOREM CoreKeepsRingInv ==
  ASSUME PowerOfTwoDepth
  PROVE  CoreSpec => []RingInv
<1>1. CoreInit => RingInv
  BY RingInvInit
<1>2. RingInv /\ [CoreNext]_coreVars => RingInv'
  BY RingInvStep
<1> QED BY <1>1, <1>2, PTL DEF CoreSpec

LEMMA CoreStepIsFifoStep ==
  ASSUME PowerOfTwoDepth, RingInv, [CoreNext]_coreVars
  PROVE  [Fifo!Next]_Fifo!fifoVars
<1>1. CASE Reset
  BY <1>1 DEF Reset, Fifo!Next, Fifo!Clear
<1>2. ASSUME NEW d \in Data, PushEdge(d)
      PROVE  Fifo!Push(d)
  BY <1>2, CoreAssumption DEF PushEdge, full, RingInv, CoreTypeOK, ContentsAgree, Fifo!Push
<1>3. CASE PopEdge
  <2>1. Fifo!Pop
    BY <1>3, RingInvPop DEF PopEdge, Fifo!Pop
  <2> QED BY <2>1 DEF Fifo!Next
<1>4. CASE UNCHANGED coreVars
  BY <1>4 DEF coreVars, Fifo!fifoVars
<1> QED BY <1>1, <1>2, <1>3, <1>4 DEF CoreNext, Fifo!Next

(***************************************************************************)
(* The core is a FIFO of DEPTH tasks: a word accepted on data_in with      *)
(* push_req comes out on data_out in order, exactly once, provided no edge *)
(* sees push_req and pop_req together.                                     *)
(***************************************************************************)
THEOREM CoreImplementsFifo ==
  ASSUME PowerOfTwoDepth
  PROVE  CoreSpec => ImplementsFifo
<1>1. CoreInit => Fifo!Init
  BY DEF CoreInit, Fifo!Init
<1>2. RingInv /\ [CoreNext]_coreVars => [Fifo!Next]_Fifo!fifoVars
  BY CoreStepIsFifoStep
<1> QED
  BY <1>1, <1>2, CoreKeepsRingInv, PTL DEF CoreSpec, ImplementsFifo, Fifo!Spec

===============================================================================
