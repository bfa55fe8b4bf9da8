--------------------------- MODULE VerilatedTbProofs ---------------------------
(***************************************************************************)
(* For every Data and every power-of-two DEPTH: a tick() of the generated  *)
(* simulator is one clock edge of the RTL, what a harness reads between    *)
(* ticks are the outputs of that edge, and the tasks read off the          *)
(* registers form a bounded FIFO.                                          *)
(***************************************************************************)
EXTENDS VerilatedTb, SequenceTheorems, TLAPS

Slots == 0 .. DEPTH - 1

\* The masks of the generated code, as case distinctions.
LEMMA MaskWraps ==
  ASSUME NEW p \in Slots
  PROVE  (p + 1) % DEPTH = IF p = DEPTH - 1 THEN 0 ELSE p + 1
<1> USE VerilatedAssumption
<1>1. CASE p = DEPTH - 1
  BY <1>1 DEF Slots
<1>2. CASE p # DEPTH - 1
  BY <1>2 DEF Slots
<1> QED BY <1>1, <1>2

LEMMA MaskOfSum ==
  ASSUME NEW n \in 0 .. 2 * DEPTH - 1
  PROVE  n % DEPTH = IF n < DEPTH THEN n ELSE n - DEPTH
<1> USE VerilatedAssumption
<1>1. CASE n < DEPTH
  BY <1>1
<1>2. CASE n >= DEPTH
  <2> DEFINE r == n - DEPTH
  <2>1. r \in 0 .. DEPTH - 1 /\ n = DEPTH + r
    BY <1>2
  <2>2. (DEPTH + r) % DEPTH = r
    BY <2>1
  <2> QED BY <1>2, <2>1, <2>2
<1> QED BY <1>1, <1>2

-------------------------------------------------------------------------------
(***************************************************************************)
(* The inductive invariant: the registers describe a ring, the stored      *)
(* outputs belong to them, the ports carry at most one request, and when   *)
(* clk is about to rise it was seen low and the wires are the ports'.      *)
(***************************************************************************)
Ring ==
  /\ mem \in [Slots -> Data]
  /\ head \in Slots /\ tail \in Slots
  /\ count \in 0 .. DEPTH
  /\ delivered \in Data
  /\ tail = IF head + count < DEPTH THEN head + count ELSE head + count - DEPTH

OutputsAgree ==
  /\ full = (count = DEPTH)
  /\ valid_out = (count # 0)
  /\ data_out = mem[head]

PortsOK ==
  /\ reset \in BOOLEAN /\ host_mode \in BOOLEAN
  /\ host_push_req \in BOOLEAN /\ host_pop_req \in BOOLEAN
  /\ host_data_in \in Data
  /\ ~(host_push_req /\ host_pop_req)
  /\ reset => ~host_push_req /\ ~host_pop_req

WiresAgree ==
  /\ push_req = (host_mode /\ host_push_req)
  /\ data_in = IF host_mode THEN host_data_in ELSE ZERO
  /\ pop_req = (host_mode /\ host_pop_req)

Phase ==
  /\ pc \in {"boot", "fall", "rise", "ports"}
  /\ clk \in {0, 1} /\ clklast = clk
  /\ pc = "rise" => clk = 0 /\ WiresAgree

VtInv == Ring /\ OutputsAgree /\ PortsOK /\ Phase

-------------------------------------------------------------------------------
(***************************************************************************)
(* The waiting tasks read off the registers.  SlotFrom(h, k) is where the  *)
(* k-th task is in a ring whose head is h.                                 *)
(***************************************************************************)
SlotFrom(h, k) == IF h + k <= DEPTH THEN h + k - 1 ELSE h + k - 1 - DEPTH

WaitingIn(m, h, c) == [k \in 1 .. c |-> m[(h + k - 1) % DEPTH]]

LEMMA WaitingInProperties ==
  ASSUME NEW m \in [Slots -> Data], NEW h \in Slots, NEW c \in 0 .. DEPTH
  PROVE  /\ WaitingIn(m, h, c) \in Seq(Data)
         /\ Len(WaitingIn(m, h, c)) = c
         /\ \A k \in 1 .. c : /\ SlotFrom(h, k) \in Slots
                             /\ WaitingIn(m, h, c)[k] = m[SlotFrom(h, k)]
<1> USE VerilatedAssumption
<1> DEFINE w == WaitingIn(m, h, c)
<1>1. ASSUME NEW k \in 1 .. c
      PROVE  (h + k - 1) % DEPTH = SlotFrom(h, k) /\ SlotFrom(h, k) \in Slots
  <2> DEFINE n == h + k - 1
  <2>1. n \in 0 .. 2 * DEPTH - 1
    BY DEF Slots
  <2>2. n % DEPTH = IF n < DEPTH THEN n ELSE n - DEPTH
    <3> HIDE DEF n
    <3> QED BY <2>1, MaskOfSum
  <2> QED BY <2>1, <2>2 DEF Slots, SlotFrom
<1>2. w \in [1 .. c -> Data]
  BY <1>1 DEF WaitingIn
<1>3. w \in Seq(Data)
  BY <1>2, SeqDef
<1>4. Len(w) = c
  BY <1>2, <1>3, LenProperties
<1> QED BY <1>1, <1>3, <1>4 DEF WaitingIn

\* The same of the registers, now and after a step.
LEMMA WaitingNow ==
  ASSUME Ring
  PROVE  /\ Waiting \in Seq(Data)
         /\ Len(Waiting) = count
         /\ \A k \in 1 .. count : /\ SlotFrom(head, k) \in Slots
                                 /\ Waiting[k] = mem[SlotFrom(head, k)]
<1>1. Waiting = WaitingIn(mem, head, count)
  BY DEF Waiting, WaitingIn
<1> QED BY <1>1, WaitingInProperties DEF Ring

LEMMA WaitingNext ==
  ASSUME Ring'
  PROVE  /\ Waiting' \in Seq(Data)
         /\ Len(Waiting') = count'
         /\ \A k \in 1 .. count' : /\ SlotFrom(head', k) \in Slots
                                  /\ Waiting'[k] = mem'[SlotFrom(head', k)]
<1>1. Waiting' = WaitingIn(mem', head', count')
  BY DEF Waiting, WaitingIn
<1> QED BY <1>1, WaitingInProperties DEF Ring

(***************************************************************************)
(* An accepted push: the word goes behind every waiting task, into a slot  *)
(* none of them uses.                                                      *)
(***************************************************************************)
LEMMA WaitingPush ==
  ASSUME Ring, Ring', count < DEPTH, count' = count + 1, head' = head,
         NEW d \in Data, mem' = [mem EXCEPT ![tail] = d]
  PROVE  Waiting' = Append(Waiting, d)
<1> USE VerilatedAssumption
<1>1. /\ Append(Waiting, d) \in Seq(Data)
      /\ Len(Append(Waiting, d)) = count + 1
      /\ \A k \in 1 .. count : Append(Waiting, d)[k] = Waiting[k]
      /\ Append(Waiting, d)[count + 1] = d
  BY WaitingNow, AppendProperties
<1>2. /\ Waiting' \in Seq(Data)
      /\ Len(Waiting') = count + 1
      /\ \A k \in 1 .. count + 1 : SlotFrom(head', k) \in Slots /\ Waiting'[k] = mem'[SlotFrom(head', k)]
  BY WaitingNext
<1>3. \A k : SlotFrom(head', k) = SlotFrom(head, k)
  OBVIOUS
<1>4. ASSUME NEW k \in 1 .. count
      PROVE  Waiting'[k] = Waiting[k]
  <2>1. SlotFrom(head, k) \in Slots /\ SlotFrom(head, k) # tail
    BY DEF Ring, SlotFrom, Slots
  <2>2. Waiting[k] = mem[SlotFrom(head, k)] /\ Waiting'[k] = mem'[SlotFrom(head, k)]
    BY <1>2, <1>3, WaitingNow DEF Ring
  <2> QED BY <2>1, <2>2 DEF Ring
<1>5. Waiting'[count + 1] = d
  <2>1. SlotFrom(head, count + 1) = tail
    BY DEF Ring, SlotFrom, Slots
  <2>2. Waiting'[count + 1] = mem'[SlotFrom(head, count + 1)]
    BY <1>2, <1>3 DEF Ring
  <2> QED BY <2>1, <2>2 DEF Ring
<1>6. \A k \in 1 .. count + 1 : Waiting'[k] = Append(Waiting, d)[k]
  BY <1>1, <1>4, <1>5 DEF Ring
<1> QED BY <1>1, <1>2, <1>6, SeqEqual

(***************************************************************************)
(* An accepted pop: data_out shows the oldest task, and it alone leaves.   *)
(***************************************************************************)
LEMMA WaitingPop ==
  ASSUME Ring, Ring', count # 0, count' = count - 1, mem' = mem,
         head' = IF head = DEPTH - 1 THEN 0 ELSE head + 1
  PROVE  Waiting # <<>> /\ mem[head] = Head(Waiting) /\ Waiting' = Tail(Waiting)
<1> USE VerilatedAssumption
<1>1. count \in 1 .. DEPTH
  BY DEF Ring
<1>2. Waiting # <<>>
  BY <1>1, WaitingNow
<1>3. mem[head] = Head(Waiting)
  <2>1. SlotFrom(head, 1) = head
    BY DEF Ring, SlotFrom, Slots
  <2> QED BY <1>1, <1>2, <2>1, WaitingNow
<1>4. /\ Tail(Waiting) \in Seq(Data)
      /\ Len(Tail(Waiting)) = count - 1
      /\ \A k \in 1 .. count - 1 : Tail(Waiting)[k] = Waiting[k + 1]
  BY <1>1, <1>2, WaitingNow, HeadTailProperties
<1>5. /\ Waiting' \in Seq(Data)
      /\ Len(Waiting') = count - 1
      /\ \A k \in 1 .. count - 1 : Waiting'[k] = mem[SlotFrom(head', k)]
  BY WaitingNext
<1>6. ASSUME NEW k \in 1 .. count - 1
      PROVE  Waiting'[k] = Tail(Waiting)[k]
  <2>1. SlotFrom(head', k) = SlotFrom(head, k + 1)
    BY <1>1 DEF Ring, SlotFrom, Slots
  <2>2. Waiting[k + 1] = mem[SlotFrom(head, k + 1)]
    BY <1>1, WaitingNow
  <2> QED BY <1>4, <1>5, <2>1, <2>2
<1> QED BY <1>2, <1>3, <1>4, <1>5, <1>6, SeqEqual

-------------------------------------------------------------------------------
(***************************************************************************)
(* A clocked evaluation, _sequent__TOP__2, for wires with at most one      *)
(* request and none under reset: one edge of the RTL, after which the      *)
(* stored outputs are again those of the registers.                        *)
(***************************************************************************)
WiresOK ==
  /\ reset \in BOOLEAN /\ push_req \in BOOLEAN /\ pop_req \in BOOLEAN
  /\ data_in \in Data
  /\ ~(push_req /\ pop_req)

LEMMA SequentKeepsRing ==
  ASSUME Ring, OutputsAgree, WiresOK, Sequent
  PROVE  Ring' /\ OutputsAgree'
<1> USE VerilatedAssumption
<1>1. Ring'
  <2>1. CASE reset
    BY <2>1 DEF Ring, Sequent, Store, Slots
  <2>2. CASE ~reset /\ Pushes
    <3>1. ~Pops /\ count < DEPTH
      <4>1. ~pop_req /\ count # DEPTH
        BY <2>2 DEF Pushes, WiresOK, OutputsAgree
      <4> QED BY <4>1 DEF Pops, Ring
    <3>2. count' = count + 1
      BY <2>2, <3>1 DEF Sequent, Ring
    <3>3. tail' = IF tail = DEPTH - 1 THEN 0 ELSE tail + 1
      BY <2>2, MaskWraps DEF Sequent, Ring
    <3>4. head' = head /\ delivered' = delivered /\ mem' = [mem EXCEPT ![tail] = data_in]
      BY <2>2, <3>1 DEF Sequent, Store
    <3> QED BY <3>1, <3>2, <3>3, <3>4 DEF Ring, Slots, WiresOK
  <2>3. CASE ~reset /\ Pops
    <3>1. count \in 1 .. DEPTH /\ ~Pushes
      BY <2>3 DEF Pushes, Pops, WiresOK, Ring
    <3>2. head' = IF head = DEPTH - 1 THEN 0 ELSE head + 1
      BY <2>3, MaskWraps DEF Sequent, Ring
    <3>3. count' = count - 1 /\ tail' = tail /\ mem' = mem /\ delivered' = data_out
      BY <2>3, <3>1 DEF Sequent, Store
    <3> QED BY <3>1, <3>2, <3>3 DEF Ring, Slots, OutputsAgree
  <2>4. CASE ~reset /\ ~Pushes /\ ~Pops
    BY <2>4 DEF Ring, Sequent, Store
  <2> QED BY <2>1, <2>2, <2>3, <2>4
<1>2. OutputsAgree'
  BY DEF Sequent, StoreOutputs, OutputsAgree
<1> QED BY <1>1, <1>2

LEMMA OutputsOfCore ==
  ASSUME Ring, OutputsAgree
  PROVE  full = Tb!full /\ valid_out = Tb!valid_out /\ data_out = Tb!data_out
BY DEF Ring, OutputsAgree, Slots, Tb!full, Tb!valid_out, Tb!data_out, Tb!MemAt, Tb!Slots

LEMMA SequentIsEdge ==
  ASSUME Ring, OutputsAgree, WiresOK, Sequent
  PROVE  IF reset THEN Tb!Reset ELSE Tb!CoreEdge(push_req, data_in, pop_req)
<1> USE VerilatedAssumption
<1>1. Ring'
  BY SequentKeepsRing
<1>2. ASSUME reset PROVE Tb!Reset
  <2>1. head' = 0 /\ tail' = 0 /\ count' = 0 /\ mem' = mem /\ delivered' = delivered
    BY <1>2 DEF Sequent, Store
  <2>2. Waiting' = <<>>
    BY <1>1, <2>1, WaitingNext, EmptySeq
  <2> QED BY <2>1, <2>2 DEF Tb!Reset
<1>3. ASSUME ~reset, Pushes PROVE push_req /\ Tb!PushEdge(data_in)
  <2>1. ~Pops /\ count < DEPTH /\ push_req
    <3>1. ~pop_req /\ push_req /\ count # DEPTH
      BY <1>3 DEF Pushes, WiresOK, OutputsAgree
    <3> QED BY <3>1 DEF Pops, Ring
  <2>2. /\ count' = count + 1 /\ tail' = (tail + 1) % DEPTH
        /\ head' = head /\ delivered' = delivered /\ mem' = [mem EXCEPT ![tail] = data_in]
    BY <1>3, <2>1 DEF Sequent, Store, Ring
  <2>3. Waiting' = Append(Waiting, data_in)
    BY <1>1, <2>1, <2>2, WaitingPush DEF WiresOK
  <2> QED
    BY <2>1, <2>2, <2>3
    DEF Tb!PushEdge, Tb!full, Tb!MemWith, Tb!Slots, Tb!NextPtr, Ring, Slots
<1>4. ASSUME ~reset, Pops PROVE pop_req /\ Tb!PopEdge
  <2>1. count # 0 /\ ~Pushes /\ pop_req
    BY <1>4 DEF Pushes, Pops, WiresOK
  <2>2. /\ count' = count - 1 /\ head' = (head + 1) % DEPTH
        /\ tail' = tail /\ mem' = mem /\ delivered' = data_out
    BY <1>4, <2>1 DEF Sequent, Store
  <2>3. head' = IF head = DEPTH - 1 THEN 0 ELSE head + 1
    BY <2>2, MaskWraps DEF Ring
  <2>4. Waiting' = Tail(Waiting)
    BY <1>1, <2>1, <2>2, <2>3, WaitingPop
  <2> QED
    BY <2>1, <2>2, <2>4, OutputsOfCore DEF Tb!PopEdge, Tb!valid_out, Tb!NextPtr
<1>5. ASSUME ~reset, ~Pushes, ~Pops
      PROVE  ~(push_req /\ ~Tb!full) /\ ~(pop_req /\ Tb!valid_out) /\ UNCHANGED Tb!coreVars
  <2>1. UNCHANGED <<mem, head, tail, count, delivered>>
    BY <1>5 DEF Sequent, Store
  <2>2. Waiting' = Waiting
    BY <2>1 DEF Waiting
  <2> QED
    BY <1>5, <2>1, <2>2, OutputsOfCore
    DEF Pushes, Pops, Tb!coreVars, Tb!valid_out
<1> QED BY <1>2, <1>3, <1>4, <1>5 DEF Tb!CoreEdge

-------------------------------------------------------------------------------
(***************************************************************************)
(* The invariant of all evaluations.                                       *)
(***************************************************************************)
LEMMA VtInvInit == VtInit => VtInv
<1> SUFFICES ASSUME VtInit PROVE VtInv
  OBVIOUS
<1> USE VerilatedAssumption, WordAssumption
<1>1. Ring
  BY DEF VtInit, Ring, Slots
<1>2. OutputsAgree
  <2>1. mem[head] = ZERO /\ count # DEPTH /\ count = 0
    BY DEF VtInit
  <2> QED BY <2>1 DEF VtInit, OutputsAgree
<1>3. PortsOK /\ Phase
  BY DEF VtInit, PortsOK, Phase
<1> QED BY <1>1, <1>2, <1>3 DEF VtInv

\* The ports name at most one request, none under reset; so do the wires.
LEMMA WiresFromPorts ==
  ASSUME PortsOK, WiresAgree
  PROVE  WiresOK /\ (reset => ~push_req /\ ~pop_req)
BY WordAssumption DEF PortsOK, WiresAgree, WiresOK

LEMMA VtInvFirstEval ==
  ASSUME VtInv, FirstEval
  PROVE  VtInv'
<1>1. Ring' /\ OutputsAgree'
  BY DEF VtInv, Ring, OutputsAgree, FirstEval, queueRegs
<1>2. PortsOK'
  BY DEF VtInv, PortsOK, FirstEval, ports
<1>3. Phase'
  BY DEF VtInv, Phase, FirstEval
<1> QED BY <1>1, <1>2, <1>3 DEF VtInv

LEMMA VtInvSetPorts ==
  ASSUME VtInv, SetPorts
  PROVE  VtInv'
<1>1. Ring' /\ OutputsAgree'
  BY DEF VtInv, Ring, OutputsAgree, SetPorts, queueRegs, outputs
<1>2. PortsOK'
  BY DEF PortsOK, SetPorts
<1>3. Phase'
  BY DEF VtInv, Phase, SetPorts
<1> QED BY <1>1, <1>2, <1>3 DEF VtInv

LEMMA VtInvFall ==
  ASSUME VtInv, Fall
  PROVE  VtInv' /\ UNCHANGED <<queueRegs, otherRegs>>
<1>1. UNCHANGED <<queueRegs, otherRegs, outputs, ports>> /\ clk' = 0 /\ clklast' = 0 /\ Combo
  BY DEF Fall, Eval
<1>2. Ring' /\ OutputsAgree'
  BY <1>1 DEF VtInv, Ring, OutputsAgree, queueRegs, outputs
<1>3. PortsOK'
  BY <1>1 DEF VtInv, PortsOK, ports
<1>4. Phase'
  <2>1. WiresAgree'
    BY <1>1 DEF Combo, WiresAgree, ports
  <2> QED BY <1>1, <2>1 DEF Fall, Phase
<1> QED BY <1>1, <1>2, <1>3, <1>4 DEF VtInv

LEMMA VtInvRise ==
  ASSUME VtInv, Rise
  PROVE  VtInv' /\ WiresAgree /\ WiresOK /\ Sequent
<1>1. Sequent /\ UNCHANGED ports /\ clk' = 1 /\ clklast' = 1 /\ pc' = "ports" /\ WiresAgree
  BY DEF Rise, Eval, VtInv, Phase
<1>2. WiresOK
  BY <1>1, WiresFromPorts DEF VtInv
<1>3. Ring' /\ OutputsAgree'
  BY <1>1, <1>2, SequentKeepsRing DEF VtInv
<1>4. PortsOK'
  BY <1>1 DEF VtInv, PortsOK, ports
<1>5. Phase'
  BY <1>1 DEF Phase
<1> QED BY <1>1, <1>2, <1>3, <1>4, <1>5 DEF VtInv

LEMMA VtInvStep ==
  ASSUME VtInv, [VtNext]_vtVars
  PROVE  VtInv'
<1>1. CASE UNCHANGED vtVars
  <2>1. Ring' /\ OutputsAgree'
    BY <1>1 DEF VtInv, Ring, OutputsAgree, vtVars, queueRegs, outputs
  <2>2. PortsOK'
    BY <1>1 DEF VtInv, PortsOK, vtVars, ports
  <2>3. Phase'
    BY <1>1 DEF VtInv, Phase, WiresAgree, vtVars, ports, wires
  <2> QED BY <2>1, <2>2, <2>3 DEF VtInv
<1> QED
  BY <1>1, VtInvFirstEval, VtInvSetPorts, VtInvFall, VtInvRise DEF VtNext

LEMMA VtKeepsVtInv == VtSpec => []VtInv
<1>1. VtInit => VtInv
  BY VtInvInit
<1>2. VtInv /\ [VtNext]_vtVars => VtInv'
  BY VtInvStep
<1> QED BY <1>1, <1>2, PTL DEF VtSpec

-------------------------------------------------------------------------------
(***************************************************************************)
(* What the registers of the generated simulator hold is the RTL's ring,   *)
(* the outputs a harness reads between ticks belong to them, and the wires *)
(* the next edge will use are what the ports say.                          *)
(***************************************************************************)
THEOREM VtKeepsTypeOK == VtSpec => []VtTypeOK
<1>1. VtInv => VtTypeOK
  <2> SUFFICES ASSUME VtInv PROVE VtTypeOK
    OBVIOUS
  <2> USE VerilatedAssumption
  <2>1. Tb!CoreTypeOK /\ Tb!PointersAgree
    BY WaitingNow DEF VtInv, Ring, Slots, Tb!CoreTypeOK, Tb!Slots, Tb!Ptrs, Tb!PointersAgree
  <2>2. Tb!ContentsAgree
    <3>1. \A k \in 1 .. count : Tb!SlotOf(k) = SlotFrom(head, k)
      BY DEF Tb!SlotOf, SlotFrom
    <3> QED BY <3>1, WaitingNow DEF VtInv, Tb!ContentsAgree
  <2>3. <<full, valid_out, data_out>> = <<Tb!full, Tb!valid_out, Tb!data_out>>
    BY OutputsOfCore DEF VtInv
  <2>4. /\ <<clk, clklast>> \in {<<0, 0>>, <<1, 1>>}
        /\ pc = "rise" => push_req = (host_mode /\ host_push_req)
                          /\ pop_req = (host_mode /\ host_pop_req)
    BY DEF VtInv, Phase, WiresAgree
  <2> QED BY <2>1, <2>2, <2>3, <2>4 DEF VtTypeOK, Tb!RingInv
<1> QED BY <1>1, VtKeepsVtInv, PTL

\* The evaluations other than the rising one leave the waiting tasks alone.
LEMMA NotRising ==
  ASSUME VtInv, [VtNext]_vtVars, ~Rise
  PROVE  UNCHANGED <<queueRegs, otherRegs>> /\ Waiting' = Waiting
<1>1. UNCHANGED <<queueRegs, otherRegs>>
  BY VtInvFall DEF VtNext, FirstEval, SetPorts, vtVars
<1> QED BY <1>1 DEF queueRegs, Waiting

(***************************************************************************)
(* tick() of both verilator_main.cpp: of its two evaluations the second is *)
(* one rising edge of core, distributor and arbiter under the ports the    *)
(* harness set before it, and no other evaluation moves a register.        *)
(***************************************************************************)
THEOREM VtTickIsEdge == VtSpec => TickIsEdge
<1> DEFINE A == IF pc # "rise" THEN UNCHANGED <<queueRegs, otherRegs>>
                ELSE IF reset THEN /\ Tb!Reset
                                   /\ ~buffered_valid' /\ buffered_data' = ZERO /\ in_data_reg' = ZERO
                                   /\ ~rr' /\ grant_out' = 0
                ELSE /\ Tb!CoreEdge(host_mode /\ host_push_req,
                                    IF host_mode THEN host_data_in ELSE ZERO,
                                    host_mode /\ host_pop_req)
                     /\ Tb!DistributorEdge
                     /\ Tb!ArbiterEdge
<1>1. ASSUME VtInv, [VtNext]_vtVars PROVE [A]_vtVars
  <2>1. CASE Rise
    <3>1. /\ pc = "rise" /\ WiresAgree /\ Sequent
          /\ IF reset THEN Tb!Reset ELSE Tb!CoreEdge(push_req, data_in, pop_req)
      BY <1>1, <2>1, VtInvRise, SequentIsEdge DEF Rise, VtInv
    <3>2. CASE reset
      <4>1. /\ ~buffered_valid' /\ buffered_data' = ZERO
            /\ in_data_reg' = ZERO /\ ~rr' /\ grant_out' = 0
        BY <3>1, <3>2 DEF Sequent
      <4> QED BY <3>1, <3>2, <4>1
    <3>3. CASE ~reset
      <4>1. Tb!CoreEdge(host_mode /\ host_push_req,
                        IF host_mode THEN host_data_in ELSE ZERO,
                        host_mode /\ host_pop_req)
        BY <3>1, <3>3 DEF WiresAgree
      <4>2. Tb!DistributorEdge /\ Tb!ArbiterEdge
        BY <1>1, <3>1, <3>3, OutputsOfCore
        DEF VtInv, Sequent, Tb!DistributorEdge, Tb!ArbiterEdge
      <4> QED BY <3>1, <3>3, <4>1, <4>2
    <3> QED BY <3>2, <3>3
  <2>2. CASE ~Rise
    <3>1. UNCHANGED <<queueRegs, otherRegs>>
      BY <1>1, <2>2, NotRising
    <3>2. UNCHANGED vtVars \/ pc # "rise"
      BY <1>1, <2>2 DEF VtNext, FirstEval, SetPorts, Fall
    <3> QED BY <3>1, <3>2
  <2> QED BY <2>1, <2>2
<1> HIDE DEF A
<1>2. VtInv /\ [VtNext]_vtVars => [A]_vtVars
  BY <1>1
<1>3. [][A]_vtVars => TickIsEdge
  BY DEF A, TickIsEdge
<1> QED BY <1>2, <1>3, VtKeepsVtInv, PTL DEF VtSpec

(***************************************************************************)
(* Hence what Verilator made of hb_task_queue_core.sv, driven by tick(),   *)
(* is a bounded FIFO.                                                      *)
(***************************************************************************)
THEOREM VtImplementsFifo == VtSpec => ImplementsFifo
<1>1. VtInit => Fifo!Init
  <2> SUFFICES ASSUME VtInit PROVE Fifo!Init
    OBVIOUS
  <2>1. Ring /\ count = 0 /\ delivered = ZERO
    BY VtInvInit DEF VtInv, VtInit
  <2>2. Waiting = <<>>
    BY <2>1, WaitingNow, EmptySeq
  <2> QED BY <2>1, <2>2 DEF Fifo!Init
<1>2. ASSUME VtInv, [VtNext]_vtVars PROVE [Fifo!Next]_Fifo!fifoVars
  <2>1. CASE Rise
    <3>1. /\ Ring /\ Ring' /\ WiresOK
          /\ IF reset THEN Tb!Reset ELSE Tb!CoreEdge(push_req, data_in, pop_req)
      BY <1>2, <2>1, VtInvRise, SequentIsEdge DEF VtInv
    <3>2. CASE Tb!Reset
      BY <3>2 DEF Tb!Reset, Fifo!Next, Fifo!Clear
    <3>3. CASE Tb!PushEdge(data_in)
      <4>1. Fifo!Push(data_in)
        BY <3>1, <3>3, WaitingNow, VerilatedAssumption
        DEF Tb!PushEdge, Tb!full, Fifo!Push, Ring
      <4> QED BY <3>1, <4>1 DEF Fifo!Next, WiresOK
    <3>4. CASE Tb!PopEdge
      <4>1. Fifo!Pop
        <5>1. /\ count # 0 /\ count' = count - 1 /\ mem' = mem
              /\ head' = IF head = DEPTH - 1 THEN 0 ELSE head + 1
              /\ delivered' = mem[head]
          BY <3>1, <3>4, MaskWraps
          DEF Tb!PopEdge, Tb!valid_out, Tb!NextPtr, Tb!data_out, Tb!MemAt, Tb!Slots, Slots, Ring
        <5> QED BY <3>1, <5>1, WaitingPop DEF Fifo!Pop
      <4> QED BY <4>1 DEF Fifo!Next
    <3>5. CASE UNCHANGED Tb!coreVars
      BY <3>5 DEF Tb!coreVars, Fifo!fifoVars
    <3> QED BY <3>1, <3>2, <3>3, <3>4, <3>5 DEF Tb!CoreEdge
  <2>2. CASE ~Rise
    BY <1>2, <2>2, NotRising DEF queueRegs, Fifo!fifoVars
  <2> QED BY <2>1, <2>2
<1>3. VtInv /\ [VtNext]_vtVars => [Fifo!Next]_Fifo!fifoVars
  BY <1>2
<1> QED BY <1>1, <1>3, VtKeepsVtInv, PTL DEF VtSpec, ImplementsFifo, Fifo!Spec

===============================================================================
