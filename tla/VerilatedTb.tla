------------------------------ MODULE VerilatedTb ------------------------------
(***************************************************************************)
(* The simulator between the harnesses and the RTL: tick() of the two      *)
(* verilator_main.cpp, and the eval() Verilator generated for              *)
(* tb_task_queue (obj_dir/Vtb_task_queue.cpp, the same in hw and           *)
(* sw/sw_hw).                                                              *)
(*                                                                         *)
(* Every other module takes a tick() for one rising edge that sees the     *)
(* ports as the harness set them and leaves fresh outputs to read.  Here   *)
(* that is what is checked.  A tick() is two evaluations; each compares    *)
(* clk with the clk of the evaluation before, runs the clocked part from   *)
(* request wires computed by an EARLIER evaluation, and recomputes those   *)
(* wires only afterwards; full, valid_out and data_out are stored values,  *)
(* rewritten by the clocked part alone.                                    *)
(*                                                                         *)
(* DEPTH is a power of two, so that the masks 0xf and 0x1f are what the    *)
(* widths of the pointers and of count make of them.                       *)
(***************************************************************************)
EXTENDS TaskWords, Naturals, Sequences

CONSTANT DEPTH

ASSUME VerilatedAssumption == DEPTH \in Nat \ {0, 1}

VARIABLES
  pc,                                      \* where the harness is
  clk, reset, host_mode, host_push_req, host_data_in, host_pop_req,  \* ports
  full, valid_out, data_out,               \* output ports
  clklast,                                 \* __Vclklast__TOP__clk
  push_req, data_in, pop_req,              \* the wires into the core
  mem, head, tail, count,                  \* dut_queue
  buffered_valid, buffered_data, in_data_reg,   \* distributor
  rr, grant_out,                           \* arbiter
  delivered                                \* history, as in the core

ports == <<reset, host_mode, host_push_req, host_data_in, host_pop_req>>
outputs == <<full, valid_out, data_out>>
wires == <<push_req, data_in, pop_req>>
queueRegs == <<mem, head, tail, count, delivered>>
otherRegs == <<buffered_valid, buffered_data, in_data_reg, rr, grant_out>>
vtVars == <<pc, clk, ports, outputs, clklast, wires, queueRegs, otherRegs>>

\* The constructor clears everything; then main sets the initial signals.
VtInit ==
  /\ pc = "boot"
  /\ clk = 0 /\ clklast = 0
  /\ reset = TRUE /\ host_mode = TRUE
  /\ host_push_req = FALSE /\ host_data_in = ZERO /\ host_pop_req = FALSE
  /\ full = FALSE /\ valid_out = FALSE /\ data_out = ZERO
  /\ push_req = FALSE /\ data_in = ZERO /\ pop_req = FALSE
  /\ mem = [s \in 0 .. DEPTH - 1 |-> ZERO]
  /\ head = 0 /\ tail = 0 /\ count = 0 /\ delivered = ZERO
  /\ buffered_valid = FALSE /\ buffered_data = ZERO /\ in_data_reg = ZERO
  /\ rr = FALSE /\ grant_out = 0

Pushes == push_req /\ ~full
Pops == pop_req /\ count # 0

\* Fault: the slot taken from tail after it was advanced (no __Vdlyvdim0).
StoreAtNewTail ==
  mem' = IF Pushes /\ ~reset THEN [mem EXCEPT ![tail'] = data_in] ELSE mem

Store ==
  mem' = IF Pushes /\ ~reset THEN [mem EXCEPT ![tail] = data_in] ELSE mem

\* Fault: the outputs left for the settling of the first evaluation.
StoreOutputsOnce == UNCHANGED outputs

\* The outputs are stored from the new registers.
StoreOutputs ==
  /\ full' = (count' = DEPTH)
  /\ valid_out' = (count' # 0)
  /\ data_out' = mem'[head']

\* _sequent__TOP__2: the __Vdly copies and their late write-back make its
\* right-hand sides the old values, as the nonblocking assignments want.
Sequent ==
  /\ tail' = IF reset THEN 0 ELSE IF Pushes THEN (tail + 1) % DEPTH ELSE tail
  /\ head' = IF reset THEN 0 ELSE IF Pops THEN (head + 1) % DEPTH ELSE head
  /\ count' = IF reset THEN 0
              ELSE IF Pops THEN count - 1
              ELSE IF Pushes THEN (count + 1) % (2 * DEPTH) ELSE count
  /\ Store
  /\ delivered' = IF Pops /\ ~reset THEN data_out ELSE delivered
  /\ grant_out' = IF reset \/ ~valid_out THEN 0 ELSE IF rr THEN 2 ELSE 1
  /\ rr' = IF reset THEN FALSE ELSE IF valid_out THEN ~rr ELSE rr
  /\ buffered_valid' = (~reset /\ valid_out /\ ~buffered_valid)
  /\ buffered_data' = IF reset THEN ZERO
                      ELSE IF valid_out /\ ~buffered_valid THEN in_data_reg ELSE buffered_data
  /\ in_data_reg' = IF reset THEN ZERO ELSE data_out
  /\ StoreOutputs

\* _combo__TOP__4
Combo ==
  /\ push_req' = (host_mode /\ host_push_req)
  /\ data_in' = IF host_mode THEN host_data_in ELSE ZERO
  /\ pop_req' = (host_mode /\ host_pop_req)

\* Fault: wires recomputed only behind a clocked evaluation.
EvalComboWhenClocked(level) ==
  /\ clk' = level
  /\ IF level = 1 /\ clklast = 0 THEN Sequent ELSE UNCHANGED <<queueRegs, otherRegs, outputs>>
  /\ IF level = 1 THEN Combo ELSE UNCHANGED wires
  /\ clklast' = level
  /\ UNCHANGED ports

\* _eval with clk set to level, which settles at once: _change_request
\* always returns 0.
Eval(level) ==
  /\ clk' = level
  /\ IF level = 1 /\ clklast = 0 THEN Sequent ELSE UNCHANGED <<queueRegs, otherRegs, outputs>>
  /\ Combo
  /\ clklast' = level
  /\ UNCHANGED ports

\* The first eval() settles the outputs and wires before it evaluates.
FirstEval ==
  /\ pc = "boot"
  /\ pc' = "fall"
  /\ clk' = clk /\ clklast' = clk
  /\ full' = (count = DEPTH) /\ valid_out' = (count # 0) /\ data_out' = mem[head]
  /\ Combo
  /\ UNCHANGED <<ports, queueRegs, otherRegs>>

\* Between two ticks a harness sets any ports, at most one request among
\* them and none under reset.
SetPorts ==
  /\ pc = "ports"
  /\ pc' = "fall"
  /\ \E req \in {"push", "pop", "none"} :
       /\ host_push_req' = (req = "push")
       /\ host_pop_req' = (req = "pop")
       /\ reset' \in (IF req = "none" THEN BOOLEAN ELSE {FALSE})
  /\ host_data_in' \in Data
  /\ host_mode' \in BOOLEAN
  /\ UNCHANGED <<clk, outputs, clklast, wires, queueRegs, otherRegs>>

\* tick(): clk = 0 and eval(), then clk = 1 and eval().
Fall == pc = "fall" /\ pc' = "rise" /\ Eval(0)
Rise == pc = "rise" /\ pc' = "ports" /\ Eval(1)

VtNext == FirstEval \/ SetPorts \/ Fall \/ Rise

VtSpec == VtInit /\ [][VtNext]_vtVars

-------------------------------------------------------------------------------
(***************************************************************************)
(* Properties.                                                             *)
(***************************************************************************)

\* The tasks that wait, read off the registers.
Waiting == [k \in 1 .. count |-> mem[(head + k - 1) % DEPTH]]

Tb == INSTANCE TbTaskQueue
        WITH PTR_SPAN <- DEPTH, tasks <- Waiting, steady <- FALSE, popped <- FALSE,
             granted <- 0, runBank <- 0

\* What a harness reads between ticks are the core's outputs of the last
\* edge, and the wires the next edge will use are what the ports say.
VtTypeOK ==
  /\ Tb!RingInv
  /\ <<clk, clklast>> \in {<<0, 0>>, <<1, 1>>}
  /\ <<full, valid_out, data_out>> = <<Tb!full, Tb!valid_out, Tb!data_out>>
  /\ pc = "rise" => push_req = (host_mode /\ host_push_req)
                    /\ pop_req = (host_mode /\ host_pop_req)

\* Each tick() is one rising edge of the RTL, under the ports as the
\* harness set them; no other evaluation moves a register.
TickIsEdge ==
  [][ IF pc # "rise" THEN UNCHANGED <<queueRegs, otherRegs>>
      ELSE IF reset THEN /\ Tb!Reset
                         /\ ~buffered_valid' /\ buffered_data' = ZERO /\ in_data_reg' = ZERO
                         /\ ~rr' /\ grant_out' = 0
      ELSE /\ Tb!CoreEdge(host_mode /\ host_push_req,
                          IF host_mode THEN host_data_in ELSE ZERO,
                          host_mode /\ host_pop_req)
           /\ Tb!DistributorEdge
           /\ Tb!ArbiterEdge ]_vtVars

\* Hence the generated code is a bounded queue of the waiting tasks.
Fifo == INSTANCE TaskFifo WITH CAPACITY <- DEPTH, tasks <- Waiting
ImplementsFifo == Fifo!Spec

===============================================================================
