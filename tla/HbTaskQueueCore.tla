---------------------------- MODULE HbTaskQueueCore ----------------------------
(***************************************************************************)
(* hw/rtl/hb_task_queue_core.sv: a circular buffer of DEPTH words with two *)
(* pointers and an occupancy counter (sw/sw_hw/rtl holds the same code).   *)
(*                                                                         *)
(* One step is one rising clock edge.  The registers head, tail, count and *)
(* mem are the RTL's; tasks and delivered are history: the tasks accepted  *)
(* and not yet delivered, and the word data_out showed when the last pop   *)
(* was accepted.  No guard reads them; they exist so that the registers    *)
(* can be compared with TaskFifo.                                          *)
(*                                                                         *)
(* CoreInit is the state a reset leaves: both harnesses hold reset for     *)
(* four edges before any request.  Only mem, which reset leaves alone, is  *)
(* arbitrary.  An edge with reset low and no request changes nothing and   *)
(* is left to stuttering.                                                  *)
(***************************************************************************)
EXTENDS TaskWords, Naturals, Sequences

CONSTANTS
  DEPTH,     \* the parameter DEPTH
  PTR_SPAN   \* 2^PTR_W = 2^$clog2(DEPTH): the values a pointer takes

(***************************************************************************)
(* $clog2 rounds up, so PTR_SPAN is at least DEPTH; the two are equal      *)
(* exactly when DEPTH is a power of two, as the DEPTH = 16 of both         *)
(* testbenches is.  ($clog2(1) = 0 declares a pointer [-1:0]; excluded.)   *)
(***************************************************************************)
ASSUME CoreAssumption ==
  /\ DEPTH \in Nat \ {0, 1}
  /\ PTR_SPAN \in Nat
  /\ DEPTH <= PTR_SPAN

PowerOfTwoDepth == PTR_SPAN = DEPTH

VARIABLES mem, head, tail, count, tasks, delivered

coreVars == <<mem, head, tail, count, tasks, delivered>>

Slots == 0 .. DEPTH - 1
Ptrs == 0 .. PTR_SPAN - 1

\* Fault: full raised one task too late.
fullLate == count > DEPTH

full == count = DEPTH
valid_out == count # 0

\* An index beyond the array reads as zero in the Verilator build.
MemAt(p) == IF p \in Slots THEN mem[p] ELSE ZERO
data_out == MemAt(head)

\* Writing beyond the array is ignored.
MemWith(p, d) == IF p \in Slots THEN [mem EXCEPT ![p] = d] ELSE mem

\* Fault: a pointer that does not wrap.
NextPtrSticks(p) == IF p = PTR_SPAN - 1 THEN p ELSE p + 1

\* PTR_W-bit addition.
NextPtr(p) == (p + 1) % PTR_SPAN

CoreInit ==
  /\ mem \in [Slots -> Data]
  /\ head = 0
  /\ tail = 0
  /\ count = 0
  /\ tasks = <<>>
  /\ delivered = ZERO

Reset ==
  /\ head' = 0
  /\ tail' = 0
  /\ count' = 0
  /\ tasks' = <<>>
  /\ UNCHANGED <<mem, delivered>>

\* push_req alone, accepted.
PushEdge(data_in) ==
  /\ ~full
  /\ mem' = MemWith(tail, data_in)
  /\ tail' = NextPtr(tail)
  /\ count' = count + 1
  /\ tasks' = Append(tasks, data_in)
  /\ UNCHANGED <<head, delivered>>

\* pop_req alone, accepted.
PopEdge ==
  /\ valid_out
  /\ head' = NextPtr(head)
  /\ count' = count - 1
  /\ tasks' = Tail(tasks)
  /\ delivered' = data_out
  /\ UNCHANGED <<mem, tail>>

(***************************************************************************)
(* Both requests, both accepted.  Of the two nonblocking assignments to    *)
(* count the later one, the pop's, takes effect.                           *)
(***************************************************************************)
PushPopEdge(data_in) ==
  /\ ~full
  /\ valid_out
  /\ mem' = MemWith(tail, data_in)
  /\ tail' = NextPtr(tail)
  /\ head' = NextPtr(head)
  /\ count' = count - 1
  /\ tasks' = Append(Tail(tasks), data_in)
  /\ delivered' = data_out

(***************************************************************************)
(* The environment both harnesses are: one request at a time.              *)
(***************************************************************************)
CoreNext ==
  \/ Reset
  \/ \E data_in \in Data : PushEdge(data_in)
  \/ PopEdge

CoreSpec == CoreInit /\ [][CoreNext]_coreVars

(***************************************************************************)
(* Every environment the ports admit: both requests may be high together.  *)
(***************************************************************************)
FreeCoreNext == CoreNext \/ \E data_in \in Data : PushPopEdge(data_in)

FreeCoreSpec == CoreInit /\ [][FreeCoreNext]_coreVars

-------------------------------------------------------------------------------
(***************************************************************************)
(* Properties.                                                             *)
(***************************************************************************)

\* The registers keep their ranges: the pointers their PTR_W bits, count
\* the values 0 .. DEPTH for which its width was chosen.
CoreTypeOK ==
  /\ mem \in [Slots -> Data]
  /\ head \in Ptrs
  /\ tail \in Ptrs
  /\ count \in 0 .. DEPTH
  /\ tasks \in Seq(Data)
  /\ delivered \in Data

\* The pointers and the counter tell the same story: tail is count slots
\* after head, round the end of the array.
PointersAgree ==
  tail = IF head + count < DEPTH THEN head + count ELSE head + count - DEPTH

\* The i-th waiting task sits i - 1 slots after head, so no push has
\* overwritten it and no pop has skipped it.
SlotOf(i) == IF head + i <= DEPTH THEN head + i - 1 ELSE head + i - 1 - DEPTH

ContentsAgree ==
  /\ Len(tasks) = count
  /\ \A i \in 1 .. count : mem[SlotOf(i)] = tasks[i]

\* The inductive invariant behind the refinement: the buffer holds exactly
\* the tasks accepted and not delivered, in order.
RingInv == CoreTypeOK /\ PointersAgree /\ ContentsAgree

\* The core implements the abstract queue: a push is accepted only when
\* there is room and goes behind every waiting task, a pop only when a task
\* waits, and data_out shows the oldest task when it is accepted.
Fifo == INSTANCE TaskFifo WITH CAPACITY <- DEPTH
ImplementsFifo == Fifo!Spec

===============================================================================
