------------------------------ MODULE TbTaskQueue ------------------------------
(***************************************************************************)
(* hw/testbenches/tb_task_queue.v: the queue core with the distributor and *)
(* the arbiter hung on its outputs, all on one clock.  Both look at        *)
(* valid_out and data_out; neither requests a pop, and the distributor's   *)
(* consumer is always ready.                                               *)
(*                                                                         *)
(* One step is one rising edge.  served_bank is assigned whatever          *)
(* grant_out is, so one variable stands for both; a bank is 1 or 2, and 0  *)
(* is no grant.  The last four variables are history, read by no guard.    *)
(***************************************************************************)
EXTENDS HbTaskQueueCore

VARIABLES
  buffered_valid, buffered_data, in_data_reg,   \* the distributor's registers
  rr, grant_out,                                \* the arbiter's
  steady,    \* the queue was not empty at the edge before
  popped,    \* the edge before accepted a pop
  granted,   \* the bank granted last
  runBank    \* the bank granted first since the queue was last empty

distributorVars == <<buffered_valid, buffered_data, in_data_reg>>
arbiterVars == <<rr, grant_out>>
tbHistory == <<steady, popped, granted, runBank>>
tbVars == <<coreVars, distributorVars, arbiterVars, tbHistory>>

Banks == {1, 2}

TbInit ==
  /\ CoreInit
  /\ buffered_valid = FALSE
  /\ buffered_data = ZERO
  /\ in_data_reg = ZERO
  /\ rr = FALSE
  /\ grant_out = 0
  /\ steady = FALSE
  /\ popped = FALSE
  /\ granted = 0
  /\ runBank = 0

\* The core's edge for the levels of its request ports, not both of them high.
CoreEdge(push_req, data_in, pop_req) ==
  \/ push_req /\ PushEdge(data_in)
  \/ pop_req /\ PopEdge
  \/ ~(push_req /\ ~full) /\ ~(pop_req /\ valid_out) /\ UNCHANGED coreVars

\* Fault: the word captured only while the buffer is free.
DistributorHoldsCapture ==
  /\ in_data_reg' = IF buffered_valid THEN in_data_reg ELSE data_out
  /\ buffered_valid' = (valid_out /\ ~buffered_valid)
  /\ buffered_data' = IF valid_out /\ ~buffered_valid THEN in_data_reg ELSE buffered_data

\* Fault: the word of this edge buffered instead of the captured one.
DistributorBypass ==
  /\ in_data_reg' = data_out
  /\ buffered_valid' = (valid_out /\ ~buffered_valid)
  /\ buffered_data' = IF valid_out /\ ~buffered_valid THEN data_out ELSE buffered_data

\* Fault: the buffer refilled on the edge that empties it.
DistributorRefills ==
  /\ in_data_reg' = data_out
  /\ buffered_valid' = valid_out
  /\ buffered_data' = IF valid_out THEN in_data_reg ELSE buffered_data

\* A buffered word leaves at the next edge; the buffer is filled only when
\* it is empty, with the word captured one edge earlier.
DistributorEdge ==
  /\ in_data_reg' = data_out
  /\ buffered_valid' = (valid_out /\ ~buffered_valid)
  /\ buffered_data' = IF valid_out /\ ~buffered_valid THEN in_data_reg ELSE buffered_data

\* Fault: a turn forgotten while the queue is empty.
ArbiterForgetsTurn ==
  /\ grant_out' = IF ~valid_out THEN 0 ELSE IF rr THEN 2 ELSE 1
  /\ rr' = (valid_out /\ ~rr)

ArbiterEdge ==
  /\ grant_out' = IF ~valid_out THEN 0 ELSE IF rr THEN 2 ELSE 1
  /\ rr' = IF valid_out THEN ~rr ELSE rr

Offers == buffered_valid' /\ ~buffered_valid
Pops == tasks # <<>> /\ head' # head

TbReset ==
  /\ Reset
  /\ buffered_valid' = FALSE /\ buffered_data' = ZERO /\ in_data_reg' = ZERO
  /\ rr' = FALSE /\ grant_out' = 0
  /\ steady' = FALSE /\ popped' = FALSE
  /\ granted' = 0 /\ runBank' = 0

\* One edge with reset low.  always_comb passes the host's ports on in
\* host_mode and holds the requests low otherwise.
ClockEdge(host_mode, host_push_req, host_data_in, host_pop_req) ==
  /\ CoreEdge(host_mode /\ host_push_req,
              IF host_mode THEN host_data_in ELSE ZERO,
              host_mode /\ host_pop_req)
  /\ DistributorEdge
  /\ ArbiterEdge
  /\ steady' = valid_out
  /\ popped' = Pops
  /\ granted' = IF grant_out' = 0 THEN granted ELSE grant_out'
  /\ runBank' = IF ~valid_out THEN 0 ELSE IF runBank = 0 THEN grant_out' ELSE runBank

\* At most one request at a time, as both harnesses drive the ports.
TbNext ==
  \/ TbReset
  \/ \E host_mode \in BOOLEAN, req \in {"push", "pop", "none"}, d \in Data :
        ClockEdge(host_mode, req = "push", d, req = "pop")

TbSpec == TbInit /\ [][TbNext]_tbVars

-------------------------------------------------------------------------------
(***************************************************************************)
(* Properties.                                                             *)
(***************************************************************************)

TbTypeOK ==
  /\ buffered_valid \in BOOLEAN
  /\ buffered_data \in Data
  /\ in_data_reg \in Data
  /\ rr \in BOOLEAN
  /\ grant_out \in Banks \cup {0}
  /\ steady \in BOOLEAN /\ popped \in BOOLEAN
  /\ granted \in Banks \cup {0}
  /\ runBank \in Banks \cup {0}

\* What the captured word is: the head of the queue, or, if the last edge
\* popped it, the task just delivered.
CaptureIsHead ==
  steady => IF popped THEN in_data_reg = delivered
                      ELSE tasks # <<>> /\ in_data_reg = Head(tasks)

\* rr remembers the bank granted last.
TurnAgrees == granted = IF rr THEN 1 ELSE IF granted = 0 THEN 0 ELSE 2

\* Buffer and grant keep step while the queue stays non-empty: the words
\* offered in one busy period all coincide with a grant of the same bank,
\* and the other bank is only ever granted when no word is offered.
OneBankPerRun ==
  /\ runBank # 0 => grant_out # 0 /\ (buffered_valid <=> grant_out = runBank)
  /\ runBank = 0 => grant_out = 0 /\ ~buffered_valid
  /\ grant_out # 0 => grant_out = granted

\* The inductive invariant of the testbench.
TbInv == RingInv /\ TbTypeOK /\ CaptureIsHead /\ TurnAgrees /\ OneBankPerRun

\* The word the distributor offers, from the second edge of a busy period
\* on, is the task at the head of the queue, or the one the host popped one
\* edge before; it never skips ahead.
OffersHeadOrDelivered ==
  [][Offers /\ steady => buffered_data' = IF popped THEN delivered ELSE Head(tasks)]_tbVars

\* Grants alternate between the banks, also across idle periods.
GrantsAlternate == [][grant_out' # 0 => grant_out' # granted]_tbVars

===============================================================================
