------------------------------- MODULE TaskFifo -------------------------------
(***************************************************************************)
(* What the task queue promises: a bounded first-in first-out buffer of    *)
(* tasks.  A push that is accepted puts its task behind every waiting      *)
(* task, a pop that is accepted delivers the oldest one, and nothing else  *)
(* ever changes what is waiting.  No source file is modelled here: the     *)
(* RTL, the HW-only harness and the MMIO co-simulation are each compared   *)
(* with this module.                                                       *)
(***************************************************************************)
EXTENDS Naturals, Sequences

CONSTANTS
  Data,      \* the words a task can be
  ZERO,      \* the all-zero word
  CAPACITY   \* how many tasks may wait

VARIABLES
  tasks,     \* the tasks accepted and not delivered yet, oldest first
  delivered  \* the task the last accepted pop delivered

fifoVars == <<tasks, delivered>>

Init ==
  /\ tasks = <<>>
  /\ delivered = ZERO

Push(d) ==
  /\ Len(tasks) < CAPACITY
  /\ tasks' = Append(tasks, d)
  /\ UNCHANGED delivered

Pop ==
  /\ tasks # <<>>
  /\ delivered' = Head(tasks)
  /\ tasks' = Tail(tasks)

\* A push and a pop accepted by the same clock edge.
Transfer(d) ==
  /\ tasks # <<>>
  /\ Len(tasks) < CAPACITY
  /\ delivered' = Head(tasks)
  /\ tasks' = Append(Tail(tasks), d)

Clear ==
  /\ tasks' = <<>>
  /\ UNCHANGED delivered

Next ==
  \/ \E d \in Data : Push(d) \/ Transfer(d)
  \/ Pop
  \/ Clear

Spec == Init /\ [][Next]_fifoVars

===============================================================================
