------------------------------ MODULE Behavioral ------------------------------
(***************************************************************************)
(* model/behavioral.py: an arrival process, leaders and followers around   *)
(* two simpy stores.  One step is one env.step(): the first event of the   *)
(* agenda fires, and the process that waited for it runs to its next       *)
(* yield.  The two samplers change nothing here and are left out, as are   *)
(* the timestamps: of time only the order of events matters.               *)
(*                                                                         *)
(* simpy is modelled from how the stores are used (unbounded, one item per *)
(* request).  put appends its item at once; when the put event fires it    *)
(* first hands one item to the getter that has waited longest, then        *)
(* resumes the putter.  get serves the longest waiting getter, which need  *)
(* not be the caller.  Events of the same time fire in the order they were *)
(* scheduled.                                                              *)
(***************************************************************************)
EXTENDS Naturals, Sequences, FiniteSets, SequencesExt

CONSTANTS
  NUM_TASKS, NUM_LEADERS, NUM_FOLLOWERS, BATCH_ENQUEUE,
  DISPATCH_TIMES,   \* what dispatch_time may be; one value for a whole run
  INTERARRIVALS,    \* what interarrival_func may return
  DURATIONS         \* what task_duration_func may return

ASSUME BehavioralAssumption ==
  /\ {NUM_TASKS, NUM_LEADERS, NUM_FOLLOWERS, BATCH_ENQUEUE} \subseteq Nat \ {0}
  /\ DISPATCH_TIMES \subseteq Nat /\ INTERARRIVALS \subseteq Nat /\ DURATIONS \subseteq Nat

Arrival == <<"arrival", 0>>
Leaders == {<<"leader", i>> : i \in 1 .. NUM_LEADERS}
Followers == {<<"follower", i>> : i \in 1 .. NUM_FOLLOWERS}
NoTask == 0

VARIABLES
  agenda,      \* the pending events, in firing order; in: time still to pass
  items,       \* arrival_buffer.items and exec_queue.items
  getters,     \* per store, the processes waiting in get(), longest first
  arrived,     \* tasks 1 .. arrived have been put into the arrival buffer
  batch,       \* per leader, the tasks it has taken and not put yet
  running,     \* per follower, the task it executes
  enqueued,    \* the calls of record_enqueued, in that order: [tid, by]
  started,     \* likewise record_start_exec
  finished,    \* the tasks record_finish was called for
  dispatch     \* dispatch_time

stores == <<agenda, items, getters>>
behVars == <<stores, arrived, batch, running, enqueued, started, finished, dispatch>>

Event(kind, who, tid) == [in |-> 0, kind |-> kind, who |-> who, tid |-> tid]

BehInit ==
  /\ agenda = << Event("init", Arrival, NoTask) >>
                \o [i \in 1 .. NUM_LEADERS |-> Event("init", <<"leader", i>>, NoTask)]
                \o [i \in 1 .. NUM_FOLLOWERS |-> Event("init", <<"follower", i>>, NoTask)]
  /\ items = [arrival |-> <<>>, exec |-> <<>>]
  /\ getters = [arrival |-> <<>>, exec |-> <<>>]
  /\ arrived = 0
  /\ batch = [l \in Leaders |-> <<>>]
  /\ running = [f \in Followers |-> NoTask]
  /\ enqueued = <<>> /\ started = <<>> /\ finished = {}
  /\ dispatch \in DISPATCH_TIMES

(***************************************************************************)
(* simpy, on a record of the variables it owns.                            *)
(***************************************************************************)
Schedule(s, d, e) ==
  LET earlier == Cardinality({i \in DOMAIN s.agenda : s.agenda[i].in <= d})
  IN  [s EXCEPT !.agenda = InsertAt(@, earlier + 1, [e EXCEPT !.in = d])]

Timeout(s, who, d) == Schedule(s, d, Event("timeout", who, NoTask))

TriggerGet(s, store) ==
  IF s.getters[store] = <<>> \/ s.items[store] = <<>> THEN s
  ELSE Schedule([s EXCEPT !.items[store] = Tail(@), !.getters[store] = Tail(@)],
                0, Event("got", Head(s.getters[store]), Head(s.items[store])))

Put(s, store, who, tid) ==
  Schedule([s EXCEPT !.items[store] = Append(@, tid)], 0, Event("put", who, tid))

Get(s, store, who) == TriggerGet([s EXCEPT !.getters[store] = Append(@, who)], store)

Now == Head(agenda)
StoreOfPut == IF Now.who = Arrival THEN "arrival" ELSE "exec"

\* The stores when the process resumes.
Fired ==
  LET s == [agenda |-> [i \in 1 .. Len(agenda) - 1 |-> [agenda[i + 1] EXCEPT !.in = @ - Now.in]],
            items |-> items, getters |-> getters]
  IN  IF Now.kind = "put" THEN TriggerGet(s, StoreOfPut) ELSE s

Becomes(s) == agenda' = s.agenda /\ items' = s.items /\ getters' = s.getters

\* run_sim's loop; env.step() raises when no event is left.
Resumes(who, kinds) ==
  /\ Cardinality(finished) < NUM_TASKS /\ agenda # <<>>
  /\ Now.who = who /\ Now.kind \in kinds

(***************************************************************************)
(* The processes.                                                          *)
(***************************************************************************)
\* Fault: a task appended to the buffer's items without a put.
NextArrivalBare(s) ==
  IF arrived = NUM_TASKS THEN Becomes(s) /\ UNCHANGED arrived
  ELSE /\ Becomes(Timeout([s EXCEPT !.items["arrival"] = Append(@, arrived + 1)], Arrival, 0))
       /\ arrived' = arrived + 1

NextArrival(s) ==
  IF arrived = NUM_TASKS THEN Becomes(s) /\ UNCHANGED arrived
  ELSE Becomes(Put(s, "arrival", Arrival, arrived + 1)) /\ arrived' = arrived + 1

ArrivalRuns ==
  /\ \/ Resumes(Arrival, {"init", "timeout"}) /\ NextArrival(Fired)
     \/ /\ Resumes(Arrival, {"put"})
        /\ \E ia \in INTERARRIVALS :
             IF ia > 0 THEN Becomes(Timeout(Fired, Arrival, ia)) /\ UNCHANGED arrived
                       ELSE NextArrival(Fired)
  /\ UNCHANGED <<batch, running, enqueued, started, finished, dispatch>>

LeaderWaits(l) ==
  /\ Resumes(l, {"init"})
  /\ Becomes(Get(Fired, "arrival", l))
  /\ UNCHANGED <<arrived, batch, running, enqueued, started, finished, dispatch>>

\* Fault: the batch filled from the other end of the buffer.
ReadyNewest(tasks) ==
  LET n == IF Len(tasks) < BATCH_ENQUEUE THEN Len(tasks) ELSE BATCH_ENQUEUE - 1
  IN  [taken |-> Reverse(SubSeq(tasks, Len(tasks) - n + 1, Len(tasks))),
       left |-> SubSeq(tasks, 1, Len(tasks) - n)]

\* Fault: the batch copies the buffered tasks instead of removing them.
ReadyCopied(tasks) ==
  LET n == IF Len(tasks) < BATCH_ENQUEUE THEN Len(tasks) ELSE BATCH_ENQUEUE - 1
  IN  [taken |-> SubSeq(tasks, 1, n), left |-> tasks]

\* Fault: the task that no longer fits is taken from the buffer too.
ReadyDropsOne(tasks) ==
  LET n == IF Len(tasks) < BATCH_ENQUEUE THEN Len(tasks) ELSE BATCH_ENQUEUE - 1
  IN  [taken |-> SubSeq(tasks, 1, n), left |-> SubSeq(tasks, n + 2, Len(tasks))]

\* What fills the batch behind its first task: taken from the buffer's
\* items themselves, past the leaders that wait in get().
Ready(tasks) ==
  LET n == IF Len(tasks) < BATCH_ENQUEUE THEN Len(tasks) ELSE BATCH_ENQUEUE - 1
  IN  [taken |-> SubSeq(tasks, 1, n), left |-> SubSeq(tasks, n + 1, Len(tasks))]

PutNext(s, l, b) ==
  /\ Becomes(Put(s, "exec", l, Head(b)))
  /\ batch' = [batch EXCEPT ![l] = Tail(b)]

LeaderTakes(l) ==
  /\ Resumes(l, {"got"})
  /\ LET r == Ready(Fired.items["arrival"])
         s == [Fired EXCEPT !.items["arrival"] = r.left]
         b == <<Now.tid>> \o r.taken
     IN  IF dispatch > 0
         THEN Becomes(Timeout(s, l, dispatch)) /\ batch' = [batch EXCEPT ![l] = b]
         ELSE PutNext(s, l, b)
  /\ UNCHANGED <<arrived, running, enqueued, started, finished, dispatch>>

LeaderDispatches(l) ==
  /\ Resumes(l, {"timeout"})
  /\ PutNext(Fired, l, batch[l])
  /\ UNCHANGED <<arrived, running, enqueued, started, finished, dispatch>>

\* Fault: only the last task of a batch recorded.
LeaderEnqueuesOncePerBatch(l) ==
  /\ Resumes(l, {"put"})
  /\ enqueued' = IF batch[l] = <<>> THEN Append(enqueued, [tid |-> Now.tid, by |-> l]) ELSE enqueued
  /\ IF batch[l] # <<>> THEN PutNext(Fired, l, batch[l])
                        ELSE Becomes(Get(Fired, "arrival", l)) /\ UNCHANGED batch
  /\ UNCHANGED <<arrived, running, started, finished, dispatch>>

LeaderEnqueues(l) ==
  /\ Resumes(l, {"put"})
  /\ enqueued' = Append(enqueued, [tid |-> Now.tid, by |-> l])
  /\ IF batch[l] # <<>> THEN PutNext(Fired, l, batch[l])
                        ELSE Becomes(Get(Fired, "arrival", l)) /\ UNCHANGED batch
  /\ UNCHANGED <<arrived, running, started, finished, dispatch>>

FollowerWaits(f) ==
  /\ Resumes(f, {"init"})
  /\ Becomes(Get(Fired, "exec", f))
  /\ UNCHANGED <<arrived, batch, running, enqueued, started, finished, dispatch>>

FollowerStarts(f) ==
  /\ Resumes(f, {"got"})
  /\ started' = Append(started, Now.tid)
  /\ \E td \in DURATIONS :
       IF td > 0
       THEN /\ Becomes(Timeout(Fired, f, td))
            /\ running' = [running EXCEPT ![f] = Now.tid]
            /\ UNCHANGED finished
       ELSE /\ finished' = finished \cup {Now.tid}
            /\ Becomes(Get(Fired, "exec", f))
            /\ UNCHANGED running
  /\ UNCHANGED <<arrived, batch, enqueued, dispatch>>

FollowerFinishes(f) ==
  /\ Resumes(f, {"timeout"})
  /\ finished' = finished \cup {running[f]}
  /\ running' = [running EXCEPT ![f] = NoTask]
  /\ Becomes(Get(Fired, "exec", f))
  /\ UNCHANGED <<arrived, batch, enqueued, started, dispatch>>

BehNext ==
  \/ ArrivalRuns
  \/ \E l \in Leaders : LeaderWaits(l) \/ LeaderTakes(l) \/ LeaderDispatches(l) \/ LeaderEnqueues(l)
  \/ \E f \in Followers : FollowerWaits(f) \/ FollowerStarts(f) \/ FollowerFinishes(f)

BehSpec == BehInit /\ [][BehNext]_behVars

\* One thread; env.step() never blocks.
FairBehSpec == BehSpec /\ WF_behVars(BehNext)

-------------------------------------------------------------------------------
(***************************************************************************)
(* Properties.                                                             *)
(***************************************************************************)

Count(seq, t) == Cardinality({i \in DOMAIN seq : seq[i] = t})
Handed(t) == Cardinality({i \in DOMAIN agenda : agenda[i].kind = "got" /\ agenda[i].tid = t})

\* Every task that arrived is in exactly one place: a store, on its way to
\* the process it was handed to, a batch, a follower, or finished.
TaskInOnePlace ==
  \A t \in 1 .. arrived :
    Count(items.arrival, t) + Count(items.exec, t) + Handed(t)
      + Cardinality({l \in Leaders : Count(batch[l], t) = 1})
      + Cardinality({f \in Followers : running[f] = t})
      + Cardinality({t} \cap finished) = 1

\* Nobody sleeps beside work: while a process waits in get(), every item of
\* its store has a put event still to fire that will hand it out.
NoLostWakeup ==
  \A st \in {"arrival", "exec"} :
    getters[st] # <<>> =>
      Len(items[st]) <= Cardinality({i \in DOMAIN agenda :
                          agenda[i].kind = "put" /\ (st = "arrival" <=> agenda[i].who = Arrival)})

\* Followers start the tasks in the order in which they were recorded as
\* enqueued, and never before: every queue wait is at least 0.
StartsFollowEnqueues == IsPrefix(started, [i \in DOMAIN enqueued |-> enqueued[i].tid])

\* When the loop ends, on the last task's finish, total_enqueued has reached
\* NUM_TASKS as well, although it is counted an event after the put, and
\* every task has a recorded start.
TotalsAtExit ==
  Cardinality(finished) = NUM_TASKS => Len(enqueued) = NUM_TASKS /\ Len(started) = NUM_TASKS

\* The simulation ends: the loop's exit is reached without the time cap.
AllTasksFinish == <>(Cardinality(finished) = NUM_TASKS)

\* Each leader enqueues its tasks as they arrived, although it takes some
\* from get() and some from the buffer itself (with one leader, all tasks).
LeadersKeepArrivalOrder ==
  \A i, j \in DOMAIN enqueued :
    i < j /\ enqueued[i].by = enqueued[j].by => enqueued[i].tid < enqueued[j].tid

===============================================================================
