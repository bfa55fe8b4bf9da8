--------------------------- MODULE BehavioralProofs ---------------------------
(***************************************************************************)
(* For every number of tasks, leaders and followers, every batch size and  *)
(* all times: no task of the simulation is lost or doubled, followers      *)
(* start the tasks in the order in which they were recorded as enqueued,   *)
(* each leader keeps the order of arrival, nobody sleeps beside work, and  *)
(* the totals are right at the end.                                        *)
(*                                                                         *)
(* The invariant keeps books beside simpy's agenda: what every process     *)
(* waits for (kind, task), and the order in which tasks were put into      *)
(* exec_queue (x and its inverse at), which the records follow only when   *)
(* the put events fire.  The agenda is tied to the books by Filed; all     *)
(* else, Kept, is about the books alone.                                   *)
(***************************************************************************)
EXTENDS Behavioral, SequenceTheorems, FiniteSetTheorems, TLAPS

Tasks == 1 .. NUM_TASKS
Procs == {Arrival} \cup Leaders \cup Followers
EventKinds == {"init", "got", "timeout", "put"}
Events == [in : Nat, kind : EventKinds, who : Procs, tid : Tasks \cup {NoTask}]

Stores == [agenda : Seq(Events),
           items : [arrival : Seq(Tasks), exec : Seq(Tasks)],
           getters : [arrival : Seq(Leaders), exec : Seq(Followers)]]

\* kind is "wait" for a process in get(), "none" for one that runs or ended.
Books ==
  [kind : [Procs -> EventKinds \cup {"wait", "none"}], task : [Procs -> Tasks \cup {NoTask}],
   buffer : Seq(Tasks), queue : Seq(Tasks),
   idle : Seq(Leaders), free : Seq(Followers),
   arrived : 0 .. NUM_TASKS, batch : [Leaders -> Seq(Tasks)],
   running : [Followers -> Tasks \cup {NoTask}],
   enqueued : Seq([tid : Tasks, by : Leaders]), started : Seq(Tasks), finished : SUBSET Tasks,
   x : Seq(Tasks), at : [Tasks -> Nat]]

-------------------------------------------------------------------------------
(***************************************************************************)
(* The agenda.  Of two events the earlier one fires first; the puts of     *)
(* leaders and the answers to followers each keep the order of x; and the  *)
(* put of a task fires before the event that hands it to a follower.       *)
(***************************************************************************)
PutsExec(e) == e.kind = "put" /\ e.who \in Leaders
GotExec(e) == e.kind = "got" /\ e.who \in Followers

InOrder(e, f, at) ==
  /\ PutsExec(e) /\ PutsExec(f) => at[e.tid] < at[f.tid]
  /\ GotExec(e) /\ GotExec(f) => at[e.tid] < at[f.tid]
  /\ GotExec(e) /\ PutsExec(f) => e.tid # f.tid

AgendaOK(agd, at) ==
  /\ \A i \in 1 .. Len(agd) : agd[i].kind # "timeout" => agd[i].in = 0
  /\ \A i, j \in 1 .. Len(agd) :
       i < j => agd[i].in <= agd[j].in /\ agd[i].who # agd[j].who /\ InOrder(agd[i], agd[j], at)

Filed(agd, b) ==
  /\ AgendaOK(agd, b.at)
  /\ \A i \in 1 .. Len(agd) : b.kind[agd[i].who] = agd[i].kind /\ b.task[agd[i].who] = agd[i].tid
  /\ \A w \in Procs : b.kind[w] \in EventKinds => \E i \in 1 .. Len(agd) : agd[i].who = w

-------------------------------------------------------------------------------
(***************************************************************************)
(* The books.                                                              *)
(***************************************************************************)
\* What a process waits for fits what it has in hand.
Hands(b) ==
  /\ b.kind[Arrival] \in {"none", "init", "timeout", "put"}
  /\ \A l \in Leaders : /\ b.kind[l] = "timeout" => b.batch[l] # <<>>
                        /\ b.kind[l] \in {"init", "got", "wait"} => b.batch[l] = <<>>
  /\ \A f \in Followers : /\ b.kind[f] # "put"
                          /\ b.kind[f] = "timeout" => b.running[f] # NoTask
                          /\ b.kind[f] \in {"init", "got", "wait"} => b.running[f] = NoTask

Getters(b) ==
  /\ \A i \in 1 .. Len(b.idle) : b.kind[b.idle[i]] = "wait"
  /\ \A i, j \in 1 .. Len(b.idle) : b.idle[i] = b.idle[j] => i = j
  /\ \A i \in 1 .. Len(b.free) : b.kind[b.free[i]] = "wait"
  /\ \A i, j \in 1 .. Len(b.free) : b.free[i] = b.free[j] => i = j

\* The arrival buffer holds the last tasks that arrived; the others, 1 ..
\* Taken(b), have gone on ...
Taken(b) == b.arrived - Len(b.buffer)

Buffered(b) ==
  /\ Len(b.buffer) <= b.arrived
  /\ \A i \in 1 .. Len(b.buffer) : b.buffer[i] = Taken(b) + i

\* ... to a leader or, past it, into x, and never to two places.
WithLeaders(b) ==
  /\ \A l \in Leaders : b.kind[l] = "got" =>
       /\ b.task[l] \in 1 .. Taken(b) /\ b.at[b.task[l]] = 0
       /\ \A m \in Leaders : b.kind[m] = "got" /\ b.task[l] = b.task[m] => l = m
       /\ \A m \in Leaders : \A i \in 1 .. Len(b.batch[m]) : b.batch[m][i] # b.task[l]
  /\ \A l \in Leaders : \A i \in 1 .. Len(b.batch[l]) :
       /\ b.batch[l][i] \in 1 .. Taken(b) /\ b.at[b.batch[l][i]] = 0
       /\ \A j \in 1 .. Len(b.batch[l]) : i < j => b.batch[l][i] < b.batch[l][j]
       /\ \A m \in Leaders : \A j \in 1 .. Len(b.batch[m]) : b.batch[l][i] = b.batch[m][j] => l = m
  /\ \A t \in Tasks : b.at[t] # 0 => t <= Taken(b)
  /\ \A t \in 1 .. Taken(b) :
       \/ b.at[t] # 0
       \/ \E l \in Leaders : b.kind[l] = "got" /\ b.task[l] = t
       \/ \E l \in Leaders : \E i \in 1 .. Len(b.batch[l]) : b.batch[l][i] = t

\* at is the inverse of x, and 0 for the tasks not in x.
Numbered(b) ==
  /\ \A k \in 1 .. Len(b.x) : b.at[b.x[k]] = k
  /\ \A t \in Tasks : b.at[t] # 0 => b.at[t] \in 1 .. Len(b.x) /\ b.x[b.at[t]] = t

\* x is what is recorded as enqueued, and then what put events will record.
Puts(b) ==
  /\ Len(b.enqueued) <= Len(b.x)
  /\ \A k \in 1 .. Len(b.enqueued) : b.enqueued[k].tid = b.x[k]
  /\ \A l \in Leaders : b.kind[l] = "put" => b.task[l] \in Tasks /\ b.at[b.task[l]] > Len(b.enqueued)
  /\ \A k \in Len(b.enqueued) + 1 .. Len(b.x) :
       \E l \in Leaders : b.kind[l] = "put" /\ b.task[l] = b.x[k]

\* x is also what was started, what is on its way to a follower, and what
\* is in the queue, in this order.
Begins(q, x) == \A k \in 1 .. Len(q) : q[k] = x[k]
Ends(q, x) == \A i \in 1 .. Len(q) : q[i] = x[Len(x) - Len(q) + i]

Starts(b) ==
  /\ Len(b.started) + Len(b.queue) <= Len(b.x) /\ Len(b.started) <= Len(b.enqueued)
  /\ Begins(b.started, b.x) /\ Ends(b.queue, b.x)
  /\ \A f \in Followers : b.kind[f] = "got" =>
       /\ b.task[f] \in Tasks
       /\ b.at[b.task[f]] > Len(b.started) /\ b.at[b.task[f]] <= Len(b.x) - Len(b.queue)
  /\ \A k \in Len(b.started) + 1 .. Len(b.x) - Len(b.queue) :
       \E f \in Followers : b.kind[f] = "got" /\ b.task[f] = b.x[k]

\* What was started is executed by one follower or finished.
Executes(b) ==
  /\ \A f \in Followers : b.running[f] # NoTask =>
       /\ b.at[b.running[f]] \in 1 .. Len(b.started) /\ b.running[f] \notin b.finished
       /\ \A g \in Followers : b.running[f] = b.running[g] => f = g
  /\ \A t \in b.finished : b.at[t] \in 1 .. Len(b.started)
  /\ \A k \in 1 .. Len(b.started) :
       b.x[k] \in b.finished \/ \E f \in Followers : b.running[f] = b.x[k]

\* A leader's tasks are in the order of arrival along their way: recorded,
\* in a put or on the way to the leader, and in its batch.
LeaderOrder(b) ==
  /\ \A i, j \in 1 .. Len(b.enqueued) :
       i < j /\ b.enqueued[i].by = b.enqueued[j].by => b.enqueued[i].tid < b.enqueued[j].tid
  /\ \A i \in 1 .. Len(b.enqueued) :
       LET l == b.enqueued[i].by
       IN  /\ b.kind[l] \in {"got", "put"} => b.enqueued[i].tid < b.task[l]
           /\ \A j \in 1 .. Len(b.batch[l]) : b.enqueued[i].tid < b.batch[l][j]
  /\ \A l \in Leaders : b.kind[l] = "put" =>
       \A j \in 1 .. Len(b.batch[l]) : b.task[l] < b.batch[l][j]

Kept(b) ==
  /\ b \in Books /\ Hands(b) /\ Getters(b) /\ Buffered(b) /\ WithLeaders(b)
  /\ Numbered(b) /\ Puts(b) /\ Starts(b) /\ Executes(b) /\ LeaderOrder(b)

\* While a leader waits, a task in the buffer is the one whose put event
\* will hand it out; while a follower waits, so are all in the queue.
Awake(b) ==
  /\ b.idle # <<>> => Len(b.buffer) = 0 \/ (Len(b.buffer) = 1 /\ b.kind[Arrival] = "put")
  /\ b.free # <<>> => Len(b.queue) + Len(b.enqueued) <= Len(b.x)

\* The books of a state.
BooksOf(s, kind, task, x, at) ==
  [kind |-> kind, task |-> task,
   buffer |-> s.items.arrival, queue |-> s.items.exec,
   idle |-> s.getters.arrival, free |-> s.getters.exec,
   arrived |-> arrived, batch |-> batch, running |-> running,
   enqueued |-> enqueued, started |-> started, finished |-> finished, x |-> x, at |-> at]

-------------------------------------------------------------------------------
LEMMA Positive ==
  /\ NUM_TASKS \in Nat /\ NUM_TASKS >= 1
  /\ NUM_LEADERS \in Nat /\ NUM_FOLLOWERS \in Nat
  /\ BATCH_ENQUEUE \in Nat /\ BATCH_ENQUEUE >= 1
BY BehavioralAssumption

LEMMA ProcsDiffer ==
  /\ Arrival \notin Leaders /\ Arrival \notin Followers
  /\ \A l \in Leaders : l \notin Followers
BY DEF Arrival, Leaders, Followers

LEMMA NoTaskIsNone == NoTask \notin Tasks
BY DEF NoTask, Tasks

(***************************************************************************)
(* Schedule: in a sorted agenda the events up to d are a prefix, so its    *)
(* Cardinality is the position after which the new one goes.               *)
(***************************************************************************)
LEMMA EarlierIsPrefix ==
  ASSUME NEW agd \in Seq(Events), NEW d \in Nat,
         \A i, j \in 1 .. Len(agd) : i < j => agd[i].in <= agd[j].in
  PROVE  LET n == Cardinality({i \in DOMAIN agd : agd[i].in <= d})
         IN  /\ n \in 0 .. Len(agd)
             /\ \A i \in 1 .. Len(agd) : agd[i].in <= d <=> i <= n
<1> DEFINE S == {i \in DOMAIN agd : agd[i].in <= d}
           n == Cardinality(S)
<1>1. /\ Len(agd) \in Nat /\ DOMAIN agd = 1 .. Len(agd)
      /\ \A i \in 1 .. Len(agd) : agd[i].in \in Nat
  <2>1. Len(agd) \in Nat /\ DOMAIN agd = 1 .. Len(agd) /\ \A i \in 1 .. Len(agd) : agd[i] \in Events
    BY LenProperties, ElementOfSeq
  <2> QED BY <2>1 DEF Events
<1>2. \A k \in Nat : IsFiniteSet(1 .. k) /\ Cardinality(1 .. k) = k
  <2> SUFFICES ASSUME NEW k \in Nat PROVE IsFiniteSet(1 .. k) /\ Cardinality(1 .. k) = k
    OBVIOUS
  <2>1. 1 \in Int /\ k \in Int
    OBVIOUS
  <2>2. IsFiniteSet(1 .. k) /\ Cardinality(1 .. k) = IF 1 > k THEN 0 ELSE k - 1 + 1
    BY <2>1, FS_Interval, Zenon
  <2> QED BY <2>2
<1>3. IsFiniteSet(S) /\ n <= Len(agd) /\ n \in Nat
  BY <1>1, <1>2, FS_Subset, FS_CardinalityType
<1>4. ASSUME NEW i \in S PROVE i <= n
  <2>1. i \in Nat /\ 1 .. i \subseteq 1 .. Len(agd)
    BY <1>1
  <2>2. ASSUME NEW j \in 1 .. i PROVE agd[j].in <= d
    <3>1. j \in 1 .. Len(agd) /\ (j < i \/ j = i) /\ agd[i].in <= d
      BY <1>1, <2>1
    <3>2. agd[j].in <= agd[i].in
      BY <1>1, <3>1
    <3> QED BY <1>1, <3>1, <3>2
  <2>3. 1 .. i \subseteq S
    BY <1>1, <2>1, <2>2
  <2>4. Cardinality(1 .. i) <= n /\ Cardinality(1 .. i) = i
    BY <1>2, <1>3, <2>1, <2>3, FS_Subset
  <2> QED BY <2>4
<1>5. S = 1 .. n
  <2>1. S \subseteq 1 .. n
    BY <1>1, <1>3, <1>4
  <2>2. IsFiniteSet(1 .. n) /\ Cardinality(1 .. n) = n
    BY <1>2, <1>3
  <2> HIDE DEF S
  <2> QED BY <2>1, <2>2, FS_Subset
<1>6. \A i \in 1 .. Len(agd) : agd[i].in <= d <=> i \in S
  BY <1>1
<1>7. \A i \in 1 .. Len(agd) : agd[i].in <= d <=> i <= n
  <2> HIDE DEF S, n
  <2> QED BY <1>1, <1>3, <1>5, <1>6
<1> QED BY <1>1, <1>3, <1>7

LEMMA InsertAtProperties ==
  ASSUME NEW T, NEW q \in Seq(T), NEW p \in 1 .. Len(q) + 1, NEW e \in T
  PROVE  /\ InsertAt(q, p, e) \in Seq(T) /\ Len(InsertAt(q, p, e)) = Len(q) + 1
         /\ \A i \in 1 .. Len(q) + 1 :
              InsertAt(q, p, e)[i] = IF i < p THEN q[i] ELSE IF i = p THEN e ELSE q[i - 1]
<1> DEFINE u == SubSeq(q, 1, p - 1)
           v == SubSeq(q, p, Len(q))
           m == <<e>>
<1>1. Len(q) \in Nat /\ \A i \in 1 .. Len(q) : q[i] \in T
  BY ElementOfSeq, LenProperties
<1>2. u \in Seq(T) /\ Len(u) = p - 1 /\ \A i \in 1 .. p - 1 : u[i] = q[i]
  BY <1>1, SubSeqProperties
<1>3. v \in Seq(T) /\ Len(v) = Len(q) - p + 1 /\ \A i \in 1 .. Len(q) - p + 1 : v[i] = q[p + i - 1]
  BY <1>1, SubSeqProperties
<1>4. m \in Seq(T) /\ Len(m) = 1 /\ m[1] = e
  OBVIOUS
<1>5. InsertAt(q, p, e) = (u \o m) \o v
  BY DEF InsertAt
<1> HIDE DEF u, v, m
<1>6. /\ (u \o m) \in Seq(T) /\ Len(u \o m) = p
      /\ \A i \in 1 .. p : (u \o m)[i] = IF i < p THEN q[i] ELSE e
  <2>1. /\ (u \o m) \in Seq(T) /\ Len(u \o m) = Len(u) + Len(m)
        /\ \A i \in 1 .. Len(u) + Len(m) : (u \o m)[i] = IF i <= Len(u) THEN u[i] ELSE m[i - Len(u)]
    BY <1>2, <1>4, ConcatProperties
  <2>2. p \in Nat /\ p >= 1 /\ Len(u) + Len(m) = p
    BY <1>1, <1>2, <1>4
  <2>3. ASSUME NEW i \in 1 .. p PROVE (u \o m)[i] = IF i < p THEN q[i] ELSE e
    BY <1>2, <1>4, <2>1, <2>2
  <2> QED BY <2>1, <2>2, <2>3
<1>7. /\ ((u \o m) \o v) \in Seq(T) /\ Len((u \o m) \o v) = Len(q) + 1
      /\ \A i \in 1 .. Len(q) + 1 : ((u \o m) \o v)[i] = IF i <= p THEN (u \o m)[i] ELSE v[i - p]
  <2> DEFINE w == u \o m
  <2>1. w \in Seq(T) /\ Len(w) = p
    BY <1>6
  <2> HIDE DEF w
  <2>2. /\ (w \o v) \in Seq(T) /\ Len(w \o v) = Len(w) + Len(v)
        /\ \A i \in 1 .. Len(w) + Len(v) : (w \o v)[i] = IF i <= Len(w) THEN w[i] ELSE v[i - Len(w)]
    BY <1>3, <2>1, ConcatProperties
  <2>3. Len(w) + Len(v) = Len(q) + 1
    BY <1>1, <1>3, <2>1
  <2> QED BY <2>1, <2>2, <2>3 DEF w
<1>8. ASSUME NEW i \in 1 .. Len(q) + 1
      PROVE  ((u \o m) \o v)[i] = IF i < p THEN q[i] ELSE IF i = p THEN e ELSE q[i - 1]
  <2>1. p \in Nat /\ i \in Nat
    BY <1>1
  <2>2. CASE i <= p
    <3>1. i \in 1 .. p
      BY <2>1, <2>2
    <3> QED BY <1>6, <1>7, <2>1, <2>2, <3>1
  <2>3. CASE i > p
    <3>1. i - p \in 1 .. Len(q) - p + 1 /\ p + (i - p) - 1 = i - 1
      BY <1>1, <2>1, <2>3
    <3>2. v[i - p] = q[i - 1]
      BY <1>3, <3>1
    <3>3. ~(i <= p) /\ ~(i < p) /\ i # p
      BY <2>1, <2>3
    <3> QED BY <1>7, <3>2, <3>3
  <2>4. i <= p \/ i > p
    BY <2>1
  <2> QED BY <2>2, <2>3, <2>4
<1> QED BY <1>5, <1>7, <1>8

\* What scheduling an event of a process that has none does to the agenda.
\* c is what the books say afterwards.
LEMMA ScheduleFiles ==
  ASSUME NEW s \in Stores, NEW b \in Books, NEW c \in Books, NEW d \in Nat, NEW e \in Events,
         Filed(s.agenda, b), AgendaOK(s.agenda, c.at), b.kind[e.who] \notin EventKinds,
         c.kind = [b.kind EXCEPT ![e.who] = e.kind], c.task = [b.task EXCEPT ![e.who] = e.tid],
         e.kind # "timeout" => d = 0,
         \A i \in 1 .. Len(s.agenda) : InOrder(s.agenda[i], e, c.at)
  PROVE  LET r == Schedule(s, d, e)
         IN  r \in Stores /\ r.items = s.items /\ r.getters = s.getters /\ Filed(r.agenda, c)
<1> DEFINE A == s.agenda
           n == Cardinality({i \in DOMAIN A : A[i].in <= d})
           g == [e EXCEPT !.in = d]
           B == InsertAt(A, n + 1, g)
<1>1. A \in Seq(Events) /\ Len(A) \in Nat /\ \A i \in 1 .. Len(A) : A[i] \in Events
  BY LenProperties, ElementOfSeq DEF Stores
<1>2. n \in 0 .. Len(A) /\ \A i \in 1 .. Len(A) : A[i].in <= d <=> i <= n
  BY <1>1, EarlierIsPrefix DEF Filed, AgendaOK
<1>3. /\ g \in Events /\ g.in = d /\ g.kind = e.kind /\ g.who = e.who /\ g.tid = e.tid
  BY DEF Events
<1>4. Schedule(s, d, e) = [s EXCEPT !.agenda = B]
  BY DEF Schedule
<1>5. /\ Schedule(s, d, e).agenda = B /\ Schedule(s, d, e).items = s.items
      /\ Schedule(s, d, e).getters = s.getters
  BY <1>4 DEF Stores
<1> HIDE DEF n, g, A
<1>6. /\ B \in Seq(Events) /\ Len(B) = Len(A) + 1
      /\ \A i \in 1 .. Len(A) + 1 :
           B[i] = IF i < n + 1 THEN A[i] ELSE IF i = n + 1 THEN g ELSE A[i - 1]
  <2>1. n + 1 \in 1 .. Len(A) + 1
    BY <1>1, <1>2
  <2>2. A \in Seq(Events) /\ g \in Events
    BY <1>1, <1>3
  <2>3. /\ InsertAt(A, n + 1, g) \in Seq(Events) /\ Len(InsertAt(A, n + 1, g)) = Len(A) + 1
        /\ \A i \in 1 .. Len(A) + 1 :
             InsertAt(A, n + 1, g)[i] = IF i < n + 1 THEN A[i] ELSE IF i = n + 1 THEN g ELSE A[i - 1]
    <3> DEFINE p == n + 1
    <3>1. p \in 1 .. Len(A) + 1
      BY <2>1
    <3> HIDE DEF p
    <3>2. /\ InsertAt(A, p, g) \in Seq(Events) /\ Len(InsertAt(A, p, g)) = Len(A) + 1
          /\ \A i \in 1 .. Len(A) + 1 :
               InsertAt(A, p, g)[i] = IF i < p THEN A[i] ELSE IF i = p THEN g ELSE A[i - 1]
      BY <2>2, <3>1, InsertAtProperties
    <3> QED BY <3>2 DEF p
  <2> QED BY <2>3 DEF B
<1> HIDE DEF B
<1>7. \A i \in 1 .. Len(B) : B[i] = g \/ \E k \in 1 .. Len(A) : B[i] = A[k]
  <2> SUFFICES ASSUME NEW i \in 1 .. Len(B)
               PROVE  B[i] = g \/ \E k \in 1 .. Len(A) : B[i] = A[k]
    OBVIOUS
  <2>1. i \in 1 .. Len(A) + 1 /\ i \in Nat /\ n \in Nat /\ n <= Len(A)
    BY <1>1, <1>2, <1>6
  <2>2. CASE i < n + 1
    BY <1>1, <1>6, <2>1, <2>2
  <2>3. CASE i > n + 1
    <3>1. i - 1 \in 1 .. Len(A) /\ B[i] = A[i - 1]
      BY <1>1, <1>6, <2>1, <2>3
    <3> QED BY <3>1
  <2>4. CASE i = n + 1
    <3>1. B[n + 1] = g
      BY <1>6, <2>1, <2>4
    <3> QED BY <2>4, <3>1
  <2>5. i < n + 1 \/ i = n + 1 \/ i > n + 1
    BY <2>1
  <2> QED BY <2>2, <2>3, <2>4, <2>5
<1>8. /\ \A i \in 1 .. Len(A) :
           /\ A[i].kind \in EventKinds /\ A[i].who \in Procs /\ A[i].in \in Nat
           /\ A[i].who # e.who
           /\ A[i].kind # "timeout" => A[i].in = 0
           /\ InOrder(A[i], g, c.at)
      /\ \A i, j \in 1 .. Len(A) :
           i < j => A[i].in <= A[j].in /\ A[i].who # A[j].who /\ InOrder(A[i], A[j], c.at)
  <2>1. \A i \in 1 .. Len(A) : /\ A[i].kind \in EventKinds /\ A[i].who \in Procs /\ A[i].in \in Nat
    BY <1>1 DEF Events
  <2>2. \A i \in 1 .. Len(A) : b.kind[A[i].who] = A[i].kind /\ (A[i].kind # "timeout" => A[i].in = 0)
    BY DEF Filed, AgendaOK, A
  <2>3. \A i \in 1 .. Len(A) : A[i].who # e.who
    BY <2>1, <2>2
  <2>4. \A i \in 1 .. Len(A) : InOrder(A[i], g, c.at)
    BY <1>3 DEF InOrder, PutsExec, GotExec, A
  <2> QED BY <2>1, <2>2, <2>3, <2>4 DEF AgendaOK, A
<1>9. ASSUME NEW i \in 1 .. Len(A), ~(i <= n)
      PROVE  A[i].kind = "timeout" /\ A[i].in > d /\ InOrder(g, A[i], c.at)
  <2>1. A[i].in > d /\ A[i].in \in Nat
    BY <1>2, <1>8, <1>9
  <2>2. A[i].in # 0
    BY <2>1
  <2>3. A[i].kind = "timeout"
    BY <1>8, <2>2
  <2> QED BY <2>1, <2>3 DEF InOrder, PutsExec, GotExec
<1>11. AgendaOK(B, c.at)
  <2>1. ASSUME NEW i \in 1 .. Len(B) PROVE B[i].kind # "timeout" => B[i].in = 0
    <3>1. B[i] = g \/ \E k \in 1 .. Len(A) : B[i] = A[k]
      BY <1>7
    <3>2. g.kind # "timeout" => g.in = 0
      BY <1>3
    <3> QED BY <1>8, <3>1, <3>2
  <2>2. ASSUME NEW i \in 1 .. Len(B), NEW j \in 1 .. Len(B), i < j
        PROVE  B[i].in <= B[j].in /\ B[i].who # B[j].who /\ InOrder(B[i], B[j], c.at)
    <3>1. i \in Nat /\ j \in Nat /\ n \in Nat
      BY <1>1, <1>2, <1>6
    <3>2. CASE i = n + 1
      <4>1. B[i] = g /\ B[j] = A[j - 1] /\ j - 1 \in 1 .. Len(A) /\ ~(j - 1 <= n)
        BY <1>1, <1>6, <2>2, <3>1, <3>2
      <4>2. A[j - 1].in > d /\ InOrder(g, A[j - 1], c.at)
        BY <1>9, <4>1
      <4>3. A[j - 1].in \in Nat /\ A[j - 1].who # e.who
        BY <1>8, <4>1
      <4> QED BY <1>3, <4>1, <4>2, <4>3
    <3>3. CASE j = n + 1
      <4>1. B[j] = g /\ B[i] = A[i] /\ i \in 1 .. Len(A) /\ i <= n
        BY <1>1, <1>6, <2>2, <3>1, <3>3
      <4>2. A[i].in <= d
        BY <1>2, <4>1
      <4>3. A[i].who # e.who /\ InOrder(A[i], g, c.at)
        BY <1>8, <4>1
      <4> QED BY <1>3, <4>1, <4>2, <4>3
    <3>4. CASE i # n + 1 /\ j # n + 1
      <4> DEFINE k == IF i < n + 1 THEN i ELSE i - 1
                 m == IF j < n + 1 THEN j ELSE j - 1
      <4>1. k \in 1 .. Len(A) /\ m \in 1 .. Len(A) /\ k < m /\ B[i] = A[k] /\ B[j] = A[m]
        BY <1>1, <1>2, <1>6, <2>2, <3>1, <3>4
      <4> HIDE DEF k, m
      <4> QED BY <1>8, <4>1
    <3> QED BY <3>2, <3>3, <3>4
  <2> QED BY <2>1, <2>2 DEF AgendaOK
<1>12. ASSUME NEW i \in 1 .. Len(B)
       PROVE  c.kind[B[i].who] = B[i].kind /\ c.task[B[i].who] = B[i].tid
  <2>1. e.who \in Procs /\ DOMAIN b.kind = Procs /\ DOMAIN b.task = Procs
    BY DEF Events, Books
  <2>2. ASSUME NEW k \in 1 .. Len(A), B[i] = A[k]
        PROVE  c.kind[B[i].who] = B[i].kind /\ c.task[B[i].who] = B[i].tid
    <3>1. A[k].who \in Procs /\ A[k].who # e.who
      BY <1>8
    <3>2. b.kind[A[k].who] = A[k].kind /\ b.task[A[k].who] = A[k].tid
      BY DEF Filed, A
    <3>3. c.kind[A[k].who] = b.kind[A[k].who] /\ c.task[A[k].who] = b.task[A[k].who]
      BY <2>1, <3>1
    <3> QED BY <2>2, <3>2, <3>3
  <2>3. CASE B[i] = g
    BY <1>3, <2>1, <2>3
  <2> QED BY <1>7, <2>2, <2>3
<1>13. ASSUME NEW w \in Procs, c.kind[w] \in EventKinds
       PROVE  \E i \in 1 .. Len(B) : B[i].who = w
  <2>1. CASE w = e.who
    <3>1. n + 1 \in 1 .. Len(B) /\ B[n + 1] = g
      BY <1>1, <1>2, <1>6
    <3> QED BY <1>3, <2>1, <3>1
  <2>2. CASE w # e.who
    <3>1. b.kind[w] = c.kind[w]
      BY <2>2 DEF Books
    <3>2. PICK i \in 1 .. Len(A) : A[i].who = w
      BY <1>13, <3>1 DEF Filed, A
    <3>3. CASE i <= n
      <4>1. i \in 1 .. Len(B) /\ B[i] = A[i]
        BY <1>1, <1>2, <1>6, <3>3
      <4> QED BY <3>2, <4>1
    <3>4. CASE ~(i <= n)
      <4>1. i + 1 \in 1 .. Len(B) /\ B[i + 1] = A[i]
        BY <1>1, <1>2, <1>6, <3>4
      <4> QED BY <3>2, <4>1
    <3> QED BY <3>3, <3>4
  <2> QED BY <2>1, <2>2
<1>14. Schedule(s, d, e) \in Stores
  BY <1>4, <1>6 DEF Stores
<1> QED BY <1>5, <1>11, <1>12, <1>13, <1>14 DEF Filed

(***************************************************************************)
(* The first event fires.  What the order of the agenda says of it: its    *)
(* process has no other, and it is the next in the order of x.             *)
(***************************************************************************)
LEMMA FirstEvent ==
  ASSUME NEW A \in Seq(Events), A # <<>>, NEW b \in Books, Filed(A, b)
  PROVE  /\ A[1] \in Events /\ b.kind[A[1].who] = A[1].kind /\ b.task[A[1].who] = A[1].tid
         /\ PutsExec(A[1]) => \A l \in Leaders \ {A[1].who} :
              b.kind[l] = "put" => b.at[A[1].tid] < b.at[b.task[l]]
         /\ GotExec(A[1]) => \A f \in Followers \ {A[1].who} :
              b.kind[f] = "got" => b.at[A[1].tid] < b.at[b.task[f]]
         /\ GotExec(A[1]) => \A l \in Leaders : b.kind[l] = "put" => b.task[l] # A[1].tid
<1>1. Len(A) \in Nat /\ 1 \in 1 .. Len(A) /\ \A i \in 1 .. Len(A) : A[i] \in Events
  BY LenProperties, ElementOfSeq, EmptySeq
<1>2. A[1] \in Events /\ b.kind[A[1].who] = A[1].kind /\ b.task[A[1].who] = A[1].tid
  BY <1>1 DEF Filed
<1>3. ASSUME NEW w \in Procs, b.kind[w] \in EventKinds, w # A[1].who
      PROVE  \E i \in 1 .. Len(A) : /\ A[i].who = w /\ A[i].kind = b.kind[w] /\ A[i].tid = b.task[w]
                                   /\ InOrder(A[1], A[i], b.at)
  <2>1. PICK i \in 1 .. Len(A) : A[i].who = w
    BY <1>3 DEF Filed
  <2>2. i # 1 /\ i \in Nat
    BY <1>1, <1>3, <2>1
  <2>3. 1 < i
    BY <2>2
  <2>4. A[i].kind = b.kind[w] /\ A[i].tid = b.task[w]
    BY <2>1 DEF Filed
  <2>5. InOrder(A[1], A[i], b.at)
    BY <1>1, <2>3 DEF Filed, AgendaOK
  <2> QED BY <2>1, <2>4, <2>5
<1>4. ASSUME PutsExec(A[1]), NEW l \in Leaders \ {A[1].who}, b.kind[l] = "put"
      PROVE  b.at[A[1].tid] < b.at[b.task[l]]
  <2>1. PICK i \in 1 .. Len(A) : /\ A[i].who = l /\ A[i].kind = b.kind[l] /\ A[i].tid = b.task[l]
                                /\ InOrder(A[1], A[i], b.at)
    BY <1>3, <1>4 DEF Procs, EventKinds
  <2> QED BY <1>4, <2>1 DEF InOrder, PutsExec
<1>5. ASSUME GotExec(A[1]), NEW f \in Followers \ {A[1].who}, b.kind[f] = "got"
      PROVE  b.at[A[1].tid] < b.at[b.task[f]]
  <2>1. PICK i \in 1 .. Len(A) : /\ A[i].who = f /\ A[i].kind = b.kind[f] /\ A[i].tid = b.task[f]
                                /\ InOrder(A[1], A[i], b.at)
    BY <1>3, <1>5 DEF Procs, EventKinds
  <2> QED BY <1>5, <2>1 DEF InOrder, GotExec
<1>6. ASSUME GotExec(A[1]), NEW l \in Leaders, b.kind[l] = "put"
      PROVE  b.task[l] # A[1].tid
  <2>1. l # A[1].who
    BY <1>6, ProcsDiffer DEF GotExec
  <2>2. PICK i \in 1 .. Len(A) : /\ A[i].who = l /\ A[i].kind = b.kind[l] /\ A[i].tid = b.task[l]
                                /\ InOrder(A[1], A[i], b.at)
    BY <1>3, <1>6, <2>1 DEF Procs, EventKinds
  <2> QED BY <1>6, <2>2 DEF InOrder, PutsExec
<1> QED BY <1>2, <1>4, <1>5, <1>6

After(agd) == [i \in 1 .. Len(agd) - 1 |-> [agd[i + 1] EXCEPT !.in = @ - agd[1].in]]

LEMMA FireFiles ==
  ASSUME NEW A \in Seq(Events), A # <<>>, NEW b \in Books, NEW c \in Books, Filed(A, b),
         c.at = b.at, c.task = b.task, c.kind = [b.kind EXCEPT ![A[1].who] = "none"]
  PROVE  After(A) \in Seq(Events) /\ Filed(After(A), c)
<1> DEFINE B == After(A)
<1>1. /\ Len(A) \in Nat /\ Len(A) >= 1 /\ 1 \in 1 .. Len(A) /\ Len(A) - 1 \in Nat
      /\ \A i \in 1 .. Len(A) : A[i] \in Events
  BY LenProperties, ElementOfSeq, EmptySeq
<1>2. ASSUME NEW i \in 1 .. Len(A) - 1
      PROVE  /\ i + 1 \in 1 .. Len(A) /\ A[i + 1] \in Events /\ A[1].in <= A[i + 1].in
             /\ A[1].who # A[i + 1].who
             /\ B[i] = [A[i + 1] EXCEPT !.in = @ - A[1].in]
  <2>1. i + 1 \in 1 .. Len(A) /\ 1 < i + 1
    BY <1>1
  <2>2. A[1].in <= A[i + 1].in /\ A[1].who # A[i + 1].who
    BY <1>1, <2>1 DEF Filed, AgendaOK
  <2> QED BY <1>1, <2>1, <2>2 DEF After
<1>3. ASSUME NEW i \in 1 .. Len(A) - 1
      PROVE  /\ B[i] \in Events /\ B[i].in = A[i + 1].in - A[1].in
             /\ B[i].kind = A[i + 1].kind /\ B[i].who = A[i + 1].who /\ B[i].tid = A[i + 1].tid
  <2> DEFINE e == A[i + 1]
             n == A[1].in
  <2>1. e \in Events /\ n \in Nat /\ n <= e.in /\ B[i] = [e EXCEPT !.in = @ - n]
    BY <1>1, <1>2 DEF Events
  <2> HIDE DEF e, n, B
  <2>2. e.in - n \in Nat
    BY <2>1 DEF Events
  <2>3. /\ B[i] \in Events /\ B[i].in = e.in - n
        /\ B[i].kind = e.kind /\ B[i].who = e.who /\ B[i].tid = e.tid
    BY <2>1, <2>2 DEF Events
  <2> QED BY <2>3 DEF e, n
<1>4. B \in Seq(Events) /\ Len(B) = Len(A) - 1
  <2>1. B \in [1 .. Len(A) - 1 -> Events]
    BY <1>3 DEF After
  <2> QED BY <1>1, <2>1, SeqDef, LenProperties
<1> HIDE DEF B
<1>5. AgendaOK(B, c.at)
  <2>1. ASSUME NEW i \in 1 .. Len(B) PROVE B[i].kind # "timeout" => B[i].in = 0
    <3>1. i \in 1 .. Len(A) - 1
      BY <1>4
    <3>2. A[i + 1].kind # "timeout" => A[i + 1].in = 0
      BY <1>2, <3>1 DEF Filed, AgendaOK
    <3>3. A[1].in \in Nat /\ A[i + 1].in \in Nat /\ A[1].in <= A[i + 1].in
      BY <1>1, <1>2, <3>1 DEF Events
    <3> QED BY <1>3, <3>1, <3>2, <3>3
  <2>2. ASSUME NEW i \in 1 .. Len(B), NEW j \in 1 .. Len(B), i < j
        PROVE  B[i].in <= B[j].in /\ B[i].who # B[j].who /\ InOrder(B[i], B[j], c.at)
    <3>1. i \in 1 .. Len(A) - 1 /\ j \in 1 .. Len(A) - 1
      BY <1>4
    <3>2. i + 1 \in 1 .. Len(A) /\ j + 1 \in 1 .. Len(A) /\ i + 1 < j + 1
      BY <1>1, <2>2, <3>1
    <3>3. A[i + 1].in <= A[j + 1].in /\ A[i + 1].who # A[j + 1].who /\ InOrder(A[i + 1], A[j + 1], b.at)
      BY <3>2 DEF Filed, AgendaOK
    <3>4. A[1].in \in Nat /\ A[i + 1].in \in Nat /\ A[j + 1].in \in Nat
      BY <1>1, <3>2 DEF Events
    <3>5. B[i].in <= B[j].in /\ B[i].who # B[j].who
      BY <1>3, <3>1, <3>3, <3>4
    <3>6. InOrder(B[i], B[j], c.at)
      BY <1>3, <3>1, <3>3 DEF InOrder, PutsExec, GotExec
    <3> QED BY <3>5, <3>6
  <2> QED BY <2>1, <2>2 DEF AgendaOK
<1>6. A[1].who \in Procs /\ DOMAIN b.kind = Procs
  BY <1>1 DEF Events, Books
<1>7. ASSUME NEW i \in 1 .. Len(B)
      PROVE  c.kind[B[i].who] = B[i].kind /\ c.task[B[i].who] = B[i].tid
  <2>1. i \in 1 .. Len(A) - 1
    BY <1>4
  <2>2. b.kind[A[i + 1].who] = A[i + 1].kind /\ b.task[A[i + 1].who] = A[i + 1].tid
    BY <1>2, <2>1 DEF Filed
  <2>3. A[i + 1].who # A[1].who /\ A[i + 1].who \in Procs
    BY <1>2, <2>1 DEF Events
  <2>4. c.kind[A[i + 1].who] = b.kind[A[i + 1].who]
    BY <1>6, <2>3
  <2> QED BY <1>3, <2>1, <2>2, <2>4
<1>8. ASSUME NEW w \in Procs, c.kind[w] \in EventKinds
      PROVE  \E i \in 1 .. Len(B) : B[i].who = w
  <2>1. w # A[1].who /\ b.kind[w] \in EventKinds
    BY <1>6, <1>8 DEF EventKinds
  <2>2. PICK j \in 1 .. Len(A) : A[j].who = w
    BY <2>1 DEF Filed
  <2>3. j # 1 /\ j \in Nat
    BY <1>1, <2>1, <2>2
  <2> DEFINE i == j - 1
  <2>4. i \in 1 .. Len(A) - 1 /\ i + 1 = j
    BY <1>1, <2>3
  <2> HIDE DEF i
  <2>5. B[i].who = w
    BY <1>3, <2>2, <2>4
  <2> QED BY <1>4, <2>4, <2>5
<1> QED BY <1>4, <1>5, <1>7, <1>8 DEF Filed, B

-------------------------------------------------------------------------------
(***************************************************************************)
(* The books, one entry at a time.  First what the types say.              *)
(***************************************************************************)
LEMMA BookTypes ==
  ASSUME NEW b \in Books
  PROVE  /\ b.kind \in [Procs -> EventKinds \cup {"wait", "none"}]
         /\ b.task \in [Procs -> Tasks \cup {NoTask}]
         /\ b.batch \in [Leaders -> Seq(Tasks)] /\ b.running \in [Followers -> Tasks \cup {NoTask}]
         /\ b.at \in [Tasks -> Nat] /\ b.arrived \in 0 .. NUM_TASKS /\ b.finished \subseteq Tasks
         /\ b.buffer \in Seq(Tasks) /\ b.queue \in Seq(Tasks)
         /\ b.idle \in Seq(Leaders) /\ b.free \in Seq(Followers)
         /\ b.enqueued \in Seq([tid : Tasks, by : Leaders])
         /\ b.started \in Seq(Tasks) /\ b.x \in Seq(Tasks)
BY DEF Books

LEMMA BookLengths ==
  ASSUME NEW b \in Books
  PROVE  /\ Len(b.buffer) \in Nat /\ Len(b.queue) \in Nat /\ Len(b.idle) \in Nat /\ Len(b.free) \in Nat
         /\ Len(b.enqueued) \in Nat /\ Len(b.started) \in Nat /\ Len(b.x) \in Nat
         /\ \A l \in Leaders : Len(b.batch[l]) \in Nat
BY BookTypes, LenProperties

LEMMA BookElements ==
  ASSUME NEW b \in Books
  PROVE  /\ \A i \in 1 .. Len(b.buffer) : b.buffer[i] \in Tasks
         /\ \A i \in 1 .. Len(b.queue) : b.queue[i] \in Tasks
         /\ \A i \in 1 .. Len(b.idle) : b.idle[i] \in Leaders
         /\ \A i \in 1 .. Len(b.free) : b.free[i] \in Followers
         /\ \A i \in 1 .. Len(b.enqueued) : b.enqueued[i].tid \in Tasks /\ b.enqueued[i].by \in Leaders
         /\ \A i \in 1 .. Len(b.started) : b.started[i] \in Tasks
         /\ \A i \in 1 .. Len(b.x) : b.x[i] \in Tasks
         /\ \A l \in Leaders : \A i \in 1 .. Len(b.batch[l]) : b.batch[l][i] \in Tasks
<1>1. \A i \in 1 .. Len(b.enqueued) : b.enqueued[i] \in [tid : Tasks, by : Leaders]
  BY BookTypes, ElementOfSeq
<1>2. \A l \in Leaders : b.batch[l] \in Seq(Tasks)
  BY BookTypes
<1>3. \A l \in Leaders : \A i \in 1 .. Len(b.batch[l]) : b.batch[l][i] \in Tasks
  BY <1>2, ElementOfSeq
<1>4. /\ \A i \in 1 .. Len(b.buffer) : b.buffer[i] \in Tasks
      /\ \A i \in 1 .. Len(b.queue) : b.queue[i] \in Tasks
      /\ \A i \in 1 .. Len(b.started) : b.started[i] \in Tasks
      /\ \A i \in 1 .. Len(b.x) : b.x[i] \in Tasks
  BY BookTypes, ElementOfSeq
<1>5. /\ \A i \in 1 .. Len(b.idle) : b.idle[i] \in Leaders
      /\ \A i \in 1 .. Len(b.free) : b.free[i] \in Followers
  BY BookTypes, ElementOfSeq
<1> QED BY <1>1, <1>3, <1>4, <1>5

LEMMA TaskNumbers == \A t \in Tasks : t \in Nat /\ t >= 1 /\ t <= NUM_TASKS
BY Positive DEF Tasks

\* Process w is given the event, or the state, kind with the task tid.
Files(b, w, kind, tid) ==
  [b EXCEPT !.kind = [b.kind EXCEPT ![w] = kind], !.task = [b.task EXCEPT ![w] = tid]]

\* Process w runs.
Fires(b, w) == [b EXCEPT !.kind = [b.kind EXCEPT ![w] = "none"]]

LEMMA FiresFields ==
  ASSUME NEW b \in Books, NEW w \in Procs
  PROVE  LET c == Fires(b, w)
         IN  /\ c \in Books /\ c.kind = [b.kind EXCEPT ![w] = "none"] /\ c.task = b.task
             /\ c.buffer = b.buffer /\ c.queue = b.queue /\ c.idle = b.idle /\ c.free = b.free
             /\ c.arrived = b.arrived /\ c.batch = b.batch /\ c.running = b.running
             /\ c.enqueued = b.enqueued /\ c.started = b.started /\ c.finished = b.finished
             /\ c.x = b.x /\ c.at = b.at
BY DEF Fires, Books

LEMMA FilesFields ==
  ASSUME NEW b \in Books, NEW w \in Procs, NEW kind \in EventKinds \cup {"wait", "none"},
         NEW tid \in Tasks \cup {NoTask}
  PROVE  LET c == Files(b, w, kind, tid)
         IN  /\ c \in Books /\ c.kind = [b.kind EXCEPT ![w] = kind] /\ c.task = [b.task EXCEPT ![w] = tid]
             /\ c.buffer = b.buffer /\ c.queue = b.queue /\ c.idle = b.idle /\ c.free = b.free
             /\ c.arrived = b.arrived /\ c.batch = b.batch /\ c.running = b.running
             /\ c.enqueued = b.enqueued /\ c.started = b.started /\ c.finished = b.finished
             /\ c.x = b.x /\ c.at = b.at
BY DEF Files, Books

\* What is the same in two books needs no proof; for Starts, which compares
\* lengths, it is said once.
LEMMA StartsSame ==
  ASSUME NEW b \in Books, NEW c \in Books, Starts(b),
         c.queue = b.queue, c.x = b.x, c.at = b.at, c.started = b.started,
         Len(c.enqueued) = Len(b.enqueued) \/ c.enqueued = b.enqueued,
         \A f \in Followers : c.kind[f] = "got" <=> b.kind[f] = "got",
         \A f \in Followers : b.kind[f] = "got" => c.task[f] = b.task[f]
  PROVE  Starts(c)
<1>1. \A k \in Len(c.started) + 1 .. Len(c.x) - Len(c.queue) :
        \E f \in Followers : c.kind[f] = "got" /\ c.task[f] = c.x[k]
  BY DEF Starts
<1>2. \A f \in Followers : c.kind[f] = "got" =>
        /\ c.task[f] \in Tasks
        /\ c.at[c.task[f]] > Len(c.started) /\ c.at[c.task[f]] <= Len(c.x) - Len(c.queue)
  BY DEF Starts
<1>3. /\ Len(c.started) + Len(c.queue) <= Len(c.x) /\ Len(c.started) <= Len(c.enqueued)
      /\ Begins(c.started, c.x) /\ Ends(c.queue, c.x)
  BY DEF Starts
<1> QED BY <1>1, <1>2, <1>3 DEF Starts

\* An event with which nothing is handed over fires.
LEMMA FiresKept ==
  ASSUME NEW b, Kept(b), NEW w \in Procs,
         b.kind[w] \in {"init", "timeout"} \/ (w = Arrival /\ b.kind[w] = "put")
  PROVE  Kept(Fires(b, w))
<1> DEFINE c == Fires(b, w)
<1>1. b \in Books
  BY DEF Kept
<1>2. /\ c \in Books /\ c.kind = [b.kind EXCEPT ![w] = "none"] /\ c.task = b.task
      /\ c.buffer = b.buffer /\ c.queue = b.queue /\ c.idle = b.idle /\ c.free = b.free
      /\ c.arrived = b.arrived /\ c.batch = b.batch /\ c.running = b.running
      /\ c.enqueued = b.enqueued /\ c.started = b.started /\ c.finished = b.finished
      /\ c.x = b.x /\ c.at = b.at
  BY <1>1, FiresFields
<1> HIDE DEF c
<1>3. /\ \A v \in Procs : c.kind[v] = IF v = w THEN "none" ELSE b.kind[v]
      /\ \A v \in Procs \ {w} : c.kind[v] = b.kind[v]
      /\ b.kind[w] # "wait" /\ b.kind[w] # "got" /\ (w \in Leaders => b.kind[w] # "put")
  BY <1>1, <1>2, BookTypes, ProcsDiffer
<1>4. /\ \A l \in Leaders : l \in Procs /\ (b.kind[l] \in {"got", "put"} => c.kind[l] = b.kind[l])
      /\ \A f \in Followers : f \in Procs /\ (b.kind[f] = "got" => c.kind[f] = "got")
      /\ \A l \in Leaders : c.kind[l] \in {"got", "put"} => b.kind[l] = c.kind[l]
      /\ \A f \in Followers : c.kind[f] = "got" => b.kind[f] = "got"
  BY <1>3 DEF Procs
<1>5. Hands(c)
  BY <1>2, <1>3 DEF Kept, Hands, Procs
<1>6. Getters(c)
  BY <1>1, <1>2, <1>3, BookElements DEF Kept, Getters, Procs
<1>7. Buffered(c) /\ Numbered(c) /\ Executes(c)
  BY <1>2 DEF Kept, Buffered, Taken, Numbered, Executes
<1>8. WithLeaders(c)
  BY <1>2, <1>4 DEF Kept, WithLeaders, Taken
<1>9. Puts(c)
  BY <1>2, <1>4 DEF Kept, Puts
<1>10. Starts(c)
  BY <1>1, <1>2, <1>4, StartsSame DEF Kept
<1>11. LeaderOrder(c)
  BY <1>1, <1>2, <1>4, BookElements DEF Kept, LeaderOrder
<1> QED BY <1>2, <1>5, <1>6, <1>7, <1>8, <1>9, <1>10, <1>11 DEF Kept, c

Finishes(b, f) ==
  [b EXCEPT !.finished = b.finished \cup {b.running[f]}, !.running = [b.running EXCEPT ![f] = NoTask]]

\* A follower is done with its task.
LEMMA FinishesKept ==
  ASSUME NEW b, Kept(b), NEW f \in Followers, b.kind[f] = "none", b.running[f] # NoTask
  PROVE  Kept(Finishes(b, f))
<1> DEFINE c == Finishes(b, f)
<1>1. b \in Books /\ b.running[f] \in Tasks
  BY BookTypes DEF Kept
<1>2. /\ c \in Books /\ c.kind = b.kind /\ c.task = b.task
      /\ c.buffer = b.buffer /\ c.queue = b.queue /\ c.idle = b.idle /\ c.free = b.free
      /\ c.arrived = b.arrived /\ c.batch = b.batch
      /\ c.running = [b.running EXCEPT ![f] = NoTask]
      /\ c.enqueued = b.enqueued /\ c.started = b.started
      /\ c.finished = b.finished \cup {b.running[f]}
      /\ c.x = b.x /\ c.at = b.at
  BY <1>1 DEF Finishes, Books
<1> HIDE DEF c
<1>3. \A g \in Followers : c.running[g] = IF g = f THEN NoTask ELSE b.running[g]
  BY <1>1, <1>2, BookTypes
<1>4. Hands(c)
  BY <1>2, <1>3 DEF Kept, Hands
<1>5. Getters(c) /\ Buffered(c) /\ WithLeaders(c)
  BY <1>2 DEF Kept, Getters, Buffered, WithLeaders, Taken
<1>6. Numbered(c) /\ Puts(c) /\ LeaderOrder(c)
  BY <1>2 DEF Kept, Numbered, Puts, LeaderOrder
<1>7. Starts(c)
  BY <1>1, <1>2, StartsSame DEF Kept
<1>8. Executes(c)
  <2>1. Executes(b)
    BY DEF Kept
  <2>2. \A g \in Followers : c.running[g] # NoTask =>
          /\ c.at[c.running[g]] \in 1 .. Len(c.started) /\ c.running[g] \notin c.finished
          /\ \A h \in Followers : c.running[g] = c.running[h] => g = h
    BY <1>2, <1>3, <2>1 DEF Executes
  <2>3. \A t \in c.finished : c.at[t] \in 1 .. Len(c.started)
    BY <1>1, <1>2, <2>1, NoTaskIsNone DEF Executes
  <2>4. \A k \in 1 .. Len(c.started) :
          c.x[k] \in c.finished \/ \E g \in Followers : c.running[g] = c.x[k]
    BY <1>2, <1>3, <2>1 DEF Executes
  <2> QED BY <2>2, <2>3, <2>4 DEF Executes
<1> QED BY <1>2, <1>4, <1>5, <1>6, <1>7, <1>8 DEF Kept, c

Begun(b, f) ==
  [b EXCEPT !.kind = [b.kind EXCEPT ![f] = "none"], !.started = Append(b.started, b.task[f]),
            !.running = [b.running EXCEPT ![f] = b.task[f]]]

\* A follower starts its task: the next of x, and recorded as enqueued.
LEMMA BegunKept ==
  ASSUME NEW b, Kept(b), NEW f \in Followers, b.kind[f] = "got",
         \A g \in Followers \ {f} : b.kind[g] = "got" => b.at[b.task[f]] < b.at[b.task[g]],
         \A l \in Leaders : b.kind[l] = "put" => b.task[l] # b.task[f]
  PROVE  Kept(Begun(b, f))
<1> DEFINE c == Begun(b, f)
           t == b.task[f]
           n == Len(b.started)
<1>1. b \in Books /\ Starts(b) /\ Numbered(b) /\ Puts(b) /\ Executes(b) /\ t \in Tasks
  BY DEF Kept, Starts
<1>2. /\ c \in Books /\ c.kind = [b.kind EXCEPT ![f] = "none"] /\ c.task = b.task
      /\ c.buffer = b.buffer /\ c.queue = b.queue /\ c.idle = b.idle /\ c.free = b.free
      /\ c.arrived = b.arrived /\ c.batch = b.batch
      /\ c.running = [b.running EXCEPT ![f] = t]
      /\ c.enqueued = b.enqueued /\ c.started = Append(b.started, t)
      /\ c.finished = b.finished /\ c.x = b.x /\ c.at = b.at
  <2>1. Append(b.started, t) \in Seq(Tasks)
    BY <1>1, BookTypes, AppendProperties
  <2> QED BY <1>1, <2>1 DEF Begun, Books
<1> HIDE DEF c
<1>3. /\ n \in Nat /\ Len(b.queue) \in Nat /\ Len(b.x) \in Nat /\ Len(b.enqueued) \in Nat
      /\ b.at[t] \in Nat
  BY <1>1, BookLengths, BookTypes
<1>4. b.at[t] > n /\ b.at[t] <= Len(b.x) - Len(b.queue) /\ n <= Len(b.enqueued)
  BY <1>1 DEF Starts
<1>5. b.x[n + 1] = t /\ b.at[t] = n + 1
  <2>1. n + 1 \in n + 1 .. Len(b.x) - Len(b.queue) /\ n + 1 \in 1 .. Len(b.x)
    BY <1>1, <1>3, <1>4 DEF Books
  <2>2. PICK g \in Followers : b.kind[g] = "got" /\ b.task[g] = b.x[n + 1]
    BY <1>1, <2>1 DEF Starts
  <2>3. b.at[b.x[n + 1]] = n + 1
    BY <1>1, <2>1 DEF Numbered
  <2>4. g = f
    BY <1>3, <1>4, <2>2, <2>3
  <2> QED BY <2>2, <2>3, <2>4
<1>6. n + 1 <= Len(b.enqueued)
  <2> SUFFICES ASSUME ~(n + 1 <= Len(b.enqueued)) PROVE FALSE
    OBVIOUS
  <2>1. n + 1 \in Len(b.enqueued) + 1 .. Len(b.x)
    BY <1>1, <1>3, <1>4 DEF Books
  <2> QED BY <1>1, <1>5, <2>1 DEF Puts
<1>7. /\ Len(c.started) = n + 1 /\ c.started[n + 1] = t
      /\ \A k \in 1 .. n : c.started[k] = b.started[k]
  BY <1>1, <1>2, BookTypes, AppendProperties
<1>8. /\ \A v \in Procs \ {f} : c.kind[v] = b.kind[v]
      /\ c.kind[f] = "none" /\ f \in Procs /\ f \notin Leaders
      /\ \A l \in Leaders : l \in Procs /\ c.kind[l] = b.kind[l]
      /\ Arrival \in Procs /\ c.kind[Arrival] = b.kind[Arrival]
      /\ \A g \in Followers : c.running[g] = IF g = f THEN t ELSE b.running[g]
  BY <1>1, <1>2, BookTypes, ProcsDiffer DEF Procs
<1>9. Hands(c)
  <2>1. \A g \in Followers \ {f} : c.kind[g] = b.kind[g] /\ c.running[g] = b.running[g]
    BY <1>8 DEF Procs
  <2> QED BY <1>2, <1>8, <2>1 DEF Kept, Hands
<1>10. Getters(c)
  <2>1. Getters(b)
    BY DEF Kept
  <2>2. \A i \in 1 .. Len(b.free) : b.free[i] \in Followers /\ b.free[i] # f
    BY <1>1, <2>1, BookElements DEF Getters
  <2>3. \A i \in 1 .. Len(b.free) : c.kind[b.free[i]] = "wait"
    BY <1>8, <2>1, <2>2 DEF Getters, Procs
  <2>4. \A i \in 1 .. Len(b.idle) : c.kind[b.idle[i]] = "wait"
    BY <1>1, <1>8, <2>1, BookElements DEF Getters
  <2> QED BY <1>2, <2>1, <2>3, <2>4 DEF Getters
<1>11. Buffered(c) /\ WithLeaders(c)
  <2>1. Buffered(b) /\ WithLeaders(b) /\ Taken(c) = Taken(b)
    BY <1>2 DEF Kept, Taken
  <2>2. Buffered(c)
    BY <1>2, <2>1 DEF Buffered
  <2>3. \A l \in Leaders : c.kind[l] = b.kind[l]
    BY <1>8
  <2> QED BY <1>2, <2>1, <2>2, <2>3 DEF WithLeaders
<1>12. Numbered(c)
  BY <1>2 DEF Kept, Numbered
<1>13. Puts(c)
  BY <1>2, <1>8 DEF Kept, Puts
<1>14. Starts(c)
  <2>1. Len(c.started) + Len(c.queue) <= Len(c.x) /\ Len(c.started) <= Len(c.enqueued)
    BY <1>1, <1>2, <1>3, <1>4, <1>5, <1>6, <1>7 DEF Books
  <2>2. Begins(c.started, c.x)
    <3>1. \A k \in 1 .. n + 1 : k \in 1 .. n \/ k = n + 1
      BY <1>3
    <3> QED BY <1>1, <1>2, <1>5, <1>7, <3>1 DEF Starts, Begins
  <2>3. Ends(c.queue, c.x)
    BY <1>1, <1>2 DEF Starts
  <2>4. ASSUME NEW g \in Followers, c.kind[g] = "got"
        PROVE  /\ c.task[g] \in Tasks
               /\ c.at[c.task[g]] > Len(c.started) /\ c.at[c.task[g]] <= Len(c.x) - Len(c.queue)
    <3>1. g # f /\ b.kind[g] = "got"
      BY <1>8, <2>4 DEF Procs
    <3>2. b.task[g] \in Tasks /\ b.at[b.task[g]] <= Len(b.x) - Len(b.queue) /\ b.at[b.task[g]] \in Nat
      BY <1>1, <3>1, BookTypes DEF Starts
    <3>3. n + 1 < b.at[b.task[g]]
      BY <1>5, <3>1
    <3> QED BY <1>2, <1>7, <3>2, <3>3
  <2>5. ASSUME NEW k \in Len(c.started) + 1 .. Len(c.x) - Len(c.queue)
        PROVE  \E g \in Followers : c.kind[g] = "got" /\ c.task[g] = c.x[k]
    <3>1. k \in n + 1 .. Len(b.x) - Len(b.queue) /\ k \in 1 .. Len(b.x) /\ k # n + 1
      BY <1>2, <1>3, <1>7
    <3>2. PICK g \in Followers : b.kind[g] = "got" /\ b.task[g] = b.x[k]
      BY <1>1, <3>1 DEF Starts
    <3>3. b.at[b.x[k]] = k
      BY <1>1, <3>1 DEF Numbered
    <3>4. g # f
      BY <1>5, <3>1, <3>2, <3>3
    <3> QED BY <1>2, <1>8, <3>2, <3>4 DEF Procs
  <2> QED BY <2>1, <2>2, <2>3, <2>4, <2>5 DEF Starts
<1>15. Executes(c)
  <2>1. /\ \A g \in Followers : b.running[g] # t
        /\ t \notin b.finished /\ t # NoTask
    BY <1>1, <1>3, <1>5, NoTaskIsNone DEF Executes
  <2>2. 1 .. n \subseteq 1 .. n + 1 /\ n + 1 \in 1 .. n + 1 /\ \A k \in 1 .. n + 1 : k \in 1 .. n \/ k = n + 1
    BY <1>3
  <2>3. ASSUME NEW g \in Followers, c.running[g] # NoTask
        PROVE  /\ c.at[c.running[g]] \in 1 .. Len(c.started) /\ c.running[g] \notin c.finished
               /\ \A h \in Followers : c.running[g] = c.running[h] => g = h
    BY <1>1, <1>2, <1>5, <1>7, <1>8, <2>1, <2>2, <2>3 DEF Executes
  <2>4. \A u \in c.finished : c.at[u] \in 1 .. Len(c.started)
    BY <1>1, <1>2, <1>7, <2>2 DEF Executes
  <2>5. ASSUME NEW k \in 1 .. Len(c.started)
        PROVE  c.x[k] \in c.finished \/ \E g \in Followers : c.running[g] = c.x[k]
    <3>1. CASE k = n + 1
      BY <1>2, <1>5, <1>8, <3>1
    <3>2. CASE k \in 1 .. n
      <4>1. b.running[f] = NoTask
        BY DEF Kept, Hands
      <4>2. b.x[k] \in b.finished \/ \E g \in Followers : b.running[g] = b.x[k]
        BY <1>1, <3>2 DEF Executes
      <4>3. b.x[k] # NoTask
        <5>1. k \in 1 .. Len(b.x)
          <6>1. n <= Len(b.x)
            BY <1>1, <1>3 DEF Starts, Books
          <6> QED BY <1>1, <1>3, <3>2, <6>1 DEF Books
        <5> QED BY <1>1, <5>1, BookElements, NoTaskIsNone
      <4> QED BY <1>2, <1>8, <4>1, <4>2, <4>3
    <3> QED BY <1>7, <2>2, <3>1, <3>2
  <2> QED BY <2>3, <2>4, <2>5 DEF Executes
<1>16. LeaderOrder(c)
  <2>1. \A i \in 1 .. Len(b.enqueued) : c.kind[b.enqueued[i].by] = b.kind[b.enqueued[i].by]
    BY <1>1, <1>8, BookElements
  <2> QED BY <1>2, <1>8, <2>1 DEF Kept, LeaderOrder
<1> QED BY <1>2, <1>9, <1>10, <1>11, <1>12, <1>13, <1>14, <1>15, <1>16 DEF Kept, c

Recorded(b, l) ==
  [b EXCEPT !.kind = [b.kind EXCEPT ![l] = "none"],
            !.enqueued = Append(b.enqueued, [tid |-> b.task[l], by |-> l])]

\* A leader's put event fires, and its task, the next of x, is recorded.
LEMMA RecordedKept ==
  ASSUME NEW b, Kept(b), NEW l \in Leaders, b.kind[l] = "put",
         \A m \in Leaders \ {l} : b.kind[m] = "put" => b.at[b.task[l]] < b.at[b.task[m]]
  PROVE  Kept(Recorded(b, l))
<1> DEFINE c == Recorded(b, l)
           t == b.task[l]
           n == Len(b.enqueued)
           r == [tid |-> t, by |-> l]
<1>1. b \in Books /\ Numbered(b) /\ Puts(b) /\ Starts(b) /\ LeaderOrder(b) /\ t \in Tasks
  BY DEF Kept, Puts
<1>2. r \in [tid : Tasks, by : Leaders] /\ r.tid = t /\ r.by = l
  BY <1>1
<1>3. /\ c \in Books /\ c.kind = [b.kind EXCEPT ![l] = "none"] /\ c.task = b.task
      /\ c.buffer = b.buffer /\ c.queue = b.queue /\ c.idle = b.idle /\ c.free = b.free
      /\ c.arrived = b.arrived /\ c.batch = b.batch /\ c.running = b.running
      /\ c.enqueued = Append(b.enqueued, r) /\ c.started = b.started
      /\ c.finished = b.finished /\ c.x = b.x /\ c.at = b.at
  <2>1. Append(b.enqueued, r) \in Seq([tid : Tasks, by : Leaders])
    BY <1>1, <1>2, BookTypes, AppendProperties
  <2> HIDE DEF r
  <2>2. c = [b EXCEPT !.kind = [b.kind EXCEPT ![l] = "none"], !.enqueued = Append(b.enqueued, r)]
    BY DEF Recorded, r
  <2> HIDE DEF c
  <2>3. [b.kind EXCEPT ![l] = "none"] \in [Procs -> EventKinds \cup {"wait", "none"}]
    BY <1>1, BookTypes
  <2> QED BY <1>1, <2>1, <2>2, <2>3 DEF Books
<1>4. n \in Nat /\ Len(b.x) \in Nat /\ b.at[t] \in Nat /\ Len(b.started) \in Nat
  BY <1>1, BookLengths, BookTypes
<1>5. /\ Len(c.enqueued) = n + 1 /\ c.enqueued[n + 1].tid = t /\ c.enqueued[n + 1].by = l
      /\ \A k \in 1 .. n : c.enqueued[k] = b.enqueued[k]
  <2>1. /\ Len(c.enqueued) = n + 1 /\ c.enqueued[n + 1] = r
        /\ \A k \in 1 .. n : c.enqueued[k] = b.enqueued[k]
    BY <1>1, <1>2, <1>3, BookTypes, AppendProperties
  <2> QED BY <1>2, <2>1
<1> HIDE DEF c, r
<1>6. b.at[t] > n /\ b.at[t] <= Len(b.x)
  BY <1>1, <1>4 DEF Puts, Numbered, Books
<1>7. b.x[n + 1] = t /\ b.at[t] = n + 1 /\ n + 1 <= Len(b.x)
  <2>1. n + 1 \in n + 1 .. Len(b.x) /\ n + 1 \in 1 .. Len(b.x)
    BY <1>1, <1>4, <1>6 DEF Books
  <2>2. PICK m \in Leaders : b.kind[m] = "put" /\ b.task[m] = b.x[n + 1]
    BY <1>1, <2>1 DEF Puts
  <2>3. b.at[b.x[n + 1]] = n + 1
    BY <1>1, <2>1 DEF Numbered
  <2>4. m = l
    BY <1>4, <1>6, <2>2, <2>3
  <2> QED BY <2>1, <2>2, <2>3, <2>4
<1>8. /\ \A v \in Procs \ {l} : c.kind[v] = b.kind[v]
      /\ c.kind[l] = "none" /\ l \in Procs
      /\ \A f \in Followers : f \in Procs /\ c.kind[f] = b.kind[f]
      /\ Arrival \in Procs /\ c.kind[Arrival] = b.kind[Arrival]
      /\ \A m \in Leaders : m \in Procs /\ (m # l => c.kind[m] = b.kind[m])
      /\ \A m \in Leaders : c.kind[m] = "got" <=> b.kind[m] = "got"
  BY <1>1, <1>3, BookTypes, ProcsDiffer DEF Procs
<1>9. Hands(c)
  BY <1>3, <1>8 DEF Kept, Hands
<1>10. Getters(c)
  <2>1. Getters(b)
    BY DEF Kept
  <2>2. \A i \in 1 .. Len(b.idle) : b.idle[i] \in Leaders /\ b.idle[i] # l
    BY <1>1, <2>1, BookElements DEF Getters
  <2>3. \A i \in 1 .. Len(b.idle) : c.kind[b.idle[i]] = "wait"
    BY <1>8, <2>1, <2>2 DEF Getters
  <2>4. \A i \in 1 .. Len(b.free) : c.kind[b.free[i]] = "wait"
    BY <1>1, <1>8, <2>1, BookElements DEF Getters
  <2> QED BY <1>3, <2>1, <2>3, <2>4 DEF Getters
<1>11. Buffered(c) /\ WithLeaders(c)
  BY <1>3, <1>8 DEF Kept, Buffered, WithLeaders, Taken
<1>12. Numbered(c) /\ Executes(c)
  BY <1>3 DEF Kept, Numbered, Executes
<1>13. Puts(c)
  <2>1. Len(c.enqueued) <= Len(c.x)
    BY <1>1, <1>3, <1>5, <1>7 DEF Books
  <2>2. ASSUME NEW k \in 1 .. Len(c.enqueued) PROVE c.enqueued[k].tid = c.x[k]
    <3>1. k \in 1 .. n \/ k = n + 1
      BY <1>1, <1>3, <1>4, <1>5 DEF Books
    <3> QED BY <1>1, <1>3, <1>5, <1>7, <3>1 DEF Puts
  <2>3. ASSUME NEW m \in Leaders, c.kind[m] = "put"
        PROVE  c.task[m] \in Tasks /\ c.at[c.task[m]] > Len(c.enqueued)
    <3>1. m # l /\ b.kind[m] = "put"
      BY <1>8, <2>3
    <3>2. b.task[m] \in Tasks /\ b.at[b.task[m]] \in Nat
      BY <1>1, <3>1, BookTypes DEF Puts
    <3>3. n + 1 < b.at[b.task[m]]
      BY <1>7, <3>1
    <3> QED BY <1>3, <1>4, <1>5, <3>2, <3>3
  <2>4. ASSUME NEW k \in Len(c.enqueued) + 1 .. Len(c.x)
        PROVE  \E m \in Leaders : c.kind[m] = "put" /\ c.task[m] = c.x[k]
    <3>1. k \in n + 1 .. Len(b.x) /\ k \in 1 .. Len(b.x) /\ k # n + 1
      <4>1. k \in (n + 1) + 1 .. Len(b.x)
        BY <1>3, <1>5
      <4> QED BY <1>1, <1>4, <4>1 DEF Books
    <3>2. PICK m \in Leaders : b.kind[m] = "put" /\ b.task[m] = b.x[k]
      BY <1>1, <3>1 DEF Puts
    <3>3. b.at[b.x[k]] = k
      BY <1>1, <3>1 DEF Numbered
    <3>4. m # l
      BY <1>7, <3>1, <3>2, <3>3
    <3> QED BY <1>3, <1>8, <3>2, <3>4
  <2> QED BY <2>1, <2>2, <2>3, <2>4 DEF Puts
<1>14. Starts(c)
  <2>1. Len(c.started) + Len(c.queue) <= Len(c.x) /\ Begins(c.started, c.x) /\ Ends(c.queue, c.x)
    BY <1>1, <1>3 DEF Starts
  <2>2. Len(c.started) <= Len(c.enqueued)
    <3>1. Len(b.started) <= n
      BY <1>1 DEF Starts
    <3> QED BY <1>1, <1>3, <1>4, <1>5, <3>1 DEF Books
  <2>3. \A f \in Followers : c.kind[f] = "got" =>
          /\ c.task[f] \in Tasks
          /\ c.at[c.task[f]] > Len(c.started) /\ c.at[c.task[f]] <= Len(c.x) - Len(c.queue)
    BY <1>1, <1>3, <1>8 DEF Starts
  <2>4. \A k \in Len(c.started) + 1 .. Len(c.x) - Len(c.queue) :
          \E f \in Followers : c.kind[f] = "got" /\ c.task[f] = c.x[k]
    BY <1>1, <1>3, <1>8 DEF Starts
  <2> QED BY <2>1, <2>2, <2>3, <2>4 DEF Starts
<1>15. LeaderOrder(c)
  <2>1. \A i \in 1 .. Len(c.enqueued) : i \in 1 .. n \/ i = n + 1
    BY <1>1, <1>3, <1>4, <1>5 DEF Books
  <2>2. \A i \in 1 .. n : b.enqueued[i].by = l => b.enqueued[i].tid < t
    BY <1>1 DEF LeaderOrder
  <2>3. ASSUME NEW i \in 1 .. Len(c.enqueued), NEW j \in 1 .. Len(c.enqueued),
               i < j, c.enqueued[i].by = c.enqueued[j].by
        PROVE  c.enqueued[i].tid < c.enqueued[j].tid
    <3>1. i \in 1 .. n
      BY <1>4, <2>1, <2>3
    <3>2. CASE j \in 1 .. n
      BY <1>1, <1>5, <2>3, <3>1, <3>2 DEF LeaderOrder
    <3>3. CASE j = n + 1
      BY <1>5, <2>2, <2>3, <3>1, <3>3
    <3> QED BY <2>1, <3>2, <3>3
  <2>4. ASSUME NEW i \in 1 .. Len(c.enqueued)
        PROVE  LET m == c.enqueued[i].by
               IN  /\ c.kind[m] \in {"got", "put"} => c.enqueued[i].tid < c.task[m]
                   /\ \A j \in 1 .. Len(c.batch[m]) : c.enqueued[i].tid < c.batch[m][j]
    <3>1. CASE i = n + 1
      <4>1. \A j \in 1 .. Len(b.batch[l]) : t < b.batch[l][j]
        BY <1>1 DEF LeaderOrder
      <4> QED BY <1>3, <1>5, <1>8, <3>1, <4>1
    <3>2. CASE i \in 1 .. n
      <4> DEFINE m == b.enqueued[i].by
      <4>1. m \in Leaders /\ c.enqueued[i] = b.enqueued[i]
        BY <1>1, <1>5, <3>2, BookElements
      <4>2. /\ b.kind[m] \in {"got", "put"} => b.enqueued[i].tid < b.task[m]
            /\ \A j \in 1 .. Len(b.batch[m]) : b.enqueued[i].tid < b.batch[m][j]
        BY <1>1, <3>2 DEF LeaderOrder
      <4>3. c.kind[m] \in {"got", "put"} => b.kind[m] \in {"got", "put"}
        BY <1>8, <4>1
      <4> QED BY <1>3, <4>1, <4>2, <4>3
    <3> QED BY <2>1, <3>1, <3>2
  <2>5. \A m \in Leaders : c.kind[m] = "put" =>
          \A j \in 1 .. Len(c.batch[m]) : c.task[m] < c.batch[m][j]
    BY <1>1, <1>3, <1>8 DEF LeaderOrder
  <2> QED BY <2>3, <2>4, <2>5 DEF LeaderOrder
<1> QED BY <1>3, <1>9, <1>10, <1>11, <1>12, <1>13, <1>14, <1>15 DEF Kept, c

UpTo(q) == 0 .. Len(q)

Takes(b, l, n) ==
  [b EXCEPT !.kind = [b.kind EXCEPT ![l] = "none"],
            !.batch = [b.batch EXCEPT ![l] = <<b.task[l]>> \o SubSeq(b.buffer, 1, n)],
            !.buffer = SubSeq(b.buffer, n + 1, Len(b.buffer))]

\* A leader makes its batch: the task handed to it, and n from the buffer.
LEMMA TakesKept ==
  ASSUME NEW b, Kept(b), NEW l \in Leaders, b.kind[l] = "got", NEW n \in UpTo(b.buffer)
  PROVE  /\ Kept(Takes(b, l, n)) /\ Takes(b, l, n).batch[l] # <<>>
         /\ Len(Takes(b, l, n).buffer) = Len(b.buffer) - n
<1> DEFINE c == Takes(b, l, n)
           t == b.task[l]
           q == b.buffer
           h == Taken(b)
           p == <<t>> \o SubSeq(q, 1, n)
           r == SubSeq(q, n + 1, Len(q))
<1>1. /\ b \in Books /\ Hands(b) /\ Getters(b) /\ Buffered(b) /\ WithLeaders(b) /\ LeaderOrder(b)
      /\ Numbered(b) /\ Puts(b) /\ l \in Procs /\ q \in Seq(Tasks)
  BY BookTypes DEF Kept, Procs
<1>2. /\ t \in Tasks /\ t \in 1 .. h /\ b.at[t] = 0 /\ b.batch[l] = <<>>
  <2>1. t \in 1 .. h /\ b.at[t] = 0 /\ b.batch[l] = <<>>
    BY <1>1 DEF WithLeaders, Hands
  <2>2. t \in Tasks \cup {NoTask} /\ t # 0
    BY <1>1, <2>1, BookTypes
  <2> QED BY <2>1, <2>2 DEF NoTask
<1>3. n \in Nat /\ Len(q) \in Nat /\ n <= Len(q) /\ b.arrived \in Nat /\ h \in Nat /\ Len(q) <= b.arrived
      /\ h = b.arrived - Len(q)
  BY <1>1, BookLengths, BookTypes, Positive DEF Buffered, Taken, Books, UpTo
<1> HIDE DEF h
<1>4. \A i \in 1 .. Len(q) : q[i] = h + i /\ q[i] \in Tasks
  BY <1>1, BookElements DEF Buffered, h
<1> HIDE DEF q
<1>5. /\ r \in Seq(Tasks) /\ Len(r) = Len(q) - n
      /\ \A i \in 1 .. Len(q) - n : r[i] = h + n + i
  <2>1. \A i \in n + 1 .. Len(q) : q[i] \in Tasks
    BY <1>3, <1>4
  <2>2. /\ r \in Seq(Tasks) /\ Len(r) = Len(q) - n
        /\ \A i \in 1 .. Len(q) - n : r[i] = q[n + 1 + i - 1]
    BY <1>1, <1>3, <2>1, SubSeqProperties
  <2>3. ASSUME NEW i \in 1 .. Len(q) - n PROVE r[i] = h + n + i
    <3>1. n + 1 + i - 1 \in 1 .. Len(q) /\ n + 1 + i - 1 = n + i
      BY <1>3
    <3>2. q[n + 1 + i - 1] = h + (n + i)
      BY <1>4, <3>1
    <3> HIDE DEF r
    <3> QED BY <1>3, <2>2, <3>2
  <2> QED BY <2>2, <2>3
<1>6. /\ p \in Seq(Tasks) /\ Len(p) = n + 1 /\ p[1] = t
      /\ \A i \in 1 .. n : p[i + 1] = h + i
  <2> DEFINE u == SubSeq(q, 1, n)
             v == <<t>>
  <2>1. \A i \in 1 .. n : q[i] \in Tasks
    BY <1>3, <1>4
  <2>2. /\ u \in Seq(Tasks) /\ Len(u) = n /\ \A i \in 1 .. n : u[i] = q[i]
    BY <1>1, <1>3, <2>1, SubSeqProperties
  <2>3. v \in Seq(Tasks) /\ Len(v) = 1 /\ v[1] = t
    BY <1>2
  <2> HIDE DEF u, v
  <2>4. /\ (v \o u) \in Seq(Tasks) /\ Len(v \o u) = n + 1
        /\ \A i \in 1 .. n + 1 : (v \o u)[i] = IF i <= 1 THEN v[i] ELSE u[i - 1]
    <3>1. /\ (v \o u) \in Seq(Tasks) /\ Len(v \o u) = Len(v) + Len(u)
          /\ \A i \in 1 .. Len(v) + Len(u) : (v \o u)[i] = IF i <= Len(v) THEN v[i] ELSE u[i - Len(v)]
      BY <2>2, <2>3, ConcatProperties
    <3>2. Len(v) = 1 /\ Len(v) + Len(u) = n + 1
      BY <1>3, <2>2, <2>3
    <3> QED BY <3>1, <3>2
  <2>5. ASSUME NEW i \in 1 .. n PROVE (v \o u)[i + 1] = h + i
    <3>1. i + 1 \in 1 .. n + 1 /\ ~(i + 1 <= 1) /\ (i + 1) - 1 = i /\ i \in 1 .. Len(q)
      BY <1>3
    <3>2. (v \o u)[i + 1] = u[(i + 1) - 1]
      BY <2>4, <3>1
    <3> QED BY <1>4, <2>2, <3>1, <3>2
  <2>6. (v \o u)[1] = t
    BY <1>3, <2>3, <2>4
  <2> QED BY <2>4, <2>5, <2>6 DEF u, v
<1> HIDE DEF p, r
<1>7. /\ c \in Books /\ c.kind = [b.kind EXCEPT ![l] = "none"] /\ c.task = b.task
      /\ c.buffer = r /\ c.queue = b.queue /\ c.idle = b.idle /\ c.free = b.free
      /\ c.arrived = b.arrived /\ c.batch = [b.batch EXCEPT ![l] = p] /\ c.running = b.running
      /\ c.enqueued = b.enqueued /\ c.started = b.started /\ c.finished = b.finished
      /\ c.x = b.x /\ c.at = b.at
  <2>1. c = [b EXCEPT !.kind = [b.kind EXCEPT ![l] = "none"],
                      !.batch = [b.batch EXCEPT ![l] = p], !.buffer = r]
    BY DEF Takes, p, q, r
  <2>2. [b.kind EXCEPT ![l] = "none"] \in [Procs -> EventKinds \cup {"wait", "none"}]
    BY <1>1, BookTypes
  <2>3. [b.batch EXCEPT ![l] = p] \in [Leaders -> Seq(Tasks)]
    BY <1>1, <1>6, BookTypes
  <2> HIDE DEF c
  <2> QED BY <1>1, <1>5, <2>1, <2>2, <2>3 DEF Books
<1> HIDE DEF c
<1>8. /\ c.kind[l] = "none"
      /\ \A f \in Followers : f \in Procs /\ c.kind[f] = b.kind[f]
      /\ Arrival \in Procs /\ c.kind[Arrival] = b.kind[Arrival]
      /\ \A m \in Leaders : m \in Procs /\ (m # l => c.kind[m] = b.kind[m])
      /\ \A m \in Leaders : c.kind[m] = "put" <=> b.kind[m] = "put"
  BY <1>1, <1>7, BookTypes, ProcsDiffer DEF Procs
<1>9. c.batch[l] = p /\ \A m \in Leaders : m # l => c.batch[m] = b.batch[m]
  BY <1>1, <1>7, BookTypes
<1>10. Taken(c) = h + n
  <2>1. Taken(c) = b.arrived - Len(r)
    BY <1>7, Zenon DEF Taken
  <2> DEFINE k == Len(r)
             a == b.arrived
             g == Len(q)
  <2>2. k = g - n /\ h = a - g /\ a \in Nat /\ g \in Nat
    BY <1>3, <1>5
  <2> HIDE DEF k, a, g
  <2>3. a - k = h + n
    BY <1>3, <2>2
  <2> QED BY <2>1, <2>3 DEF k, a
<1>11. Hands(c)
  BY <1>1, <1>7, <1>8, <1>9 DEF Hands
<1>12. Getters(c)
  <2>1. \A i \in 1 .. Len(b.idle) : b.idle[i] \in Leaders /\ b.idle[i] # l
    BY <1>1, BookElements DEF Getters
  <2>2. \A i \in 1 .. Len(b.idle) : c.kind[b.idle[i]] = "wait"
    BY <1>1, <1>8, <2>1 DEF Getters
  <2>3. \A i \in 1 .. Len(b.free) : c.kind[b.free[i]] = "wait"
    BY <1>1, <1>8, BookElements DEF Getters
  <2> QED BY <1>1, <1>7, <2>2, <2>3 DEF Getters
<1>13. Buffered(c)
  <2>1. Len(c.buffer) = Len(q) - n /\ c.arrived = b.arrived /\ Len(c.buffer) <= c.arrived
    BY <1>3, <1>5, <1>7 DEF Books
  <2> QED BY <1>5, <1>7, <1>10, <2>1 DEF Buffered
<1>14. WithLeaders(c)
  <2>1. \A i \in 1 .. n : h + i \in Tasks /\ h + i \in 1 .. h + n /\ h + i > h /\ b.at[h + i] = 0
    <3> SUFFICES ASSUME NEW i \in 1 .. n
                 PROVE  h + i \in Tasks /\ h + i \in 1 .. h + n /\ h + i > h /\ b.at[h + i] = 0
      OBVIOUS
    <3>1. i \in 1 .. Len(q) /\ h + i \in 1 .. h + n /\ h + i > h
      BY <1>3
    <3>2. h + i \in Tasks
      BY <1>4, <3>1
    <3>3. ~(h + i <= h)
      BY <1>3, <3>1
    <3> QED BY <1>1, <3>1, <3>2, <3>3 DEF WithLeaders, h
  <2>2. \A j \in 1 .. n + 1 : j = 1 \/ \E i \in 1 .. n : j = i + 1 /\ p[j] = h + i
    <3> SUFFICES ASSUME NEW j \in 1 .. n + 1, j # 1 PROVE \E i \in 1 .. n : j = i + 1 /\ p[j] = h + i
      OBVIOUS
    <3>1. j - 1 \in 1 .. n /\ j = (j - 1) + 1
      BY <1>3
    <3> QED BY <1>6, <3>1
  <2>3. ASSUME NEW j \in 1 .. n + 1 PROVE p[j] \in 1 .. h + n /\ b.at[p[j]] = 0
    <3>1. t \in 1 .. h + n
      BY <1>2, <1>3
    <3>2. CASE j = 1
      BY <1>2, <1>6, <3>1, <3>2
    <3>3. CASE j # 1
      BY <2>1, <2>2, <3>3
    <3> QED BY <3>2, <3>3
  <2>4. ASSUME NEW i \in 1 .. n + 1, NEW j \in 1 .. n + 1, i < j PROVE p[i] < p[j]
    <3>0. j # 1
      BY <1>3, <2>4
    <3>1. PICK k \in 1 .. n : j = k + 1 /\ p[j] = h + k
      BY <2>2, <3>0
    <3>2. CASE i = 1
      <4>1. p[i] = t /\ p[j] = h + k /\ k \in Nat /\ k >= 1
        BY <1>3, <1>6, <3>1, <3>2
      <4>2. t <= h /\ t \in Nat /\ h \in Nat
        BY <1>2, <1>3
      <4> HIDE DEF t, p
      <4>3. t < h + k
        BY <4>1, <4>2
      <4> QED BY <4>1, <4>3
    <3>3. CASE i # 1
      <4>1. PICK m \in 1 .. n : i = m + 1 /\ p[i] = h + m
        BY <2>2, <3>3
      <4> QED BY <1>3, <2>4, <3>1, <4>1
    <3> QED BY <3>2, <3>3
  <2>5. \A m \in Leaders \ {l} : \A i \in 1 .. Len(b.batch[m]) :
          /\ b.batch[m][i] \in 1 .. h /\ b.batch[m][i] # t
          /\ \A j \in 1 .. n + 1 : b.batch[m][i] # p[j]
    <3> SUFFICES ASSUME NEW m \in Leaders \ {l}, NEW i \in 1 .. Len(b.batch[m])
                 PROVE  /\ b.batch[m][i] \in 1 .. h /\ b.batch[m][i] # t
                        /\ \A j \in 1 .. n + 1 : b.batch[m][i] # p[j]
      OBVIOUS
    <3>1. b.batch[m][i] \in 1 .. h /\ b.batch[m][i] # t
      BY <1>1 DEF WithLeaders, h
    <3>2. ASSUME NEW j \in 1 .. n + 1 PROVE b.batch[m][i] # p[j]
      <4>1. CASE j = 1
        BY <1>6, <3>1, <4>1
      <4>2. CASE j # 1
        <5>1. PICK k \in 1 .. n : p[j] = h + k
          BY <2>2, <4>2
        <5>2. h + k > h
          BY <2>1
        <5> QED BY <1>3, <3>1, <5>1, <5>2
      <4> QED BY <4>1, <4>2
    <3> QED BY <3>1, <3>2
  <2>6. ASSUME NEW m \in Leaders, c.kind[m] = "got"
        PROVE  /\ c.task[m] \in 1 .. Taken(c) /\ c.at[c.task[m]] = 0
               /\ \A k \in Leaders : c.kind[k] = "got" /\ c.task[m] = c.task[k] => m = k
               /\ \A k \in Leaders : \A i \in 1 .. Len(c.batch[k]) : c.batch[k][i] # c.task[m]
    <3>1. m # l /\ b.kind[m] = "got"
      BY <1>8, <2>6
    <3>2. /\ b.task[m] \in 1 .. h /\ b.at[b.task[m]] = 0 /\ b.task[m] # t
          /\ \A k \in Leaders : b.kind[k] = "got" /\ b.task[m] = b.task[k] => m = k
          /\ \A k \in Leaders : \A i \in 1 .. Len(b.batch[k]) : b.batch[k][i] # b.task[m]
      BY <1>1, <3>1 DEF WithLeaders, h
    <3>3. c.task[m] \in 1 .. Taken(c) /\ c.at[c.task[m]] = 0
      BY <1>3, <1>7, <1>10, <3>2
    <3>4. \A k \in Leaders : c.kind[k] = "got" => b.kind[k] = "got"
      BY <1>8
    <3>5. ASSUME NEW j \in 1 .. n + 1 PROVE p[j] # b.task[m]
      <4>1. CASE j = 1
        <5>1. p[j] = t
          BY <1>6, <4>1
        <5> QED BY <3>2, <5>1
      <4>2. CASE j # 1
        <5>1. PICK i \in 1 .. n : p[j] = h + i
          BY <2>2, <4>2
        <5>2. h + i > h
          BY <2>1
        <5> DEFINE u == b.task[m]
        <5>3. u \in 1 .. h
          BY <3>2
        <5> HIDE DEF u
        <5>4. h + i # u
          BY <1>3, <5>2, <5>3
        <5> QED BY <5>1, <5>4 DEF u
      <4> QED BY <4>1, <4>2
    <3> QED BY <1>6, <1>7, <1>9, <3>2, <3>3, <3>4, <3>5
  <2>7. ASSUME NEW m \in Leaders, NEW i \in 1 .. Len(c.batch[m])
        PROVE  /\ c.batch[m][i] \in 1 .. Taken(c) /\ c.at[c.batch[m][i]] = 0
               /\ \A j \in 1 .. Len(c.batch[m]) : i < j => c.batch[m][i] < c.batch[m][j]
               /\ \A k \in Leaders : \A j \in 1 .. Len(c.batch[k]) : c.batch[m][i] = c.batch[k][j] => m = k
    <3>1. CASE m = l
      BY <1>6, <1>7, <1>9, <1>10, <2>3, <2>4, <2>5, <3>1
    <3>2. CASE m # l
      <4>1. /\ b.batch[m][i] \in 1 .. h /\ b.at[b.batch[m][i]] = 0
            /\ \A j \in 1 .. Len(b.batch[m]) : i < j => b.batch[m][i] < b.batch[m][j]
            /\ \A k \in Leaders : \A j \in 1 .. Len(b.batch[k]) : b.batch[m][i] = b.batch[k][j] => m = k
        BY <1>1, <1>9, <3>2 DEF WithLeaders, h
      <4>2. c.batch[m][i] \in 1 .. Taken(c)
        <5>1. \A u \in 1 .. h : u \in 1 .. h + n
          BY <1>3
        <5>2. b.batch[m][i] \in 1 .. h + n
          BY <4>1, <5>1
        <5> QED BY <1>9, <1>10, <3>2, <5>2
      <4>3. \A j \in 1 .. n + 1 : b.batch[m][i] # p[j]
        BY <1>9, <2>5, <3>2
      <4> QED BY <1>6, <1>7, <1>9, <3>2, <4>1, <4>2, <4>3
    <3> QED BY <3>1, <3>2
  <2>8. \A u \in Tasks : c.at[u] # 0 => u <= Taken(c)
    BY <1>1, <1>3, <1>7, <1>10, TaskNumbers DEF WithLeaders, h
  <2>9. ASSUME NEW u \in 1 .. Taken(c)
        PROVE  \/ c.at[u] # 0
               \/ \E m \in Leaders : c.kind[m] = "got" /\ c.task[m] = u
               \/ \E m \in Leaders : \E i \in 1 .. Len(c.batch[m]) : c.batch[m][i] = u
    <3>1. CASE u > h
      <4>0. u \in 1 .. h + n /\ h \in Nat /\ n \in Nat
        BY <1>3, <1>10
      <4>1. u - h \in 1 .. n /\ h + (u - h) = u /\ (u - h) + 1 \in 1 .. n + 1
        BY <3>1, <4>0
      <4>2. p[(u - h) + 1] = u
        BY <1>6, <4>1
      <4> QED BY <1>6, <1>9, <4>1, <4>2
    <3>2. CASE ~(u > h)
      <4>1. u \in 1 .. h
        <5>1. u \in 1 .. h + n
          BY <1>10
        <5> QED BY <1>3, <3>2, <5>1
      <4>2. \/ b.at[u] # 0
            \/ \E m \in Leaders : b.kind[m] = "got" /\ b.task[m] = u
            \/ \E m \in Leaders : \E i \in 1 .. Len(b.batch[m]) : b.batch[m][i] = u
        BY <1>1, <4>1 DEF WithLeaders, h
      <4>3. ASSUME NEW m \in Leaders, b.kind[m] = "got", b.task[m] = u, m # l
            PROVE  \E k \in Leaders : c.kind[k] = "got" /\ c.task[k] = u
        BY <1>7, <1>8, <4>3
      <4>4. ASSUME u = t PROVE \E m \in Leaders : \E i \in 1 .. Len(c.batch[m]) : c.batch[m][i] = u
        <5>1. 1 \in 1 .. n + 1
          BY <1>3
        <5> QED BY <1>6, <1>9, <4>4, <5>1
      <4>5. ASSUME NEW m \in Leaders, NEW i \in 1 .. Len(b.batch[m]), b.batch[m][i] = u
            PROVE  \E k \in Leaders : \E j \in 1 .. Len(c.batch[k]) : c.batch[k][j] = u
        <5>1. m # l
          BY <1>2, <4>5
        <5> QED BY <1>9, <4>5, <5>1
      <4> QED BY <1>7, <4>2, <4>3, <4>4, <4>5
    <3> QED BY <3>1, <3>2
  <2> QED BY <2>6, <2>7, <2>8, <2>9 DEF WithLeaders
<1>15. Numbered(c) /\ Executes(c)
  BY <1>7 DEF Kept, Numbered, Executes
<1>16. Puts(c)
  BY <1>1, <1>7, <1>8 DEF Puts
<1>17. Starts(c)
  <2>1. \A f \in Followers : c.kind[f] = b.kind[f] /\ c.task[f] = b.task[f]
    BY <1>7, <1>8
  <2> QED BY <1>1, <1>7, <2>1, StartsSame DEF Kept
<1>18. LeaderOrder(c)
  <2>1. \A i \in 1 .. Len(b.enqueued) : /\ b.enqueued[i].tid \in Tasks /\ b.enqueued[i].by \in Leaders
                                        /\ b.enqueued[i].tid <= h
    <3> SUFFICES ASSUME NEW i \in 1 .. Len(b.enqueued) PROVE b.enqueued[i].tid <= h
      BY <1>1, BookElements
    <3>1. i \in 1 .. Len(b.x) /\ b.enqueued[i].tid = b.x[i] /\ i # 0
      <4>1. Len(b.enqueued) <= Len(b.x) /\ b.enqueued[i].tid = b.x[i]
        BY <1>1 DEF Puts
      <4> DEFINE g == Len(b.enqueued)
                 k == Len(b.x)
      <4>2. g \in Nat /\ k \in Nat /\ g <= k /\ i \in 1 .. g
        BY <1>1, <4>1, BookLengths
      <4> HIDE DEF g, k
      <4>3. i \in 1 .. k /\ i # 0
        BY <4>2
      <4> QED BY <4>1, <4>3 DEF k
    <3>2. b.at[b.x[i]] = i /\ b.x[i] \in Tasks
      BY <1>1, <3>1, BookElements DEF Numbered
    <3> QED BY <1>1, <3>1, <3>2 DEF WithLeaders, h
  <2>2. ASSUME NEW i \in 1 .. Len(b.enqueued)
        PROVE  LET m == b.enqueued[i].by
               IN  /\ c.kind[m] \in {"got", "put"} => b.enqueued[i].tid < b.task[m]
                   /\ \A j \in 1 .. Len(c.batch[m]) : b.enqueued[i].tid < c.batch[m][j]
    <3> DEFINE m == b.enqueued[i].by
               e == b.enqueued[i].tid
    <3>1. /\ m \in Leaders /\ e \in Tasks /\ e <= h
          /\ b.kind[m] \in {"got", "put"} => e < b.task[m]
          /\ \A j \in 1 .. Len(b.batch[m]) : e < b.batch[m][j]
      BY <1>1, <2>1 DEF LeaderOrder
    <3> HIDE DEF m, e
    <3>2. CASE m = l
      <4>1. e < t
        BY <1>1, <3>1, <3>2
      <4>2. ASSUME NEW j \in 1 .. n + 1 PROVE e < p[j]
        <5>1. p[j] = t \/ \E k \in 1 .. n : p[j] = h + k
          <6>1. j = 1 \/ (j - 1 \in 1 .. n /\ (j - 1) + 1 = j)
            BY <1>3
          <6> QED BY <1>6, <6>1
        <5> QED BY <1>3, <3>1, <4>1, <5>1, TaskNumbers
      <4> QED BY <1>6, <1>8, <1>9, <3>2, <4>2 DEF m, e
    <3>3. CASE m # l
      BY <1>8, <1>9, <3>1, <3>3 DEF m, e
    <3> QED BY <3>2, <3>3
  <2>3. ASSUME NEW m \in Leaders, c.kind[m] = "put"
        PROVE  \A j \in 1 .. Len(c.batch[m]) : b.task[m] < c.batch[m][j]
    <3>1. m # l /\ b.kind[m] = "put"
      BY <1>8, <2>3
    <3> QED BY <1>1, <1>9, <3>1 DEF LeaderOrder
  <2>4. \A i, j \in 1 .. Len(b.enqueued) :
          i < j /\ b.enqueued[i].by = b.enqueued[j].by => b.enqueued[i].tid < b.enqueued[j].tid
    BY <1>1 DEF LeaderOrder
  <2> QED BY <1>7, <2>2, <2>3, <2>4 DEF LeaderOrder
<1>19. c.batch[l] # <<>>
  BY <1>3, <1>6, <1>9
<1>20. Kept(c)
  BY <1>7, <1>11, <1>12, <1>13, <1>14, <1>15, <1>16, <1>17, <1>18 DEF Kept
<1>21. Len(c.buffer) = Len(q) - n
  BY <1>5, <1>7
<1> QED BY <1>19, <1>20, <1>21 DEF c, q

\* A process that ran waits for something that hands nothing over.
LEMMA QuietKept ==
  ASSUME NEW b, Kept(b), NEW c \in Books, NEW w \in Procs, b.kind[w] = "none",
         w = Arrival \/ c.kind[w] \notin {"got", "put"}, Hands(c), Getters(c),
         \A v \in Procs \ {w} : c.kind[v] = b.kind[v] /\ c.task[v] = b.task[v],
         Buffered(c), Taken(c) = Taken(b), c.queue = b.queue, c.batch = b.batch,
         c.running = b.running, c.enqueued = b.enqueued, c.started = b.started,
         c.finished = b.finished, c.x = b.x, c.at = b.at
  PROVE  Kept(c)
<1>1. b \in Books
  BY DEF Kept
<1>2. /\ \A l \in Leaders : /\ c.kind[l] = "got" <=> b.kind[l] = "got"
                            /\ c.kind[l] = "put" <=> b.kind[l] = "put"
                            /\ b.kind[l] \in {"got", "put"} => c.task[l] = b.task[l]
      /\ \A f \in Followers : /\ c.kind[f] = "got" <=> b.kind[f] = "got"
                              /\ b.kind[f] = "got" => c.task[f] = b.task[f]
  <2>1. \A v \in Procs : v # Arrival => /\ c.kind[v] = "got" <=> b.kind[v] = "got"
                                        /\ c.kind[v] = "put" <=> b.kind[v] = "put"
                                        /\ b.kind[v] \in {"got", "put"} => c.task[v] = b.task[v]
    OBVIOUS
  <2> QED BY <2>1, ProcsDiffer DEF Procs
<1>3. Numbered(c) /\ Executes(c)
  BY DEF Kept, Numbered, Executes
<1>4. WithLeaders(c)
  <2>1. WithLeaders(b) /\ Taken(c) = Taken(b)
    BY DEF Kept
  <2>2. ASSUME NEW l \in Leaders, c.kind[l] = "got"
        PROVE  /\ c.task[l] \in 1 .. Taken(c) /\ c.at[c.task[l]] = 0
               /\ \A m \in Leaders : c.kind[m] = "got" /\ c.task[l] = c.task[m] => l = m
               /\ \A m \in Leaders : \A i \in 1 .. Len(c.batch[m]) : c.batch[m][i] # c.task[l]
    BY <1>2, <2>1, <2>2 DEF WithLeaders
  <2>3. \A l \in Leaders : \A i \in 1 .. Len(c.batch[l]) :
          /\ c.batch[l][i] \in 1 .. Taken(c) /\ c.at[c.batch[l][i]] = 0
          /\ \A j \in 1 .. Len(c.batch[l]) : i < j => c.batch[l][i] < c.batch[l][j]
          /\ \A m \in Leaders : \A j \in 1 .. Len(c.batch[m]) : c.batch[l][i] = c.batch[m][j] => l = m
    BY <2>1 DEF WithLeaders
  <2>4. \A t \in Tasks : c.at[t] # 0 => t <= Taken(c)
    BY <2>1 DEF WithLeaders
  <2>5. ASSUME NEW t \in 1 .. Taken(c)
        PROVE  \/ c.at[t] # 0
               \/ \E l \in Leaders : c.kind[l] = "got" /\ c.task[l] = t
               \/ \E l \in Leaders : \E i \in 1 .. Len(c.batch[l]) : c.batch[l][i] = t
    BY <1>2, <2>1 DEF WithLeaders
  <2> QED BY <2>2, <2>3, <2>4, <2>5 DEF WithLeaders
<1>5. Puts(c)
  BY <1>2 DEF Kept, Puts
<1>6. Starts(c)
  BY <1>1, <1>2, StartsSame DEF Kept
<1>7. LeaderOrder(c)
  <2>1. LeaderOrder(b)
    BY DEF Kept
  <2>2. ASSUME NEW i \in 1 .. Len(b.enqueued)
        PROVE  LET l == b.enqueued[i].by
               IN  /\ c.kind[l] \in {"got", "put"} => b.enqueued[i].tid < c.task[l]
                   /\ \A j \in 1 .. Len(b.batch[l]) : b.enqueued[i].tid < b.batch[l][j]
    <3> DEFINE l == b.enqueued[i].by
               e == b.enqueued[i].tid
    <3>1. /\ l \in Leaders
          /\ b.kind[l] \in {"got", "put"} => e < b.task[l]
          /\ \A j \in 1 .. Len(b.batch[l]) : e < b.batch[l][j]
      BY <1>1, <2>1, BookElements DEF LeaderOrder
    <3> HIDE DEF l, e
    <3>2. c.kind[l] \in {"got", "put"} => e < c.task[l]
      BY <1>2, <3>1
    <3> QED BY <3>1, <3>2 DEF l, e
  <2>3. \A l \in Leaders : c.kind[l] = "put" =>
          \A j \in 1 .. Len(b.batch[l]) : c.task[l] < b.batch[l][j]
    BY <1>2, <2>1 DEF LeaderOrder
  <2> QED BY <2>1, <2>2, <2>3 DEF LeaderOrder
<1> QED BY <1>3, <1>4, <1>5, <1>6, <1>7 DEF Kept

LEMMA TimeoutKept ==
  ASSUME NEW b, Kept(b), NEW w \in Procs, b.kind[w] = "none",
         w \in Leaders => b.batch[w] # <<>>, w \in Followers => b.running[w] # NoTask
  PROVE  Kept(Files(b, w, "timeout", NoTask))
<1> DEFINE c == Files(b, w, "timeout", NoTask)
<1>1. b \in Books /\ Hands(b) /\ Getters(b)
  BY DEF Kept
<1>2. /\ c \in Books /\ c.kind = [b.kind EXCEPT ![w] = "timeout"] /\ c.task = [b.task EXCEPT ![w] = NoTask]
      /\ c.buffer = b.buffer /\ c.queue = b.queue /\ c.idle = b.idle /\ c.free = b.free
      /\ c.arrived = b.arrived /\ c.batch = b.batch /\ c.running = b.running
      /\ c.enqueued = b.enqueued /\ c.started = b.started /\ c.finished = b.finished
      /\ c.x = b.x /\ c.at = b.at
  <2>1. "timeout" \in EventKinds \cup {"wait", "none"} /\ NoTask \in Tasks \cup {NoTask}
    BY DEF EventKinds
  <2> QED BY <1>1, <2>1, FilesFields
<1> HIDE DEF c
<1>3. /\ \A v \in Procs \ {w} : c.kind[v] = b.kind[v] /\ c.task[v] = b.task[v]
      /\ c.kind[w] = "timeout"
  BY <1>1, <1>2, BookTypes
<1>4. Hands(c)
  BY <1>1, <1>2, <1>3 DEF Hands, Procs
<1>5. Getters(c)
  BY <1>1, <1>2, <1>3, BookElements DEF Getters, Procs
<1>6. Buffered(c) /\ Taken(c) = Taken(b)
  BY <1>2 DEF Kept, Buffered, Taken
<1>7. c.kind[w] \notin {"got", "put"}
  BY <1>3
<1> QED BY <1>2, <1>3, <1>4, <1>5, <1>6, <1>7, QuietKept DEF c

\* A process waits in get(), behind those that wait already.
Waits(b, w) ==
  IF w \in Leaders THEN [Files(b, w, "wait", NoTask) EXCEPT !.idle = Append(b.idle, w)]
  ELSE [Files(b, w, "wait", NoTask) EXCEPT !.free = Append(b.free, w)]

LEMMA WaitsKept ==
  ASSUME NEW b, Kept(b), NEW w \in Leaders \cup Followers, b.kind[w] = "none",
         w \in Leaders => b.batch[w] = <<>>, w \in Followers => b.running[w] = NoTask
  PROVE  LET c == Waits(b, w)
         IN  /\ Kept(c) /\ c.kind = [b.kind EXCEPT ![w] = "wait"] /\ c.task = [b.task EXCEPT ![w] = NoTask]
             /\ c.buffer = b.buffer /\ c.queue = b.queue
             /\ c.idle = IF w \in Leaders THEN Append(b.idle, w) ELSE b.idle
             /\ c.free = IF w \in Leaders THEN b.free ELSE Append(b.free, w)
             /\ c.arrived = b.arrived /\ c.batch = b.batch /\ c.running = b.running
             /\ c.enqueued = b.enqueued /\ c.started = b.started /\ c.finished = b.finished
             /\ c.x = b.x /\ c.at = b.at
<1> DEFINE c == Waits(b, w)
           d == Files(b, w, "wait", NoTask)
<1>1. /\ b \in Books /\ Hands(b) /\ Getters(b) /\ w \in Procs
      /\ b.idle \in Seq(Leaders) /\ b.free \in Seq(Followers)
  BY BookTypes DEF Kept, Procs
<1>2. /\ d \in Books /\ d.kind = [b.kind EXCEPT ![w] = "wait"] /\ d.task = [b.task EXCEPT ![w] = NoTask]
      /\ d.buffer = b.buffer /\ d.queue = b.queue /\ d.idle = b.idle /\ d.free = b.free
      /\ d.arrived = b.arrived /\ d.batch = b.batch /\ d.running = b.running
      /\ d.enqueued = b.enqueued /\ d.started = b.started /\ d.finished = b.finished
      /\ d.x = b.x /\ d.at = b.at
  <2>1. "wait" \in EventKinds \cup {"wait", "none"} /\ NoTask \in Tasks \cup {NoTask}
    OBVIOUS
  <2>2. b \in Books /\ w \in Procs
    BY <1>1
  <2> QED BY <2>1, <2>2 DEF Files, Books
<1> HIDE DEF d
<1> DEFINE i == IF w \in Leaders THEN Append(b.idle, w) ELSE b.idle
           f == IF w \in Leaders THEN b.free ELSE Append(b.free, w)
<1>3. i \in Seq(Leaders) /\ f \in Seq(Followers)
  BY <1>1, AppendProperties
<1>4. c = IF w \in Leaders THEN [d EXCEPT !.idle = Append(b.idle, w)]
          ELSE [d EXCEPT !.free = Append(b.free, w)]
  BY DEF Waits, d
<1> HIDE DEF c
<1>5. /\ c \in Books /\ c.kind = d.kind /\ c.task = d.task /\ c.buffer = d.buffer /\ c.queue = d.queue
      /\ c.idle = i /\ c.free = f
      /\ c.arrived = d.arrived /\ c.batch = d.batch /\ c.running = d.running
      /\ c.enqueued = d.enqueued /\ c.started = d.started /\ c.finished = d.finished
      /\ c.x = d.x /\ c.at = d.at
  <2>1. CASE w \in Leaders
    BY <1>2, <1>3, <1>4, <2>1 DEF Books
  <2>2. CASE w \notin Leaders
    BY <1>2, <1>3, <1>4, <2>2 DEF Books
  <2> QED BY <2>1, <2>2
<1> HIDE DEF i, f
<1>6. /\ \A v \in Procs \ {w} : c.kind[v] = b.kind[v] /\ c.task[v] = b.task[v]
      /\ c.kind[w] = "wait"
  BY <1>1, <1>2, <1>5, BookTypes
<1>7. Hands(c)
  BY <1>1, <1>2, <1>5, <1>6, ProcsDiffer DEF Hands, Procs
<1>8. /\ \A k \in 1 .. Len(b.idle) : b.idle[k] \in Procs /\ b.idle[k] # w /\ c.kind[b.idle[k]] = "wait"
      /\ \A k \in 1 .. Len(b.free) : b.free[k] \in Procs /\ b.free[k] # w /\ c.kind[b.free[k]] = "wait"
  BY <1>1, <1>6, BookElements DEF Getters, Procs
<1>9. ASSUME NEW T, NEW q \in Seq(T), w \in T,
             \A k \in 1 .. Len(q) : q[k] # w /\ c.kind[q[k]] = "wait",
             \A k, m \in 1 .. Len(q) : q[k] = q[m] => k = m
      PROVE  /\ \A k \in 1 .. Len(Append(q, w)) : c.kind[Append(q, w)[k]] = "wait"
             /\ \A k, m \in 1 .. Len(Append(q, w)) : Append(q, w)[k] = Append(q, w)[m] => k = m
  <2> DEFINE r == Append(q, w)
  <2>1. /\ Len(q) \in Nat /\ Len(r) = Len(q) + 1 /\ r[Len(q) + 1] = w
        /\ \A k \in 1 .. Len(q) : r[k] = q[k]
    BY <1>9, AppendProperties, LenProperties
  <2> HIDE DEF r
  <2>2. \A k \in 1 .. Len(r) : k \in 1 .. Len(q) \/ k = Len(q) + 1
    BY <2>1
  <2>3. \A k \in 1 .. Len(r) : c.kind[r[k]] = "wait"
    BY <1>6, <1>9, <2>1, <2>2
  <2>4. ASSUME NEW k \in 1 .. Len(r), NEW m \in 1 .. Len(r), r[k] = r[m] PROVE k = m
    BY <1>9, <2>1, <2>2, <2>4
  <2> QED BY <2>3, <2>4 DEF r
<1>10. Getters(c)
  <2>1. /\ \A k \in 1 .. Len(i) : c.kind[i[k]] = "wait"
        /\ \A k, m \in 1 .. Len(i) : i[k] = i[m] => k = m
    <3>1. CASE w \in Leaders
      BY <1>1, <1>8, <1>9, <3>1 DEF Getters, i
    <3>2. CASE w \notin Leaders
      BY <1>1, <1>8, <3>2 DEF Getters, i
    <3> QED BY <3>1, <3>2
  <2>2. /\ \A k \in 1 .. Len(f) : c.kind[f[k]] = "wait"
        /\ \A k, m \in 1 .. Len(f) : f[k] = f[m] => k = m
    <3>1. CASE w \in Leaders
      BY <1>1, <1>8, <3>1 DEF Getters, f
    <3>2. CASE w \notin Leaders
      <4>1. w \in Followers
        BY <3>2
      <4>2. f = Append(b.free, w)
        BY <3>2 DEF f
      <4>3. /\ \A k \in 1 .. Len(b.free) : b.free[k] # w /\ c.kind[b.free[k]] = "wait"
            /\ \A k, m \in 1 .. Len(b.free) : b.free[k] = b.free[m] => k = m
        BY <1>1, <1>8 DEF Getters
      <4> QED BY <1>1, <1>9, <4>1, <4>2, <4>3
    <3> QED BY <3>1, <3>2
  <2> QED BY <1>5, <2>1, <2>2 DEF Getters
<1>11. Kept(c)
  <2>1. /\ c.buffer = b.buffer /\ c.queue = b.queue /\ c.arrived = b.arrived /\ c.batch = b.batch
        /\ c.running = b.running /\ c.enqueued = b.enqueued /\ c.started = b.started
        /\ c.finished = b.finished /\ c.x = b.x /\ c.at = b.at
        /\ c \in Books /\ w \in Procs /\ c.kind[w] \notin {"got", "put"}
    BY <1>1, <1>2, <1>5, <1>6
  <2>2. Buffered(c) /\ Taken(c) = Taken(b)
    BY <2>1 DEF Kept, Buffered, Taken
  <2> QED BY <1>6, <1>7, <1>10, <2>1, <2>2, QuietKept
<1> QED BY <1>2, <1>5, <1>11 DEF c, i, f

Arrives(b) ==
  [Files(b, Arrival, "put", b.arrived + 1) EXCEPT
     !.buffer = Append(b.buffer, b.arrived + 1), !.arrived = b.arrived + 1]

\* The next task is put into the arrival buffer.
LEMMA ArrivesKept ==
  ASSUME NEW b, Kept(b), b.kind[Arrival] = "none", b.arrived # NUM_TASKS
  PROVE  LET c == Arrives(b)
         IN  /\ Kept(c) /\ b.arrived + 1 \in Tasks /\ c.arrived = b.arrived + 1
             /\ c.kind = [b.kind EXCEPT ![Arrival] = "put"]
             /\ c.task = [b.task EXCEPT ![Arrival] = b.arrived + 1]
             /\ c.buffer = Append(b.buffer, b.arrived + 1) /\ c.queue = b.queue
             /\ c.idle = b.idle /\ c.free = b.free /\ c.batch = b.batch /\ c.running = b.running
             /\ c.enqueued = b.enqueued /\ c.started = b.started /\ c.finished = b.finished
             /\ c.x = b.x /\ c.at = b.at
<1> DEFINE c == Arrives(b)
           n == b.arrived + 1
           q == b.buffer
           r == Append(q, n)
<1>1. b \in Books /\ Hands(b) /\ Getters(b) /\ Buffered(b) /\ Arrival \in Procs
  BY DEF Kept, Procs
<1>2. n \in Tasks /\ n \in Nat /\ n \in 0 .. NUM_TASKS /\ b.arrived \in Nat
  BY <1>1, BookTypes, Positive DEF Tasks
<1>3. q \in Seq(Tasks) /\ Len(q) \in Nat
  BY <1>1, BookTypes, LenProperties
<1>4. /\ r \in Seq(Tasks) /\ Len(r) = Len(q) + 1 /\ r[Len(q) + 1] = n
      /\ \A i \in 1 .. Len(q) : r[i] = q[i]
  BY <1>2, <1>3, AppendProperties
<1> HIDE DEF r
<1>5. /\ c \in Books /\ c.arrived = n
      /\ c.kind = [b.kind EXCEPT ![Arrival] = "put"]
      /\ c.task = [b.task EXCEPT ![Arrival] = n]
      /\ c.buffer = r /\ c.queue = b.queue
      /\ c.idle = b.idle /\ c.free = b.free /\ c.batch = b.batch /\ c.running = b.running
      /\ c.enqueued = b.enqueued /\ c.started = b.started /\ c.finished = b.finished
      /\ c.x = b.x /\ c.at = b.at
  <2>1. "put" \in EventKinds
    BY DEF EventKinds
  <2>2. c = [Files(b, Arrival, "put", n) EXCEPT !.buffer = r, !.arrived = n]
    BY DEF Arrives, r
  <2> HIDE DEF n, c
  <2> QED BY <1>1, <1>2, <1>4, <2>1, <2>2 DEF Files, Books
<1> HIDE DEF c
<1>6. /\ \A v \in Procs \ {Arrival} : c.kind[v] = b.kind[v] /\ c.task[v] = b.task[v]
      /\ c.kind[Arrival] = "put"
      /\ \A l \in Leaders : c.kind[l] = b.kind[l]
      /\ \A f \in Followers : c.kind[f] = b.kind[f]
  BY <1>1, <1>5, BookTypes, ProcsDiffer DEF Procs
<1>7. Hands(c)
  BY <1>1, <1>5, <1>6 DEF Hands
<1>8. Getters(c)
  BY <1>1, <1>5, <1>6, BookElements DEF Getters
<1>9. Buffered(c) /\ Taken(c) = Taken(b)
  <2> DEFINE g == Len(q)
             h == Taken(b)
             a == b.arrived
             k == Len(r)
  <2>1. /\ g <= a /\ h = a - g /\ k = g + 1 /\ a \in Nat /\ g \in Nat
        /\ \A i \in 1 .. g : q[i] = h + i
    BY <1>1, <1>2, <1>3, <1>4 DEF Buffered, Taken
  <2>2. Taken(c) = n - k /\ c.buffer = r /\ c.arrived = n /\ r[g + 1] = n /\ n = a + 1
    BY <1>4, <1>5, Zenon DEF Taken
  <2>3. \A i \in 1 .. g : r[i] = h + i
    BY <1>4, <2>1
  <2> HIDE DEF g, h, a, n, k
  <2>4. n - k = h /\ k <= n /\ n = h + (g + 1)
    BY <2>1, <2>2
  <2>5. \A i \in 1 .. k : i \in 1 .. g \/ i = g + 1
    BY <2>1
  <2>6. ASSUME NEW i \in 1 .. k PROVE r[i] = h + i
    BY <2>2, <2>3, <2>4, <2>5
  <2>7. /\ Taken(c) = h /\ Len(c.buffer) = k
    BY <2>2, <2>4 DEF k
  <2>8. Buffered(c)
    BY <2>2, <2>4, <2>6, <2>7 DEF Buffered
  <2> QED BY <2>7, <2>8 DEF h
<1>10. Kept(c)
  BY <1>1, <1>5, <1>6, <1>7, <1>8, <1>9, QuietKept
<1> QED BY <1>2, <1>5, <1>10 DEF c, r

LEMMA HeadAndTail ==
  ASSUME NEW T, NEW q \in Seq(T), q # <<>>
  PROVE  /\ Len(q) \in Nat /\ Len(q) >= 1 /\ 1 \in 1 .. Len(q)
         /\ Head(q) \in T /\ Head(q) = q[1] /\ Tail(q) \in Seq(T) /\ Len(Tail(q)) = Len(q) - 1
         /\ \A i \in 1 .. Len(q) - 1 : Tail(q)[i] = q[i + 1] /\ i + 1 \in 1 .. Len(q)
<1>1. Len(q) \in Nat /\ Len(q) # 0
  BY LenProperties, EmptySeq
<1>2. /\ Head(q) \in T /\ Tail(q) \in Seq(T) /\ Head(q) = q[1] /\ Len(Tail(q)) = Len(q) - 1
      /\ \A i \in 1 .. Len(Tail(q)) : Tail(q)[i] = q[i + 1]
  BY HeadTailProperties
<1> QED BY <1>1, <1>2

\* What is recorded as enqueued left the arrival buffer.
LEMMA EnqueuedTaken ==
  ASSUME NEW b, Kept(b), NEW i \in 1 .. Len(b.enqueued)
  PROVE  /\ b.enqueued[i].tid \in Tasks /\ b.enqueued[i].by \in Leaders
         /\ b.enqueued[i].tid <= Taken(b) /\ b.at[b.enqueued[i].tid] = i
<1>1. b \in Books /\ Numbered(b) /\ Puts(b) /\ WithLeaders(b)
  BY DEF Kept
<1>2. i \in 1 .. Len(b.x) /\ b.enqueued[i].tid = b.x[i] /\ i # 0
  <2>1. Len(b.enqueued) <= Len(b.x) /\ b.enqueued[i].tid = b.x[i]
    BY <1>1 DEF Puts
  <2> DEFINE g == Len(b.enqueued)
             k == Len(b.x)
  <2>2. g \in Nat /\ k \in Nat /\ g <= k /\ i \in 1 .. g
    BY <1>1, <2>1, BookLengths
  <2> HIDE DEF g, k
  <2>3. i \in 1 .. k /\ i # 0
    BY <2>2
  <2> QED BY <2>1, <2>3 DEF k
<1>3. b.at[b.x[i]] = i /\ b.x[i] \in Tasks
  BY <1>1, <1>2, BookElements DEF Numbered
<1>4. b.x[i] <= Taken(b)
  BY <1>1, <1>2, <1>3 DEF WithLeaders
<1> QED BY <1>1, <1>2, <1>3, <1>4, BookElements

AnswersLeader(b) ==
  [Files(b, Head(b.idle), "got", Head(b.buffer)) EXCEPT
     !.idle = Tail(b.idle), !.buffer = Tail(b.buffer)]

\* The first task of the buffer is handed to the leader that waited longest.
LEMMA AnswersLeaderKept ==
  ASSUME NEW b, Kept(b), b.idle # <<>>, b.buffer # <<>>
  PROVE  LET c == AnswersLeader(b)
             l == Head(b.idle)
         IN  /\ Kept(c) /\ l \in Leaders /\ Head(b.buffer) \in Tasks /\ b.kind[l] = "wait"
             /\ c.kind = [b.kind EXCEPT ![l] = "got"]
             /\ c.task = [b.task EXCEPT ![l] = Head(b.buffer)]
             /\ c.buffer = Tail(b.buffer) /\ c.queue = b.queue
             /\ c.idle = Tail(b.idle) /\ c.free = b.free /\ c.arrived = b.arrived
             /\ c.batch = b.batch /\ c.running = b.running
             /\ c.enqueued = b.enqueued /\ c.started = b.started /\ c.finished = b.finished
             /\ c.x = b.x /\ c.at = b.at
<1> DEFINE c == AnswersLeader(b)
           l == Head(b.idle)
           t == Head(b.buffer)
           q == b.buffer
           r == Tail(q)
           k == Tail(b.idle)
           h == Taken(b)
<1>1. /\ b \in Books /\ Hands(b) /\ Getters(b) /\ Buffered(b) /\ WithLeaders(b) /\ LeaderOrder(b)
      /\ Numbered(b) /\ Puts(b) /\ Starts(b)
      /\ b.idle \in Seq(Leaders) /\ q \in Seq(Tasks) /\ b.arrived \in Nat
  BY BookTypes, Positive DEF Kept
<1>2. /\ Len(b.idle) \in Nat /\ Len(b.idle) >= 1 /\ 1 \in 1 .. Len(b.idle)
      /\ l \in Leaders /\ l = b.idle[1] /\ k \in Seq(Leaders) /\ Len(k) = Len(b.idle) - 1
      /\ \A i \in 1 .. Len(b.idle) - 1 : k[i] = b.idle[i + 1] /\ i + 1 \in 1 .. Len(b.idle)
  BY <1>1, HeadAndTail
<1>3. /\ Len(q) \in Nat /\ Len(q) >= 1 /\ 1 \in 1 .. Len(q)
      /\ t \in Tasks /\ t = q[1] /\ r \in Seq(Tasks) /\ Len(r) = Len(q) - 1
      /\ \A i \in 1 .. Len(q) - 1 : r[i] = q[i + 1] /\ i + 1 \in 1 .. Len(q)
  BY <1>1, HeadAndTail
<1>4. l \in Procs /\ b.kind[l] = "wait" /\ b.batch[l] = <<>>
  BY <1>1, <1>2 DEF Getters, Hands, Procs
<1>5. /\ c \in Books
      /\ c.kind = [b.kind EXCEPT ![l] = "got"]
      /\ c.task = [b.task EXCEPT ![l] = t]
      /\ c.buffer = r /\ c.queue = b.queue
      /\ c.idle = k /\ c.free = b.free /\ c.arrived = b.arrived
      /\ c.batch = b.batch /\ c.running = b.running
      /\ c.enqueued = b.enqueued /\ c.started = b.started /\ c.finished = b.finished
      /\ c.x = b.x /\ c.at = b.at
  <2>1. "got" \in EventKinds
    BY DEF EventKinds
  <2>2. c = [Files(b, l, "got", t) EXCEPT !.idle = k, !.buffer = r]
    BY DEF AnswersLeader
  <2> HIDE DEF c, l, t, k, r
  <2> QED BY <1>1, <1>2, <1>3, <1>4, <2>1, <2>2 DEF Files, Books
<1> HIDE DEF c, l, t, k, r
<1>6. /\ \A v \in Procs \ {l} : c.kind[v] = b.kind[v] /\ c.task[v] = b.task[v]
      /\ c.kind[l] = "got" /\ c.task[l] = t
      /\ \A m \in Leaders : m \in Procs /\ (m # l => c.kind[m] = b.kind[m] /\ c.task[m] = b.task[m])
      /\ \A m \in Leaders : c.kind[m] = "put" <=> b.kind[m] = "put"
      /\ \A f \in Followers : c.kind[f] = b.kind[f] /\ c.task[f] = b.task[f]
      /\ c.kind[Arrival] = b.kind[Arrival]
  <2>1. DOMAIN b.kind = Procs /\ DOMAIN b.task = Procs
    BY <1>1, BookTypes
  <2>2. l \in Procs /\ Arrival \in Procs \ {l} /\ Followers \subseteq Procs \ {l} /\ Leaders \subseteq Procs
    BY <1>2, <1>4, ProcsDiffer DEF Procs
  <2>3. /\ \A v \in Procs \ {l} : c.kind[v] = b.kind[v] /\ c.task[v] = b.task[v]
        /\ c.kind[l] = "got" /\ c.task[l] = t
    BY <1>5, <2>1, <2>2
  <2>4. \A m \in Leaders : m # l => c.kind[m] = b.kind[m] /\ c.task[m] = b.task[m]
    BY <2>2, <2>3
  <2>5. \A m \in Leaders : c.kind[m] = "put" <=> b.kind[m] = "put"
    BY <1>2, <1>4, <2>3, <2>4
  <2> QED BY <2>2, <2>3, <2>4, <2>5
<1>7. Hands(c)
  BY <1>1, <1>4, <1>5, <1>6 DEF Hands
<1>8. Getters(c)
  <2>1. ASSUME NEW i \in 1 .. Len(k)
        PROVE  /\ i + 1 \in 1 .. Len(b.idle) /\ k[i] = b.idle[i + 1] /\ i + 1 # 1
    BY <1>2
  <2>2. ASSUME NEW i \in 1 .. Len(k) PROVE c.kind[k[i]] = "wait"
    <3>1. b.idle[i + 1] # l /\ b.idle[i + 1] \in Leaders /\ b.kind[b.idle[i + 1]] = "wait"
      BY <1>1, <1>2, <2>1, BookElements DEF Getters
    <3> QED BY <1>6, <2>1, <3>1
  <2>3. ASSUME NEW i \in 1 .. Len(k), NEW j \in 1 .. Len(k), k[i] = k[j] PROVE i = j
    <3>1. i + 1 = j + 1
      BY <1>1, <2>1, <2>3 DEF Getters
    <3> QED BY <1>2, <3>1
  <2>4. \A i \in 1 .. Len(b.free) : c.kind[b.free[i]] = "wait"
    BY <1>1, <1>6, BookElements DEF Getters
  <2> QED BY <1>1, <1>5, <2>2, <2>3, <2>4 DEF Getters
<1>9. /\ h \in Nat /\ \A i \in 1 .. Len(q) : q[i] = h + i
      /\ Taken(c) = h + 1 /\ Len(r) <= c.arrived
  <2> DEFINE g == Len(q)
             a == b.arrived
  <2>1. g \in Nat /\ g >= 1 /\ a \in Nat /\ g <= a /\ h = a - g /\ \A i \in 1 .. g : q[i] = h + i
    BY <1>1, <1>3 DEF Buffered, Taken
  <2>2. Taken(c) = a - Len(r) /\ Len(r) = g - 1 /\ c.arrived = a
    BY <1>3, <1>5, Zenon DEF Taken
  <2> HIDE DEF g, a, h, q
  <2>3. h \in Nat /\ Taken(c) = h + 1 /\ Len(r) <= c.arrived
    BY <2>1, <2>2
  <2> QED BY <2>1, <2>3 DEF g
<1> HIDE DEF h, q
<1>10. t = h + 1
  BY <1>3, <1>9
<1>11. Buffered(c)
  <2>1. ASSUME NEW i \in 1 .. Len(r) PROVE r[i] = (h + 1) + i
    <3>1. i \in 1 .. Len(q) - 1 /\ i \in Nat
      BY <1>3
    <3>2. r[i] = h + (i + 1)
      BY <1>3, <1>9, <3>1
    <3> QED BY <1>9, <3>1, <3>2
  <2> QED BY <1>5, <1>9, <2>1 DEF Buffered
<1>12. WithLeaders(c)
  <2>1. \A u \in 1 .. h : u \in 1 .. h + 1 /\ u # t
    BY <1>9, <1>10
  <2>2. b.at[t] = 0 /\ t \in 1 .. h + 1
    <3>1. ~(t <= h) /\ t \in 1 .. h + 1
      BY <1>9, <1>10
    <3> QED BY <1>1, <1>3, <3>1 DEF WithLeaders, h
  <2>3. \A m \in Leaders : b.kind[m] = "got" => b.task[m] \in 1 .. h /\ b.task[m] # t
    BY <1>1, <2>1 DEF WithLeaders, h
  <2>4. \A m \in Leaders : \A i \in 1 .. Len(b.batch[m]) : b.batch[m][i] \in 1 .. h /\ b.batch[m][i] # t
    BY <1>1, <2>1 DEF WithLeaders, h
  <2>5. ASSUME NEW m \in Leaders, c.kind[m] = "got"
        PROVE  /\ c.task[m] \in 1 .. h + 1 /\ c.at[c.task[m]] = 0
               /\ \A n \in Leaders : c.kind[n] = "got" /\ c.task[m] = c.task[n] => m = n
               /\ \A n \in Leaders : \A i \in 1 .. Len(b.batch[n]) : b.batch[n][i] # c.task[m]
    <3>1. CASE m = l
      <4>1. \A n \in Leaders : c.kind[n] = "got" /\ n # l => c.task[n] # t
        BY <1>6, <2>3
      <4> QED BY <1>5, <1>6, <2>2, <2>4, <3>1, <4>1
    <3>2. CASE m # l
      <4>1. b.kind[m] = "got" /\ c.task[m] = b.task[m]
        BY <1>6, <2>5, <3>2
      <4>2. /\ b.task[m] \in 1 .. h + 1 /\ b.task[m] # t
        BY <2>1, <2>3, <4>1
      <4>3. /\ b.at[b.task[m]] = 0
            /\ \A n \in Leaders : b.kind[n] = "got" /\ b.task[m] = b.task[n] => m = n
            /\ \A n \in Leaders : \A i \in 1 .. Len(b.batch[n]) : b.batch[n][i] # b.task[m]
        BY <1>1, <4>1 DEF WithLeaders
      <4>4. ASSUME NEW n \in Leaders, c.kind[n] = "got", c.task[m] = c.task[n] PROVE m = n
        <5>1. n # l
          BY <1>6, <4>1, <4>2, <4>4
        <5> QED BY <1>6, <4>1, <4>3, <4>4, <5>1
      <4> QED BY <1>5, <4>1, <4>2, <4>3, <4>4
    <3> QED BY <3>1, <3>2
  <2>6. ASSUME NEW m \in Leaders, NEW i \in 1 .. Len(b.batch[m])
        PROVE  /\ b.batch[m][i] \in 1 .. h + 1 /\ b.at[b.batch[m][i]] = 0
               /\ \A j \in 1 .. Len(b.batch[m]) : i < j => b.batch[m][i] < b.batch[m][j]
               /\ \A n \in Leaders : \A j \in 1 .. Len(b.batch[n]) : b.batch[m][i] = b.batch[n][j] => m = n
    BY <1>1, <2>1, <2>4 DEF WithLeaders
  <2>7. ASSUME NEW u \in Tasks, b.at[u] # 0 PROVE u <= h + 1
    <3>1. u <= h /\ u \in Nat
      BY <1>1, <2>7, TaskNumbers DEF WithLeaders, h
    <3> QED BY <1>9, <3>1
  <2>8. ASSUME NEW u \in 1 .. h + 1
        PROVE  \/ b.at[u] # 0
               \/ \E m \in Leaders : c.kind[m] = "got" /\ c.task[m] = u
               \/ \E m \in Leaders : \E i \in 1 .. Len(b.batch[m]) : b.batch[m][i] = u
    <3>1. CASE u = t
      BY <1>2, <1>6, <3>1
    <3>2. CASE u # t
      <4>1. u \in 1 .. h
        BY <1>9, <1>10, <3>2
      <4>2. \/ b.at[u] # 0
            \/ \E m \in Leaders : b.kind[m] = "got" /\ b.task[m] = u
            \/ \E m \in Leaders : \E i \in 1 .. Len(b.batch[m]) : b.batch[m][i] = u
        BY <1>1, <4>1 DEF WithLeaders, h
      <4>3. ASSUME NEW m \in Leaders, b.kind[m] = "got", b.task[m] = u
            PROVE  c.kind[m] = "got" /\ c.task[m] = u
        <5>1. m # l
          BY <1>4, <4>3
        <5> QED BY <1>6, <4>3, <5>1
      <4> QED BY <4>2, <4>3
    <3> QED BY <3>1, <3>2
  <2> QED BY <1>5, <1>9, <2>5, <2>6, <2>7, <2>8 DEF WithLeaders
<1>13. Numbered(c) /\ Executes(c)
  BY <1>5 DEF Kept, Numbered, Executes
<1>14. Puts(c)
  <2>1. \A m \in Leaders : b.kind[m] = "put" => c.task[m] = b.task[m]
    BY <1>4, <1>6
  <2> QED BY <1>1, <1>5, <1>6, <2>1 DEF Puts
<1>15. Starts(c)
  <2>1. /\ \A f \in Followers : c.kind[f] = "got" <=> b.kind[f] = "got"
        /\ \A f \in Followers : b.kind[f] = "got" => c.task[f] = b.task[f]
    BY <1>6
  <2> QED BY <1>1, <1>5, <2>1, StartsSame
<1>16. LeaderOrder(c)
  <2>1. ASSUME NEW i \in 1 .. Len(b.enqueued)
        PROVE  LET m == b.enqueued[i].by
               IN  /\ c.kind[m] \in {"got", "put"} => b.enqueued[i].tid < c.task[m]
                   /\ \A j \in 1 .. Len(b.batch[m]) : b.enqueued[i].tid < b.batch[m][j]
    <3> DEFINE m == b.enqueued[i].by
               e == b.enqueued[i].tid
    <3>1. m \in Leaders /\ e \in Nat /\ e <= h
      BY EnqueuedTaken, TaskNumbers DEF h
    <3>2. /\ b.kind[m] \in {"got", "put"} => e < b.task[m]
          /\ \A j \in 1 .. Len(b.batch[m]) : e < b.batch[m][j]
      BY <1>1 DEF LeaderOrder
    <3> HIDE DEF m, e
    <3>3. e < t
      BY <1>9, <1>10, <3>1
    <3>4. c.kind[m] \in {"got", "put"} => e < c.task[m]
      BY <1>6, <3>1, <3>2, <3>3
    <3> QED BY <3>2, <3>4 DEF m, e
  <2>2. \A m \in Leaders : c.kind[m] = "put" =>
          \A j \in 1 .. Len(b.batch[m]) : c.task[m] < b.batch[m][j]
    <3>1. \A m \in Leaders : b.kind[m] = "put" => c.task[m] = b.task[m]
      BY <1>4, <1>6
    <3> QED BY <1>1, <1>6, <3>1 DEF LeaderOrder
  <2> QED BY <1>1, <1>5, <2>1, <2>2 DEF LeaderOrder
<1>17. Kept(c)
  BY <1>5, <1>7, <1>8, <1>11, <1>12, <1>13, <1>14, <1>15, <1>16 DEF Kept
<1> QED BY <1>2, <1>3, <1>4, <1>5, <1>17 DEF c, l, t, k, r, q

AnswersFollower(b) ==
  [Files(b, Head(b.free), "got", Head(b.queue)) EXCEPT
     !.free = Tail(b.free), !.queue = Tail(b.queue)]

\* The first task of the queue is handed to the follower that waited
\* longest.
LEMMA AnswersFollowerKept ==
  ASSUME NEW b, Kept(b), b.free # <<>>, b.queue # <<>>
  PROVE  LET c == AnswersFollower(b)
             f == Head(b.free)
         IN  /\ Kept(c) /\ f \in Followers /\ Head(b.queue) \in Tasks /\ b.kind[f] = "wait"
             /\ Head(b.queue) = b.x[Len(b.x) - Len(b.queue) + 1]
             /\ b.at[Head(b.queue)] = Len(b.x) - Len(b.queue) + 1
             /\ c.kind = [b.kind EXCEPT ![f] = "got"]
             /\ c.task = [b.task EXCEPT ![f] = Head(b.queue)]
             /\ c.buffer = b.buffer /\ c.queue = Tail(b.queue)
             /\ c.idle = b.idle /\ c.free = Tail(b.free) /\ c.arrived = b.arrived
             /\ c.batch = b.batch /\ c.running = b.running
             /\ c.enqueued = b.enqueued /\ c.started = b.started /\ c.finished = b.finished
             /\ c.x = b.x /\ c.at = b.at
<1> DEFINE c == AnswersFollower(b)
           f == Head(b.free)
           q == b.queue
           t == Head(q)
           r == Tail(q)
           k == Tail(b.free)
           z == Len(b.x)
           g == Len(q)
           s == Len(b.started)
<1>1. /\ b \in Books /\ Hands(b) /\ Getters(b) /\ WithLeaders(b) /\ LeaderOrder(b)
      /\ Numbered(b) /\ Puts(b) /\ Starts(b) /\ Executes(b) /\ Buffered(b)
      /\ b.free \in Seq(Followers) /\ q \in Seq(Tasks) /\ z \in Nat /\ s \in Nat
  BY BookTypes, BookLengths DEF Kept
<1>2. /\ Len(b.free) \in Nat /\ Len(b.free) >= 1 /\ 1 \in 1 .. Len(b.free)
      /\ f \in Followers /\ f = b.free[1] /\ k \in Seq(Followers) /\ Len(k) = Len(b.free) - 1
      /\ \A i \in 1 .. Len(b.free) - 1 : k[i] = b.free[i + 1] /\ i + 1 \in 1 .. Len(b.free)
  BY <1>1, HeadAndTail
<1>3. /\ g \in Nat /\ g >= 1 /\ 1 \in 1 .. g
      /\ t \in Tasks /\ t = q[1] /\ r \in Seq(Tasks) /\ Len(r) = g - 1
      /\ \A i \in 1 .. g - 1 : r[i] = q[i + 1] /\ i + 1 \in 1 .. g
  BY <1>1, HeadAndTail
<1>4. f \in Procs /\ b.kind[f] = "wait" /\ b.running[f] = NoTask
  BY <1>1, <1>2 DEF Getters, Hands, Procs
<1>5. /\ c \in Books
      /\ c.kind = [b.kind EXCEPT ![f] = "got"]
      /\ c.task = [b.task EXCEPT ![f] = t]
      /\ c.buffer = b.buffer /\ c.queue = r
      /\ c.idle = b.idle /\ c.free = k /\ c.arrived = b.arrived
      /\ c.batch = b.batch /\ c.running = b.running
      /\ c.enqueued = b.enqueued /\ c.started = b.started /\ c.finished = b.finished
      /\ c.x = b.x /\ c.at = b.at
  <2>1. "got" \in EventKinds
    BY DEF EventKinds
  <2>2. c = [Files(b, f, "got", t) EXCEPT !.free = k, !.queue = r]
    BY DEF AnswersFollower
  <2> HIDE DEF c, f, t, k, r
  <2> QED BY <1>1, <1>2, <1>3, <1>4, <2>1, <2>2 DEF Files, Books
<1> HIDE DEF c, f, t, k, r
<1>6. /\ c.kind[f] = "got" /\ c.task[f] = t /\ f \notin Leaders
      /\ \A m \in Leaders : c.kind[m] = b.kind[m] /\ c.task[m] = b.task[m]
      /\ \A n \in Followers \ {f} : c.kind[n] = b.kind[n] /\ c.task[n] = b.task[n]
      /\ c.kind[Arrival] = b.kind[Arrival]
  BY <1>1, <1>2, <1>4, <1>5, BookTypes, ProcsDiffer DEF Procs
<1>7. Hands(c)
  <2>1. Hands(b) /\ \A n \in Followers : n # f => c.kind[n] = b.kind[n]
    BY <1>1, <1>6
  <2> QED BY <1>4, <1>5, <1>6, <2>1 DEF Hands
<1>8. Getters(c)
  <2>1. ASSUME NEW i \in 1 .. Len(k)
        PROVE  /\ i + 1 \in 1 .. Len(b.free) /\ k[i] = b.free[i + 1] /\ i + 1 # 1
    BY <1>2
  <2>2. ASSUME NEW i \in 1 .. Len(k) PROVE c.kind[k[i]] = "wait"
    <3>1. b.free[i + 1] # f /\ b.free[i + 1] \in Followers /\ b.kind[b.free[i + 1]] = "wait"
      BY <1>1, <1>2, <2>1, BookElements DEF Getters
    <3> QED BY <1>6, <2>1, <3>1
  <2>3. ASSUME NEW i \in 1 .. Len(k), NEW j \in 1 .. Len(k), k[i] = k[j] PROVE i = j
    <3>1. i + 1 = j + 1
      <4>1. b.free[i + 1] = b.free[j + 1] /\ i + 1 \in 1 .. Len(b.free) /\ j + 1 \in 1 .. Len(b.free)
        BY <2>1, <2>3
      <4>2. \A u, v \in 1 .. Len(b.free) : b.free[u] = b.free[v] => u = v
        BY <1>1 DEF Getters
      <4> QED BY <4>1, <4>2
    <3> QED BY <1>2, <3>1
  <2>4. \A i \in 1 .. Len(b.idle) : c.kind[b.idle[i]] = "wait"
    BY <1>1, <1>6, BookElements DEF Getters
  <2> QED BY <1>1, <1>5, <2>2, <2>3, <2>4 DEF Getters
<1>9. /\ s + g <= z /\ s <= Len(b.enqueued)
      /\ \A i \in 1 .. g : q[i] = b.x[z - g + i]
      /\ \A n \in Followers : b.kind[n] = "got" =>
           b.task[n] \in Tasks /\ b.at[b.task[n]] > s /\ b.at[b.task[n]] <= z - g
      /\ \A j \in s + 1 .. z - g : \E n \in Followers : b.kind[n] = "got" /\ b.task[n] = b.x[j]
      /\ \A j \in 1 .. z : b.at[b.x[j]] = j
  BY <1>1 DEF Starts, Ends, Numbered
<1>10. Len(c.x) = z /\ Len(c.queue) = g - 1 /\ Len(c.started) = s
  BY <1>3, <1>5
<1> HIDE DEF q, z, g, s
<1>11. t = b.x[z - g + 1] /\ b.at[t] = z - g + 1
  <2>1. z - g + 1 \in 1 .. z
    BY <1>1, <1>3, <1>9
  <2> QED BY <1>3, <1>9, <2>1
<1>12. Starts(c)
  <2>1. ASSUME NEW i \in 1 .. g - 1 PROVE r[i] = b.x[z - (g - 1) + i]
    <3>1. i + 1 \in 1 .. g /\ z - g + (i + 1) = z - (g - 1) + i
      BY <1>1, <1>3
    <3> QED BY <1>3, <1>9, <3>1
  <2>2. Ends(c.queue, c.x)
    BY <1>5, <1>10, <2>1 DEF Ends
  <2>3. Begins(c.started, c.x)
    BY <1>1, <1>5 DEF Starts
  <2>4. ASSUME NEW n \in Followers, c.kind[n] = "got"
        PROVE  c.task[n] \in Tasks /\ c.at[c.task[n]] > s /\ c.at[c.task[n]] <= z - (g - 1)
    <3>1. CASE n = f
      BY <1>1, <1>3, <1>5, <1>6, <1>9, <1>11, <3>1
    <3>2. CASE n # f
      <4>1. b.task[n] \in Tasks /\ b.at[b.task[n]] > s /\ b.at[b.task[n]] <= z - g /\ c.task[n] = b.task[n]
        BY <1>6, <1>9, <2>4, <3>2
      <4>2. b.at[b.task[n]] \in Nat
        BY <1>1, <4>1, BookTypes
      <4> QED BY <1>1, <1>3, <1>5, <4>1, <4>2
    <3> QED BY <3>1, <3>2
  <2>5. ASSUME NEW j \in s + 1 .. z - (g - 1)
        PROVE  \E n \in Followers : c.kind[n] = "got" /\ c.task[n] = b.x[j]
    <3>1. CASE j = z - g + 1
      BY <1>2, <1>6, <1>11, <3>1
    <3>2. CASE j # z - g + 1
      <4>1. j \in s + 1 .. z - g
        BY <1>1, <1>3, <3>2
      <4>2. PICK n \in Followers : b.kind[n] = "got" /\ b.task[n] = b.x[j]
        BY <1>9, <4>1
      <4>3. n # f
        BY <1>4, <4>2
      <4> QED BY <1>6, <4>2, <4>3
    <3> QED BY <3>1, <3>2
  <2>6. s + (g - 1) <= z /\ s <= Len(c.enqueued)
    BY <1>1, <1>3, <1>5, <1>9
  <2> QED BY <1>5, <1>10, <2>2, <2>3, <2>4, <2>5, <2>6 DEF Starts
<1>13. Numbered(c) /\ Executes(c) /\ Buffered(c)
  BY <1>1, <1>5 DEF Numbered, Executes, Buffered, Taken
<1>14. WithLeaders(c)
  BY <1>1, <1>5, <1>6 DEF WithLeaders, Taken
<1>15. Puts(c)
  BY <1>1, <1>5, <1>6 DEF Puts
<1>16. LeaderOrder(c)
  <2>1. \A i \in 1 .. Len(b.enqueued) :
          /\ c.kind[b.enqueued[i].by] = b.kind[b.enqueued[i].by]
          /\ c.task[b.enqueued[i].by] = b.task[b.enqueued[i].by]
    BY <1>1, <1>6, BookElements
  <2> QED BY <1>1, <1>5, <1>6, <2>1 DEF LeaderOrder
<1>17. Kept(c)
  BY <1>5, <1>7, <1>8, <1>12, <1>13, <1>14, <1>15, <1>16 DEF Kept
<1> QED BY <1>2, <1>3, <1>4, <1>5, <1>11, <1>17 DEF c, f, t, k, r, q, z, g

Sends(b, l) ==
  [Files(b, l, "put", Head(b.batch[l])) EXCEPT
     !.batch = [b.batch EXCEPT ![l] = Tail(b.batch[l])],
     !.queue = Append(b.queue, Head(b.batch[l])), !.x = Append(b.x, Head(b.batch[l])),
     !.at = [b.at EXCEPT ![Head(b.batch[l])] = Len(b.x) + 1]]

\* A leader puts the next task of its batch into the queue.
LEMMA SendsKept ==
  ASSUME NEW b, Kept(b), NEW l \in Leaders, b.kind[l] = "none", b.batch[l] # <<>>
  PROVE  LET c == Sends(b, l)
             t == Head(b.batch[l])
         IN  /\ Kept(c) /\ t \in Tasks /\ b.at[t] = 0
             /\ c.kind = [b.kind EXCEPT ![l] = "put"] /\ c.task = [b.task EXCEPT ![l] = t]
             /\ c.buffer = b.buffer /\ c.queue = Append(b.queue, t)
             /\ c.idle = b.idle /\ c.free = b.free /\ c.arrived = b.arrived
             /\ c.batch = [b.batch EXCEPT ![l] = Tail(b.batch[l])] /\ c.running = b.running
             /\ c.enqueued = b.enqueued /\ c.started = b.started /\ c.finished = b.finished
             /\ c.x = Append(b.x, t) /\ c.at = [b.at EXCEPT ![t] = Len(b.x) + 1]
<1> DEFINE c == Sends(b, l)
           p == b.batch[l]
           t == Head(p)
           r == Tail(p)
           q == b.queue
           x == b.x
           y == Append(x, t)
           z == Len(x)
           g == Len(q)
           s == Len(b.started)
           n == Len(b.enqueued)
           h == Taken(b)
<1>1. /\ b \in Books /\ Hands(b) /\ Getters(b) /\ WithLeaders(b) /\ LeaderOrder(b)
      /\ Numbered(b) /\ Puts(b) /\ Starts(b) /\ Executes(b) /\ Buffered(b)
      /\ p \in Seq(Tasks) /\ q \in Seq(Tasks) /\ x \in Seq(Tasks) /\ l \in Procs
      /\ z \in Nat /\ g \in Nat /\ s \in Nat /\ n \in Nat
  BY BookTypes, BookLengths DEF Kept, Procs
<1>2. /\ Len(p) \in Nat /\ Len(p) >= 1 /\ 1 \in 1 .. Len(p)
      /\ t \in Tasks /\ t = p[1] /\ r \in Seq(Tasks) /\ Len(r) = Len(p) - 1
      /\ \A i \in 1 .. Len(p) - 1 : r[i] = p[i + 1] /\ i + 1 \in 1 .. Len(p)
  BY <1>1, HeadAndTail
<1>3. /\ y \in Seq(Tasks) /\ Len(y) = z + 1 /\ y[z + 1] = t /\ \A i \in 1 .. z : y[i] = x[i]
  BY <1>1, <1>2, AppendProperties
<1>4. /\ Append(q, t) \in Seq(Tasks) /\ Len(Append(q, t)) = g + 1
      /\ Append(q, t)[g + 1] = t /\ \A i \in 1 .. g : Append(q, t)[i] = q[i]
  BY <1>1, <1>2, AppendProperties
<1>5. t \in 1 .. h /\ b.at[t] = 0
  BY <1>1, <1>2 DEF WithLeaders
<1>6. /\ c \in Books
      /\ c.kind = [b.kind EXCEPT ![l] = "put"] /\ c.task = [b.task EXCEPT ![l] = t]
      /\ c.buffer = b.buffer /\ c.queue = Append(q, t)
      /\ c.idle = b.idle /\ c.free = b.free /\ c.arrived = b.arrived
      /\ c.batch = [b.batch EXCEPT ![l] = r] /\ c.running = b.running
      /\ c.enqueued = b.enqueued /\ c.started = b.started /\ c.finished = b.finished
      /\ c.x = y /\ c.at = [b.at EXCEPT ![t] = z + 1]
  <2>1. "put" \in EventKinds /\ z + 1 \in Nat
    BY <1>1 DEF EventKinds
  <2> DEFINE u == Append(q, t)
             v == [b.at EXCEPT ![t] = z + 1]
             w == [b.batch EXCEPT ![l] = r]
  <2>2. c = [Files(b, l, "put", t) EXCEPT !.batch = w, !.queue = u, !.x = y, !.at = v]
    BY DEF Sends
  <2>3. /\ u \in Seq(Tasks) /\ v \in [Tasks -> Nat] /\ w \in [Leaders -> Seq(Tasks)] /\ y \in Seq(Tasks)
    BY <1>1, <1>2, <1>3, <1>4, <2>1, BookTypes
  <2> HIDE DEF c, t, r, y, u, v, w
  <2>4. /\ c \in Books
        /\ c.kind = [b.kind EXCEPT ![l] = "put"] /\ c.task = [b.task EXCEPT ![l] = t]
        /\ c.buffer = b.buffer /\ c.queue = u
        /\ c.idle = b.idle /\ c.free = b.free /\ c.arrived = b.arrived
        /\ c.batch = w /\ c.running = b.running
        /\ c.enqueued = b.enqueued /\ c.started = b.started /\ c.finished = b.finished
        /\ c.x = y /\ c.at = v
    BY <1>1, <1>2, <2>1, <2>2, <2>3 DEF Files, Books
  <2> QED BY <2>4 DEF u, v, w
<1> HIDE DEF c, t, r, y
<1>7. /\ c.kind[l] = "put" /\ c.task[l] = t
      /\ \A m \in Leaders \ {l} : c.kind[m] = b.kind[m] /\ c.task[m] = b.task[m]
      /\ \A f \in Followers : c.kind[f] = b.kind[f] /\ c.task[f] = b.task[f]
      /\ c.kind[Arrival] = b.kind[Arrival]
      /\ \A m \in Leaders : c.kind[m] \in {"init", "got", "wait", "timeout"} =>
           m # l /\ b.kind[m] = c.kind[m] /\ b.task[m] = c.task[m]
  <2>1. \A v \in Procs : /\ c.kind[v] = IF v = l THEN "put" ELSE b.kind[v]
                         /\ c.task[v] = IF v = l THEN t ELSE b.task[v]
    <3>1. DOMAIN b.kind = Procs /\ DOMAIN b.task = Procs
      BY <1>1 DEF Books
    <3> QED BY <1>6, <3>1
  <2>2. /\ Leaders \subseteq Procs /\ Followers \subseteq Procs /\ Arrival \in Procs
        /\ l \notin Followers /\ Arrival # l
    BY ProcsDiffer DEF Procs
  <2> QED BY <2>1, <2>2
<1>8. /\ c.batch[l] = r /\ \A m \in Leaders \ {l} : c.batch[m] = b.batch[m]
      /\ c.at[t] = z + 1 /\ \A u \in Tasks \ {t} : c.at[u] = b.at[u]
      /\ Taken(c) = h
  <2>1. Taken(c) = h
    BY <1>6 DEF Taken
  <2>2. DOMAIN b.batch = Leaders /\ DOMAIN b.at = Tasks /\ t \in Tasks
    BY <1>1, <1>2 DEF Books
  <2> HIDE DEF z
  <2> QED BY <1>6, <2>1, <2>2
<1>9. Len(c.x) = z + 1 /\ Len(c.queue) = g + 1 /\ Len(c.started) = s /\ Len(c.enqueued) = n
  BY <1>3, <1>4, <1>6
<1> HIDE DEF h
<1>10. Hands(c)
  BY <1>1, <1>6, <1>7, <1>8 DEF Hands
<1>11. Getters(c)
  <2>1. \A i \in 1 .. Len(b.idle) : b.idle[i] \in Leaders /\ b.kind[b.idle[i]] = "wait"
    BY <1>1, BookElements DEF Getters
  <2>2. \A i \in 1 .. Len(b.idle) : c.kind[b.idle[i]] = "wait"
    BY <1>7, <2>1
  <2>3. \A i \in 1 .. Len(b.free) : c.kind[b.free[i]] = "wait"
    BY <1>1, <1>7, BookElements DEF Getters
  <2> QED BY <1>1, <1>6, <2>2, <2>3 DEF Getters
<1>12. Buffered(c)
  BY <1>1, <1>6 DEF Buffered, Taken
<1>13. /\ \A i \in 1 .. Len(p) : p[i] \in Tasks /\ p[i] \in 1 .. h /\ b.at[p[i]] = 0
       /\ \A i, j \in 1 .. Len(p) : i < j => p[i] < p[j]
  BY <1>1, BookElements DEF WithLeaders, h
<1>14. \A i \in 1 .. Len(r) : i + 1 \in 1 .. Len(p) /\ r[i] = p[i + 1] /\ r[i] > t /\ r[i] # t
  <2> SUFFICES ASSUME NEW i \in 1 .. Len(r)
               PROVE  i + 1 \in 1 .. Len(p) /\ r[i] = p[i + 1] /\ r[i] > t /\ r[i] # t
    OBVIOUS
  <2>1. i \in 1 .. Len(p) - 1 /\ 1 < i + 1
    BY <1>2
  <2>2. t < p[i + 1] /\ p[i + 1] \in Tasks /\ i + 1 \in 1 .. Len(p)
    BY <1>2, <1>13, <2>1
  <2> QED BY <1>2, <2>1, <2>2, TaskNumbers
<1>15. WithLeaders(c)
  <2>1. \A m \in Leaders : b.kind[m] = "got" => b.task[m] # t
    BY <1>1, <1>2 DEF WithLeaders
  <2>2. \A m \in Leaders \ {l} : \A i \in 1 .. Len(b.batch[m]) : b.batch[m][i] \in Tasks /\ b.batch[m][i] # t
    BY <1>1, <1>2, BookElements DEF WithLeaders
  <2>3. ASSUME NEW m \in Leaders, NEW i \in 1 .. Len(c.batch[m])
        PROVE  /\ c.batch[m][i] # t
               /\ \E j \in 1 .. Len(b.batch[m]) : c.batch[m][i] = b.batch[m][j]
    <3>1. CASE m = l
      <4>1. i \in 1 .. Len(r) /\ c.batch[m][i] = r[i]
        BY <1>8, <3>1
      <4> QED BY <1>14, <3>1, <4>1
    <3>2. CASE m # l
      <4>1. c.batch[m] = b.batch[m]
        BY <1>8, <3>2
      <4> QED BY <2>2, <3>2, <4>1
    <3> QED BY <3>1, <3>2
  <2>4. ASSUME NEW m \in Leaders, c.kind[m] = "got"
        PROVE  /\ c.task[m] \in 1 .. h /\ c.at[c.task[m]] = 0
               /\ \A k \in Leaders : c.kind[k] = "got" /\ c.task[m] = c.task[k] => m = k
               /\ \A k \in Leaders : \A i \in 1 .. Len(c.batch[k]) : c.batch[k][i] # c.task[m]
    <3>1. b.kind[m] = "got" /\ c.task[m] = b.task[m] /\ b.task[m] # t
      BY <1>7, <2>1, <2>4
    <3>2. /\ b.task[m] \in 1 .. h /\ b.at[b.task[m]] = 0
          /\ \A k \in Leaders : b.kind[k] = "got" /\ b.task[m] = b.task[k] => m = k
          /\ \A k \in Leaders : \A i \in 1 .. Len(b.batch[k]) : b.batch[k][i] # b.task[m]
      BY <1>1, <3>1 DEF WithLeaders, h
    <3>3. b.task[m] \in Tasks
      <4>1. b.task[m] \in Tasks \cup {NoTask} /\ b.task[m] # 0
        BY <1>1, <3>2, BookTypes DEF Procs
      <4> QED BY <4>1 DEF NoTask
    <3>4. c.at[c.task[m]] = 0
      BY <1>8, <3>1, <3>2, <3>3
    <3>5. \A k \in Leaders : c.kind[k] = "got" => b.kind[k] = "got" /\ c.task[k] = b.task[k]
      BY <1>7
    <3> QED BY <2>3, <3>1, <3>2, <3>4, <3>5
  <2>5. ASSUME NEW m \in Leaders, NEW i \in 1 .. Len(c.batch[m])
        PROVE  /\ c.batch[m][i] \in 1 .. h /\ c.at[c.batch[m][i]] = 0
               /\ \A j \in 1 .. Len(c.batch[m]) : i < j => c.batch[m][i] < c.batch[m][j]
               /\ \A k \in Leaders : \A j \in 1 .. Len(c.batch[k]) : c.batch[m][i] = c.batch[k][j] => m = k
    <3>1. PICK e \in 1 .. Len(b.batch[m]) : c.batch[m][i] = b.batch[m][e]
      BY <2>3
    <3>2. /\ b.batch[m][e] \in 1 .. h /\ b.at[b.batch[m][e]] = 0 /\ b.batch[m][e] \in Tasks
          /\ \A k \in Leaders : \A j \in 1 .. Len(b.batch[k]) : b.batch[m][e] = b.batch[k][j] => m = k
      BY <1>1, BookElements DEF WithLeaders, h
    <3>3. c.batch[m][i] \in 1 .. h /\ c.at[c.batch[m][i]] = 0
      BY <1>8, <2>3, <3>1, <3>2
    <3>4. \A k \in Leaders : \A j \in 1 .. Len(c.batch[k]) : c.batch[m][i] = c.batch[k][j] => m = k
      BY <2>3, <3>1, <3>2
    <3>5. ASSUME NEW j \in 1 .. Len(c.batch[m]), i < j PROVE c.batch[m][i] < c.batch[m][j]
      <4>1. CASE m = l
        <5>1. i \in 1 .. Len(r) /\ j \in 1 .. Len(r)
          BY <1>8, <4>1
        <5>2. i + 1 \in 1 .. Len(p) /\ j + 1 \in 1 .. Len(p) /\ i + 1 < j + 1
          BY <1>2, <1>14, <3>5, <5>1
        <5> QED BY <1>8, <1>13, <1>14, <4>1, <5>1, <5>2
      <4>2. CASE m # l
        BY <1>1, <1>8, <3>5, <4>2 DEF WithLeaders
      <4> QED BY <4>1, <4>2
    <3> QED BY <3>3, <3>4, <3>5
  <2>6. ASSUME NEW u \in Tasks, c.at[u] # 0 PROVE u <= h
    <3>1. CASE u = t
      BY <1>5, <3>1
    <3>2. CASE u # t
      BY <1>1, <1>8, <2>6, <3>2 DEF WithLeaders, h
    <3> QED BY <3>1, <3>2
  <2>7. ASSUME NEW u \in 1 .. h
        PROVE  \/ c.at[u] # 0
               \/ \E m \in Leaders : c.kind[m] = "got" /\ c.task[m] = u
               \/ \E m \in Leaders : \E i \in 1 .. Len(c.batch[m]) : c.batch[m][i] = u
    <3>1. CASE u = t
      BY <1>1, <1>8, <3>1
    <3>2. CASE u # t
      <4>1. \/ b.at[u] # 0
            \/ \E m \in Leaders : b.kind[m] = "got" /\ b.task[m] = u
            \/ \E m \in Leaders : \E i \in 1 .. Len(b.batch[m]) : b.batch[m][i] = u
        BY <1>1 DEF WithLeaders, h
      <4>2. c.at[u] = b.at[u]
        BY <1>1, <1>2, <1>6, <3>2
      <4>3. ASSUME NEW m \in Leaders, b.kind[m] = "got", b.task[m] = u
            PROVE  c.kind[m] = "got" /\ c.task[m] = u
        BY <1>7, <4>3
      <4>4. ASSUME NEW m \in Leaders, NEW i \in 1 .. Len(b.batch[m]), b.batch[m][i] = u
            PROVE  \E j \in 1 .. Len(c.batch[m]) : c.batch[m][j] = u
        <5>1. CASE m = l
          <6>1. i # 1 /\ i \in 1 .. Len(p)
            BY <1>2, <3>2, <4>4, <5>1
          <6>2. i - 1 \in 1 .. Len(r) /\ (i - 1) + 1 = i
            BY <1>2, <6>1
          <6>3. r[i - 1] = u
            BY <1>14, <4>4, <5>1, <6>2
          <6> QED BY <1>8, <5>1, <6>2, <6>3
        <5>2. CASE m # l
          BY <1>8, <4>4, <5>2
        <5> QED BY <5>1, <5>2
      <4> QED BY <4>1, <4>2, <4>3, <4>4
    <3> QED BY <3>1, <3>2
  <2> QED BY <1>8, <2>4, <2>5, <2>6, <2>7 DEF WithLeaders
<1>16. /\ \A k \in 1 .. z : x[k] \in Tasks /\ x[k] # t /\ b.at[x[k]] = k /\ c.at[x[k]] = k
       /\ \A u \in Tasks : b.at[u] # 0 => /\ u # t /\ c.at[u] = b.at[u]
                                         /\ b.at[u] \in 1 .. z /\ x[b.at[u]] = u
  <2>1. \A k \in 1 .. z : x[k] \in Tasks /\ b.at[x[k]] = k /\ k # 0
    BY <1>1, BookElements DEF Numbered
  <2>2. \A u \in Tasks : b.at[u] # 0 => b.at[u] \in 1 .. z /\ x[b.at[u]] = u
    BY <1>1 DEF Numbered
  <2>3. \A k \in 1 .. z : x[k] # t
    BY <1>5, <2>1
  <2> QED BY <1>5, <1>8, <2>1, <2>2, <2>3
<1>17. Numbered(c)
  <2>1. ASSUME NEW k \in 1 .. z + 1 PROVE c.at[y[k]] = k
    <3>1. k \in 1 .. z \/ k = z + 1
      BY <1>1
    <3> QED BY <1>3, <1>8, <1>16, <3>1
  <2>2. ASSUME NEW u \in Tasks, c.at[u] # 0 PROVE c.at[u] \in 1 .. z + 1 /\ y[c.at[u]] = u
    <3>1. CASE u = t
      BY <1>1, <1>3, <1>8, <3>1
    <3>2. CASE u # t
      <4>1. c.at[u] = b.at[u]
        BY <1>8, <3>2
      <4>2. b.at[u] \in 1 .. z /\ x[b.at[u]] = u
        BY <1>16, <2>2, <4>1
      <4>3. \A k \in 1 .. z : k \in 1 .. z + 1
        BY <1>1
      <4> QED BY <1>3, <4>1, <4>2, <4>3
    <3> QED BY <3>1, <3>2
  <2> QED BY <1>6, <1>9, <2>1, <2>2 DEF Numbered
<1>18. Puts(c)
  <2>1. /\ n <= z /\ \A k \in 1 .. n : b.enqueued[k].tid = x[k]
        /\ \A m \in Leaders : b.kind[m] = "put" => b.task[m] \in Tasks /\ b.at[b.task[m]] > n
        /\ \A k \in n + 1 .. z : \E m \in Leaders : b.kind[m] = "put" /\ b.task[m] = x[k]
    BY <1>1 DEF Puts
  <2> HIDE DEF n, z
  <2>2. ASSUME NEW k \in 1 .. n PROVE b.enqueued[k].tid = y[k]
    <3>1. k \in 1 .. z
      BY <1>1, <2>1
    <3> QED BY <1>3, <2>1, <3>1
  <2>3. ASSUME NEW m \in Leaders, c.kind[m] = "put"
        PROVE  c.task[m] \in Tasks /\ c.at[c.task[m]] > n
    <3>1. CASE m = l
      BY <1>1, <1>2, <1>7, <1>8, <2>1, <3>1
    <3>2. CASE m # l
      <4>1. b.kind[m] = "put" /\ c.task[m] = b.task[m]
        BY <1>7, <2>3, <3>2
      <4>2. b.task[m] \in Tasks /\ b.at[b.task[m]] > n
        BY <2>1, <4>1
      <4>3. b.at[b.task[m]] # 0
        BY <1>1, <4>2
      <4> QED BY <1>16, <4>1, <4>2, <4>3
    <3> QED BY <3>1, <3>2
  <2>4. ASSUME NEW k \in n + 1 .. z + 1
        PROVE  \E m \in Leaders : c.kind[m] = "put" /\ c.task[m] = y[k]
    <3>1. CASE k = z + 1
      BY <1>3, <1>7, <3>1
    <3>2. CASE k # z + 1
      <4>1. k \in n + 1 .. z /\ k \in 1 .. z
        BY <1>1, <3>2
      <4>2. PICK m \in Leaders : b.kind[m] = "put" /\ b.task[m] = x[k]
        BY <2>1, <4>1
      <4>3. m # l
        BY <4>2
      <4> QED BY <1>3, <1>7, <4>1, <4>2, <4>3
    <3> QED BY <3>1, <3>2
  <2>5. n <= z + 1
    BY <1>1, <2>1
  <2> QED BY <1>6, <1>9, <2>2, <2>3, <2>4, <2>5 DEF Puts
<1>19. Starts(c)
  <2>1. /\ s + g <= z /\ s <= n
        /\ \A k \in 1 .. s : b.started[k] = x[k]
        /\ \A i \in 1 .. g : q[i] = x[z - g + i]
        /\ \A f \in Followers : b.kind[f] = "got" =>
             b.task[f] \in Tasks /\ b.at[b.task[f]] > s /\ b.at[b.task[f]] <= z - g
        /\ \A k \in s + 1 .. z - g : \E f \in Followers : b.kind[f] = "got" /\ b.task[f] = x[k]
    BY <1>1 DEF Starts, Begins, Ends
  <2> HIDE DEF s, g, z, n
  <2>2. Begins(c.started, c.x)
    <3>1. \A k \in 1 .. s : k \in 1 .. z
      BY <1>1, <2>1
    <3> QED BY <1>3, <1>6, <1>9, <2>1, <3>1 DEF Begins
  <2>3. Ends(c.queue, c.x)
    <3>1. ASSUME NEW i \in 1 .. g + 1 PROVE Append(q, t)[i] = y[(z + 1) - (g + 1) + i]
      <4>1. CASE i = g + 1
        <5>1. (z + 1) - (g + 1) + i = z + 1
          BY <1>1, <4>1
        <5> QED BY <1>3, <1>4, <4>1, <5>1
      <4>2. CASE i # g + 1
        <5>1. i \in 1 .. g /\ z - g + i \in 1 .. z /\ (z + 1) - (g + 1) + i = z - g + i
          <6>1. s + g <= z /\ s \in Nat /\ g \in Nat /\ z \in Nat
            BY <1>1, <2>1
          <6>2. i \in 1 .. g /\ i \in Nat
            BY <4>2, <6>1
          <6> QED BY <6>1, <6>2
        <5> QED BY <1>3, <1>4, <2>1, <5>1
      <4> QED BY <4>1, <4>2
    <3> QED BY <1>6, <1>9, <3>1 DEF Ends
  <2>4. (z + 1) - (g + 1) = z - g /\ s + (g + 1) <= z + 1
    BY <1>1, <2>1
  <2>5. ASSUME NEW f \in Followers, c.kind[f] = "got"
        PROVE  c.task[f] \in Tasks /\ c.at[c.task[f]] > s /\ c.at[c.task[f]] <= z - g
    <3>1. b.kind[f] = "got" /\ c.task[f] = b.task[f]
      BY <1>7, <2>5
    <3>2. b.task[f] \in Tasks /\ b.at[b.task[f]] > s /\ b.at[b.task[f]] <= z - g
      BY <2>1, <3>1
    <3>3. b.at[b.task[f]] # 0
      BY <1>1, <3>2
    <3> QED BY <1>16, <3>1, <3>2, <3>3
  <2>6. ASSUME NEW k \in s + 1 .. z - g
        PROVE  \E f \in Followers : c.kind[f] = "got" /\ c.task[f] = y[k]
    <3>1. k \in 1 .. z
      BY <1>1
    <3>2. PICK f \in Followers : b.kind[f] = "got" /\ b.task[f] = x[k]
      BY <2>1
    <3> QED BY <1>3, <1>7, <3>1, <3>2
  <2> QED BY <1>6, <1>9, <2>1, <2>2, <2>3, <2>4, <2>5, <2>6 DEF Starts
<1>20. Executes(c)
  <2>0. s + g <= z
    BY <1>1 DEF Starts
  <2> HIDE DEF s, z, g
  <2>1. s <= z
    BY <1>1, <2>0
  <2>2. \A k \in 1 .. s : k \in 1 .. z /\ k # 0
    BY <1>1, <2>1
  <2>3. ASSUME NEW f \in Followers, c.running[f] # NoTask
        PROVE  /\ c.at[c.running[f]] \in 1 .. s /\ c.running[f] \notin c.finished
               /\ \A k \in Followers : c.running[f] = c.running[k] => f = k
    <3>1. /\ b.at[b.running[f]] \in 1 .. s /\ b.running[f] \notin b.finished
          /\ \A k \in Followers : b.running[f] = b.running[k] => f = k
      BY <1>1, <1>6, <2>3 DEF Executes, s
    <3>2. b.running[f] \in Tasks
      BY <1>1, <1>6, <2>3, BookTypes
    <3>3. c.at[b.running[f]] = b.at[b.running[f]]
      BY <1>16, <2>2, <3>1, <3>2
    <3> QED BY <1>6, <3>1, <3>3
  <2>4. ASSUME NEW u \in c.finished PROVE c.at[u] \in 1 .. s
    <3>1. b.at[u] \in 1 .. s /\ u \in Tasks
      BY <1>1, <1>6, BookTypes DEF Executes, s
    <3> QED BY <1>16, <2>2, <3>1
  <2>5. ASSUME NEW k \in 1 .. s PROVE y[k] \in c.finished \/ \E f \in Followers : c.running[f] = y[k]
    <3>1. x[k] \in b.finished \/ \E f \in Followers : b.running[f] = x[k]
      BY <1>1 DEF Executes, s
    <3> QED BY <1>3, <1>6, <2>2, <3>1
  <2> QED BY <1>6, <1>9, <2>3, <2>4, <2>5 DEF Executes
<1>21. LeaderOrder(c)
  <2>1. ASSUME NEW i \in 1 .. Len(b.enqueued)
        PROVE  LET m == b.enqueued[i].by
               IN  /\ c.kind[m] \in {"got", "put"} => b.enqueued[i].tid < c.task[m]
                   /\ \A j \in 1 .. Len(c.batch[m]) : b.enqueued[i].tid < c.batch[m][j]
    <3> DEFINE m == b.enqueued[i].by
               e == b.enqueued[i].tid
    <3>1. /\ m \in Leaders
          /\ b.kind[m] \in {"got", "put"} => e < b.task[m]
          /\ \A j \in 1 .. Len(b.batch[m]) : e < b.batch[m][j]
      BY <1>1, BookElements DEF LeaderOrder
    <3> HIDE DEF m, e
    <3>2. CASE m = l
      <4>1. e < t
        BY <1>2, <3>1, <3>2
      <4>2. \A j \in 1 .. Len(r) : e < r[j]
        BY <1>14, <3>1, <3>2
      <4> QED BY <1>7, <1>8, <3>2, <4>1, <4>2 DEF m, e
    <3>3. CASE m # l
      BY <1>7, <1>8, <3>1, <3>3 DEF m, e
    <3> QED BY <3>2, <3>3
  <2>2. ASSUME NEW m \in Leaders, c.kind[m] = "put"
        PROVE  \A j \in 1 .. Len(c.batch[m]) : c.task[m] < c.batch[m][j]
    <3>1. CASE m = l
      <4>1. \A j \in 1 .. Len(r) : t < r[j]
        <5>1. \A j \in 1 .. Len(r) : r[j] > t /\ r[j] \in Tasks
          BY <1>13, <1>14
        <5> QED BY <1>2, <5>1, TaskNumbers
      <4> QED BY <1>7, <1>8, <3>1, <4>1
    <3>2. CASE m # l
      BY <1>1, <1>7, <1>8, <2>2, <3>2 DEF LeaderOrder
    <3> QED BY <3>1, <3>2
  <2>3. \A i, j \in 1 .. Len(b.enqueued) :
          i < j /\ b.enqueued[i].by = b.enqueued[j].by => b.enqueued[i].tid < b.enqueued[j].tid
    BY <1>1 DEF LeaderOrder
  <2> QED BY <1>6, <2>1, <2>2, <2>3 DEF LeaderOrder
<1>22. Kept(c)
  BY <1>6, <1>10, <1>11, <1>12, <1>15, <1>17, <1>18, <1>19, <1>20, <1>21 DEF Kept
<1> QED BY <1>2, <1>5, <1>6, <1>22 DEF c, t, r, y

-------------------------------------------------------------------------------
(***************************************************************************)
(* simpy's calls on the stores, and what each does to the books.           *)
(***************************************************************************)
Matches(s, b) ==
  /\ s \in Stores /\ Filed(s.agenda, b)
  /\ s.items = [arrival |-> b.buffer, exec |-> b.queue]
  /\ s.getters = [arrival |-> b.idle, exec |-> b.free]

\* What simpy leaves alone.
Frame(b, c) ==
  /\ c.arrived = b.arrived /\ c.batch = b.batch /\ c.running = b.running
  /\ c.enqueued = b.enqueued /\ c.started = b.started /\ c.finished = b.finished

\* Only processes that wait are handed something.
Spares(b, c) == \A v \in Procs : b.kind[v] # "wait" => c.kind[v] = b.kind[v] /\ c.task[v] = b.task[v]

LEMMA StoreExcept ==
  ASSUME NEW A, NEW Q, NEW n, NEW s, s = [arrival |-> A, exec |-> Q]
  PROVE  /\ s["arrival"] = A /\ s["exec"] = Q
         /\ [s EXCEPT !["arrival"] = n] = [arrival |-> n, exec |-> Q]
         /\ [s EXCEPT !["exec"] = n] = [arrival |-> A, exec |-> n]
<1>1. s["arrival"] = A /\ s["exec"] = Q
  OBVIOUS
<1>2. [s EXCEPT !["arrival"] = n] = [k \in {"arrival", "exec"} |-> IF k = "arrival" THEN n ELSE s[k]]
  OBVIOUS
<1>3. [k \in {"arrival", "exec"} |-> IF k = "arrival" THEN n ELSE s[k]] = [arrival |-> n, exec |-> Q]
  OBVIOUS
<1>4. [s EXCEPT !["exec"] = n] = [k \in {"arrival", "exec"} |-> IF k = "exec" THEN n ELSE s[k]]
  OBVIOUS
<1>5. [k \in {"arrival", "exec"} |-> IF k = "exec" THEN n ELSE s[k]] = [arrival |-> A, exec |-> n]
  OBVIOUS
<1> QED BY <1>1, <1>2, <1>3, <1>4, <1>5

LEMMA EventTypes ==
  ASSUME NEW kind \in EventKinds, NEW w \in Procs, NEW tid \in Tasks \cup {NoTask}
  PROVE  /\ Event(kind, w, tid) \in Events /\ Event(kind, w, tid).kind = kind
         /\ Event(kind, w, tid).who = w /\ Event(kind, w, tid).tid = tid
BY DEF Event, Events

LEMMA TimeoutMatches ==
  ASSUME NEW b, Kept(b), NEW s, Matches(s, b), NEW d \in Nat, NEW w \in Procs, b.kind[w] = "none",
         w \in Leaders => b.batch[w] # <<>>, w \in Followers => b.running[w] # NoTask
  PROVE  LET c == Files(b, w, "timeout", NoTask)
         IN  /\ Kept(c) /\ Matches(Timeout(s, w, d), c) /\ Frame(b, c) /\ c.x = b.x
             /\ c.kind = [b.kind EXCEPT ![w] = "timeout"]
             /\ c.buffer = b.buffer /\ c.queue = b.queue /\ c.idle = b.idle /\ c.free = b.free
<1> DEFINE c == Files(b, w, "timeout", NoTask)
           e == Event("timeout", w, NoTask)
<1>1. b \in Books /\ s \in Stores /\ Filed(s.agenda, b) /\ AgendaOK(s.agenda, b.at)
  BY DEF Kept, Matches, Filed
<1>2. /\ "timeout" \in EventKinds /\ "timeout" \in EventKinds \cup {"wait", "none"}
      /\ NoTask \in Tasks \cup {NoTask}
  BY DEF EventKinds
<1>3. /\ c \in Books /\ c.kind = [b.kind EXCEPT ![w] = "timeout"] /\ c.task = [b.task EXCEPT ![w] = NoTask]
      /\ c.buffer = b.buffer /\ c.queue = b.queue /\ c.idle = b.idle /\ c.free = b.free
      /\ c.arrived = b.arrived /\ c.batch = b.batch /\ c.running = b.running
      /\ c.enqueued = b.enqueued /\ c.started = b.started /\ c.finished = b.finished
      /\ c.x = b.x /\ c.at = b.at
  BY <1>1, <1>2 DEF Files, Books
<1>4. Kept(c)
  BY TimeoutKept
<1>5. e \in Events /\ e.kind = "timeout" /\ e.who = w /\ e.tid = NoTask
  BY <1>2, EventTypes
<1>6. Timeout(s, w, d) = Schedule(s, d, e)
  BY DEF Timeout
<1> HIDE DEF c, e
<1>7. \A i \in 1 .. Len(s.agenda) : InOrder(s.agenda[i], e, c.at)
  BY <1>5 DEF InOrder, PutsExec, GotExec
<1>8. b.kind[e.who] \notin EventKinds
  BY <1>5 DEF EventKinds
<1>9. LET r == Schedule(s, d, e)
      IN  r \in Stores /\ r.items = s.items /\ r.getters = s.getters /\ Filed(r.agenda, c)
  BY <1>1, <1>3, <1>5, <1>7, <1>8, ScheduleFiles
<1>10. Matches(Timeout(s, w, d), c)
  BY <1>3, <1>6, <1>9 DEF Matches
<1> QED BY <1>3, <1>4, <1>10 DEF Frame, c

LEMMA ArrivalMatches ==
  ASSUME NEW b, Kept(b), NEW s, Matches(s, b), b.kind[Arrival] = "none", b.arrived # NUM_TASKS
  PROVE  LET c == Arrives(b)
         IN  /\ Kept(c) /\ Matches(Put(s, "arrival", Arrival, b.arrived + 1), c)
             /\ c.arrived = b.arrived + 1 /\ c.kind[Arrival] = "put"
             /\ Len(c.buffer) = Len(b.buffer) + 1 /\ c.queue = b.queue
             /\ c.idle = b.idle /\ c.free = b.free /\ c.batch = b.batch /\ c.running = b.running
             /\ c.enqueued = b.enqueued /\ c.started = b.started /\ c.finished = b.finished
             /\ c.x = b.x
<1> DEFINE c == Arrives(b)
           n == b.arrived + 1
           e == Event("put", Arrival, n)
           r == [s EXCEPT !.items["arrival"] = Append(@, n)]
<1>1. /\ b \in Books /\ s \in Stores /\ Filed(s.agenda, b) /\ AgendaOK(s.agenda, b.at)
      /\ s.items = [arrival |-> b.buffer, exec |-> b.queue]
      /\ s.getters = [arrival |-> b.idle, exec |-> b.free]
      /\ Arrival \in Procs /\ "put" \in EventKinds
  BY DEF Kept, Matches, Filed, Procs, EventKinds
<1>2. /\ Kept(c) /\ n \in Tasks /\ c.arrived = n
      /\ c.kind = [b.kind EXCEPT ![Arrival] = "put"]
      /\ c.task = [b.task EXCEPT ![Arrival] = n]
      /\ c.buffer = Append(b.buffer, n) /\ c.queue = b.queue
      /\ c.idle = b.idle /\ c.free = b.free /\ c.batch = b.batch /\ c.running = b.running
      /\ c.enqueued = b.enqueued /\ c.started = b.started /\ c.finished = b.finished
      /\ c.x = b.x /\ c.at = b.at
  BY ArrivesKept
<1>3. Put(s, "arrival", Arrival, n) = Schedule(r, 0, e)
  BY DEF Put
<1> HIDE DEF c, n
<1>4. e \in Events /\ e.kind = "put" /\ e.who = Arrival /\ e.tid = n
  BY <1>1, <1>2, EventTypes
<1> HIDE DEF e
<1>5. c \in Books /\ b.buffer \in Seq(Tasks) /\ Append(b.buffer, n) \in Seq(Tasks)
      /\ Len(Append(b.buffer, n)) = Len(b.buffer) + 1
  <2>1. b.buffer \in Seq(Tasks)
    BY <1>1, BookTypes
  <2> QED BY <1>2, <2>1, AppendProperties DEF Kept
<1>6. /\ r \in Stores /\ r.agenda = s.agenda /\ r.getters = s.getters
      /\ r.items = [arrival |-> Append(b.buffer, n), exec |-> b.queue]
  <2> DEFINE u == Append(b.buffer, n)
             v == [arrival |-> u, exec |-> b.queue]
  <2>1. s.items["arrival"] = b.buffer /\ [s.items EXCEPT !["arrival"] = u] = v
    <3> DEFINE i == s.items
    <3>1. i = [arrival |-> b.buffer, exec |-> b.queue]
      BY <1>1
    <3> HIDE DEF i, u, r
    <3>2. /\ i["arrival"] = b.buffer
          /\ [i EXCEPT !["arrival"] = u] = [arrival |-> u, exec |-> b.queue]
      BY <3>1, StoreExcept
    <3> QED BY <3>2 DEF i
  <2>2. r = [s EXCEPT !.items = v]
    BY <2>1
  <2>3. b.queue \in Seq(Tasks) /\ u \in Seq(Tasks)
    BY <1>1, <1>5, BookTypes
  <2> HIDE DEF r, u
  <2> QED BY <1>1, <2>2, <2>3 DEF Stores, u
<1> HIDE DEF r
<1>7. \A i \in 1 .. Len(r.agenda) : InOrder(r.agenda[i], e, c.at)
  BY <1>4, ProcsDiffer DEF InOrder, PutsExec, GotExec
<1>8. b.kind[e.who] \notin EventKinds
  BY <1>4 DEF EventKinds
<1>9. LET k == Schedule(r, 0, e)
      IN  k \in Stores /\ k.items = r.items /\ k.getters = r.getters /\ Filed(k.agenda, c)
  <2>1. /\ Filed(r.agenda, b) /\ AgendaOK(r.agenda, c.at)
        /\ c.kind = [b.kind EXCEPT ![e.who] = e.kind] /\ c.task = [b.task EXCEPT ![e.who] = e.tid]
    BY <1>1, <1>2, <1>4, <1>6
  <2>2. 0 \in Nat
    OBVIOUS
  <2> QED BY <1>1, <1>4, <1>5, <1>6, <1>7, <1>8, <2>1, <2>2, ScheduleFiles
<1>10. Matches(Put(s, "arrival", Arrival, n), c)
  BY <1>1, <1>2, <1>3, <1>6, <1>9 DEF Matches
<1>11. c.kind[Arrival] = "put"
  BY <1>1, <1>2, BookTypes
<1> QED BY <1>2, <1>5, <1>10, <1>11 DEF c, n

\* The events that carry a task of x.
LEMMA EventsOfX ==
  ASSUME NEW b, Kept(b), NEW A \in Seq(Events), Filed(A, b), NEW i \in 1 .. Len(A)
  PROVE  /\ PutsExec(A[i]) => A[i].tid \in Tasks /\ b.at[A[i].tid] \in 1 .. Len(b.x)
         /\ GotExec(A[i]) => /\ A[i].tid \in Tasks /\ b.at[A[i].tid] \in 1 .. Len(b.x)
                             /\ b.at[A[i].tid] <= Len(b.x) - Len(b.queue)
<1>1. /\ b \in Books /\ Numbered(b) /\ Puts(b) /\ Starts(b)
      /\ b.kind[A[i].who] = A[i].kind /\ b.task[A[i].who] = A[i].tid
      /\ Len(b.enqueued) \in Nat /\ Len(b.started) \in Nat
  BY BookLengths DEF Kept, Filed
<1> DEFINE t == A[i].tid
<1>2. ASSUME PutsExec(A[i]) PROVE t \in Tasks /\ b.at[t] \in 1 .. Len(b.x)
  <2>1. t \in Tasks /\ b.at[t] > Len(b.enqueued)
    BY <1>1, <1>2 DEF Puts, PutsExec
  <2>2. b.at[t] # 0
    <3> DEFINE n == Len(b.enqueued)
    <3>1. n \in Nat /\ b.at[t] > n
      BY <1>1, <2>1
    <3> HIDE DEF n, t
    <3> QED BY <3>1
  <2> QED BY <1>1, <2>1, <2>2 DEF Numbered
<1>3. ASSUME GotExec(A[i])
      PROVE  t \in Tasks /\ b.at[t] \in 1 .. Len(b.x) /\ b.at[t] <= Len(b.x) - Len(b.queue)
  <2>1. t \in Tasks /\ b.at[t] > Len(b.started) /\ b.at[t] <= Len(b.x) - Len(b.queue)
    BY <1>1, <1>3 DEF Starts, GotExec
  <2>2. b.at[t] # 0
    <3> DEFINE n == Len(b.started)
    <3>1. n \in Nat /\ b.at[t] > n
      BY <1>1, <2>1
    <3> HIDE DEF n, t
    <3> QED BY <3>1
  <2> QED BY <1>1, <2>1, <2>2 DEF Numbered
<1> QED BY <1>2, <1>3

LEMMA SendMatches ==
  ASSUME NEW b, Kept(b), NEW s, Matches(s, b), NEW l \in Leaders, b.kind[l] = "none", b.batch[l] # <<>>
  PROVE  LET c == Sends(b, l)
             t == Head(b.batch[l])
         IN  /\ Kept(c) /\ Matches(Put(s, "exec", l, t), c)
             /\ c.kind = [b.kind EXCEPT ![l] = "put"]
             /\ c.buffer = b.buffer /\ Len(c.queue) = Len(b.queue) + 1
             /\ c.idle = b.idle /\ c.free = b.free /\ c.arrived = b.arrived
             /\ c.batch = [b.batch EXCEPT ![l] = Tail(b.batch[l])] /\ c.running = b.running
             /\ c.enqueued = b.enqueued /\ c.started = b.started /\ c.finished = b.finished
             /\ Len(c.x) = Len(b.x) + 1
<1> DEFINE c == Sends(b, l)
           t == Head(b.batch[l])
           e == Event("put", l, t)
           A == s.agenda
           z == Len(b.x)
           v == Append(b.queue, t)
           r == [s EXCEPT !.items["exec"] = Append(@, t)]
<1>1. /\ b \in Books /\ s \in Stores /\ Filed(A, b) /\ AgendaOK(A, b.at)
      /\ s.items = [arrival |-> b.buffer, exec |-> b.queue]
      /\ s.getters = [arrival |-> b.idle, exec |-> b.free]
      /\ l \in Procs /\ "put" \in EventKinds /\ z \in Nat /\ b.queue \in Seq(Tasks) /\ b.x \in Seq(Tasks)
  BY BookTypes, BookLengths DEF Kept, Matches, Filed, Procs, EventKinds
<1>2. /\ Kept(c) /\ t \in Tasks /\ b.at[t] = 0
      /\ c.kind = [b.kind EXCEPT ![l] = "put"] /\ c.task = [b.task EXCEPT ![l] = t]
      /\ c.buffer = b.buffer /\ c.queue = v
      /\ c.idle = b.idle /\ c.free = b.free /\ c.arrived = b.arrived
      /\ c.batch = [b.batch EXCEPT ![l] = Tail(b.batch[l])] /\ c.running = b.running
      /\ c.enqueued = b.enqueued /\ c.started = b.started /\ c.finished = b.finished
      /\ c.x = Append(b.x, t) /\ c.at = [b.at EXCEPT ![t] = z + 1]
  BY SendsKept
<1>3. Put(s, "exec", l, t) = Schedule(r, 0, e)
  BY DEF Put
<1> HIDE DEF c, t
<1>4. e \in Events /\ e.kind = "put" /\ e.who = l /\ e.tid = t
  BY <1>1, <1>2, EventTypes
<1> HIDE DEF e
<1>5. /\ c \in Books /\ v \in Seq(Tasks) /\ Len(v) = Len(b.queue) + 1 /\ Len(c.x) = z + 1
  BY <1>1, <1>2, AppendProperties DEF Kept
<1>6. /\ r \in Stores /\ r.agenda = A /\ r.getters = s.getters
      /\ r.items = [arrival |-> b.buffer, exec |-> v]
  <2> DEFINE w == [arrival |-> b.buffer, exec |-> v]
  <2>1. s.items["exec"] = b.queue /\ [s.items EXCEPT !["exec"] = v] = w
    <3> DEFINE i == s.items
    <3>1. i = [arrival |-> b.buffer, exec |-> b.queue]
      BY <1>1
    <3> HIDE DEF i, v, r
    <3>2. /\ i["exec"] = b.queue
          /\ [i EXCEPT !["exec"] = v] = [arrival |-> b.buffer, exec |-> v]
      BY <3>1, StoreExcept
    <3> QED BY <3>2 DEF i
  <2>2. r = [s EXCEPT !.items = w]
    BY <2>1
  <2>3. b.buffer \in Seq(Tasks)
    BY <1>1, BookTypes
  <2> HIDE DEF r, v
  <2> QED BY <1>1, <1>5, <2>2, <2>3 DEF Stores
<1> HIDE DEF r, v
<1>7. A \in Seq(Events) /\ DOMAIN b.at = Tasks
  BY <1>1 DEF Stores, Books
<1>8. /\ c.at[t] = z + 1
      /\ \A i \in 1 .. Len(A) : PutsExec(A[i]) \/ GotExec(A[i]) =>
           A[i].tid # t /\ c.at[A[i].tid] = b.at[A[i].tid] /\ b.at[A[i].tid] \in 1 .. z
  <2>1. c.at[t] = z + 1 /\ \A u \in Tasks \ {t} : c.at[u] = b.at[u]
    <3> HIDE DEF z
    <3> QED BY <1>2, <1>7
  <2>2. \A i \in 1 .. Len(A) : PutsExec(A[i]) \/ GotExec(A[i]) =>
           A[i].tid \in Tasks /\ b.at[A[i].tid] \in 1 .. z
    BY <1>1, <1>7, EventsOfX
  <2>3. \A k \in 1 .. z : k # 0
    BY <1>1
  <2> HIDE DEF A, z
  <2> QED BY <1>2, <2>1, <2>2, <2>3
<1>9. AgendaOK(A, c.at)
  <2>1. \A i, j \in 1 .. Len(A) : i < j => InOrder(A[i], A[j], b.at)
    BY <1>1 DEF AgendaOK
  <2>2. \A i, j \in 1 .. Len(A) : i < j => InOrder(A[i], A[j], c.at)
    <3> HIDE DEF A, z
    <3> QED BY <1>8, <2>1 DEF InOrder
  <2> QED BY <1>1, <2>2 DEF AgendaOK
<1>10. ASSUME NEW i \in 1 .. Len(A) PROVE InOrder(A[i], e, c.at)
  <2> HIDE DEF A, z
  <2>1. PutsExec(A[i]) => c.at[A[i].tid] < c.at[t]
    <3>1. \A k \in 1 .. z : k < z + 1
      BY <1>1
    <3> QED BY <1>8, <3>1
  <2>2. GotExec(A[i]) => A[i].tid # t
    BY <1>8
  <2>3. ~GotExec(e)
    BY <1>4 DEF GotExec
  <2> QED BY <1>4, <2>1, <2>2, <2>3 DEF InOrder
<1>11. b.kind[e.who] \notin EventKinds
  BY <1>4 DEF EventKinds
<1>12. LET k == Schedule(r, 0, e)
      IN  k \in Stores /\ k.items = r.items /\ k.getters = r.getters /\ Filed(k.agenda, c)
  <2>1. /\ Filed(r.agenda, b) /\ AgendaOK(r.agenda, c.at)
        /\ c.kind = [b.kind EXCEPT ![e.who] = e.kind] /\ c.task = [b.task EXCEPT ![e.who] = e.tid]
        /\ \A i \in 1 .. Len(r.agenda) : InOrder(r.agenda[i], e, c.at)
    BY <1>1, <1>2, <1>4, <1>6, <1>9, <1>10
  <2>2. 0 \in Nat
    OBVIOUS
  <2> QED BY <1>1, <1>4, <1>5, <1>6, <1>11, <2>1, <2>2, ScheduleFiles
<1>13. Matches(Put(s, "exec", l, t), c)
  BY <1>1, <1>2, <1>3, <1>6, <1>12 DEF Matches
<1> QED BY <1>2, <1>5, <1>13 DEF c, t

LEMMA TriggerArrivalMatches ==
  ASSUME NEW b, Kept(b), NEW s, Matches(s, b), b.idle # <<>>, b.buffer # <<>>
  PROVE  LET c == AnswersLeader(b)
         IN  /\ Kept(c) /\ Matches(TriggerGet(s, "arrival"), c) /\ Frame(b, c) /\ Spares(b, c)
             /\ c.buffer = Tail(b.buffer) /\ c.queue = b.queue
             /\ c.idle = Tail(b.idle) /\ c.free = b.free /\ c.x = b.x
<1> DEFINE c == AnswersLeader(b)
           l == Head(b.idle)
           t == Head(b.buffer)
           e == Event("got", l, t)
           v == Tail(b.buffer)
           k == Tail(b.idle)
           r == [s EXCEPT !.items["arrival"] = Tail(@), !.getters["arrival"] = Tail(@)]
<1>1. /\ b \in Books /\ s \in Stores /\ Filed(s.agenda, b) /\ AgendaOK(s.agenda, b.at)
      /\ s.items = [arrival |-> b.buffer, exec |-> b.queue]
      /\ s.getters = [arrival |-> b.idle, exec |-> b.free]
      /\ "got" \in EventKinds /\ b.buffer \in Seq(Tasks) /\ b.idle \in Seq(Leaders)
      /\ b.queue \in Seq(Tasks) /\ b.free \in Seq(Followers)
  BY BookTypes DEF Kept, Matches, Filed, EventKinds
<1>2. /\ Kept(c) /\ l \in Leaders /\ t \in Tasks /\ b.kind[l] = "wait"
      /\ c.kind = [b.kind EXCEPT ![l] = "got"] /\ c.task = [b.task EXCEPT ![l] = t]
      /\ c.buffer = v /\ c.queue = b.queue
      /\ c.idle = k /\ c.free = b.free /\ c.arrived = b.arrived
      /\ c.batch = b.batch /\ c.running = b.running
      /\ c.enqueued = b.enqueued /\ c.started = b.started /\ c.finished = b.finished
      /\ c.x = b.x /\ c.at = b.at
  BY AnswersLeaderKept
<1>3. /\ s.items["arrival"] = b.buffer /\ s.getters["arrival"] = b.idle
      /\ [s.items EXCEPT !["arrival"] = v] = [arrival |-> v, exec |-> b.queue]
      /\ [s.getters EXCEPT !["arrival"] = k] = [arrival |-> k, exec |-> b.free]
  <2> DEFINE i == s.items
             g == s.getters
  <2>1. i = [arrival |-> b.buffer, exec |-> b.queue] /\ g = [arrival |-> b.idle, exec |-> b.free]
    BY <1>1
  <2> HIDE DEF i, g, v, k
  <2>2. /\ i["arrival"] = b.buffer
        /\ [i EXCEPT !["arrival"] = v] = [arrival |-> v, exec |-> b.queue]
    BY <2>1, StoreExcept
  <2>3. /\ g["arrival"] = b.idle
        /\ [g EXCEPT !["arrival"] = k] = [arrival |-> k, exec |-> b.free]
    BY <2>1, StoreExcept
  <2> QED BY <2>2, <2>3 DEF i, g
<1>4. TriggerGet(s, "arrival") = Schedule(r, 0, e)
  BY <1>3 DEF TriggerGet
<1>5. r = [s EXCEPT !.items = [arrival |-> v, exec |-> b.queue],
                    !.getters = [arrival |-> k, exec |-> b.free]]
  BY <1>3
<1>6. v \in Seq(Tasks) /\ k \in Seq(Leaders)
  BY <1>1, HeadAndTail
<1> HIDE DEF c, l, t, v, k, r
<1>7. l \in Procs /\ e \in Events /\ e.kind = "got" /\ e.who = l /\ e.tid = t
  BY <1>1, <1>2, EventTypes DEF Procs
<1> HIDE DEF e
<1>8. /\ r \in Stores /\ r.agenda = s.agenda /\ r.items = [arrival |-> v, exec |-> b.queue]
      /\ r.getters = [arrival |-> k, exec |-> b.free]
  BY <1>1, <1>5, <1>6 DEF Stores
<1>9. /\ b.kind[e.who] \notin EventKinds
      /\ \A i \in 1 .. Len(r.agenda) : InOrder(r.agenda[i], e, c.at)
  BY <1>2, <1>7, ProcsDiffer DEF EventKinds, InOrder, PutsExec, GotExec
<1>10. LET j == Schedule(r, 0, e)
      IN  j \in Stores /\ j.items = r.items /\ j.getters = r.getters /\ Filed(j.agenda, c)
  <2>1. /\ Filed(r.agenda, b) /\ AgendaOK(r.agenda, c.at) /\ c \in Books
        /\ c.kind = [b.kind EXCEPT ![e.who] = e.kind] /\ c.task = [b.task EXCEPT ![e.who] = e.tid]
    BY <1>1, <1>2, <1>7, <1>8 DEF Kept
  <2>2. 0 \in Nat
    OBVIOUS
  <2> QED BY <1>1, <1>7, <1>8, <1>9, <2>1, <2>2, ScheduleFiles
<1>11. Matches(TriggerGet(s, "arrival"), c)
  BY <1>2, <1>4, <1>8, <1>10 DEF Matches
<1>12. Spares(b, c)
  <2>1. DOMAIN b.kind = Procs /\ DOMAIN b.task = Procs
    BY <1>1 DEF Books
  <2> QED BY <1>2, <2>1 DEF Spares
<1> QED BY <1>2, <1>11, <1>12 DEF Frame, c, v, k

LEMMA TriggerExecMatches ==
  ASSUME NEW b, Kept(b), NEW s, Matches(s, b), b.free # <<>>, b.queue # <<>>
  PROVE  LET c == AnswersFollower(b)
         IN  /\ Kept(c) /\ Matches(TriggerGet(s, "exec"), c) /\ Frame(b, c) /\ Spares(b, c)
             /\ c.buffer = b.buffer /\ c.queue = Tail(b.queue)
             /\ c.idle = b.idle /\ c.free = Tail(b.free) /\ c.x = b.x
<1> DEFINE c == AnswersFollower(b)
           f == Head(b.free)
           t == Head(b.queue)
           e == Event("got", f, t)
           v == Tail(b.queue)
           k == Tail(b.free)
           r == [s EXCEPT !.items["exec"] = Tail(@), !.getters["exec"] = Tail(@)]
           z == Len(b.x)
           g == Len(b.queue)
<1>1. /\ b \in Books /\ s \in Stores /\ Filed(s.agenda, b) /\ AgendaOK(s.agenda, b.at)
      /\ s.items = [arrival |-> b.buffer, exec |-> b.queue]
      /\ s.getters = [arrival |-> b.idle, exec |-> b.free]
      /\ "got" \in EventKinds /\ b.buffer \in Seq(Tasks) /\ b.idle \in Seq(Leaders)
      /\ b.queue \in Seq(Tasks) /\ b.free \in Seq(Followers) /\ z \in Nat /\ g \in Nat
  BY BookTypes, BookLengths DEF Kept, Matches, Filed, EventKinds
<1>2. /\ Kept(c) /\ f \in Followers /\ t \in Tasks /\ b.kind[f] = "wait"
      /\ b.at[t] = z - g + 1
      /\ c.kind = [b.kind EXCEPT ![f] = "got"] /\ c.task = [b.task EXCEPT ![f] = t]
      /\ c.buffer = b.buffer /\ c.queue = v
      /\ c.idle = b.idle /\ c.free = k /\ c.arrived = b.arrived
      /\ c.batch = b.batch /\ c.running = b.running
      /\ c.enqueued = b.enqueued /\ c.started = b.started /\ c.finished = b.finished
      /\ c.x = b.x /\ c.at = b.at
  BY AnswersFollowerKept
<1>3. /\ s.items["exec"] = b.queue /\ s.getters["exec"] = b.free
      /\ [s.items EXCEPT !["exec"] = v] = [arrival |-> b.buffer, exec |-> v]
      /\ [s.getters EXCEPT !["exec"] = k] = [arrival |-> b.idle, exec |-> k]
  <2> DEFINE i == s.items
             j == s.getters
  <2>1. i = [arrival |-> b.buffer, exec |-> b.queue] /\ j = [arrival |-> b.idle, exec |-> b.free]
    BY <1>1
  <2> HIDE DEF i, j, v, k
  <2>2. /\ i["exec"] = b.queue
        /\ [i EXCEPT !["exec"] = v] = [arrival |-> b.buffer, exec |-> v]
    BY <2>1, StoreExcept
  <2>3. /\ j["exec"] = b.free
        /\ [j EXCEPT !["exec"] = k] = [arrival |-> b.idle, exec |-> k]
    BY <2>1, StoreExcept
  <2> QED BY <2>2, <2>3 DEF i, j
<1>4. TriggerGet(s, "exec") = Schedule(r, 0, e)
  BY <1>3 DEF TriggerGet
<1>5. r = [s EXCEPT !.items = [arrival |-> b.buffer, exec |-> v],
                    !.getters = [arrival |-> b.idle, exec |-> k]]
  BY <1>3
<1>6. v \in Seq(Tasks) /\ k \in Seq(Followers)
  BY <1>1, HeadAndTail
<1> HIDE DEF c, f, t, v, k, r
<1>7. f \in Procs /\ e \in Events /\ e.kind = "got" /\ e.who = f /\ e.tid = t
  BY <1>1, <1>2, EventTypes DEF Procs
<1> HIDE DEF e
<1>8. /\ r \in Stores /\ r.agenda = s.agenda /\ r.items = [arrival |-> b.buffer, exec |-> v]
      /\ r.getters = [arrival |-> b.idle, exec |-> k] /\ s.agenda \in Seq(Events)
  BY <1>1, <1>5, <1>6 DEF Stores
<1>9. b.kind[e.who] \notin EventKinds
  BY <1>2, <1>7 DEF EventKinds
<1>10. ASSUME NEW i \in 1 .. Len(s.agenda) PROVE InOrder(s.agenda[i], e, c.at)
  <2> DEFINE u == s.agenda[i]
  <2>1. GotExec(u) => b.at[u.tid] \in 1 .. z /\ b.at[u.tid] <= z - g
    BY <1>1, <1>8, EventsOfX
  <2> HIDE DEF u, z, g
  <2>2. GotExec(u) => b.at[u.tid] < b.at[t]
    <3> SUFFICES ASSUME GotExec(u) PROVE b.at[u.tid] < b.at[t]
      OBVIOUS
    <3> DEFINE m == b.at[u.tid]
    <3>1. m \in Nat /\ m <= z - g /\ z \in Nat /\ g \in Nat
      BY <1>1, <2>1
    <3> HIDE DEF m
    <3>2. m < z - g + 1
      BY <3>1
    <3> QED BY <1>2, <3>2 DEF m
  <2>3. ~PutsExec(e)
    BY <1>7 DEF PutsExec
  <2> QED BY <1>2, <1>7, <2>2, <2>3 DEF InOrder, u
<1>11. LET j == Schedule(r, 0, e)
      IN  j \in Stores /\ j.items = r.items /\ j.getters = r.getters /\ Filed(j.agenda, c)
  <2>1. /\ Filed(r.agenda, b) /\ AgendaOK(r.agenda, c.at) /\ c \in Books
        /\ c.kind = [b.kind EXCEPT ![e.who] = e.kind] /\ c.task = [b.task EXCEPT ![e.who] = e.tid]
        /\ \A i \in 1 .. Len(r.agenda) : InOrder(r.agenda[i], e, c.at)
    BY <1>1, <1>2, <1>7, <1>8, <1>10 DEF Kept
  <2>2. 0 \in Nat
    OBVIOUS
  <2> QED BY <1>1, <1>7, <1>8, <1>9, <2>1, <2>2, ScheduleFiles
<1>12. Matches(TriggerGet(s, "exec"), c)
  BY <1>2, <1>4, <1>8, <1>11 DEF Matches
<1>13. Spares(b, c)
  <2>1. DOMAIN b.kind = Procs /\ DOMAIN b.task = Procs
    BY <1>1 DEF Books
  <2> QED BY <1>2, <2>1 DEF Spares
<1> QED BY <1>2, <1>12, <1>13 DEF Frame, c, v, k

\* What getting from, or a put event of, a store does to its getters.
TriggerOf(b, store) ==
  IF store = "arrival"
  THEN IF b.idle = <<>> \/ b.buffer = <<>> THEN b ELSE AnswersLeader(b)
  ELSE IF b.free = <<>> \/ b.queue = <<>> THEN b ELSE AnswersFollower(b)

LEMMA TriggerMatches ==
  ASSUME NEW b, Kept(b), NEW s, Matches(s, b)
  PROVE  /\ LET c == TriggerOf(b, "arrival")
            IN  /\ Kept(c) /\ Matches(TriggerGet(s, "arrival"), c) /\ Frame(b, c) /\ Spares(b, c)
                /\ IF b.idle = <<>> \/ b.buffer = <<>> THEN c.idle = b.idle /\ c.buffer = b.buffer
                   ELSE c.idle = Tail(b.idle) /\ c.buffer = Tail(b.buffer)
                /\ c.queue = b.queue /\ c.free = b.free /\ c.x = b.x
         /\ LET c == TriggerOf(b, "exec")
            IN  /\ Kept(c) /\ Matches(TriggerGet(s, "exec"), c) /\ Frame(b, c) /\ Spares(b, c)
                /\ IF b.free = <<>> \/ b.queue = <<>> THEN c.free = b.free /\ c.queue = b.queue
                   ELSE c.free = Tail(b.free) /\ c.queue = Tail(b.queue)
                /\ c.buffer = b.buffer /\ c.idle = b.idle /\ c.x = b.x
<1>1. Frame(b, b) /\ Spares(b, b)
  BY DEF Frame, Spares
<1>2. /\ s.items["arrival"] = b.buffer /\ s.getters["arrival"] = b.idle
      /\ s.items["exec"] = b.queue /\ s.getters["exec"] = b.free
  BY DEF Matches
<1>3. CASE b.idle = <<>> \/ b.buffer = <<>>
  <2>1. TriggerGet(s, "arrival") = s /\ TriggerOf(b, "arrival") = b
    BY <1>2, <1>3 DEF TriggerGet, TriggerOf
  <2>2. CASE b.free = <<>> \/ b.queue = <<>>
    <3>1. TriggerGet(s, "exec") = s /\ TriggerOf(b, "exec") = b
      BY <1>2, <2>2 DEF TriggerGet, TriggerOf
    <3> QED BY <1>1, <1>3, <2>1, <2>2, <3>1
  <2>3. CASE b.free # <<>> /\ b.queue # <<>>
    <3>1. TriggerOf(b, "exec") = AnswersFollower(b)
      BY <2>3 DEF TriggerOf
    <3> QED BY <1>1, <1>3, <2>1, <2>3, <3>1, TriggerExecMatches
  <2> QED BY <2>2, <2>3
<1>4. CASE b.idle # <<>> /\ b.buffer # <<>>
  <2>1. TriggerOf(b, "arrival") = AnswersLeader(b)
    BY <1>4 DEF TriggerOf
  <2>2. CASE b.free = <<>> \/ b.queue = <<>>
    <3>1. TriggerGet(s, "exec") = s /\ TriggerOf(b, "exec") = b
      BY <1>2, <2>2 DEF TriggerGet, TriggerOf
    <3> QED BY <1>1, <1>4, <2>1, <2>2, <3>1, TriggerArrivalMatches
  <2>3. CASE b.free # <<>> /\ b.queue # <<>>
    <3>1. TriggerOf(b, "exec") = AnswersFollower(b)
      BY <2>3 DEF TriggerOf
    <3> QED BY <1>4, <2>1, <2>3, <3>1, TriggerExecMatches, TriggerArrivalMatches
  <2> QED BY <2>2, <2>3
<1> QED BY <1>3, <1>4

LEMMA WaitsMatches ==
  ASSUME NEW b, Kept(b), NEW s, Matches(s, b), NEW w \in Leaders \cup Followers, b.kind[w] = "none",
         w \in Leaders => b.batch[w] = <<>>, w \in Followers => b.running[w] = NoTask
  PROVE  LET c == Waits(b, w)
         IN  /\ Kept(c) /\ Frame(b, c) /\ c.x = b.x /\ c.kind[Arrival] = b.kind[Arrival]
             /\ c.buffer = b.buffer /\ c.queue = b.queue
             /\ w \in Leaders => /\ Matches([s EXCEPT !.getters["arrival"] = Append(@, w)], c)
                                 /\ c.idle = Append(b.idle, w) /\ c.free = b.free
             /\ w \in Followers => /\ Matches([s EXCEPT !.getters["exec"] = Append(@, w)], c)
                                   /\ c.idle = b.idle /\ c.free = Append(b.free, w)
<1> DEFINE c == Waits(b, w)
<1>1. /\ b \in Books /\ s \in Stores /\ Filed(s.agenda, b)
      /\ s.items = [arrival |-> b.buffer, exec |-> b.queue]
      /\ s.getters = [arrival |-> b.idle, exec |-> b.free]
      /\ DOMAIN b.kind = Procs /\ DOMAIN b.task = Procs
  BY DEF Kept, Matches, Books
<1>2. /\ Kept(c) /\ c.kind = [b.kind EXCEPT ![w] = "wait"] /\ c.task = [b.task EXCEPT ![w] = NoTask]
      /\ c.buffer = b.buffer /\ c.queue = b.queue
      /\ c.idle = IF w \in Leaders THEN Append(b.idle, w) ELSE b.idle
      /\ c.free = IF w \in Leaders THEN b.free ELSE Append(b.free, w)
      /\ c.arrived = b.arrived /\ c.batch = b.batch /\ c.running = b.running
      /\ c.enqueued = b.enqueued /\ c.started = b.started /\ c.finished = b.finished
      /\ c.x = b.x /\ c.at = b.at
  BY WaitsKept
<1> HIDE DEF c
<1>3. w \in Procs /\ w # Arrival /\ Arrival \in Procs
  BY ProcsDiffer DEF Procs
<1>4. /\ \A v \in Procs \ {w} : c.kind[v] = b.kind[v] /\ c.task[v] = b.task[v]
      /\ c.kind[w] = "wait" /\ c.idle \in Seq(Leaders) /\ c.free \in Seq(Followers)
  BY <1>1, <1>2, <1>3, BookTypes DEF Kept
<1>5. Filed(s.agenda, c)
  <2> DEFINE A == s.agenda
  <2>1. A \in Seq(Events) /\ AgendaOK(A, c.at)
    BY <1>1, <1>2 DEF Stores, Filed
  <2>2. ASSUME NEW i \in 1 .. Len(A) PROVE c.kind[A[i].who] = A[i].kind /\ c.task[A[i].who] = A[i].tid
    <3>1. A[i] \in Events
      BY <2>1, ElementOfSeq
    <3>2. A[i].who \in Procs /\ A[i].kind \in EventKinds
      BY <3>1 DEF Events
    <3>3. b.kind[A[i].who] = A[i].kind /\ b.task[A[i].who] = A[i].tid
      BY <1>1 DEF Filed
    <3>4. A[i].who # w
      BY <3>2, <3>3 DEF EventKinds
    <3> QED BY <1>4, <3>2, <3>3, <3>4
  <2>3. ASSUME NEW v \in Procs, c.kind[v] \in EventKinds PROVE \E i \in 1 .. Len(A) : A[i].who = v
    <3>1. v # w
      BY <1>4, <2>3 DEF EventKinds
    <3> QED BY <1>1, <1>4, <2>3, <3>1 DEF Filed
  <2> QED BY <2>1, <2>2, <2>3 DEF Filed
<1>6. ASSUME w \in Leaders
      PROVE  /\ Matches([s EXCEPT !.getters["arrival"] = Append(@, w)], c)
             /\ c.idle = Append(b.idle, w) /\ c.free = b.free
  <2> DEFINE j == s.getters
             k == Append(b.idle, w)
             r == [s EXCEPT !.getters["arrival"] = Append(@, w)]
  <2>1. c.idle = k /\ c.free = b.free
    BY <1>2, <1>6
  <2> HIDE DEF k
  <2>2. j = [arrival |-> b.idle, exec |-> b.free]
    BY <1>1
  <2> HIDE DEF j
  <2>3. j["arrival"] = b.idle /\ [j EXCEPT !["arrival"] = k] = [arrival |-> k, exec |-> b.free]
    BY <2>2, StoreExcept
  <2>4. r = [s EXCEPT !.getters = [arrival |-> k, exec |-> b.free]]
    BY <2>3 DEF j, k
  <2> HIDE DEF r
  <2>5. /\ r \in Stores /\ r.agenda = s.agenda /\ r.items = s.items
        /\ r.getters = [arrival |-> k, exec |-> b.free]
    BY <1>1, <1>4, <2>1, <2>4 DEF Stores
  <2>6. Matches(r, c)
    BY <1>1, <1>2, <1>5, <2>1, <2>5 DEF Matches
  <2> QED BY <2>1, <2>6 DEF k, r
<1>7. ASSUME w \in Followers
      PROVE  /\ Matches([s EXCEPT !.getters["exec"] = Append(@, w)], c)
             /\ c.idle = b.idle /\ c.free = Append(b.free, w)
  <2> DEFINE j == s.getters
             k == Append(b.free, w)
             r == [s EXCEPT !.getters["exec"] = Append(@, w)]
  <2>1. c.idle = b.idle /\ c.free = k
    BY <1>2, <1>7, ProcsDiffer
  <2> HIDE DEF k
  <2>2. j = [arrival |-> b.idle, exec |-> b.free]
    BY <1>1
  <2> HIDE DEF j
  <2>3. j["exec"] = b.free /\ [j EXCEPT !["exec"] = k] = [arrival |-> b.idle, exec |-> k]
    BY <2>2, StoreExcept
  <2>4. r = [s EXCEPT !.getters = [arrival |-> b.idle, exec |-> k]]
    BY <2>3 DEF j, k
  <2> HIDE DEF r
  <2>5. /\ r \in Stores /\ r.agenda = s.agenda /\ r.items = s.items
        /\ r.getters = [arrival |-> b.idle, exec |-> k]
    BY <1>1, <1>4, <2>1, <2>4 DEF Stores
  <2>6. Matches(r, c)
    BY <1>1, <1>2, <1>5, <2>1, <2>5 DEF Matches
  <2> QED BY <2>1, <2>6 DEF k, r
<1> QED BY <1>2, <1>3, <1>4, <1>6, <1>7 DEF Frame, c

LEMMA AppendThenTail ==
  ASSUME NEW T, NEW q \in Seq(T), NEW e \in T
  PROVE  Append(q, e) # <<>> /\ (Tail(Append(q, e)) # <<>> => q # <<>>)
<1> DEFINE r == Append(q, e)
<1>1. r \in Seq(T) /\ Len(r) = Len(q) + 1 /\ Len(q) \in Nat
  BY AppendProperties, LenProperties
<1> HIDE DEF r
<1>2. r # <<>>
  BY <1>1, EmptySeq
<1>3. Len(Tail(r)) = Len(q) /\ Tail(r) \in Seq(T)
  BY <1>1, <1>2, HeadAndTail
<1>4. Len(q) = 0 => Tail(r) = <<>>
  BY <1>3, EmptySeq
<1>5. q = <<>> => Len(q) = 0
  BY EmptySeq
<1> QED BY <1>2, <1>4, <1>5 DEF r

\* A leader goes back to get().
LEMMA LeaderGets ==
  ASSUME NEW b, Kept(b), Awake(b), NEW s, Matches(s, b), NEW l \in Leaders,
         b.kind[l] = "none", b.batch[l] = <<>>
  PROVE  LET c == TriggerOf(Waits(b, l), "arrival")
         IN  Kept(c) /\ Awake(c) /\ Matches(Get(s, "arrival", l), c) /\ Frame(b, c) /\ c.x = b.x
<1> DEFINE d == Waits(b, l)
           c == TriggerOf(d, "arrival")
           r == [s EXCEPT !.getters["arrival"] = Append(@, l)]
<1>1. /\ Kept(d) /\ Frame(b, d) /\ d.x = b.x /\ d.buffer = b.buffer /\ d.queue = b.queue
      /\ Matches(r, d) /\ d.idle = Append(b.idle, l) /\ d.free = b.free
  BY ProcsDiffer, WaitsMatches
<1> HIDE DEF d, r
<1>2. /\ Kept(c) /\ Matches(TriggerGet(r, "arrival"), c) /\ Frame(d, c)
      /\ IF d.idle = <<>> \/ d.buffer = <<>> THEN c.idle = d.idle /\ c.buffer = d.buffer
         ELSE c.idle = Tail(d.idle) /\ c.buffer = Tail(d.buffer)
      /\ c.queue = d.queue /\ c.free = d.free /\ c.x = d.x
  BY <1>1, TriggerMatches
<1>3. Get(s, "arrival", l) = TriggerGet(r, "arrival")
  BY DEF Get, r
<1> HIDE DEF c
<1>4. b.idle \in Seq(Leaders) /\ b.buffer \in Seq(Tasks)
  BY BookTypes DEF Kept
<1>5. ASSUME c.idle # <<>> PROVE Len(c.buffer) = 0
  <2>1. CASE d.buffer = <<>>
    BY <1>2, <2>1, EmptySeq
  <2>2. CASE d.buffer # <<>>
    <3>1. d.idle # <<>>
      BY <1>1, <1>4, AppendThenTail
    <3>2. c.idle = Tail(Append(b.idle, l)) /\ c.buffer = Tail(b.buffer)
      BY <1>1, <1>2, <2>2, <3>1
    <3>3. b.idle # <<>>
      BY <1>4, <1>5, <3>2, AppendThenTail
    <3>4. Len(b.buffer) = 0 \/ Len(b.buffer) = 1
      BY <3>3 DEF Awake
    <3>5. Len(b.buffer) # 0
      BY <1>1, <1>4, <2>2, EmptySeq
    <3>6. Len(Tail(b.buffer)) = Len(b.buffer) - 1
      BY <1>1, <1>4, <2>2, HeadAndTail
    <3> QED BY <3>2, <3>4, <3>5, <3>6
  <2> QED BY <2>1, <2>2
<1>6. Awake(c)
  BY <1>1, <1>2, <1>5 DEF Awake, Frame
<1> QED BY <1>1, <1>2, <1>3, <1>6 DEF Frame, c, d

\* A follower goes back to get().
LEMMA FollowerGets ==
  ASSUME NEW b, Kept(b), Awake(b), NEW s, Matches(s, b), NEW f \in Followers,
         b.kind[f] = "none", b.running[f] = NoTask
  PROVE  LET c == TriggerOf(Waits(b, f), "exec")
         IN  Kept(c) /\ Awake(c) /\ Matches(Get(s, "exec", f), c) /\ Frame(b, c) /\ c.x = b.x
<1> DEFINE d == Waits(b, f)
           c == TriggerOf(d, "exec")
           r == [s EXCEPT !.getters["exec"] = Append(@, f)]
<1>1. /\ Kept(d) /\ Frame(b, d) /\ d.x = b.x /\ d.buffer = b.buffer /\ d.queue = b.queue
      /\ Matches(r, d) /\ d.idle = b.idle /\ d.free = Append(b.free, f)
      /\ d.kind[Arrival] = b.kind[Arrival]
  BY ProcsDiffer, WaitsMatches
<1> HIDE DEF d, r
<1>2. /\ Kept(c) /\ Matches(TriggerGet(r, "exec"), c) /\ Frame(d, c) /\ Spares(d, c)
      /\ IF d.free = <<>> \/ d.queue = <<>> THEN c.free = d.free /\ c.queue = d.queue
         ELSE c.free = Tail(d.free) /\ c.queue = Tail(d.queue)
      /\ c.buffer = d.buffer /\ c.idle = d.idle /\ c.x = d.x
  BY <1>1, TriggerMatches
<1>3. Get(s, "exec", f) = TriggerGet(r, "exec")
  BY DEF Get, r
<1> HIDE DEF c
<1>4. b.free \in Seq(Followers) /\ b.queue \in Seq(Tasks) /\ Len(b.enqueued) \in Nat /\ Len(b.x) \in Nat
  BY BookTypes, BookLengths DEF Kept
<1>5. c.kind[Arrival] = b.kind[Arrival]
  <2>1. d.kind[Arrival] # "wait" /\ Arrival \in Procs
    BY <1>1 DEF Kept, Hands, Procs
  <2> QED BY <1>1, <1>2, <2>1 DEF Spares
<1>6. c.enqueued = b.enqueued /\ c.x = b.x
  BY <1>1, <1>2 DEF Frame
<1>7. ASSUME c.free # <<>> PROVE Len(c.queue) + Len(c.enqueued) <= Len(c.x)
  <2>1. CASE d.queue = <<>>
    <3>1. Len(c.queue) = 0
      BY <1>2, <2>1, EmptySeq
    <3>2. Len(b.enqueued) <= Len(b.x)
      BY DEF Kept, Puts
    <3> QED BY <1>4, <1>6, <3>1, <3>2
  <2>2. CASE d.queue # <<>>
    <3>1. d.free # <<>>
      BY <1>1, <1>4, AppendThenTail
    <3>2. c.free = Tail(Append(b.free, f)) /\ c.queue = Tail(b.queue)
      BY <1>1, <1>2, <2>2, <3>1
    <3>3. b.free # <<>>
      BY <1>4, <1>7, <3>2, AppendThenTail
    <3>4. Len(b.queue) + Len(b.enqueued) <= Len(b.x)
      BY <3>3 DEF Awake
    <3> DEFINE g == Len(b.queue)
               n == Len(b.enqueued)
               z == Len(b.x)
               k == Len(c.queue)
    <3>5. k = g - 1 /\ g \in Nat /\ n \in Nat /\ z \in Nat /\ g + n <= z
      BY <1>1, <1>4, <2>2, <3>2, <3>4, HeadAndTail
    <3> HIDE DEF g, n, z, k
    <3>6. k + n <= z
      BY <3>5
    <3> QED BY <1>6, <3>6 DEF k, n, z
  <2> QED BY <2>1, <2>2
<1>8. Awake(c)
  BY <1>1, <1>2, <1>5, <1>7 DEF Awake
<1> QED BY <1>1, <1>2, <1>3, <1>6, <1>8 DEF Frame, c, d

-------------------------------------------------------------------------------
(***************************************************************************)
(* The invariant of the specification.                                     *)
(***************************************************************************)
S == [agenda |-> agenda, items |-> items, getters |-> getters]

Fields(b) ==
  /\ b.arrived = arrived /\ b.batch = batch /\ b.running = running
  /\ b.enqueued = enqueued /\ b.started = started /\ b.finished = finished

BehInv ==
  /\ dispatch \in Nat
  /\ \E b : Kept(b) /\ Awake(b) /\ Matches(S, b) /\ Fields(b)

Popped == [agenda |-> After(agenda), items |-> items, getters |-> getters]

\* What the agenda says when the event of process w fires.
LEMMA EventFires ==
  ASSUME NEW b, Kept(b), Matches(S, b), agenda # <<>>
  PROVE  /\ Now \in Events /\ b.kind[Now.who] = Now.kind /\ b.task[Now.who] = Now.tid
         /\ PutsExec(Now) => \A l \in Leaders \ {Now.who} :
              b.kind[l] = "put" => b.at[Now.tid] < b.at[b.task[l]]
         /\ GotExec(Now) => \A f \in Followers \ {Now.who} :
              b.kind[f] = "got" => b.at[Now.tid] < b.at[b.task[f]]
         /\ GotExec(Now) => \A l \in Leaders : b.kind[l] = "put" => b.task[l] # Now.tid
         /\ Fired = IF Now.kind = "put" THEN TriggerGet(Popped, StoreOfPut) ELSE Popped
<1>1. agenda \in Seq(Events) /\ Filed(agenda, b) /\ b \in Books
  BY DEF Matches, S, Stores, Kept
<1>2. Now = agenda[1]
  BY <1>1, HeadAndTail DEF Now
<1>3. Fired = IF Now.kind = "put" THEN TriggerGet(Popped, StoreOfPut) ELSE Popped
  BY <1>2, Zenon DEF Fired, Popped, After
<1> QED BY <1>1, <1>2, <1>3, FirstEvent

\* The books c, in which the process runs, match what is left of the
\* agenda.
LEMMA FiredMatches ==
  ASSUME NEW b, Kept(b), Matches(S, b), agenda # <<>>, NEW c \in Books,
         c.at = b.at, c.task = b.task, c.kind = [b.kind EXCEPT ![Now.who] = "none"]
  PROVE  /\ c.idle = b.idle /\ c.free = b.free /\ c.buffer = b.buffer /\ c.queue = b.queue =>
              Matches(Popped, c)
         /\ c.idle = b.idle /\ c.free = b.free /\ c.queue = b.queue =>
              Matches([Popped EXCEPT !.items["arrival"] = c.buffer], c)
<1>1. /\ agenda \in Seq(Events) /\ Filed(agenda, b) /\ b \in Books
      /\ items = [arrival |-> b.buffer, exec |-> b.queue]
      /\ getters = [arrival |-> b.idle, exec |-> b.free] /\ S \in Stores
  BY DEF Matches, S, Stores, Kept
<1>2. Now = agenda[1]
  BY <1>1, HeadAndTail DEF Now
<1>3. After(agenda) \in Seq(Events) /\ Filed(After(agenda), c)
  BY <1>1, <1>2, FireFiles
<1>4. ASSUME c.idle = b.idle, c.free = b.free, c.buffer = b.buffer, c.queue = b.queue
      PROVE  Matches(Popped, c)
  BY <1>1, <1>3, <1>4 DEF Matches, Popped, S, Stores
<1>5. ASSUME c.idle = b.idle, c.free = b.free, c.queue = b.queue
      PROVE  Matches([Popped EXCEPT !.items["arrival"] = c.buffer], c)
  <2> DEFINE v == c.buffer
  <2>1. v \in Seq(Tasks) /\ b.queue \in Seq(Tasks)
    BY <1>1, BookTypes
  <2>2. c.buffer = v
    OBVIOUS
  <2> HIDE DEF v
  <2>3. [items EXCEPT !["arrival"] = v] = [arrival |-> v, exec |-> b.queue]
    BY <1>1, StoreExcept
  <2>4. [Popped EXCEPT !.items["arrival"] = v]
          = [agenda |-> After(agenda), items |-> [arrival |-> v, exec |-> b.queue], getters |-> getters]
    BY <2>3 DEF Popped
  <2> DEFINE r == [Popped EXCEPT !.items["arrival"] = v]
  <2>5. /\ r \in Stores /\ r.agenda = After(agenda) /\ r.items = [arrival |-> v, exec |-> b.queue]
        /\ r.getters = getters
    <3>1. After(agenda) \in Seq(Events) /\ getters \in [arrival : Seq(Leaders), exec : Seq(Followers)]
      BY <1>1, <1>3 DEF S, Stores
    <3>2. r = [agenda |-> After(agenda), items |-> [arrival |-> v, exec |-> b.queue], getters |-> getters]
      BY <2>4
    <3> HIDE DEF r
    <3> QED BY <2>1, <3>1, <3>2 DEF Stores
  <2> HIDE DEF r
  <2>6. Matches(r, c)
    BY <1>1, <1>3, <1>5, <2>2, <2>5 DEF Matches
  <2> QED BY <2>6 DEF r, v
<1> QED BY <1>4, <1>5

LEMMA Closes ==
  ASSUME NEW c, Kept(c), Awake(c), NEW s, Matches(s, c), Becomes(s), dispatch \in Nat, dispatch' = dispatch,
         c.arrived = arrived', c.batch = batch', c.running = running',
         c.enqueued = enqueued', c.started = started', c.finished = finished'
  PROVE  BehInv'
<1>1. agenda' = s.agenda /\ items' = s.items /\ getters' = s.getters /\ s \in Stores
  BY DEF Becomes, Matches
<1>2. S' \in Stores /\ S'.agenda = s.agenda /\ S'.items = s.items /\ S'.getters = s.getters
  BY <1>1 DEF S, Stores
<1>3. Matches(S', c)
  BY <1>2 DEF Matches
<1> HIDE DEF S
<1>4. Fields(c)'
  BY DEF Fields
<1> QED BY <1>3, <1>4 DEF BehInv

LEMMA AwakeSame ==
  ASSUME NEW b, Awake(b), NEW c, c.idle = b.idle, c.free = b.free, c.buffer = b.buffer, c.queue = b.queue,
         c.enqueued = b.enqueued, c.x = b.x, c.kind[Arrival] = b.kind[Arrival]
  PROVE  Awake(c)
BY DEF Awake

LEMMA BehavioralInit == BehInit => BehInv
<1> SUFFICES ASSUME BehInit PROVE BehInv
  OBVIOUS
<1> DEFINE b == [kind |-> [w \in Procs |-> "init"], task |-> [w \in Procs |-> NoTask],
                 buffer |-> <<>>, queue |-> <<>>, idle |-> <<>>, free |-> <<>>,
                 arrived |-> 0, batch |-> [l \in Leaders |-> <<>>],
                 running |-> [f \in Followers |-> NoTask],
                 enqueued |-> <<>>, started |-> <<>>, finished |-> {}, x |-> <<>>,
                 at |-> [t \in Tasks |-> 0]]
           a == << Event("init", Arrival, NoTask) >>
           l == [i \in 1 .. NUM_LEADERS |-> Event("init", <<"leader", i>>, NoTask)]
           f == [i \in 1 .. NUM_FOLLOWERS |-> Event("init", <<"follower", i>>, NoTask)]
           n == 1 + NUM_LEADERS + NUM_FOLLOWERS
           who == [i \in 1 .. n |-> IF i = 1 THEN Arrival
                                    ELSE IF i <= 1 + NUM_LEADERS THEN <<"leader", i - 1>>
                                    ELSE <<"follower", i - 1 - NUM_LEADERS>>]
<1>1. NUM_LEADERS \in Nat /\ NUM_FOLLOWERS \in Nat /\ NUM_TASKS \in Nat
  BY Positive
<1>2. \A i \in 1 .. n : /\ i = 1 => who[i] = Arrival
                        /\ i # 1 /\ i <= 1 + NUM_LEADERS =>
                             who[i] = <<"leader", i - 1>> /\ i - 1 \in 1 .. NUM_LEADERS
                        /\ i # 1 /\ ~(i <= 1 + NUM_LEADERS) =>
                             /\ who[i] = <<"follower", i - 1 - NUM_LEADERS>>
                             /\ i - 1 - NUM_LEADERS \in 1 .. NUM_FOLLOWERS
  BY <1>1
<1>3. \A i \in 1 .. n : who[i] \in Procs
  BY <1>2 DEF Procs, Leaders, Followers
<1>4. ASSUME NEW i \in 1 .. n, NEW j \in 1 .. n, i < j PROVE who[i] # who[j]
  BY <1>1, <1>2, <1>4 DEF Arrival
<1>5. ASSUME NEW w \in Procs PROVE \E i \in 1 .. n : who[i] = w
  <2>1. CASE w = Arrival
    <3>1. 1 \in 1 .. n
      BY <1>1
    <3> QED BY <1>2, <2>1, <3>1
  <2>2. CASE w \in Leaders
    <3>1. PICK k \in 1 .. NUM_LEADERS : w = <<"leader", k>>
      BY <2>2 DEF Leaders
    <3>2. k + 1 \in 1 .. n /\ k + 1 # 1 /\ k + 1 <= 1 + NUM_LEADERS /\ (k + 1) - 1 = k
      BY <1>1
    <3> HIDE DEF who
    <3>3. who[k + 1] = <<"leader", (k + 1) - 1>>
      BY <1>2, <3>2
    <3> QED BY <3>1, <3>2, <3>3
  <2>3. CASE w \in Followers
    <3>1. PICK k \in 1 .. NUM_FOLLOWERS : w = <<"follower", k>>
      BY <2>3 DEF Followers
    <3> DEFINE i == k + 1 + NUM_LEADERS
    <3>2. i \in 1 .. n /\ i # 1 /\ ~(i <= 1 + NUM_LEADERS) /\ i - 1 - NUM_LEADERS = k
      BY <1>1
    <3> HIDE DEF who, i
    <3>3. who[i] = <<"follower", i - 1 - NUM_LEADERS>>
      BY <1>2, <3>2
    <3> QED BY <3>1, <3>2, <3>3
  <2> QED BY <2>1, <2>2, <2>3 DEF Procs
<1>6. \A w \in Procs : Event("init", w, NoTask) \in Events
  BY EventTypes DEF EventKinds
<1>7. /\ agenda \in Seq(Events) /\ Len(agenda) = n
      /\ \A i \in 1 .. n : agenda[i] = Event("init", who[i], NoTask)
  <2>1. a \in Seq(Events) /\ Len(a) = 1 /\ a[1] = Event("init", Arrival, NoTask)
    BY <1>6 DEF Procs
  <2>2. l \in Seq(Events) /\ Len(l) = NUM_LEADERS
    <3>1. \A i \in 1 .. NUM_LEADERS : <<"leader", i>> \in Procs
      BY DEF Procs, Leaders
    <3>2. l \in [1 .. NUM_LEADERS -> Events]
      BY <1>6, <3>1
    <3> QED BY <1>1, <3>2, SeqDef, LenProperties
  <2>3. f \in Seq(Events) /\ Len(f) = NUM_FOLLOWERS
    <3>1. \A i \in 1 .. NUM_FOLLOWERS : <<"follower", i>> \in Procs
      BY DEF Procs, Followers
    <3>2. f \in [1 .. NUM_FOLLOWERS -> Events]
      BY <1>6, <3>1
    <3> QED BY <1>1, <3>2, SeqDef, LenProperties
  <2>4. agenda = (a \o l) \o f
    BY DEF BehInit
  <2>5. /\ \A i \in 1 .. NUM_LEADERS : l[i] = Event("init", <<"leader", i>>, NoTask)
        /\ \A i \in 1 .. NUM_FOLLOWERS : f[i] = Event("init", <<"follower", i>>, NoTask)
    OBVIOUS
  <2> HIDE DEF a, l, f
  <2> DEFINE k == a \o l
  <2>6. /\ k \in Seq(Events) /\ Len(k) = 1 + NUM_LEADERS
        /\ \A i \in 1 .. 1 + NUM_LEADERS : k[i] = IF i <= 1 THEN a[i] ELSE l[i - 1]
    <3>1. /\ k \in Seq(Events) /\ Len(k) = Len(a) + Len(l)
          /\ \A i \in 1 .. Len(a) + Len(l) : k[i] = IF i <= Len(a) THEN a[i] ELSE l[i - Len(a)]
      BY <2>1, <2>2, ConcatProperties
    <3> QED BY <2>1, <2>2, <3>1
  <2> HIDE DEF k
  <2>7. /\ k \o f \in Seq(Events) /\ Len(k \o f) = n
        /\ \A i \in 1 .. n : (k \o f)[i] = IF i <= 1 + NUM_LEADERS THEN k[i] ELSE f[i - (1 + NUM_LEADERS)]
    <3>1. /\ k \o f \in Seq(Events) /\ Len(k \o f) = Len(k) + Len(f)
          /\ \A i \in 1 .. Len(k) + Len(f) : (k \o f)[i] = IF i <= Len(k) THEN k[i] ELSE f[i - Len(k)]
      BY <2>3, <2>6, ConcatProperties
    <3> QED BY <2>3, <2>6, <3>1
  <2>8. ASSUME NEW i \in 1 .. n PROVE agenda[i] = Event("init", who[i], NoTask)
    <3> HIDE DEF who
    <3>1. CASE i = 1
      <4>1. i <= 1 + NUM_LEADERS /\ i <= 1 /\ i \in 1 .. 1 + NUM_LEADERS
        BY <1>1, <3>1
      <4> QED BY <1>2, <2>1, <2>4, <2>6, <2>7, <3>1, <4>1 DEF k
    <3>2. CASE i # 1 /\ i <= 1 + NUM_LEADERS
      <4>1. i \in 1 .. 1 + NUM_LEADERS /\ ~(i <= 1) /\ i - 1 \in 1 .. NUM_LEADERS
        BY <1>1, <3>2
      <4>2. agenda[i] = l[i - 1]
        BY <2>4, <2>6, <2>7, <3>2, <4>1 DEF k
      <4> QED BY <1>2, <2>5, <3>2, <4>1, <4>2
    <3>3. CASE ~(i <= 1 + NUM_LEADERS)
      <4>1. i # 1 /\ i - (1 + NUM_LEADERS) = i - 1 - NUM_LEADERS
        BY <1>1, <3>3
      <4>2. agenda[i] = f[i - 1 - NUM_LEADERS]
        BY <2>4, <2>7, <3>3, <4>1 DEF k
      <4> QED BY <1>2, <2>5, <3>3, <4>1, <4>2
    <3> QED BY <3>1, <3>2, <3>3
  <2> QED BY <2>4, <2>7, <2>8 DEF k
<1> HIDE DEF n, who
<1>8. /\ b \in Books /\ \A w \in Procs : b.kind[w] = "init" /\ b.task[w] = NoTask
      /\ Len(b.buffer) = 0 /\ Len(b.queue) = 0 /\ Len(b.idle) = 0 /\ Len(b.free) = 0
      /\ Len(b.enqueued) = 0 /\ Len(b.started) = 0 /\ Len(b.x) = 0
      /\ b.arrived = 0 /\ b.finished = {}
      /\ \A m \in Leaders : b.batch[m] = <<>> /\ Len(b.batch[m]) = 0
      /\ \A g \in Followers : b.running[g] = NoTask
      /\ \A t \in Tasks : b.at[t] = 0
  <2>1. b \in Books
    BY <1>1 DEF Books, EventKinds
  <2> QED BY <2>1
<1>9. b.buffer = <<>> /\ b.queue = <<>> /\ b.idle = <<>> /\ b.free = <<>>
  OBVIOUS
<1>10. Fields(b)
  BY DEF Fields, BehInit
<1>11. S.items = [arrival |-> b.buffer, exec |-> b.queue] /\ S.getters = [arrival |-> b.idle, exec |-> b.free]
  BY DEF BehInit, S
<1> HIDE DEF b
<1>12. /\ Leaders \subseteq Procs /\ Followers \subseteq Procs /\ Arrival \in Procs
       /\ \A z \in 1 .. 0 : FALSE
  BY DEF Procs
<1>13. Hands(b) /\ Getters(b) /\ Buffered(b) /\ WithLeaders(b)
  <2>1. Hands(b)
    BY <1>8, <1>12 DEF Hands
  <2>2. Getters(b)
    BY <1>8, <1>12 DEF Getters
  <2>3. Taken(b) = 0 /\ Buffered(b)
    BY <1>8, <1>12 DEF Buffered, Taken
  <2>4. WithLeaders(b)
    BY <1>8, <1>12, <2>3 DEF WithLeaders
  <2> QED BY <2>1, <2>2, <2>3, <2>4
<1>14. Numbered(b) /\ Puts(b) /\ Starts(b) /\ Executes(b) /\ LeaderOrder(b)
  <2>1. Numbered(b)
    BY <1>8, <1>12 DEF Numbered
  <2>2. Puts(b)
    <3>1. \A k \in Len(b.enqueued) + 1 .. Len(b.x) : FALSE
      BY <1>8
    <3> QED BY <1>8, <1>12, <3>1 DEF Puts
  <2>3. Starts(b)
    <3>1. \A k \in Len(b.started) + 1 .. Len(b.x) - Len(b.queue) : FALSE
      BY <1>8
    <3> QED BY <1>8, <1>12, <3>1 DEF Starts, Begins, Ends
  <2>4. Executes(b)
    BY <1>8, <1>12 DEF Executes
  <2>5. LeaderOrder(b)
    BY <1>8, <1>12 DEF LeaderOrder
  <2> QED BY <2>1, <2>2, <2>3, <2>4, <2>5
<1>15. Awake(b)
  BY <1>9 DEF Awake
<1>16. Matches(S, b)
  <2>1. ASSUME NEW i \in 1 .. n
        PROVE  /\ agenda[i].in = 0 /\ agenda[i].kind = "init" /\ agenda[i].who = who[i]
               /\ agenda[i].tid = NoTask /\ ~PutsExec(agenda[i]) /\ ~GotExec(agenda[i])
    BY <1>7 DEF Event, PutsExec, GotExec
  <2>2. AgendaOK(agenda, b.at)
    <3>1. \A i \in 1 .. Len(agenda) : agenda[i].kind # "timeout" => agenda[i].in = 0
      BY <1>7, <2>1
    <3>2. ASSUME NEW i \in 1 .. Len(agenda), NEW j \in 1 .. Len(agenda), i < j
          PROVE  /\ agenda[i].in <= agenda[j].in /\ agenda[i].who # agenda[j].who
               /\ InOrder(agenda[i], agenda[j], b.at)
      BY <1>4, <1>7, <2>1, <3>2 DEF InOrder
    <3> QED BY <3>1, <3>2 DEF AgendaOK
  <2>3. Filed(agenda, b)
    BY <1>3, <1>5, <1>7, <1>8, <2>1, <2>2 DEF Filed
  <2>4. S \in Stores
    BY <1>7 DEF BehInit, S, Stores
  <2> QED BY <1>11, <2>3, <2>4 DEF Matches, S
<1>17. dispatch \in Nat
  BY BehavioralAssumption DEF BehInit
<1> QED BY <1>8, <1>10, <1>13, <1>14, <1>15, <1>16, <1>17 DEF BehInv, Kept

-------------------------------------------------------------------------------
(***************************************************************************)
(* One step per action.                                                    *)
(***************************************************************************)
\* What a waiting process would be handed is handed out.
Drained(b) ==
  /\ b.idle # <<>> => Len(b.buffer) = 0
  /\ b.free # <<>> => Len(b.queue) + Len(b.enqueued) <= Len(b.x)

LEMMA NextArrivalStep ==
  ASSUME NEW b, Kept(b), Drained(b), Fields(b), NEW s, Matches(s, b), b.kind[Arrival] = "none",
         NextArrival(s), dispatch \in Nat,
         UNCHANGED <<batch, running, enqueued, started, finished, dispatch>>
  PROVE  BehInv'
<1>1. CASE arrived = NUM_TASKS
  <2>1. Becomes(s) /\ arrived' = arrived
    BY <1>1 DEF NextArrival
  <2>2. Awake(b)
    BY DEF Drained, Awake
  <2> QED BY <2>1, <2>2, Closes DEF Fields
<1>2. CASE arrived # NUM_TASKS
  <2> DEFINE c == Arrives(b)
             r == Put(s, "arrival", Arrival, arrived + 1)
  <2>1. Becomes(r) /\ arrived' = arrived + 1
    BY <1>2 DEF NextArrival
  <2>2. /\ Kept(c) /\ Matches(r, c)
        /\ c.arrived = b.arrived + 1 /\ c.kind[Arrival] = "put"
        /\ Len(c.buffer) = Len(b.buffer) + 1 /\ c.queue = b.queue
        /\ c.idle = b.idle /\ c.free = b.free /\ c.batch = b.batch /\ c.running = b.running
        /\ c.enqueued = b.enqueued /\ c.started = b.started /\ c.finished = b.finished
        /\ c.x = b.x
    <3>1. b.arrived = arrived
      BY DEF Fields
    <3> QED BY <1>2, <3>1, ArrivalMatches
  <2> HIDE DEF c, r
  <2>3. c.idle # <<>> => Len(c.buffer) = 1
    <3>1. b.idle # <<>> => Len(b.buffer) = 0
      BY DEF Drained
    <3> QED BY <2>2, <3>1
  <2>4. Awake(c)
    BY <2>2, <2>3 DEF Drained, Awake
  <2> QED BY <2>1, <2>2, <2>4, Closes DEF Fields
<1> QED BY <1>1, <1>2

LEMMA ArrivalStep == BehInv /\ ArrivalRuns => BehInv'
<1> SUFFICES ASSUME BehInv, ArrivalRuns PROVE BehInv'
  OBVIOUS
<1>1. PICK b : Kept(b) /\ Awake(b) /\ Matches(S, b) /\ Fields(b)
  BY DEF BehInv
<1>2. /\ dispatch \in Nat /\ agenda # <<>> /\ Now.who = Arrival /\ Now.kind \in {"init", "timeout", "put"}
      /\ UNCHANGED <<batch, running, enqueued, started, finished, dispatch>>
  BY DEF BehInv, ArrivalRuns, Resumes
<1> DEFINE c == Fires(b, Arrival)
<1>3. /\ b.kind[Arrival] = Now.kind /\ Arrival \in Procs /\ b \in Books
      /\ Fired = IF Now.kind = "put" THEN TriggerGet(Popped, StoreOfPut) ELSE Popped
  BY <1>1, <1>2, EventFires DEF Kept, Procs
<1>4. /\ c \in Books /\ c.kind = [b.kind EXCEPT ![Arrival] = "none"] /\ c.task = b.task
      /\ c.buffer = b.buffer /\ c.queue = b.queue /\ c.idle = b.idle /\ c.free = b.free
      /\ c.arrived = b.arrived /\ c.batch = b.batch /\ c.running = b.running
      /\ c.enqueued = b.enqueued /\ c.started = b.started /\ c.finished = b.finished
      /\ c.x = b.x /\ c.at = b.at
  BY <1>3, FiresFields
<1>5. Kept(c)
  BY <1>1, <1>2, <1>3, FiresKept
<1> HIDE DEF c
<1>6. c.kind[Arrival] = "none" /\ Fields(c) /\ Matches(Popped, c)
  BY <1>1, <1>2, <1>3, <1>4, BookTypes, FiredMatches DEF Fields
<1>7. CASE Now.kind \in {"init", "timeout"}
  <2>1. Fired = Popped /\ NextArrival(Popped)
    BY <1>3, <1>7 DEF ArrivalRuns, Resumes
  <2>2. Drained(c)
    BY <1>1, <1>3, <1>4, <1>7 DEF Awake, Drained
  <2> QED BY <1>2, <1>5, <1>6, <2>1, <2>2, NextArrivalStep
<1>8. CASE Now.kind = "put"
  <2> DEFINE d == TriggerOf(c, "arrival")
             s == TriggerGet(Popped, "arrival")
  <2>1. Fired = s
    BY <1>2, <1>3, <1>8 DEF StoreOfPut
  <2>2. /\ Kept(d) /\ Matches(s, d) /\ Frame(c, d) /\ Spares(c, d)
        /\ IF c.idle = <<>> \/ c.buffer = <<>> THEN d.idle = c.idle /\ d.buffer = c.buffer
           ELSE d.idle = Tail(c.idle) /\ d.buffer = Tail(c.buffer)
        /\ d.queue = c.queue /\ d.free = c.free /\ d.x = c.x
    BY <1>5, <1>6, TriggerMatches
  <2> HIDE DEF d, s
  <2>3. d.kind[Arrival] = "none" /\ Fields(d)
    BY <1>3, <1>6, <2>2 DEF Spares, Frame, Fields
  <2>4. d.idle # <<>> => Len(d.buffer) = 0
    <3>1. CASE c.buffer = <<>>
      BY <2>2, <3>1, EmptySeq
    <3>2. CASE c.idle # <<>> /\ c.buffer # <<>>
      <4>1. Len(c.buffer) = 0 \/ Len(c.buffer) = 1
        BY <1>1, <1>4, <3>2 DEF Awake
      <4>2. c.buffer \in Seq(Tasks)
        BY <1>4, BookTypes
      <4>3. Len(c.buffer) # 0
        BY <3>2, <4>2, EmptySeq
      <4>4. d.buffer = Tail(c.buffer)
        BY <2>2, <3>2
      <4> DEFINE g == Len(c.buffer)
                 k == Len(d.buffer)
      <4>5. k = g - 1 /\ (g = 0 \/ g = 1) /\ g # 0
        BY <3>2, <4>1, <4>2, <4>3, <4>4, HeadAndTail
      <4> HIDE DEF g, k
      <4>6. k = 0
        BY <4>5
      <4> QED BY <4>6 DEF k
    <3>3. c.idle = <<>> => d.idle = <<>>
      BY <2>2
    <3> QED BY <3>1, <3>2, <3>3
  <2>5. Drained(d)
    BY <1>1, <1>4, <2>2, <2>4 DEF Awake, Drained, Frame
  <2>6. PICK ia \in INTERARRIVALS :
          IF ia > 0 THEN Becomes(Timeout(s, Arrival, ia)) /\ UNCHANGED arrived
                    ELSE NextArrival(s)
    BY <1>8, <2>1 DEF ArrivalRuns, Resumes
  <2>7. CASE ia > 0
    <3> DEFINE e == Files(d, Arrival, "timeout", NoTask)
    <3>1. ia \in Nat /\ Arrival \notin Leaders /\ Arrival \notin Followers
      BY BehavioralAssumption, ProcsDiffer
    <3>2. /\ Kept(e) /\ Matches(Timeout(s, Arrival, ia), e) /\ Frame(d, e) /\ e.x = d.x
          /\ e.buffer = d.buffer /\ e.queue = d.queue /\ e.idle = d.idle /\ e.free = d.free
      BY <1>3, <2>2, <2>3, <3>1, TimeoutMatches
    <3> HIDE DEF e
    <3>3. Awake(e)
      BY <2>5, <3>2 DEF Drained, Awake, Frame
    <3>4. Becomes(Timeout(s, Arrival, ia)) /\ arrived' = arrived
      BY <2>6, <2>7
    <3> QED BY <1>2, <2>3, <3>2, <3>3, <3>4, Closes DEF Fields, Frame
  <2>8. CASE ~(ia > 0)
    <3>1. NextArrival(s)
      BY <2>6, <2>8
    <3> QED BY <1>2, <2>2, <2>3, <2>5, <3>1, NextArrivalStep
  <2> QED BY <2>7, <2>8
<1> QED BY <1>2, <1>7, <1>8

LEMMA PutNextStep ==
  ASSUME NEW b, Kept(b), Awake(b), NEW s, Matches(s, b), NEW l \in Leaders, b.kind[l] = "none",
         NEW q, b.batch[l] = q, q # <<>>, PutNext(s, l, q),
         [b.batch EXCEPT ![l] = Tail(q)] = [batch EXCEPT ![l] = Tail(q)],
         dispatch \in Nat, dispatch' = dispatch, b.arrived = arrived', b.running = running',
         b.enqueued = enqueued', b.started = started', b.finished = finished'
  PROVE  BehInv'
<1> DEFINE c == Sends(b, l)
           r == Put(s, "exec", l, Head(q))
<1>1. Becomes(r) /\ batch' = [batch EXCEPT ![l] = Tail(q)]
  BY DEF PutNext
<1>2. /\ Kept(c) /\ Matches(r, c)
      /\ c.kind = [b.kind EXCEPT ![l] = "put"]
      /\ c.buffer = b.buffer /\ Len(c.queue) = Len(b.queue) + 1
      /\ c.idle = b.idle /\ c.free = b.free /\ c.arrived = b.arrived
      /\ c.batch = [b.batch EXCEPT ![l] = Tail(q)] /\ c.running = b.running
      /\ c.enqueued = b.enqueued /\ c.started = b.started /\ c.finished = b.finished
      /\ Len(c.x) = Len(b.x) + 1
  <2>1. b.batch[l] # <<>>
    OBVIOUS
  <2>3. /\ Kept(c) /\ Matches(Put(s, "exec", l, Head(b.batch[l])), c)
        /\ c.kind = [b.kind EXCEPT ![l] = "put"]
        /\ c.buffer = b.buffer /\ Len(c.queue) = Len(b.queue) + 1
        /\ c.idle = b.idle /\ c.free = b.free /\ c.arrived = b.arrived
        /\ c.batch = [b.batch EXCEPT ![l] = Tail(b.batch[l])] /\ c.running = b.running
        /\ c.enqueued = b.enqueued /\ c.started = b.started /\ c.finished = b.finished
        /\ Len(c.x) = Len(b.x) + 1
    BY <2>1, SendMatches
  <2> HIDE DEF c
  <2> QED BY <2>3
<1> HIDE DEF c, r
<1>3. c.kind[Arrival] = b.kind[Arrival]
  <2>1. Arrival # l /\ Arrival \in Procs /\ DOMAIN b.kind = Procs
    BY ProcsDiffer DEF Procs, Kept, Books
  <2> QED BY <1>2, <2>1
<1>4. c.free # <<>> => Len(c.queue) + Len(c.enqueued) <= Len(c.x)
  <2> DEFINE g == Len(b.queue)
             n == Len(b.enqueued)
             z == Len(b.x)
             k == Len(c.queue)
             y == Len(c.x)
  <2>1. g \in Nat /\ n \in Nat /\ z \in Nat /\ k = g + 1 /\ y = z + 1 /\ (b.free # <<>> => g + n <= z)
    BY <1>2, BookLengths DEF Kept, Awake
  <2> HIDE DEF g, n, z, k, y
  <2>2. b.free # <<>> => k + n <= y
    BY <2>1
  <2> QED BY <1>2, <2>2 DEF k, n, y
<1>5. Awake(c)
  BY <1>2, <1>3, <1>4 DEF Awake
<1> QED BY <1>1, <1>2, <1>5, Closes

\* The state in which the process w resumes, and its books.
LEMMA Resuming ==
  ASSUME BehInv, NEW w \in Procs, NEW kinds, Resumes(w, kinds)
  PROVE  \E b : /\ Kept(b) /\ Awake(b) /\ Matches(S, b) /\ Fields(b) /\ b \in Books
                /\ agenda # <<>> /\ Now.who = w /\ Now.kind \in kinds /\ dispatch \in Nat
                /\ b.kind[w] = Now.kind /\ b.task[w] = Now.tid
                /\ Now.kind # "put" => Fired = Popped
<1>1. PICK b : Kept(b) /\ Awake(b) /\ Matches(S, b) /\ Fields(b)
  BY DEF BehInv
<1>2. agenda # <<>> /\ Now.who = w /\ Now.kind \in kinds /\ dispatch \in Nat /\ b \in Books
  BY <1>1 DEF BehInv, Resumes, Kept
<1>3. /\ b.kind[w] = Now.kind /\ b.task[w] = Now.tid
      /\ Fired = IF Now.kind = "put" THEN TriggerGet(Popped, StoreOfPut) ELSE Popped
  BY <1>1, <1>2, EventFires
<1> QED BY <1>1, <1>2, <1>3

\* A leader or follower whose init or timeout event fires.
LEMMA FiresMatches ==
  ASSUME NEW b, Kept(b), Awake(b), Matches(S, b), Fields(b), agenda # <<>>,
         NEW w \in Leaders \cup Followers, Now.who = w, b.kind[w] \in {"init", "timeout"}
  PROVE  LET c == Fires(b, w)
         IN  Kept(c) /\ Awake(c) /\ Matches(Popped, c) /\ Fields(c) /\ c.kind[w] = "none"
<1> DEFINE c == Fires(b, w)
<1>1. b \in Books /\ w \in Procs /\ w # Arrival /\ Arrival \in Procs
  BY ProcsDiffer DEF Kept, Procs
<1>2. /\ c \in Books /\ c.kind = [b.kind EXCEPT ![w] = "none"] /\ c.task = b.task
      /\ c.buffer = b.buffer /\ c.queue = b.queue /\ c.idle = b.idle /\ c.free = b.free
      /\ c.arrived = b.arrived /\ c.batch = b.batch /\ c.running = b.running
      /\ c.enqueued = b.enqueued /\ c.started = b.started /\ c.finished = b.finished
      /\ c.x = b.x /\ c.at = b.at
  BY <1>1, FiresFields
<1>3. Kept(c)
  BY <1>1, FiresKept
<1> HIDE DEF c
<1>4. c.kind[w] = "none" /\ c.kind[Arrival] = b.kind[Arrival]
  BY <1>1, <1>2, BookTypes
<1>5. Matches(Popped, c)
  BY <1>2, FiredMatches
<1>6. Awake(c)
  BY <1>2, <1>4, AwakeSame
<1> QED BY <1>2, <1>3, <1>4, <1>5, <1>6 DEF Fields, c

LEMMA FinishesFields ==
  ASSUME NEW c \in Books, NEW f \in Followers, c.running[f] # NoTask
  PROVE  LET e == Finishes(c, f)
         IN  /\ e \in Books
             /\ e.kind = c.kind /\ e.task = c.task
             /\ e.buffer = c.buffer /\ e.queue = c.queue /\ e.idle = c.idle /\ e.free = c.free
             /\ e.arrived = c.arrived /\ e.batch = c.batch /\ e.enqueued = c.enqueued /\ e.started = c.started
             /\ e.running = [c.running EXCEPT ![f] = NoTask] /\ e.finished = c.finished \cup {c.running[f]}
             /\ e.x = c.x /\ e.at = c.at
<1>1. c.running[f] \in Tasks
  BY BookTypes
<1> QED BY <1>1 DEF Finishes, Books

LEMMA LeaderWaitsStep ==
  ASSUME BehInv, NEW l \in Leaders, LeaderWaits(l)
  PROVE  BehInv'
<1>1. l \in Procs /\ Resumes(l, {"init"})
  BY DEF LeaderWaits, Procs
<1>2. PICK b : /\ Kept(b) /\ Awake(b) /\ Matches(S, b) /\ Fields(b) /\ b \in Books
               /\ agenda # <<>> /\ Now.who = l /\ Now.kind \in {"init"} /\ dispatch \in Nat
               /\ b.kind[l] = Now.kind /\ b.task[l] = Now.tid
               /\ Now.kind # "put" => Fired = Popped
  BY <1>1, Resuming
<1> DEFINE c == Fires(b, l)
           r == Get(Popped, "arrival", l)
<1>3. Kept(c) /\ Awake(c) /\ Matches(Popped, c) /\ Fields(c) /\ c.kind[l] = "none"
  BY <1>2, FiresMatches
<1> HIDE DEF c
<1>4. c.batch[l] = <<>>
  <2>1. b.batch[l] = <<>>
    BY <1>2 DEF Kept, Hands
  <2> QED BY <1>2, <1>3, <2>1 DEF Fields
<1>5. Becomes(r) /\ UNCHANGED <<arrived, batch, running, enqueued, started, finished, dispatch>>
  BY <1>2 DEF LeaderWaits
<1> DEFINE d == TriggerOf(Waits(c, l), "arrival")
<1>6. Kept(d) /\ Awake(d) /\ Matches(r, d) /\ Frame(c, d)
  BY <1>3, <1>4, LeaderGets
<1> HIDE DEF d, r
<1> QED BY <1>2, <1>3, <1>5, <1>6, Closes DEF Fields, Frame

LEMMA LeaderDispatchesStep ==
  ASSUME BehInv, NEW l \in Leaders, LeaderDispatches(l)
  PROVE  BehInv'
<1>1. l \in Procs /\ Resumes(l, {"timeout"})
  BY DEF LeaderDispatches, Procs
<1>2. PICK b : /\ Kept(b) /\ Awake(b) /\ Matches(S, b) /\ Fields(b) /\ b \in Books
               /\ agenda # <<>> /\ Now.who = l /\ Now.kind \in {"timeout"} /\ dispatch \in Nat
               /\ b.kind[l] = Now.kind /\ b.task[l] = Now.tid
               /\ Now.kind # "put" => Fired = Popped
  BY <1>1, Resuming
<1> DEFINE c == Fires(b, l)
           q == batch[l]
<1>3. Kept(c) /\ Awake(c) /\ Matches(Popped, c) /\ Fields(c) /\ c.kind[l] = "none"
  BY <1>2, FiresMatches
<1> HIDE DEF c
<1>4. c.batch[l] = q /\ q # <<>>
  <2>1. b.batch[l] # <<>>
    BY <1>2 DEF Kept, Hands
  <2> QED BY <1>2, <1>3, <2>1 DEF Fields
<1>5. PutNext(Popped, l, q) /\ UNCHANGED <<arrived, running, enqueued, started, finished, dispatch>>
  BY <1>2 DEF LeaderDispatches
<1>6. c.batch = batch
  BY <1>3 DEF Fields
<1> HIDE DEF q
<1>7. [c.batch EXCEPT ![l] = Tail(q)] = [batch EXCEPT ![l] = Tail(q)]
  BY <1>6
<1> QED BY <1>2, <1>3, <1>4, <1>5, <1>7, PutNextStep DEF Fields

LEMMA FollowerWaitsStep ==
  ASSUME BehInv, NEW f \in Followers, FollowerWaits(f)
  PROVE  BehInv'
<1>1. f \in Procs /\ Resumes(f, {"init"})
  BY DEF FollowerWaits, Procs
<1>2. PICK b : /\ Kept(b) /\ Awake(b) /\ Matches(S, b) /\ Fields(b) /\ b \in Books
               /\ agenda # <<>> /\ Now.who = f /\ Now.kind \in {"init"} /\ dispatch \in Nat
               /\ b.kind[f] = Now.kind /\ b.task[f] = Now.tid
               /\ Now.kind # "put" => Fired = Popped
  BY <1>1, Resuming
<1> DEFINE c == Fires(b, f)
           r == Get(Popped, "exec", f)
<1>3. Kept(c) /\ Awake(c) /\ Matches(Popped, c) /\ Fields(c) /\ c.kind[f] = "none"
  BY <1>2, FiresMatches
<1> HIDE DEF c
<1>4. c.running[f] = NoTask
  <2>1. b.running[f] = NoTask
    BY <1>2 DEF Kept, Hands
  <2> QED BY <1>2, <1>3, <2>1 DEF Fields
<1>5. Becomes(r) /\ UNCHANGED <<arrived, batch, running, enqueued, started, finished, dispatch>>
  BY <1>2 DEF FollowerWaits
<1> DEFINE d == TriggerOf(Waits(c, f), "exec")
<1>6. Kept(d) /\ Awake(d) /\ Matches(r, d) /\ Frame(c, d)
  BY <1>3, <1>4, FollowerGets
<1> HIDE DEF d, r
<1> QED BY <1>2, <1>3, <1>5, <1>6, Closes DEF Fields, Frame

LEMMA FollowerFinishesStep ==
  ASSUME BehInv, NEW f \in Followers, FollowerFinishes(f)
  PROVE  BehInv'
<1>1. f \in Procs /\ Resumes(f, {"timeout"})
  BY DEF FollowerFinishes, Procs
<1>2. PICK b : /\ Kept(b) /\ Awake(b) /\ Matches(S, b) /\ Fields(b) /\ b \in Books
               /\ agenda # <<>> /\ Now.who = f /\ Now.kind \in {"timeout"} /\ dispatch \in Nat
               /\ b.kind[f] = Now.kind /\ b.task[f] = Now.tid
               /\ Now.kind # "put" => Fired = Popped
  BY <1>1, Resuming
<1> DEFINE c == Fires(b, f)
           e == Finishes(c, f)
           r == Get(Popped, "exec", f)
<1>3. Kept(c) /\ Awake(c) /\ Matches(Popped, c) /\ Fields(c) /\ c.kind[f] = "none"
  BY <1>2, FiresMatches
<1> HIDE DEF c
<1>4. c.running[f] # NoTask /\ c.running[f] = running[f] /\ c \in Books
  <2>1. b.running[f] # NoTask
    BY <1>2 DEF Kept, Hands
  <2> QED BY <1>2, <1>3, <2>1 DEF Fields, Kept
<1>5. /\ Becomes(r) /\ finished' = finished \cup {running[f]} /\ running' = [running EXCEPT ![f] = NoTask]
      /\ UNCHANGED <<arrived, batch, enqueued, started, dispatch>>
  BY <1>2 DEF FollowerFinishes
<1>6. Kept(e)
  BY <1>3, <1>4, FinishesKept
<1>7. /\ e \in Books
      /\ e.kind = c.kind /\ e.task = c.task
      /\ e.buffer = c.buffer /\ e.queue = c.queue /\ e.idle = c.idle /\ e.free = c.free
      /\ e.arrived = c.arrived /\ e.batch = c.batch /\ e.enqueued = c.enqueued /\ e.started = c.started
      /\ e.running = [c.running EXCEPT ![f] = NoTask] /\ e.finished = c.finished \cup {c.running[f]}
      /\ e.x = c.x /\ e.at = c.at
  BY <1>4, FinishesFields
<1> HIDE DEF e
<1>8. Matches(Popped, e) /\ Awake(e) /\ e.kind[f] = "none" /\ e.running[f] = NoTask
  BY <1>3, <1>4, <1>7, BookTypes, AwakeSame DEF Matches, Filed
<1>9. /\ e.arrived = arrived' /\ e.batch = batch' /\ e.running = running'
      /\ e.enqueued = enqueued' /\ e.started = started' /\ e.finished = finished'
  BY <1>3, <1>4, <1>5, <1>7 DEF Fields
<1> DEFINE d == TriggerOf(Waits(e, f), "exec")
<1>10. Kept(d) /\ Awake(d) /\ Matches(r, d) /\ Frame(e, d)
  BY <1>6, <1>8, FollowerGets
<1> HIDE DEF d, r
<1> QED BY <1>2, <1>5, <1>9, <1>10, Closes DEF Frame

LEMMA BegunFields ==
  ASSUME NEW b \in Books, NEW f \in Followers, b.task[f] \in Tasks
  PROVE  LET c == Begun(b, f)
         IN  /\ c \in Books /\ c.kind = [b.kind EXCEPT ![f] = "none"] /\ c.task = b.task
             /\ c.buffer = b.buffer /\ c.queue = b.queue /\ c.idle = b.idle /\ c.free = b.free
             /\ c.arrived = b.arrived /\ c.batch = b.batch
             /\ c.running = [b.running EXCEPT ![f] = b.task[f]]
             /\ c.enqueued = b.enqueued /\ c.started = Append(b.started, b.task[f])
             /\ c.finished = b.finished /\ c.x = b.x /\ c.at = b.at
<1>1. Append(b.started, b.task[f]) \in Seq(Tasks)
  BY BookTypes, AppendProperties
<1> QED BY <1>1 DEF Begun, Books

LEMMA FollowerStartsStep ==
  ASSUME BehInv, NEW f \in Followers, FollowerStarts(f)
  PROVE  BehInv'
<1>1. f \in Procs /\ Resumes(f, {"got"})
  BY DEF FollowerStarts, Procs
<1>2. PICK b : /\ Kept(b) /\ Awake(b) /\ Matches(S, b) /\ Fields(b) /\ b \in Books
               /\ agenda # <<>> /\ Now.who = f /\ Now.kind \in {"got"} /\ dispatch \in Nat
               /\ b.kind[f] = Now.kind /\ b.task[f] = Now.tid
               /\ Now.kind # "put" => Fired = Popped
  BY <1>1, Resuming
<1> DEFINE c == Begun(b, f)
           t == b.task[f]
           r == Get(Popped, "exec", f)
<1>3. Kept(c)
  <2>1. /\ GotExec(Now) => \A g \in Followers \ {Now.who} :
             b.kind[g] = "got" => b.at[Now.tid] < b.at[b.task[g]]
        /\ GotExec(Now) => \A l \in Leaders : b.kind[l] = "put" => b.task[l] # Now.tid
    BY <1>2, EventFires
  <2>2. GotExec(Now)
    BY <1>2 DEF GotExec
  <2>3. /\ \A g \in Followers \ {f} : b.kind[g] = "got" => b.at[b.task[f]] < b.at[b.task[g]]
        /\ \A l \in Leaders : b.kind[l] = "put" => b.task[l] # b.task[f]
    BY <1>2, <2>1, <2>2
  <2> QED BY <1>2, <2>3, BegunKept
<1>4. b.task[f] \in Tasks /\ b.running[f] = NoTask /\ t = Now.tid /\ t # NoTask
  BY <1>2, NoTaskIsNone DEF Kept, Starts, Hands
<1>5. /\ c \in Books /\ c.kind = [b.kind EXCEPT ![f] = "none"] /\ c.task = b.task
      /\ c.buffer = b.buffer /\ c.queue = b.queue /\ c.idle = b.idle /\ c.free = b.free
      /\ c.arrived = b.arrived /\ c.batch = b.batch
      /\ c.running = [b.running EXCEPT ![f] = t]
      /\ c.enqueued = b.enqueued /\ c.started = Append(b.started, t)
      /\ c.finished = b.finished /\ c.x = b.x /\ c.at = b.at
  BY <1>2, <1>4, BegunFields
<1> HIDE DEF c, t
<1>6. /\ c.kind[f] = "none" /\ c.kind[Arrival] = b.kind[Arrival] /\ c.running[f] = t
      /\ f \notin Leaders /\ b.running \in [Followers -> Tasks \cup {NoTask}]
  <2>1. f # Arrival /\ f \notin Leaders /\ Arrival \in Procs
    BY ProcsDiffer DEF Procs
  <2> QED BY <1>1, <1>2, <1>5, <2>1, BookTypes
<1>7. Matches(Popped, c)
  BY <1>2, <1>5, FiredMatches
<1>8. Awake(c)
  BY <1>2, <1>5, <1>6, AwakeSame
<1>9. started' = Append(started, t) /\ UNCHANGED <<arrived, batch, enqueued, dispatch>>
  BY <1>4 DEF FollowerStarts
<1>10. PICK td \in DURATIONS :
         IF td > 0
         THEN /\ Becomes(Timeout(Popped, f, td)) /\ running' = [running EXCEPT ![f] = t]
              /\ UNCHANGED finished
         ELSE finished' = finished \cup {t} /\ Becomes(r) /\ UNCHANGED running
  BY <1>2, <1>4 DEF FollowerStarts
<1>11. CASE td > 0
  <2> DEFINE e == Files(c, f, "timeout", NoTask)
             s == Timeout(Popped, f, td)
  <2>1. td \in Nat
    BY BehavioralAssumption
  <2>2. /\ Kept(e) /\ Matches(s, e) /\ Frame(c, e) /\ e.x = c.x
        /\ e.buffer = c.buffer /\ e.queue = c.queue /\ e.idle = c.idle /\ e.free = c.free
    BY <1>1, <1>3, <1>4, <1>6, <1>7, <1>11, <2>1, TimeoutMatches
  <2>3. e.kind[Arrival] = c.kind[Arrival]
    <3>1. f # Arrival /\ Arrival \in Procs
      BY ProcsDiffer DEF Procs
    <3> QED BY <1>5, <3>1 DEF Files, Books
  <2> HIDE DEF e, s
  <2>4. Awake(e)
    BY <1>8, <2>2, <2>3, AwakeSame DEF Frame
  <2>5. Becomes(s) /\ running' = [running EXCEPT ![f] = t] /\ finished' = finished
    BY <1>10, <1>11 DEF s
  <2> QED BY <1>2, <1>5, <1>9, <2>2, <2>4, <2>5, Closes DEF Fields, Frame
<1>12. CASE ~(td > 0)
  <2> DEFINE e == Finishes(c, f)
  <2>1. Kept(e)
    BY <1>3, <1>4, <1>6, FinishesKept
  <2>2. /\ e \in Books
        /\ e.kind = c.kind /\ e.task = c.task
        /\ e.buffer = c.buffer /\ e.queue = c.queue /\ e.idle = c.idle /\ e.free = c.free
        /\ e.arrived = c.arrived /\ e.batch = c.batch /\ e.enqueued = c.enqueued /\ e.started = c.started
        /\ e.running = [c.running EXCEPT ![f] = NoTask] /\ e.finished = c.finished \cup {c.running[f]}
        /\ e.x = c.x /\ e.at = c.at
    BY <1>4, <1>5, <1>6, FinishesFields
  <2> HIDE DEF e
  <2>3. e.running = b.running
    BY <1>4, <1>5, <1>6, <2>2
  <2>4. Matches(Popped, e) /\ Awake(e) /\ e.kind[f] = "none" /\ e.running[f] = NoTask
    BY <1>4, <1>6, <1>7, <1>8, <2>2, <2>3, AwakeSame DEF Matches, Filed
  <2>5. finished' = finished \cup {t} /\ Becomes(r) /\ running' = running
    BY <1>10, <1>12
  <2>6. /\ e.arrived = arrived' /\ e.batch = batch' /\ e.running = running'
        /\ e.enqueued = enqueued' /\ e.started = started' /\ e.finished = finished'
    BY <1>2, <1>5, <1>6, <1>9, <2>2, <2>3, <2>5 DEF Fields
  <2> DEFINE d == TriggerOf(Waits(e, f), "exec")
  <2>7. Kept(d) /\ Awake(d) /\ Matches(r, d) /\ Frame(e, d)
    BY <2>1, <2>4, FollowerGets
  <2> HIDE DEF d, r
  <2> QED BY <1>2, <1>9, <2>5, <2>6, <2>7, Closes DEF Frame
<1> QED BY <1>11, <1>12

\* As many as there are, but one less than the size of the batch.
Fits(q) == IF Len(q) < BATCH_ENQUEUE THEN Len(q) ELSE BATCH_ENQUEUE - 1

LEMMA ReadyFits ==
  ASSUME NEW q \in Seq(Tasks)
  PROVE  /\ Fits(q) \in UpTo(q)
         /\ Ready(q).taken = SubSeq(q, 1, Fits(q)) /\ Ready(q).left = SubSeq(q, Fits(q) + 1, Len(q))
<1>1. Len(q) \in Nat
  BY LenProperties
<1>2. Fits(q) \in UpTo(q)
  BY <1>1, Positive DEF Fits, UpTo
<1> QED BY <1>2 DEF Ready, Fits

LEMMA LeaderTakesStep ==
  ASSUME BehInv, NEW l \in Leaders, LeaderTakes(l)
  PROVE  BehInv'
<1>1. l \in Procs /\ Resumes(l, {"got"})
  BY DEF LeaderTakes, Procs
<1>2. PICK b : /\ Kept(b) /\ Awake(b) /\ Matches(S, b) /\ Fields(b) /\ b \in Books
               /\ agenda # <<>> /\ Now.who = l /\ Now.kind \in {"got"} /\ dispatch \in Nat
               /\ b.kind[l] = Now.kind /\ b.task[l] = Now.tid
               /\ Now.kind # "put" => Fired = Popped
  BY <1>1, Resuming
<1> DEFINE q == b.buffer
           n == Fits(q)
           c == Takes(b, l, n)
           p == <<b.task[l]>> \o SubSeq(q, 1, n)
           v == SubSeq(q, n + 1, Len(q))
           s == [Popped EXCEPT !.items["arrival"] = v]
<1>3. q \in Seq(Tasks) /\ n \in UpTo(q) /\ Ready(q).taken = SubSeq(q, 1, n) /\ Ready(q).left = v
  BY <1>2, BookTypes, ReadyFits
<1> HIDE DEF n
<1>4. Kept(c) /\ c.batch[l] # <<>> /\ Len(c.buffer) = Len(q) - n
  BY <1>2, <1>3, TakesKept
<1>5. /\ c.kind = [b.kind EXCEPT ![l] = "none"] /\ c.task = b.task
      /\ c.batch = [b.batch EXCEPT ![l] = p]
      /\ c.buffer = v
      /\ c.queue = b.queue /\ c.idle = b.idle /\ c.free = b.free
      /\ c.arrived = b.arrived /\ c.running = b.running
      /\ c.enqueued = b.enqueued /\ c.started = b.started /\ c.finished = b.finished
      /\ c.x = b.x /\ c.at = b.at
  BY <1>2 DEF Takes, Books
<1> HIDE DEF c, v, p
<1>6. /\ c.kind[l] = "none" /\ c.kind[Arrival] = b.kind[Arrival]
      /\ c.batch[l] = p /\ c.batch = [batch EXCEPT ![l] = p]
      /\ l \notin Followers /\ l # Arrival /\ Arrival \in Procs /\ c \in Books
  <2>1. l # Arrival /\ l \notin Followers /\ Arrival \in Procs
    BY ProcsDiffer DEF Procs
  <2>2. b.batch = batch
    BY <1>2 DEF Fields
  <2> QED BY <1>1, <1>2, <1>4, <1>5, <2>1, <2>2, BookTypes DEF Kept
<1>7. Matches(s, c)
  <2>1. Matches([Popped EXCEPT !.items["arrival"] = c.buffer], c)
    BY <1>2, <1>5, <1>6, FiredMatches
  <2> QED BY <1>5, <2>1
<1>8. Awake(c)
  <2>1. c.idle # <<>> => Len(c.buffer) = 0 \/ (Len(c.buffer) = 1 /\ c.kind[Arrival] = "put")
    <3> DEFINE k == Len(c.buffer)
               g == Len(q)
    <3>1. k = g - n /\ n \in 0 .. g /\ g \in Nat
      BY <1>3, <1>4, LenProperties DEF UpTo
    <3>2. c.idle # <<>> => g = 0 \/ (g = 1 /\ c.kind[Arrival] = "put")
      BY <1>2, <1>5, <1>6 DEF Awake
    <3> HIDE DEF k, g
    <3>3. (g = 0 => k = 0) /\ (g = 1 => k = 0 \/ k = 1)
      BY <3>1
    <3> QED BY <3>2, <3>3 DEF k
  <2> QED BY <1>2, <1>5, <2>1 DEF Awake
<1>9. /\ UNCHANGED <<arrived, running, enqueued, started, finished, dispatch>>
      /\ IF dispatch > 0 THEN Becomes(Timeout(s, l, dispatch)) /\ batch' = [batch EXCEPT ![l] = p]
         ELSE PutNext(s, l, p)
  <2>1. Fired.items["arrival"] = q
    BY <1>2 DEF Popped, Matches, S
  <2>2. /\ UNCHANGED <<arrived, running, enqueued, started, finished, dispatch>>
        /\ LET r == Ready(Fired.items["arrival"])
               z == [Fired EXCEPT !.items["arrival"] = r.left]
               w == <<Now.tid>> \o r.taken
           IN  IF dispatch > 0
               THEN Becomes(Timeout(z, l, dispatch)) /\ batch' = [batch EXCEPT ![l] = w]
               ELSE PutNext(z, l, w)
    BY DEF LeaderTakes
  <2> QED BY <1>2, <1>3, <2>1, <2>2 DEF p
<1> HIDE DEF s
<1>10. CASE dispatch > 0
  <2> DEFINE e == Files(c, l, "timeout", NoTask)
             z == Timeout(s, l, dispatch)
  <2>1. /\ Kept(e) /\ Matches(z, e) /\ Frame(c, e) /\ e.x = c.x
        /\ e.buffer = c.buffer /\ e.queue = c.queue /\ e.idle = c.idle /\ e.free = c.free
    <3>1. /\ Kept(c) /\ Matches(s, c) /\ dispatch \in Nat /\ l \in Procs /\ c.kind[l] = "none"
          /\ c.batch[l] # <<>> /\ l \notin Followers
      BY <1>1, <1>2, <1>4, <1>6, <1>7
    <3> QED BY <3>1, TimeoutMatches
  <2>2. e.kind[Arrival] = c.kind[Arrival]
    BY <1>6 DEF Files, Books
  <2> HIDE DEF e, z
  <2>3. Awake(e)
    BY <1>8, <2>1, <2>2, AwakeSame DEF Frame
  <2>4. Becomes(z) /\ batch' = [batch EXCEPT ![l] = p]
    BY <1>9, <1>10 DEF z
  <2>5. /\ e.arrived = arrived' /\ e.batch = batch' /\ e.running = running'
        /\ e.enqueued = enqueued' /\ e.started = started' /\ e.finished = finished'
    BY <1>2, <1>5, <1>6, <1>9, <2>1, <2>4 DEF Fields, Frame
  <2> QED BY <1>2, <1>9, <2>1, <2>3, <2>4, <2>5, Closes
<1>11. CASE ~(dispatch > 0)
  <2>1. PutNext(s, l, p) /\ p # <<>>
    BY <1>4, <1>6, <1>9, <1>11
  <2>2. [c.batch EXCEPT ![l] = Tail(p)] = [batch EXCEPT ![l] = Tail(p)]
    BY <1>6
  <2> QED BY <1>2, <1>4, <1>5, <1>6, <1>7, <1>8, <1>9, <2>1, <2>2, PutNextStep DEF Fields
<1> QED BY <1>10, <1>11

LEMMA RecordedFields ==
  ASSUME NEW b \in Books, NEW l \in Leaders, NEW c, c = Recorded(b, l)
  PROVE  /\ c.kind = [b.kind EXCEPT ![l] = "none"] /\ c.task = b.task
         /\ c.buffer = b.buffer /\ c.queue = b.queue /\ c.idle = b.idle /\ c.free = b.free
         /\ c.arrived = b.arrived /\ c.batch = b.batch /\ c.running = b.running
         /\ c.enqueued = Append(b.enqueued, [tid |-> b.task[l], by |-> l]) /\ c.started = b.started
         /\ c.finished = b.finished /\ c.x = b.x /\ c.at = b.at
BY DEF Recorded, Books

LEMMA LeaderEnqueuesStep ==
  ASSUME BehInv, NEW l \in Leaders, LeaderEnqueues(l)
  PROVE  BehInv'
<1>1. l \in Procs /\ Resumes(l, {"put"}) /\ l # Arrival /\ l \notin Followers /\ Arrival \in Procs
  BY ProcsDiffer DEF LeaderEnqueues, Procs
<1>2. PICK b : /\ Kept(b) /\ Awake(b) /\ Matches(S, b) /\ Fields(b) /\ b \in Books
               /\ agenda # <<>> /\ Now.who = l /\ Now.kind \in {"put"} /\ dispatch \in Nat
               /\ b.kind[l] = Now.kind /\ b.task[l] = Now.tid
               /\ Now.kind # "put" => Fired = Popped
  BY <1>1, Resuming
<1> DEFINE c == Recorded(b, l)
           d == TriggerOf(c, "exec")
           s == TriggerGet(Popped, "exec")
           q == batch[l]
<1>3. Kept(c) /\ Fired = s
  <2>1. /\ PutsExec(Now) => \A m \in Leaders \ {Now.who} :
             b.kind[m] = "put" => b.at[Now.tid] < b.at[b.task[m]]
        /\ Fired = IF Now.kind = "put" THEN TriggerGet(Popped, StoreOfPut) ELSE Popped
    BY <1>2, EventFires
  <2>2. PutsExec(Now) /\ StoreOfPut = "exec"
    BY <1>1, <1>2 DEF PutsExec, StoreOfPut
  <2>3. \A m \in Leaders \ {l} : b.kind[m] = "put" => b.at[b.task[l]] < b.at[b.task[m]]
    BY <1>2, <2>1, <2>2
  <2> QED BY <1>2, <2>1, <2>2, <2>3, RecordedKept
<1>4. /\ c.kind = [b.kind EXCEPT ![l] = "none"] /\ c.task = b.task
      /\ c.buffer = b.buffer /\ c.queue = b.queue /\ c.idle = b.idle /\ c.free = b.free
      /\ c.arrived = b.arrived /\ c.batch = b.batch /\ c.running = b.running
      /\ c.enqueued = Append(b.enqueued, [tid |-> b.task[l], by |-> l]) /\ c.started = b.started
      /\ c.finished = b.finished /\ c.x = b.x /\ c.at = b.at
  BY <1>2, RecordedFields
<1> HIDE DEF c
<1>5. /\ c.kind[l] = "none" /\ c.kind[Arrival] = b.kind[Arrival] /\ c \in Books
      /\ b.kind[Arrival] # "wait"
  BY <1>1, <1>2, <1>3, <1>4, BookTypes DEF Kept, Hands
<1>6. Matches(Popped, c)
  <2>1. /\ c.kind = [b.kind EXCEPT ![Now.who] = "none"] /\ c.task = b.task /\ c.at = b.at
        /\ c.idle = b.idle /\ c.free = b.free /\ c.buffer = b.buffer /\ c.queue = b.queue
    BY <1>2, <1>4
  <2>2. Kept(b) /\ Matches(S, b) /\ agenda # <<>> /\ c \in Books
    BY <1>2, <1>5
  <2> HIDE DEF d, s, q
  <2> QED BY <2>1, <2>2, FiredMatches
<1>7. /\ Kept(d) /\ Matches(s, d) /\ Frame(c, d) /\ Spares(c, d)
      /\ IF c.free = <<>> \/ c.queue = <<>> THEN d.free = c.free /\ d.queue = c.queue
         ELSE d.free = Tail(c.free) /\ d.queue = Tail(c.queue)
      /\ d.buffer = c.buffer /\ d.idle = c.idle /\ d.x = c.x
  BY <1>3, <1>6, TriggerMatches
<1> HIDE DEF d, s
<1>8. d.kind[l] = "none" /\ d.kind[Arrival] = b.kind[Arrival]
  BY <1>1, <1>5, <1>7 DEF Spares
<1>9. d.free # <<>> => Len(d.queue) + Len(d.enqueued) <= Len(d.x)
  <2> DEFINE g == Len(b.queue)
             n == Len(b.enqueued)
             z == Len(b.x)
             k == Len(d.queue)
             m == Len(d.enqueued)
  <2>1. g \in Nat /\ n \in Nat /\ z \in Nat /\ k \in Nat /\ m \in Nat /\ b.queue \in Seq(Tasks)
    BY <1>2, <1>7, BookLengths, BookTypes DEF Kept
  <2>2. m = n + 1 /\ d.x = b.x
    <3> DEFINE e == [tid |-> b.task[l], by |-> l]
    <3>1. b.task[l] \in Tasks /\ b.enqueued \in Seq([tid : Tasks, by : Leaders])
      BY <1>2, BookTypes DEF Kept, Puts
    <3>2. e \in [tid : Tasks, by : Leaders]
      BY <3>1
    <3>3. d.enqueued = Append(b.enqueued, e) /\ d.x = b.x
      BY <1>4, <1>7 DEF Frame
    <3> HIDE DEF e
    <3> QED BY <3>1, <3>2, <3>3, AppendProperties
  <2>3. m <= z
    BY <1>7, <2>2 DEF Kept, Puts
  <2>4. CASE c.queue = <<>>
    <3>1. k = 0
      BY <1>7, <2>4, EmptySeq
    <3> HIDE DEF k, m, z, n, g
    <3>2. k + m <= z
      BY <2>1, <2>3, <3>1
    <3> QED BY <2>2, <3>2 DEF k, m, z
  <2>5. CASE c.queue # <<>> /\ c.free # <<>>
    <3>1. d.queue = Tail(b.queue) /\ b.queue # <<>> /\ g + n <= z
      BY <1>2, <1>4, <1>7, <2>5 DEF Awake
    <3>2. k = g - 1
      BY <2>1, <3>1, HeadAndTail
    <3> HIDE DEF k, m, z, n, g
    <3>3. g + n <= z
      BY <3>1 DEF g, n, z
    <3>4. k + m <= z
      BY <2>1, <2>2, <3>2, <3>3
    <3> QED BY <2>2, <3>4 DEF k, m, z
  <2>6. c.free = <<>> => d.free = <<>>
    BY <1>7
  <2> QED BY <2>4, <2>5, <2>6
<1>10. Awake(d)
  <2>1. d.idle = b.idle /\ d.buffer = b.buffer
    BY <1>4, <1>7
  <2>2. d.idle # <<>> => Len(d.buffer) = 0 \/ (Len(d.buffer) = 1 /\ d.kind[Arrival] = "put")
    BY <1>2, <1>8, <2>1 DEF Awake
  <2> QED BY <1>9, <2>2 DEF Awake
<1>11. /\ d.arrived = b.arrived /\ d.batch = batch /\ d.running = b.running /\ d.started = b.started
       /\ d.finished = b.finished /\ d.enqueued = Append(enqueued, [tid |-> Now.tid, by |-> l]) /\ d.batch[l] = q
  BY <1>2, <1>4, <1>7 DEF Frame, Fields
<1>12. /\ enqueued' = Append(enqueued, [tid |-> Now.tid, by |-> l])
       /\ IF q # <<>> THEN PutNext(s, l, q) ELSE Becomes(Get(s, "arrival", l)) /\ UNCHANGED batch
       /\ UNCHANGED <<arrived, running, started, finished, dispatch>>
  BY <1>3 DEF LeaderEnqueues
<1> HIDE DEF q
<1>13. CASE q # <<>>
  <2>1. PutNext(s, l, q)
    BY <1>12, <1>13
  <2>2. [d.batch EXCEPT ![l] = Tail(q)] = [batch EXCEPT ![l] = Tail(q)]
    BY <1>11
  <2>3. /\ d.arrived = arrived' /\ d.running = running' /\ d.enqueued = enqueued'
        /\ d.started = started' /\ d.finished = finished'
    BY <1>2, <1>11, <1>12 DEF Fields
  <2> QED BY <1>2, <1>7, <1>8, <1>10, <1>11, <1>12, <1>13, <2>1, <2>2, <2>3, PutNextStep
<1>14. CASE q = <<>>
  <2> DEFINE e == TriggerOf(Waits(d, l), "arrival")
             r == Get(s, "arrival", l)
  <2>1. Becomes(r) /\ batch' = batch
    BY <1>12, <1>14
  <2>2. Kept(e) /\ Awake(e) /\ Matches(r, e) /\ Frame(d, e)
    BY <1>7, <1>8, <1>10, <1>11, <1>14, LeaderGets
  <2> HIDE DEF e, r
  <2>3. /\ d.arrived = arrived' /\ d.batch = batch' /\ d.running = running' /\ d.enqueued = enqueued'
        /\ d.started = started' /\ d.finished = finished'
    BY <1>2, <1>11, <1>12, <2>1 DEF Fields
  <2> QED BY <1>2, <1>12, <2>1, <2>2, <2>3, Closes DEF Frame
<1> QED BY <1>13, <1>14

LEMMA BehavioralStep == BehInv /\ [BehNext]_behVars => BehInv'
<1> SUFFICES ASSUME BehInv, [BehNext]_behVars PROVE BehInv'
  OBVIOUS
<1>1. CASE ArrivalRuns
  BY <1>1, ArrivalStep
<1>2. ASSUME NEW l \in Leaders, LeaderWaits(l) PROVE BehInv'
  BY <1>2, LeaderWaitsStep
<1>3. ASSUME NEW l \in Leaders, LeaderTakes(l) PROVE BehInv'
  BY <1>3, LeaderTakesStep
<1>4. ASSUME NEW l \in Leaders, LeaderDispatches(l) PROVE BehInv'
  BY <1>4, LeaderDispatchesStep
<1>5. ASSUME NEW l \in Leaders, LeaderEnqueues(l) PROVE BehInv'
  BY <1>5, LeaderEnqueuesStep
<1>6. ASSUME NEW f \in Followers, FollowerWaits(f) PROVE BehInv'
  BY <1>6, FollowerWaitsStep
<1>7. ASSUME NEW f \in Followers, FollowerStarts(f) PROVE BehInv'
  BY <1>7, FollowerStartsStep
<1>8. ASSUME NEW f \in Followers, FollowerFinishes(f) PROVE BehInv'
  BY <1>8, FollowerFinishesStep
<1>9. CASE UNCHANGED behVars
  <2>1. S' = S /\ dispatch' = dispatch
    BY <1>9 DEF S, behVars, stores
  <2>2. ASSUME NEW b, Matches(S, b), Fields(b) PROVE Matches(S', b) /\ Fields(b)'
    BY <1>9, <2>1, <2>2 DEF Fields, behVars, stores
  <2> HIDE DEF S
  <2> QED BY <2>1, <2>2 DEF BehInv
<1> QED BY <1>1, <1>2, <1>3, <1>4, <1>5, <1>6, <1>7, <1>8, <1>9 DEF BehNext

\* Whatever leaders, followers and arrivals do, in whichever order their
\* events fire, there are books that say for every task where it is.
THEOREM BehavioralInvariant == BehSpec => []BehInv
<1>1. BehInit => BehInv
  BY BehavioralInit
<1>2. BehInv /\ [BehNext]_behVars => BehInv'
  BY BehavioralStep
<1> QED BY <1>1, <1>2, PTL DEF BehSpec

-------------------------------------------------------------------------------
(***************************************************************************)
(* The properties that the runs check.                                     *)
(***************************************************************************)
LEMMA BooksNow ==
  ASSUME BehInv
  PROVE  \E b : /\ Kept(b) /\ Awake(b) /\ b \in Books /\ Filed(agenda, b) /\ agenda \in Seq(Events)
                /\ items.arrival = b.buffer /\ items.exec = b.queue
                /\ getters.arrival = b.idle /\ getters.exec = b.free
                /\ arrived = b.arrived /\ batch = b.batch /\ running = b.running
                /\ enqueued = b.enqueued /\ started = b.started /\ finished = b.finished
<1>1. PICK b : Kept(b) /\ Awake(b) /\ Matches(S, b) /\ Fields(b)
  BY DEF BehInv
<1>2. /\ b \in Books /\ Filed(agenda, b) /\ agenda \in Seq(Events)
      /\ items.arrival = b.buffer /\ items.exec = b.queue
      /\ getters.arrival = b.idle /\ getters.exec = b.free
  BY <1>1 DEF Kept, Matches, S, Stores
<1> QED BY <1>1, <1>2 DEF Fields

\* Followers start the tasks in the order in which they were recorded as
\* enqueued, and never before.
THEOREM BehavioralStartsFollowEnqueues == BehSpec => []StartsFollowEnqueues
<1>1. BehInv => StartsFollowEnqueues
  <2> SUFFICES ASSUME BehInv PROVE StartsFollowEnqueues
    OBVIOUS
  <2>1. PICK b : /\ Kept(b) /\ b \in Books /\ enqueued = b.enqueued /\ started = b.started
    BY BooksNow
  <2> DEFINE e == [i \in DOMAIN enqueued |-> enqueued[i].tid]
             s == Len(started)
             n == Len(enqueued)
             z == Len(b.x)
  <2>2. /\ s \in Nat /\ n \in Nat /\ z \in Nat /\ s <= n /\ n <= z /\ started \in Seq(Tasks)
        /\ \A k \in 1 .. s : started[k] = b.x[k]
        /\ \A k \in 1 .. n : enqueued[k].tid = b.x[k]
    BY <2>1, BookLengths, BookTypes DEF Kept, Starts, Puts, Begins
  <2>3. /\ DOMAIN enqueued = 1 .. n /\ \A k \in 1 .. n : enqueued[k].tid \in Tasks
    <3>1. enqueued \in Seq([tid : Tasks, by : Leaders])
      BY <2>1, BookTypes
    <3>2. \A k \in 1 .. Len(b.enqueued) : b.enqueued[k].tid \in Tasks
      BY <2>1, BookElements
    <3> QED BY <2>1, <3>1, <3>2
  <2>4. e \in Seq(Tasks) /\ Len(e) = n /\ \A k \in 1 .. n : e[k] = b.x[k]
    <3>1. e \in [1 .. n -> Tasks] /\ \A k \in 1 .. n : e[k] = b.x[k]
      BY <2>2, <2>3
    <3> HIDE DEF e, n
    <3> QED BY <2>2, <3>1
  <2> HIDE DEF e, z, n
  <2> DEFINE p == SubSeq(started, 1, s)
             q == SubSeq(e, 1, s)
  <2>5. p \in Seq(Tasks) /\ Len(p) = s /\ \A k \in 1 .. s : p[k] = started[k]
    <3> HIDE DEF s
    <3>1. \A k \in 1 .. s : started[k] \in Tasks
      BY <2>2, ElementOfSeq DEF s
    <3>2. /\ p \in Seq(Tasks) /\ Len(p) = (IF 1 <= s THEN s - 1 + 1 ELSE 0)
          /\ \A k \in 1 .. s - 1 + 1 : p[k] = started[1 + k - 1]
      BY <2>2, <3>1, SubSeqProperties
    <3> HIDE DEF p
    <3> QED BY <2>2, <3>2
  <2>6. q \in Seq(Tasks) /\ Len(q) = s /\ \A k \in 1 .. s : q[k] = e[k]
    <3> HIDE DEF s
    <3>1. \A k \in 1 .. s : e[k] \in Tasks
      BY <2>2, <2>4, ElementOfSeq
    <3>2. /\ q \in Seq(Tasks) /\ Len(q) = (IF 1 <= s THEN s - 1 + 1 ELSE 0)
          /\ \A k \in 1 .. s - 1 + 1 : q[k] = e[1 + k - 1]
      BY <2>2, <3>1, SubSeqProperties
    <3> HIDE DEF q
    <3> QED BY <2>2, <3>2
  <2> HIDE DEF p, q, s
  <2>7. \A k \in 1 .. s : p[k] = q[k]
    BY <2>2, <2>4, <2>5, <2>6
  <2>8. p = q
    BY <2>5, <2>6, <2>7, SeqEqual
  <2> QED BY <2>2, <2>4, <2>8 DEF StartsFollowEnqueues, IsPrefix, e, p, q, s
<1> QED BY <1>1, BehavioralInvariant, PTL

\* Each leader records its tasks in the order of their arrival.
THEOREM BehavioralArrivalOrder == BehSpec => []LeadersKeepArrivalOrder
<1>1. BehInv => LeadersKeepArrivalOrder
  <2> SUFFICES ASSUME BehInv PROVE LeadersKeepArrivalOrder
    OBVIOUS
  <2>1. PICK b : /\ Kept(b) /\ b \in Books /\ enqueued = b.enqueued
    BY BooksNow
  <2>2. DOMAIN enqueued = 1 .. Len(b.enqueued)
    BY <2>1, BookTypes
  <2>3. \A i, j \in 1 .. Len(b.enqueued) :
          i < j /\ b.enqueued[i].by = b.enqueued[j].by => b.enqueued[i].tid < b.enqueued[j].tid
    BY <2>1 DEF Kept, LeaderOrder
  <2> QED BY <2>1, <2>2, <2>3 DEF LeadersKeepArrivalOrder
<1> QED BY <1>1, BehavioralInvariant, PTL

LEMMA Between ==
  ASSUME NEW a \in Nat, NEW c \in Nat
  PROVE  IsFiniteSet(a + 1 .. c) /\ (a <= c => Cardinality(a + 1 .. c) = c - a)
<1> DEFINE m == a + 1
<1>1. m \in Int /\ c \in Int
  OBVIOUS
<1>2. IsFiniteSet(m .. c) /\ Cardinality(m .. c) = IF m > c THEN 0 ELSE c - m + 1
  BY <1>1, FS_Interval, Zenon
<1> DEFINE d == Cardinality(m .. c)
<1>3. d = IF m > c THEN 0 ELSE c - m + 1
  BY <1>2
<1> HIDE DEF d
<1>4. a <= c => d = c - a
  BY <1>3
<1> QED BY <1>2, <1>4 DEF d

\* While a process waits in get(), every item of its store has a put event
\* still to fire that will hand it out.
THEOREM BehavioralNoLostWakeup == BehSpec => []NoLostWakeup
<1>1. BehInv => NoLostWakeup
  <2> SUFFICES ASSUME BehInv PROVE NoLostWakeup
    OBVIOUS
  <2>1. PICK b : /\ Kept(b) /\ Awake(b) /\ b \in Books /\ Filed(agenda, b) /\ agenda \in Seq(Events)
                 /\ items.arrival = b.buffer /\ items.exec = b.queue
                 /\ getters.arrival = b.idle /\ getters.exec = b.free
    BY BooksNow
  <2> DEFINE E(st) == {i \in DOMAIN agenda :
                         agenda[i].kind = "put" /\ (st = "arrival" <=> agenda[i].who = Arrival)}
  <2>2. DOMAIN agenda = 1 .. Len(agenda) /\ Len(agenda) \in Nat
    BY <2>1, LenProperties
  <2>3. ASSUME NEW st PROVE IsFiniteSet(E(st)) /\ Cardinality(E(st)) \in Nat
    <3>1. 0 + 1 .. Len(agenda) = DOMAIN agenda
      BY <2>2
    <3>2. IsFiniteSet(DOMAIN agenda)
      BY <2>2, <3>1, Between
    <3> QED BY <3>2, FS_Subset, FS_CardinalityType
  <2>4. getters.arrival # <<>> => Len(items.arrival) <= Cardinality(E("arrival"))
    <3> SUFFICES ASSUME b.idle # <<>> PROVE Len(b.buffer) <= Cardinality(E("arrival"))
      BY <2>1
    <3>1. CASE Len(b.buffer) = 0
      <4> DEFINE u == Cardinality(E("arrival"))
      <4>1. u \in Nat
        BY <2>3
      <4> HIDE DEF u
      <4>2. 0 <= u
        BY <4>1
      <4> QED BY <3>1, <4>2 DEF u
    <3>2. CASE Len(b.buffer) = 1 /\ b.kind[Arrival] = "put"
      <4>1. PICK i \in 1 .. Len(agenda) : agenda[i].who = Arrival
        BY <2>1, <3>2 DEF Filed, Procs, EventKinds
      <4>2. agenda[i].kind = "put"
        BY <2>1, <3>2, <4>1 DEF Filed
      <4>3. {i} \subseteq E("arrival")
        BY <2>2, <4>1, <4>2
      <4> HIDE DEF E
      <4>4. Cardinality({i}) <= Cardinality(E("arrival")) /\ Cardinality({i}) = 1
        BY <2>3, <4>3, FS_Subset, FS_Singleton
      <4> QED BY <3>2, <4>4
    <3> QED BY <2>1, <3>1, <3>2 DEF Awake
  <2>5. getters.exec # <<>> => Len(items.exec) <= Cardinality(E("exec"))
    <3> SUFFICES ASSUME b.free # <<>> PROVE Len(b.queue) <= Cardinality(E("exec"))
      BY <2>1
    <3> DEFINE g == Len(b.queue)
               n == Len(b.enqueued)
               z == Len(b.x)
               K == n + 1 .. z
               T == E("exec")
               h == [k \in K |-> CHOOSE i \in T : agenda[i].tid = b.x[k]]
    <3>1. g \in Nat /\ n \in Nat /\ z \in Nat /\ g + n <= z
      BY <2>1, BookLengths DEF Awake
    <3>2. ASSUME NEW k \in K PROVE \E i \in T : agenda[i].tid = b.x[k]
      <4>1. PICK l \in Leaders : b.kind[l] = "put" /\ b.task[l] = b.x[k]
        BY <2>1 DEF Kept, Puts
      <4>2. PICK i \in 1 .. Len(agenda) : agenda[i].who = l
        BY <2>1, <4>1 DEF Filed, Procs, EventKinds
      <4>3. agenda[i].kind = "put" /\ agenda[i].tid = b.x[k] /\ l # Arrival
        BY <2>1, <4>1, <4>2, ProcsDiffer DEF Filed
      <4> QED BY <2>2, <4>2, <4>3
    <3> HIDE DEF T
    <3>3. h \in [K -> T] /\ \A k \in K : agenda[h[k]].tid = b.x[k]
      BY <3>2
    <3> HIDE DEF h
    <3>4. ASSUME NEW i \in K, NEW j \in K, h[i] = h[j] PROVE i = j
      <4>1. b.x[i] = b.x[j]
        BY <3>3, <3>4
      <4>2. i \in 1 .. z /\ j \in 1 .. z
        <5> HIDE DEF n, z
        <5> QED BY <3>1
      <4> QED BY <2>1, <4>1, <4>2 DEF Kept, Numbered
    <3>5. IsFiniteSet(T) /\ Cardinality(T) \in Nat
      BY <2>3 DEF T
    <3> HIDE DEF g, n, z
    <3>6. n <= z /\ IsFiniteSet(K) /\ Cardinality(K) = z - n
      BY <3>1, Between
    <3> HIDE DEF K
    <3>7. ~(Cardinality(T) < Cardinality(K))
      BY <3>3, <3>4, <3>5, <3>6, FS_PigeonHole
    <3>8. g <= Cardinality(T)
      <4> DEFINE u == Cardinality(T)
                 w == Cardinality(K)
      <4>1. u \in Nat /\ w = z - n /\ ~(u < w)
        BY <3>5, <3>6, <3>7
      <4> HIDE DEF u, w
      <4>2. g <= u
        BY <3>1, <4>1
      <4> QED BY <4>2 DEF u
    <3> QED BY <3>8 DEF g, T
  <2> HIDE DEF E
  <2>6. \A st \in {"arrival", "exec"} : getters[st] # <<>> => Len(items[st]) <= Cardinality(E(st))
    BY <2>4, <2>5
  <2> QED BY <2>6 DEF NoLostWakeup, E
<1> QED BY <1>1, BehavioralInvariant, PTL

\* When the loop ends, every task was recorded as enqueued and started.
THEOREM BehavioralTotals == BehSpec => []TotalsAtExit
<1>1. BehInv => TotalsAtExit
  <2> SUFFICES ASSUME BehInv, Cardinality(finished) = NUM_TASKS
               PROVE  Len(enqueued) = NUM_TASKS /\ Len(started) = NUM_TASKS
    BY DEF TotalsAtExit
  <2>1. PICK b : /\ Kept(b) /\ b \in Books
                 /\ enqueued = b.enqueued /\ started = b.started /\ finished = b.finished
    BY BooksNow
  <2> DEFINE s == Len(started)
             n == Len(enqueued)
             z == Len(b.x)
  <2>2. /\ s \in Nat /\ n \in Nat /\ z \in Nat /\ s <= n /\ n <= z
        /\ b.at \in [Tasks -> Nat] /\ finished \subseteq Tasks
        /\ \A k \in 1 .. z : b.at[b.x[k]] = k /\ b.x[k] \in Tasks
        /\ \A t \in Tasks : b.at[t] # 0 => b.x[b.at[t]] = t
        /\ \A t \in finished : b.at[t] \in 1 .. s
    BY <2>1, BookLengths, BookTypes, BookElements DEF Kept, Starts, Puts, Numbered, Executes
  <2> HIDE DEF s, n, z
  <2>3. /\ \A k \in Nat : IsFiniteSet(1 .. k) /\ Cardinality(1 .. k) = k
    <3> SUFFICES ASSUME NEW k \in Nat PROVE IsFiniteSet(1 .. k) /\ Cardinality(1 .. k) = k
      OBVIOUS
    <3>1. IsFiniteSet(0 + 1 .. k) /\ Cardinality(0 + 1 .. k) = k - 0
      BY Between
    <3> QED BY <3>1
  <2>4. IsFiniteSet(Tasks) /\ Cardinality(Tasks) = NUM_TASKS /\ NUM_TASKS \in Nat
    BY <2>3, Positive DEF Tasks
  <2>5. finished = Tasks
    BY <2>2, <2>4, FS_Subset
  <2>6. ~(z > NUM_TASKS)
    <3> SUFFICES ASSUME z > NUM_TASKS PROVE FALSE
      OBVIOUS
    <3> DEFINE h == [k \in 1 .. z |-> b.x[k]]
    <3>1. h \in [1 .. z -> Tasks]
      BY <2>2
    <3>2. IsFiniteSet(1 .. z) /\ Cardinality(Tasks) < Cardinality(1 .. z)
      BY <2>2, <2>3, <2>4
    <3>3. PICK i, j \in 1 .. z : i # j /\ h[i] = h[j]
      <4> HIDE DEF h
      <4> QED BY <2>4, <3>1, <3>2, FS_PigeonHole
    <3> QED BY <2>2, <3>3
  <2>7. ~(s < NUM_TASKS)
    <3> SUFFICES ASSUME s < NUM_TASKS PROVE FALSE
      OBVIOUS
    <3>1. b.at \in [Tasks -> 1 .. s]
      BY <2>2, <2>5
    <3>2. IsFiniteSet(1 .. s) /\ Cardinality(1 .. s) < Cardinality(Tasks)
      BY <2>2, <2>3, <2>4
    <3> DEFINE a == b.at
    <3>3. PICK t, u \in Tasks : t # u /\ a[t] = a[u]
      <4>1. a \in [Tasks -> 1 .. s]
        BY <3>1
      <4> HIDE DEF a
      <4> QED BY <2>4, <3>2, <4>1, FS_PigeonHole
    <3>4. a[t] # 0 /\ a[u] # 0
      BY <2>2, <3>1
    <3> QED BY <2>2, <3>3, <3>4
  <2> QED BY <2>2, <2>4, <2>6, <2>7 DEF s, n
<1> QED BY <1>1, BehavioralInvariant, PTL

LEMMA AtMostOne ==
  ASSUME NEW X, \A u, v \in X : u = v
  PROVE  Cardinality(X) = IF X = {} THEN 0 ELSE 1
<1>1. CASE X = {}
  BY <1>1, FS_EmptySet
<1>2. CASE X # {}
  <2>1. PICK x : X = {x}
    BY <1>2
  <2> QED BY <1>2, <2>1, FS_Singleton
<1> QED BY <1>1, <1>2

\* The six places, for one task.
InBuffer(b, t) == t > Taken(b)
WithLeader(b, t) == \E l \in Leaders : b.kind[l] = "got" /\ b.task[l] = t
InBatch(b, t) == \E l \in Leaders : \E i \in 1 .. Len(b.batch[l]) : b.batch[l][i] = t
InQueue(b, t) == b.at[t] > Len(b.x) - Len(b.queue)
WithFollower(b, t) == \E f \in Followers : b.kind[f] = "got" /\ b.task[f] = t
Executing(b, t) == \E f \in Followers : b.running[f] = t

One(p) == IF p THEN 1 ELSE 0

LEMMA CountBuffer ==
  ASSUME NEW b, Kept(b), NEW t \in Tasks, t <= b.arrived
  PROVE  Count(b.buffer, t) = One(InBuffer(b, t))
<1> DEFINE q == b.buffer
           g == Len(q)
           h == Taken(b)
           X == {i \in DOMAIN q : q[i] = t}
<1>1. /\ g \in Nat /\ h \in Nat /\ t \in Nat /\ b.arrived \in Nat /\ h = b.arrived - g
      /\ DOMAIN q = 1 .. g /\ \A i \in 1 .. g : q[i] = h + i
  <2>1. b \in Books /\ Buffered(b) /\ q \in Seq(Tasks) /\ g \in Nat /\ b.arrived \in 0 .. NUM_TASKS
    BY BookTypes, BookLengths DEF Kept
  <2>2. g <= b.arrived /\ \A i \in 1 .. g : q[i] = h + i
    BY <2>1 DEF Buffered
  <2>3. DOMAIN q = 1 .. g /\ b.arrived \in Nat /\ t \in Nat
    BY <2>1, TaskNumbers, Positive
  <2>4. h = b.arrived - g
    BY DEF Taken
  <2> DEFINE a == b.arrived
  <2>5. g <= a /\ a \in Nat /\ h = a - g
    BY <2>2, <2>3, <2>4
  <2> HIDE DEF h, a, g
  <2>6. h \in Nat
    BY <2>1, <2>5
  <2> QED BY <2>1, <2>2, <2>3, <2>4, <2>6
<1> DEFINE a == b.arrived
<1> HIDE DEF h, g, q
<1>2. \A i \in X : i \in 1 .. g /\ t = h + i
  BY <1>1
<1>3. \A u, v \in X : u = v
  <2> HIDE DEF X
  <2> QED BY <1>1, <1>2
<1>4. Cardinality(X) = IF X = {} THEN 0 ELSE 1
  BY <1>3, AtMostOne
<1>5. ASSUME t > h PROVE X # {}
  <2> DEFINE i == t - h
  <2>1. i \in 1 .. g /\ h + i = t
    <3>1. t <= a /\ a \in Nat /\ h = a - g /\ t \in Nat /\ h \in Nat /\ g \in Nat
      BY <1>1
    <3> HIDE DEF a
    <3> QED BY <1>5, <3>1
  <2> HIDE DEF i
  <2>2. i \in X
    BY <1>1, <2>1
  <2> QED BY <2>2
<1>6. ASSUME ~(t > h) PROVE X = {}
  <2> HIDE DEF X
  <2>1. \A i \in X : FALSE
    BY <1>1, <1>2, <1>6
  <2> QED BY <2>1
<1> QED BY <1>4, <1>5, <1>6 DEF Count, One, InBuffer, q, h

LEMMA CountQueue ==
  ASSUME NEW b, Kept(b), NEW t \in Tasks
  PROVE  Count(b.queue, t) = One(InQueue(b, t))
<1> DEFINE q == b.queue
           g == Len(q)
           z == Len(b.x)
           a == b.at[t]
           X == {i \in DOMAIN q : q[i] = t}
<1>1. /\ g \in Nat /\ z \in Nat /\ a \in Nat /\ g <= z
      /\ DOMAIN q = 1 .. g /\ \A i \in 1 .. g : q[i] = b.x[z - g + i]
      /\ \A k \in 1 .. z : b.at[b.x[k]] = k
      /\ a # 0 => a \in 1 .. z /\ b.x[a] = t
  <2>1. b \in Books /\ Starts(b) /\ Numbered(b) /\ q \in Seq(Tasks) /\ g \in Nat /\ z \in Nat /\ a \in Nat
    BY BookTypes, BookLengths DEF Kept
  <2> DEFINE s == Len(b.started)
  <2>2. s \in Nat /\ s + g <= z
    BY <2>1, BookLengths DEF Starts
  <2>3. DOMAIN q = 1 .. g /\ \A i \in 1 .. g : q[i] = b.x[z - g + i]
    <3>1. DOMAIN q = 1 .. g
      BY <2>1
    <3>2. Ends(q, b.x)
      BY <2>1 DEF Starts
    <3> QED BY <3>1, <3>2 DEF Ends
  <2>4. (\A k \in 1 .. z : b.at[b.x[k]] = k) /\ (a # 0 => a \in 1 .. z /\ b.x[a] = t)
    BY <2>1 DEF Numbered
  <2> HIDE DEF s, g, z, a, q
  <2>5. g <= z
    BY <2>1, <2>2
  <2> QED BY <2>1, <2>3, <2>4, <2>5
<1> HIDE DEF g, z, q, a
<1>2. \A i \in X : i \in 1 .. g /\ a = z - g + i
  <2> SUFFICES ASSUME NEW i \in X PROVE i \in 1 .. g /\ a = z - g + i
    OBVIOUS
  <2>1. i \in 1 .. g /\ q[i] = t
    BY <1>1
  <2>2. z - g + i \in 1 .. z
    BY <1>1, <2>1
  <2> QED BY <1>1, <2>1, <2>2 DEF a
<1>3. \A u, v \in X : u = v
  <2> HIDE DEF X
  <2> QED BY <1>1, <1>2
<1>4. Cardinality(X) = IF X = {} THEN 0 ELSE 1
  BY <1>3, AtMostOne
<1>5. ASSUME a > z - g PROVE X # {}
  <2> DEFINE i == a - (z - g)
  <2>1. i \in 1 .. g /\ z - g + i = a
    BY <1>1, <1>5
  <2> HIDE DEF i
  <2>2. a # 0
    BY <1>1, <1>5
  <2>3. i \in X
    BY <1>1, <2>1, <2>2
  <2> QED BY <2>3
<1>6. ASSUME ~(a > z - g) PROVE X = {}
  <2> HIDE DEF X
  <2>1. \A i \in X : FALSE
    BY <1>1, <1>2, <1>6
  <2> QED BY <2>1
<1> QED BY <1>4, <1>5, <1>6 DEF Count, One, InQueue, q, g, z, a

\* Of the agenda, one event at most hands out the task.
LEMMA CountHanded ==
  ASSUME NEW b, Kept(b), agenda \in Seq(Events), Filed(agenda, b), NEW t \in Tasks
  PROVE  Handed(t) = One(WithLeader(b, t) \/ WithFollower(b, t))
<1> DEFINE X == {i \in DOMAIN agenda : agenda[i].kind = "got" /\ agenda[i].tid = t}
<1>1. DOMAIN agenda = 1 .. Len(agenda) /\ Len(agenda) \in Nat /\ b \in Books
  BY LenProperties DEF Kept
<1>2. ASSUME NEW i \in X
      PROVE  /\ i \in 1 .. Len(agenda) /\ b.kind[agenda[i].who] = "got" /\ b.task[agenda[i].who] = t
             /\ agenda[i].who \in Leaders \/ agenda[i].who \in Followers
  <2>1. i \in 1 .. Len(agenda) /\ agenda[i].kind = "got" /\ agenda[i].tid = t /\ agenda[i] \in Events
    BY <1>1, ElementOfSeq
  <2>2. b.kind[agenda[i].who] = "got" /\ b.task[agenda[i].who] = t /\ agenda[i].who \in Procs
    BY <2>1 DEF Filed, Events
  <2>3. agenda[i].who # Arrival
    BY <2>2 DEF Kept, Hands
  <2> QED BY <2>1, <2>2, <2>3 DEF Procs
<1>3. ASSUME NEW i \in X, NEW j \in X, i < j PROVE FALSE
  <2>1. agenda[i].who # agenda[j].who /\ InOrder(agenda[i], agenda[j], b.at)
    BY <1>2, <1>3 DEF Filed, AgendaOK
  <2> DEFINE u == agenda[i].who
             v == agenda[j].who
  <2>2. CASE u \in Followers /\ v \in Followers
    <3>1. b.at[t] < b.at[t]
      BY <2>1, <2>2 DEF InOrder, GotExec
    <3>2. b.at[t] \in Nat
      BY <1>1, BookTypes
    <3> QED BY <3>1, <3>2
  <2>3. CASE u \in Leaders /\ v \in Leaders
    BY <1>2, <2>1, <2>3 DEF Kept, WithLeaders
  <2>4. ASSUME NEW l \in Leaders, NEW f \in Followers, b.kind[l] = "got", b.task[l] = t,
               b.kind[f] = "got", b.task[f] = t
        PROVE  FALSE
    <3>1. b.at[t] = 0
      BY <2>4 DEF Kept, WithLeaders
    <3> DEFINE s == Len(b.started)
    <3>2. b.at[t] > s /\ s \in Nat
      BY <1>1, <2>4, BookLengths DEF Kept, Starts
    <3> HIDE DEF s
    <3> QED BY <3>1, <3>2
  <2> QED BY <1>2, <2>2, <2>3, <2>4
<1>4. \A u, v \in X : u = v
  <2> SUFFICES ASSUME NEW u \in X, NEW v \in X PROVE u = v
    OBVIOUS
  <2>1. u \in Nat /\ v \in Nat
    BY <1>1
  <2>2. u < v \/ v < u \/ u = v
    BY <2>1
  <2> HIDE DEF X
  <2> QED BY <1>3, <2>2
<1>5. Cardinality(X) = IF X = {} THEN 0 ELSE 1
  BY <1>4, AtMostOne
<1>6. ASSUME NEW w \in Leaders \cup Followers, b.kind[w] = "got", b.task[w] = t PROVE X # {}
  <2>1. PICK i \in 1 .. Len(agenda) : agenda[i].who = w
    BY <1>6 DEF Filed, Procs, EventKinds
  <2>2. agenda[i].kind = "got" /\ agenda[i].tid = t
    BY <1>6, <2>1 DEF Filed
  <2> QED BY <1>1, <2>1, <2>2
<1>7. (WithLeader(b, t) \/ WithFollower(b, t)) <=> X # {}
  <2>1. WithLeader(b, t) \/ WithFollower(b, t) => X # {}
    <3> HIDE DEF X
    <3> QED BY <1>6 DEF WithLeader, WithFollower
  <2>2. X # {} => WithLeader(b, t) \/ WithFollower(b, t)
    <3> HIDE DEF X
    <3> QED BY <1>2 DEF WithLeader, WithFollower
  <2> QED BY <2>1, <2>2
<1> QED BY <1>5, <1>7 DEF Handed, One

LEMMA CountBatches ==
  ASSUME NEW b, Kept(b), NEW t \in Tasks
  PROVE  Cardinality({l \in Leaders : Count(b.batch[l], t) = 1}) = One(InBatch(b, t))
<1> DEFINE X == {l \in Leaders : Count(b.batch[l], t) = 1}
<1>1. b \in Books /\ WithLeaders(b) /\ \A l \in Leaders : b.batch[l] \in Seq(Tasks)
  BY BookTypes DEF Kept
<1>2. ASSUME NEW l \in Leaders
      PROVE  Count(b.batch[l], t) = 1 <=> \E i \in 1 .. Len(b.batch[l]) : b.batch[l][i] = t
  <2> DEFINE q == b.batch[l]
             g == Len(q)
             Y == {i \in DOMAIN q : q[i] = t}
  <2>1. g \in Nat /\ DOMAIN q = 1 .. g
    BY <1>1, LenProperties
  <2>2. \A i, j \in 1 .. g : i < j => q[i] < q[j]
    BY <1>1 DEF WithLeaders
  <2> HIDE DEF g, q
  <2>3. \A u, v \in Y : u = v
    <3> SUFFICES ASSUME NEW u \in Y, NEW v \in Y, u < v PROVE FALSE
      BY <2>1
    <3>1. q[u] < q[v] /\ q[u] = t /\ q[v] = t
      BY <2>1, <2>2
    <3>2. t \in Nat
      BY TaskNumbers
    <3> QED BY <3>1, <3>2
  <2>4. Cardinality(Y) = IF Y = {} THEN 0 ELSE 1
    BY <2>3, AtMostOne
  <2> QED BY <2>1, <2>4 DEF Count, q, g
<1>3. \A u, v \in X : u = v
  <2> SUFFICES ASSUME NEW u \in X, NEW v \in X PROVE u = v
    OBVIOUS
  <2>1. PICK i \in 1 .. Len(b.batch[u]) : b.batch[u][i] = t
    BY <1>2
  <2>2. PICK j \in 1 .. Len(b.batch[v]) : b.batch[v][j] = t
    BY <1>2
  <2> QED BY <1>1, <2>1, <2>2 DEF WithLeaders
<1>4. Cardinality(X) = IF X = {} THEN 0 ELSE 1
  BY <1>3, AtMostOne
<1>5. X # {} <=> InBatch(b, t)
  BY <1>2 DEF InBatch
<1> QED BY <1>4, <1>5 DEF One

LEMMA CountExecuting ==
  ASSUME NEW b, Kept(b), NEW t \in Tasks
  PROVE  Cardinality({f \in Followers : b.running[f] = t}) = One(Executing(b, t))
<1> DEFINE X == {f \in Followers : b.running[f] = t}
<1>1. \A u, v \in X : u = v
  BY NoTaskIsNone DEF Kept, Executes
<1>2. Cardinality(X) = IF X = {} THEN 0 ELSE 1
  BY <1>1, AtMostOne
<1>3. X # {} <=> Executing(b, t)
  BY DEF Executing
<1> QED BY <1>2, <1>3 DEF One

LEMMA CountFinished ==
  ASSUME NEW F, NEW t
  PROVE  Cardinality({t} \cap F) = One(t \in F)
<1>1. Cardinality({t} \cap F) = IF {t} \cap F = {} THEN 0 ELSE 1
  BY AtMostOne
<1> QED BY <1>1 DEF One

\* A task of the books is in exactly one of these places.
LEMMA OnePlace ==
  ASSUME NEW b, Kept(b), NEW t \in Tasks, t <= b.arrived
  PROVE  One(InBuffer(b, t)) + One(InQueue(b, t)) + One(WithLeader(b, t) \/ WithFollower(b, t))
           + One(InBatch(b, t)) + One(Executing(b, t)) + One(t \in b.finished) = 1
<1> DEFINE a == b.at[t]
           s == Len(b.started)
           g == Len(b.queue)
           z == Len(b.x)
           h == Taken(b)
<1>1. /\ b \in Books /\ a \in Nat /\ s \in Nat /\ g \in Nat /\ z \in Nat /\ s + g <= z
      /\ WithLeaders(b) /\ Starts(b) /\ Executes(b) /\ Numbered(b)
  BY BookTypes, BookLengths DEF Kept, Starts
<1>2. WithLeader(b, t) => t \in 1 .. h /\ a = 0 /\ ~InBatch(b, t)
  BY <1>1 DEF WithLeader, InBatch, WithLeaders
<1>3. InBatch(b, t) => t \in 1 .. h /\ a = 0
  BY <1>1 DEF InBatch, WithLeaders
<1>4. a # 0 => t <= h /\ a \in 1 .. z /\ b.x[a] = t
  BY <1>1 DEF WithLeaders, Numbered
<1>5. t \in 1 .. h /\ a = 0 => WithLeader(b, t) \/ InBatch(b, t)
  BY <1>1 DEF WithLeader, InBatch, WithLeaders
<1>6. WithFollower(b, t) => a > s /\ a <= z - g
  BY <1>1 DEF WithFollower, Starts
<1>7. a \in s + 1 .. z - g => WithFollower(b, t)
  <2> SUFFICES ASSUME a \in s + 1 .. z - g PROVE WithFollower(b, t)
    OBVIOUS
  <2>1. PICK f \in Followers : b.kind[f] = "got" /\ b.task[f] = b.x[a]
    BY <1>1 DEF Starts
  <2>2. a # 0
    <3> HIDE DEF a, s, z, g
    <3> QED BY <1>1
  <2> QED BY <1>4, <2>1, <2>2 DEF WithFollower
<1>8. Executing(b, t) => a \in 1 .. s /\ t \notin b.finished
  BY <1>1, NoTaskIsNone DEF Executing, Executes
<1>9. t \in b.finished => a \in 1 .. s
  BY <1>1 DEF Executes
<1>10. a \in 1 .. s => t \in b.finished \/ Executing(b, t)
  <2> SUFFICES ASSUME a \in 1 .. s PROVE t \in b.finished \/ Executing(b, t)
    OBVIOUS
  <2>1. b.x[a] \in b.finished \/ \E f \in Followers : b.running[f] = b.x[a]
    BY <1>1 DEF Executes
  <2>2. a # 0
    <3> HIDE DEF a, s
    <3> QED BY <1>1
  <2> QED BY <1>4, <2>1, <2>2 DEF Executing
<1>11. t \in Nat /\ t >= 1 /\ h \in Nat
  <2>1. b.arrived \in Nat /\ g \in Nat /\ Len(b.buffer) \in Nat /\ Len(b.buffer) <= b.arrived
    BY <1>1, BookTypes, BookLengths, Positive DEF Kept, Buffered
  <2> DEFINE u == b.arrived
             v == Len(b.buffer)
  <2>2. u \in Nat /\ v \in Nat /\ v <= u /\ h = u - v
    BY <2>1 DEF Taken
  <2> HIDE DEF u, v, h
  <2> QED BY <2>2, TaskNumbers
<1> DEFINE pB == InBuffer(b, t)
           pQ == InQueue(b, t)
           pL == WithLeader(b, t)
           pF == WithFollower(b, t)
           pS == InBatch(b, t)
           pE == Executing(b, t)
           pD == t \in b.finished
<1>12. (pB <=> t > h) /\ (pQ <=> a > z - g)
  BY DEF InBuffer, InQueue
<1> HIDE DEF a, s, g, z, h, pB, pQ, pL, pF, pS, pE, pD
<1>13. CASE t > h
  <2>1. a = 0 /\ pB /\ ~pL /\ ~pS
    BY <1>2, <1>3, <1>4, <1>11, <1>12, <1>13 DEF pL, pS
  <2>2. ~pQ /\ ~pF /\ ~pE /\ ~pD
    BY <1>1, <1>6, <1>8, <1>9, <1>12, <2>1 DEF pF, pE, pD
  <2> QED BY <2>1, <2>2 DEF One, pB, pQ, pL, pF, pS, pE, pD
<1>14. CASE ~(t > h) /\ a = 0
  <2>1. ~pB /\ (pL \/ pS) /\ ~(pL /\ pS)
    BY <1>2, <1>5, <1>11, <1>12, <1>14 DEF pL, pS
  <2>2. ~pQ /\ ~pF /\ ~pE /\ ~pD
    BY <1>1, <1>6, <1>8, <1>9, <1>12, <1>14 DEF pF, pE, pD
  <2> QED BY <2>1, <2>2 DEF One, pB, pQ, pL, pF, pS, pE, pD
<1>15. CASE ~(t > h) /\ a # 0
  <2>1. ~pB /\ ~pL /\ ~pS /\ a \in 1 .. z
    BY <1>2, <1>3, <1>4, <1>12, <1>15 DEF pL, pS
  <2>2. CASE a <= s
    <3>1. ~pQ /\ ~pF /\ (pE \/ pD) /\ ~(pE /\ pD)
      BY <1>1, <1>6, <1>8, <1>10, <1>12, <2>1, <2>2 DEF pF, pE, pD
    <3> QED BY <2>1, <3>1 DEF One, pB, pQ, pL, pF, pS, pE, pD
  <2>3. CASE a > s /\ a <= z - g
    <3>1. ~pQ /\ pF /\ ~pE /\ ~pD
      BY <1>1, <1>7, <1>8, <1>9, <1>12, <2>1, <2>3 DEF pF, pE, pD
    <3> QED BY <2>1, <3>1 DEF One, pB, pQ, pL, pF, pS, pE, pD
  <2>4. CASE a > z - g
    <3>1. pQ /\ ~pF /\ ~pE /\ ~pD
      BY <1>1, <1>6, <1>8, <1>9, <1>12, <2>1, <2>4 DEF pF, pE, pD
    <3> QED BY <2>1, <3>1 DEF One, pB, pQ, pL, pF, pS, pE, pD
  <2> QED BY <1>1, <2>1, <2>2, <2>3, <2>4
<1> QED BY <1>13, <1>14, <1>15

\* Every task that arrived is in exactly one place: a store, on its way to
\* the process it was handed to, a batch, a follower, or finished.
THEOREM BehavioralTaskInOnePlace == BehSpec => []TaskInOnePlace
<1>1. BehInv => TaskInOnePlace
  <2> SUFFICES ASSUME BehInv, NEW t \in 1 .. arrived
      PROVE  Count(items.arrival, t) + Count(items.exec, t) + Handed(t)
               + Cardinality({l \in Leaders : Count(batch[l], t) = 1})
               + Cardinality({f \in Followers : running[f] = t})
               + Cardinality({t} \cap finished) = 1
    BY DEF TaskInOnePlace
  <2>1. PICK b : /\ Kept(b) /\ b \in Books /\ Filed(agenda, b) /\ agenda \in Seq(Events)
                 /\ items.arrival = b.buffer /\ items.exec = b.queue /\ arrived = b.arrived
                 /\ batch = b.batch /\ running = b.running /\ finished = b.finished
    BY BooksNow
  <2>2. t \in Tasks /\ t <= b.arrived
    BY <2>1, BookTypes, Positive DEF Tasks
  <2>3. /\ Count(items.arrival, t) = One(InBuffer(b, t))
        /\ Count(items.exec, t) = One(InQueue(b, t))
        /\ Handed(t) = One(WithLeader(b, t) \/ WithFollower(b, t))
        /\ Cardinality({l \in Leaders : Count(batch[l], t) = 1}) = One(InBatch(b, t))
        /\ Cardinality({f \in Followers : running[f] = t}) = One(Executing(b, t))
        /\ Cardinality({t} \cap finished) = One(t \in b.finished)
    BY <2>1, <2>2, CountBuffer, CountQueue, CountHanded, CountBatches, CountExecuting, CountFinished
  <2>4. One(InBuffer(b, t)) + One(InQueue(b, t)) + One(WithLeader(b, t) \/ WithFollower(b, t))
          + One(InBatch(b, t)) + One(Executing(b, t)) + One(t \in b.finished) = 1
    BY <2>1, <2>2, OnePlace
  <2> QED BY <2>3, <2>4
<1> QED BY <1>1, BehavioralInvariant, PTL

===============================================================================
