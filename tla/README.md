# TLA+ specifications of the HammerBlade task queue co-simulation

This directory holds a verification development of the repository: a hardware
task queue (SystemVerilog, simulated with Verilator), a harness that tests it
directly, an MMIO co-simulation in which a C host program drives it through a
memory-mapped file, a trace oracle, and a behavioral model with its ablation
runner in Python. The modules are translated from the code, TLC checks them on
small instances, and TLAPS proves the main results for every value of the
constants.

Paths below are relative to the repository's root.

## 1. The system

| Component | Files | State | Operations | Talks to |
|---|---|---|---|---|
| Queue core | `hw/rtl/hb_task_queue_core.sv` (copy in `sw/sw_hw/rtl`) | `mem`, `head`, `tail`, `count` | one clock edge: reset, push, pop, both, neither | driven by a harness through the testbench wrapper |
| Testbench wrapper | `hw/testbenches/tb_task_queue.v` | none | wires the harness ports to the core (`host_mode`), and the core's outputs to distributor and arbiter | core, distributor, arbiter |
| Distributor | `hw/rtl/hb_task_distributor.sv` | one-entry buffer, an input register | one clock edge | reads the core's outputs, drives nothing that is used |
| Arbiter | `hw/rtl/hb_arbiter_banked.sv` | a round-robin bit, the grant | one clock edge | likewise |
| Generated simulator | `hw/obj_dir`, `sw/sw_hw/obj_dir` (`Vtb_task_queue*.cpp`, `.h`) | the registers of all three, request wires, stored outputs, the last `clk` | `eval()`; two of them make a `tick()` | called by both harnesses |
| HW-only harness | `hw/verilator_main.cpp` | deque `sw`, `metrics`, `cycles` | `host_try_push`, `host_try_pop`, two tests with drains | core (clocks it itself) |
| MMIO bridge | `sw/sw_hw/verilator_main.cpp` | loop locals `ctrl`, `data_in`, `ack`, `new_ack` | open, truncate and clear the region; the polling loop: accept or refuse a push, a pop; idle tick; STATUS | region, core |
| MMIO driver | `sw/src/task_queue_mmio.c` | call locals `ctrl`, `ack`, `waited` | `mmio_init`, `mmio_push`, `mmio_pop`, `mmio_is_full`, `mmio_is_valid` | region |
| Host test | `sw/tests/test_task_queue_host.c` | ring buffer `swbuf`, `mismatches`, counters | search for the region, deterministic pushes and pops, random operations, drain, TB_DONE | driver, region files |
| Golden oracle | `sw/fifo_model.py` | a deque, counters | replay of `trace.csv` | file written by the host test |
| Behavioral model | `model/behavioral.py` | two simpy stores, metrics, module globals | arrival, leader, follower, sampler processes; `run_sim` | - |
| Ablation runner | `model/run_ablation.py` | rows, JSON files, CSV | experiments x seeds | behavioral model (import or subprocess) |

Not part of the system's own logic: `json.hpp` (vendored, unused), the trace
and symbol-table files of `obj_dir`, `plot_results.py`, logs, VCD files, plots.

What is hard:

* **Two processes and a file.** Host and bridge share six registers with no
  lock and no atomic update. `CTRL |= bit` and `ACK &= ~bit` are a load and a
  later store in each of them, so requests and answers can be erased,
  repeated, or taken by the wrong call.
* **Timeouts.** A driver call gives up after so many polls and cancels
  nothing.
* **The region outlives both processes.** It is found by relative path, twice,
  along two different lists; it may hold what an earlier session left, or be
  half created.
* **When `data_out` is read.** It is combinational on `head`; one clock edge
  decides which task it shows.
* **The compiler.** The register accesses are plain `memcpy`, so a build may
  reorder them, and the checked-in one does.
* **Nonblocking assignments and widths** in the RTL, and **the order in which
  the generated simulator evaluates them**: its clocked part runs from wires
  an earlier evaluation computed.
* **Three clocked modules side by side** that share the queue's outputs but
  advance at different rates.
* **simpy's order of events**: leaders take tasks out of a store behind the
  back of other leaders that wait for them.
* **Globals** that carry a configuration from one experiment into the next,
  and runs that fail between two of them.
* **The test programs' own bookkeeping**: golden queues that must start where
  the hardware is, drains that must end.

What makes each component correct: the core is a FIFO of DEPTH words (nothing
lost, repeated or reordered, refusals only when full or empty), and so is what
Verilator made of it; the distributor offers words that are, or just were, at
the head, and grants alternate; the HW-only harness never disagrees with a
correct core and ends; in the co-simulation only issued words enter the queue,
return values are true, what a pop returns is what was popped, the caller's
view of the queue is the queue, and both processes end; nothing stored by an
earlier session has an effect; the oracle accepts exactly the traces of a
FIFO; the behavioral model loses and doubles no task and ends; the rows of an
experiment are comparable and the result files agree.

## 2. Modules

| Module | Models |
|---|---|
| `TaskWords` | the constants `Data`, `ZERO`: a task is a word that is only stored, moved and compared |
| `TaskFifo` | the abstract specification: a bounded FIFO (no source of its own) |
| `HbTaskQueueCore` | the core; one step is one rising clock edge |
| `TbTaskQueue` (extends the core) | wrapper, core, distributor and arbiter on one clock |
| `VerilatedTb` (instantiates `TbTaskQueue`) | the generated `eval()` and `tick()`; one step is one evaluation |
| `HwHarness` (extends the core) | `hw/verilator_main.cpp`; one step is one call or tick |
| `MmioRegion` | the shared registers |
| `MmioBridge` (extends region and core) | the loop of `sw/sw_hw/verilator_main.cpp`; one step is one load or store of the region |
| `MmioDriver` (extends region) | `mmio_push`, `mmio_pop`; one step is one load or store |
| `HostTest` (extends driver) | `main` of the host test |
| `MmioCosim` (extends bridge and host test) | the two processes together, with history variables and all properties of the co-simulation |
| `MmioStartup` | region files, start-up, search, TB_DONE, killed bridges; one step is one system call or access |
| `GoldenOracle` | `sw/fifo_model.py`; one step is one line of the trace |
| `Behavioral` | `model/behavioral.py`; one step is one event |
| `Ablation` | `model/run_ablation.py`; one step is one run |
| `...Proofs` | theorems about the module of that name; `CoreUsersProofs`: those about `TbTaskQueue` and `HwHarness` (section 5) |
| `MC...` | constants for TLC |

Definitions introduced by a comment that starts with `Fault:` are deliberately
wrong versions of the definition that follows them. No specification uses
them; substituted for the right one, each makes a property fail, which shows
that the property is able to.

### How state and actions correspond to the code

**Core.** `mem`, `head`, `tail`, `count` are the RTL registers; `full`,
`valid_out`, `data_out` the output wires. `PushEdge`, `PopEdge`, `PushPopEdge`
and `Reset` are the branches of the `always_ff` block; an edge without an
accepted request changes nothing. `PTR_SPAN` is `2 ** $clog2(DEPTH)`. Two
history variables, `tasks` (accepted, undelivered) and `delivered` (what
`data_out` showed when the last pop was accepted), exist only to be compared
with `TaskFifo`. An index beyond the array reads 0 and writes nothing, as in
the Verilator build; it matters only when `DEPTH` is not a power of two.
`CoreNext` is the environment the wrapper and both harnesses form: one request
per edge. `FreeCoreNext` also lets both requests be high, which the ports
admit and no harness does.

**Testbench.** `ClockEdge` is one edge with reset low: `CoreEdge` for the
levels `always_comb` passes on in `host_mode`, `DistributorEdge` with its
`in_data_reg` and the consumer that is always ready, `ArbiterEdge` with `rr`
and the grant (banks 1 and 2, 0 for none; `served_bank` is the same value).
All three read the outputs of before the edge. `steady`, `popped`, `granted`
and `runBank` are history.

**Generated simulator.** `pc` says where the harness is: `boot` (the first
`eval`, which settles the outputs first), `fall` and `rise` (the two
evaluations of `tick()`), `ports` (the harness sets the ports). `Eval` is
`_eval`: `Sequent` (`_sequent__TOP__2`) when `clk` rose since `clklast`, then
`Combo` (`_combo__TOP__4`). `full`, `valid_out` and `data_out` are stored
values; `push_req`, `data_in` and `pop_req` the wires of the evaluation
before. The `__Vdly` copies are what primed and unprimed variables are.
`DEPTH` is a power of two here, so the generated masks are moduli. The FIFO it
is compared with has `Waiting`, read off the registers, in the place of a
history variable.

**HW-only harness.** One thread that clocks the core itself, so a call of
`host_try_push`/`host_try_pop` with the caller's bookkeeping is one step.
`rand()` is nondeterminism. `metrics` is the C++ struct without `sim_cycles`.

**Region, bridge, driver.** A flag register is the set of its flags. Each
private program counter (`bpc`, `hpc`) names the next access to the region;
private computation, clock edges of the bridge's own core included, is merged
with the access next to it. The bridge keeps its loop-top copies `bctrl`,
`bdata`, `back`; clearing a request stores `bctrl` minus a bit. Three points
follow the build where the source leaves it open:

* `PushStores` is the set of store orders of `mmio_push`: `ProgramOrder` as
  written, `RequestFirst` as in the checked-in `sw/test_task_queue_host`.
* `RefusePush` may base the new ACK on a fresh load (source) or on the
  loop-top copy (checked-in bridge).
* The simulated memory starts cleared (Verilator's default).

A poll with its `sleep_ms` is one step; `TIMEOUT` is the number of polls. On
x86 a store may be delayed past the polling load that follows it. This only
delays the request as a slow host would, so it is not modelled separately.

**Host test.** `swbuf` is the ring buffer as a sequence. The printed counters
are left out; `mismatches`, which decides the exit status, is kept.

**Co-simulation.** History variables: `issued`, `outcome`, `ledger`, `clean`
(described in the module). `ledger` is also what the Python oracle's deque
would hold, since the host writes to `trace.csv` exactly the calls that
returned 0. A run is *clean* until a call times out or a call loads CTRL
between the bridge's store of ACK and its store of CTRL.

**Start-up.** There is a region file per directory, reduced to whether it
exists, whether it has its length (`sized`), and whether a request and a
TB_DONE in it are none, from before the bridge started (`old`) or since
(`new`). `BridgeOpen`, `Truncate` and `Memset` are the bridge's start,
`Serve` and `BridgeExit` its loop; `Kill` may strike between any two.
`InitCandidates` (with the search roots) and `DoneCandidates` are the two
lists of the host, resolved against the directory it was started in; a path
that does not lead to an existing file is skipped by `TryPath` and `TryDone`
in a step of its own. `--mmio` or `MMIO_PATH` may put any directory first.
`found` is history: how the host came to the serving bridge's file, by a path it
was given or by the search.
What requests and answers say is `MmioCosim`'s subject.

**Oracle.** The state is the deque, the count of mismatches and the lines read
so far. A malformed line has no effect and is left to stuttering.

**Behavioral model.** `agenda` is simpy's event queue in firing order, with
the time each event still waits; `Fired` removes its first event, and the
process that waited for it runs to its next `yield`. The operations of the
stores (`Put`, `Get`, handing an item to the longest waiting getter) are
simpy's, which is not in the repository, and are marked external. `enqueued`
and `started` are the calls of `record_enqueued` and `record_start_exec` in
their order. Dispatch times, interarrival times and durations are drawn from
small sets that contain 0, so that events coincide.

**Ablation runner.** `globals` are the tunables of the imported module;
`RunDirect` stores the experiment's config into them and works with the
result, `RunFallback` is a subprocess with the defaults and both modes,
`RunFails` ends the script. `Record` writes a JSON file and appends a row,
`EndExperiment` writes the rows to the CSV. A run's result is stood for by the
parameters it worked with. `Invoke` starts the script again on the old files.

## 3. Runs

| Run | Instance | Shows |
|---|---|---|
| `core_ring` | DEPTH 4, 3 words, any initial memory | `RingInv`, `ImplementsFifo`; `TbInv`, `OneBankPerRun`, `OffersHeadOrDelivered`, `GrantsAlternate` |
| `verilated_tick` | DEPTH 2, 2 words | `TickIsEdge`: a `tick()` is one edge; `VtTypeOK`: outputs and wires are fresh; `ImplementsFifo` |
| `hw_harness` | DEPTH 4, the script's shape, 7 random operations | `HwInv` (deque = hardware, no mismatch), `MetricsBalance`, `HwTermination` |
| `cosim_all` | DEPTH 2, 2 words, 2 deterministic pushes, 1 pop, 1 random operation, 2 polls | what holds in all runs: `CosimTypeOK`, `NoFabricatedPush`, `PushesServedAtMostOnce`, `CosimTermination` |
| `cosim_clean` | DEPTH 4, 3 words, 3 deterministic pushes, 1 pop, 5 random operations, 2 polls, clean states only | `CleanLedger`, `CleanOutcome`, `CleanSwbufIsSuffix`, `CleanPopReturnsNext`, `StatusLagsOneCall` |
| `startup` | every pair of directories, files of earlier sessions anywhere, any `--mmio`, 1 call, 1 kill | `IgnoresOldSession`, `FaultOnlyOnNewFile`, `HostStopsBridge` |
| `oracle_verdict` | every trace of 6 lines over 2 words | `OracleInv`, `VerdictIsReference` |
| `behavioral` | 7 tasks, 2 leaders, 2 followers, batches of 3 | `TaskInOnePlace`, `NoLostWakeup`, `StartsFollowEnqueues`, `LeadersKeepArrivalOrder`, `TotalsAtExit`, `AllTasksFinish` |
| `ablation` | 3 experiments, 2 seeds, 2 invocations | `RunsComparable`, `CsvHoldsWholeExperiments`, `FilesAgreeWhenFinished` |
| `core_both` | DEPTH 2, both requests on one edge | a violation: section 4 |
| `cosim_popped`, `cosim_lost` | as `cosim_all`; `cosim_lost` with 3 polls | a violation each: section 4 |

**Bounds.** DEPTH 2 and 4 against 16: what matters is that the queue is empty,
partly full, full, and that both pointers wrap, all of which the runs reach;
the theorems of section 5 cover every depth, and any number of tasks,
leaders, followers, experiments and seeds. Two or three words suffice
because words are only compared and neighbouring tasks must be able to differ.
`TIMEOUT` 2 or 3 replaces 100 or 1000 polls: a timeout with the request at any
stage is reached with each. `OPS` replaces 10000: `cosim_all` has four calls,
enough for a late answer, the call that takes it and the drain; `cosim_clean`
has nine, enough to overfill four slots and wrap. `cosim_clean` uses the state
constraint `OnlyClean`: `clean` never becomes true again, and the run's
properties speak of clean states only, so no state they speak of is lost. In
`startup` one kill is enough to leave a file behind at every stage of the
bridge's start, and one call to store a request in it. In `oracle_verdict` six
lines hold two pushes and pops, a wrong one, and the shift that follows it. In
`behavioral` seven tasks over batches of three leave both a full and a partial
batch for each of two leaders, with followers waiting and working. In
`ablation` one experiment sets nothing and two more set one parameter twice and
two others once.

**Fairness.** `HwSpec` and `FairBehSpec`: one thread that never blocks
(`env.step()` fires the next event). `FairCosimSpec` and `FairStartupSpec`:
weak fairness of each of the two processes, which a preemptive scheduler
gives. Neither the host's poll (bounded by the timeout) nor the bridge's loop
waits for anything else. Nobody has to kill the bridge: `Kill` is not fair.
Runs whose programs exit have `CHECK_DEADLOCK FALSE`: the co-simulation,
`hw_harness`, `startup`, `oracle_verdict`, `behavioral` and `ablation`. In the
others an edge is always possible.

## 4. Where the code disagrees with what it says

The violation runs:

* **The core loses a task** on an edge with both requests (`core_both`). No
  harness of the repository raises both.
* **Pop returns the next word** (`cosim_popped`). The bridge samples
  `data_out` after the edge that moved `head`. `bug_report.md` supposes that it
  samples too early and reads previous values; `CleanPopReturnsNext` shows it
  is the following task that is read. The log agrees: in `sw/logs/run.log`
  each word "got" is the word "expected" by the next line.
* **Requests are lost** (`cosim_lost`) when a call falls between the bridge's
  stores of ACK and CTRL; the two `push timeout` lines of `run.log` are such
  calls.

Other disagreements, visible in the premise of a passing property or by changing
a constant:

* **Depths that are not powers of two.** With `DEPTH = 3` (and `PTR_SPAN = 4`)
  in `MCCore_ring.cfg`, `ImplementsFifo` fails: a word is pushed to an index
  beyond the array.
* **The build stores the request before the word.** With
  `PushStores <- AsBuilt` in `MCCosim_all.cfg`, `NoFabricatedPush` fails.
* **Requests are repeated.** The bridge clears a pop by storing its loop-top copy
  of CTRL without that bit (`sw/sw_hw/verilator_main.cpp:190`). If the copy held
  a push too, the push comes back and the same word enters the queue twice.
  `PushesServedAtMostOnce` is what is left: it takes a pop.
* **A late answer is taken by the next call.** A call that timed out leaves its
  request (`task_queue_mmio.c:103`), and the answer may arrive while the next
  call polls; that one returns 0, "success", although nobody has looked at its
  request. `CleanOutcome` is about clean runs for this reason.
* **The golden queue of the host test starts empty while the hardware does
  not.** `CleanSwbufIsSuffix` says exactly how the two are related: `swbuf`
  lacks the oldest words. While it lags by one word the late-sampling bridge
  returns just what `swbuf` expects, so the two faults hide each other.
* **The distributor distributes nothing.** `README.md:164` says it "handles
  distribution of tasks". Nothing pops the core when it takes a word, so it
  offers the same head again and again; the first word after an idle period is
  the register's stale content. `OffersHeadOrDelivered` is what is left to
  say within a busy period.
* **The oracle compares with a FIFO without capacity**, not with "exact LIFO
  ordering" and overflow checks (`README.md:180`): `VerdictIsReference`.
* **TB_DONE may go elsewhere.** The host's list for the signal is not the list of
  its search. From `sw/sw_hw/obj_dir`, a working directory the search's comment
  names (`test_task_queue_host.c:84`), it finds a bridge in `sw/sw_hw` but has no
  path to signal it by; and given a path by `--mmio` or `MMIO_PATH` (`:115`), it
  signals the first file of its list all the same, perhaps an old one. The bridge
  then never exits. Without its premise `SignalPath`, or with `found # "no"` in
  the place of `found = "search"`, `HostStopsBridge` fails in just these ways.
* **The exec queue is unbounded** in the behavioral model
  (`behavioral.py:134`), so its leaders never block.
* **Experiments inherit parameters** from those before them, where the comment at
  `model/run_ablation.py:52` says the defaults are used: `run_sim` stores them in
  globals it never resets. `RunsComparable` is what is left: all rows of one
  experiment that have values have the same ones.
* **A fallback run leaves an empty row.** No configuration reaches the
  subprocess, although `model/run_ablation.py:116` speaks of a config file, and its
  results are named "software" and "hardware" where "sw" and "hw" are looked for
  (`:125`, `:185`). So the seeds of an experiment are not comparable when one of
  them fell back; `RunsComparable` is about the others.

## 5. Proofs

All depths are powers of two: `ASSUME PowerOfTwoDepth` (`PTR_SPAN = DEPTH`)
where a module has both constants. Beyond that only the named assumptions of
the modules and, where said, one on `PushStores` or `SWDEPTH` are used.

**Core** (`HbTaskQueueCoreProofs`). `CoreKeepsRingInv`, `CoreImplementsFifo`.
The refinement needs to know that the slot a push writes holds no waiting task
and that `head` is the oldest one. `PointersAgree` (tail is `count` slots after
head, modulo the end) and `ContentsAgree` (slot by slot, the memory is
`tasks`) say so and are inductive together with the ranges. `NextPtrWraps`
turns the modular increment into a case distinction once.

**Testbench** (`CoreUsersProofs`). `TbKeepsTbInv`, `TbOffersHeadOrDelivered`,
`TbKeepsOneBankPerRun`, `TbGrantsAlternate`. What is offered depends on the
edge before, so the invariant says what `in_data_reg` holds (`CaptureIsHead`:
the head, or, when that edge popped, the task delivered), that the arbiter's
turn follows from the bank granted last (`TurnAgrees`), and that buffer and
grant keep step within a busy period (`OneBankPerRun`).

**Generated simulator** (`VerilatedTbProofs`). `VtKeepsTypeOK`, `VtTickIsEdge`,
`VtImplementsFifo`. The invariant `VtInv` joins the ring of registers, the
stored outputs, ports with at most one request, and `Phase`: when `clk` is
about to rise it was seen low and the wires are the ports'. `Waiting` is a
function of the registers, so `WaitingPush` and `WaitingPop` show that one
more slot, or a moved head, is `Append` and `Tail`.

**HW-only harness** (`CoreUsersProofs`). That no comparison fails is not
inductive; it is with `OracleInSync` (`sw = tasks`) and `RingInv`
(`HwKeepsHwInv`). `HwReportsNoMismatch` and `HwMetricsBalance` follow from it.
The harness only takes steps of `CoreNext`, so the step lemmas of the core are
cited as they are, and that the core stays a FIFO under it needs no theorem.

**Co-simulation, all runs** (`MmioCosimProofs`). `CosimInv` joins the
type invariant, `RingInv`, the shape of a call in progress (`CallShape`) and
`StatusFresh` (at the top of its loop the bridge has just stored the flags);
`CosimKeepsTypeOK` takes the types and `RingInv` from it.
`CosimNoFabricatedPush` assumes `PushStores = {ProgramOrder}` and adds
`IssuedInv`: once a push bit is in CTRL or in a copy of it that will be stored
again, on either side, `DATA_IN` and its copy have been issued.
`CosimPushesAtMostOnce` makes no such assumption. It counts: a call begun is
still to be stored (`Unsent`), or in CTRL (`Unserved`), or its word is in the
queue, and between service and clearing whatever CTRL holds will be erased
(`OnlyPushes`).

**Co-simulation, clean runs** (last part of `MmioCosimProofs`, with
`PushStores = {ProgramOrder}`). Ledger,
return values and what a pop returns are facts about one handshake, which is
not inductive by itself: `Handshake` lists the joint phases of the two program
counters (no request anywhere: `Quiet`; requested: `Requested`; what the bridge
has done and not yet said: `Effect`; what ACK says: `Verdict`), and
`CleanInv` is that as long as the run is clean. `CosimCleanLedger`,
`CosimCleanOutcome`, `CosimPopReturnsNext` follow. `CosimSwbufIsSuffix` adds
`SwbufInv` and the assumption `SWDEPTH >= DEPTH`. `CosimStatusLagsOneCall` adds
`StatusLag`: from the moment the bridge has served
a call until its next STATUS, the flags are those of before the call, and
otherwise they are right.

**Start-up** (`MmioStartupProofs`). `StartupIgnoresOldSession`: while the
bridge serves, nothing older than it is in its file (`ServesNew`), since only
the memset leads to serving and hosts store only new values.
`StartupFaultOnlyOnNewFile`: only the bridge makes files (`EmptyIsBorn`), and a
mapped file stays (`MapsAFile`).

**Oracle** (`GoldenOracleProofs`). `OracleKeepsInv`: mismatches are counted
exactly when the lines so far are not a trace of a FIFO, with the deque
determined by those lines; `OracleVerdict` is that at the end of the file, for
traces of any length.

**Behavioral model** (`BehavioralProofs`). For any number of tasks, leaders and
followers, any batch size and all times: `BehavioralTaskInOnePlace`,
`BehavioralStartsFollowEnqueues`, `BehavioralArrivalOrder`,
`BehavioralNoLostWakeup`, `BehavioralTotals`. None of the properties is
inductive: a store changes when `put` or `get` is called, but a task is recorded
as enqueued or started, and a process learns of its task, only when an event
fires later, and a leader takes the rest of its batch out of the buffer without
an event. What keeps the records in step is the order of the agenda. The
invariant `BehInv` says that there are books beside the agenda: for each
process the event it waits for and its task, and `x`, the tasks in the order in
which they were put into `exec_queue`, with its inverse `at`.

* `Filed` ties the agenda to the books: it is sorted by time, holds one event
  per process that waits for one, the puts into and the gets from `exec_queue`
  stand in the order of `x`, and the put of a task stands before its get.
* `Kept` speaks of the books alone: what a process holds fits what it waits for
  (`Hands`, `Getters`); the arrival buffer is the tail of the arrivals
  (`Buffered`), and every task before it is with one leader or in `x`
  (`WithLeaders`, `Numbered`); `x` is what is recorded as enqueued and then what
  puts will record (`Puts`); it is also what was started, what is on its way to
  a follower, and the queue (`Starts`); what was started runs or is finished
  (`Executes`); a leader's tasks are ordered along their way (`LeaderOrder`).
* `Awake`: a process waits beside a full store only for items whose put events
  will wake it.

A step is proved in two halves: what it does to the books, where the agenda does
not occur (the lemmas `...Kept`), and that the agenda follows (`...Matches`); one
lemma per action (`...Step`) joins them. The counts of
`NoLostWakeup` and `TotalsAtExit` follow by the pigeonhole principle.

**Ablation runner** (`AblationProofs`). For every list of experiments, any
number of seeds and invocations, and whichever runs fail:
`AblationRunsComparable`, `AblationCsvWhole`, `AblationFilesAgree`. The globals of the imported module are never reset; the
invariant says what they hold (`GlobalsInherited`): for each parameter what the
last experiment up to the current one stored, or the default. From it the rows
of one experiment agree, those in the CSV from earlier invocations included
(`RowsOfExperiment`, `CsvInherited`). The CSV is a sequence of whole
blocks (`Blocks`); an experiment is in it at most once per invocation that
passed it (`Copies`), and the last row of each run done agrees with its file
(`FilesAgree`).

Only model-checked: `HwTermination`, `CosimTermination`, `HostStopsBridge` and
`AllTasksFinish`. They are liveness properties under fairness, which is outside
the prover's reach. Every other property of the runs that pass is a theorem.
`BehInv` itself asks for the existence of books, which TLC cannot enumerate: it
is proved, and TLC checks the five properties that follow from it.

## 6. Not modelled, and why

* `json.hpp` (two copies, 51052 of about 53457 counted lines): a third-party
  library that no program of the repository includes. It alone keeps the
  share of mapped lines small.
* Trace, VCD and symbol-table code of `obj_dir`: writes signals out, holds no
  state of the design.
* `plot_results.py`, logs, JSON and CSV formats, printed counters: no state
  that any other part reads.
* `mmio_is_full` and `mmio_is_valid`: no caller. The register they load,
  STATUS, is modelled: `StatusLagsOneCall` says what they would return.
* Samplers, timestamps, quantiles and the time cap of `behavioral.py`: they
  read the model and change nothing in it; the cap is what `AllTasksFinish`
  shows is not needed.
* YAML loading and `--dry` of `run_ablation.py`: they choose the experiments,
  which are a constant here.
* Malformed lines in `fifo_model.py`: reported, not counted, and without effect
  on the deque.
