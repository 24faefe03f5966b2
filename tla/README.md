# asupersync ANSI C: verification project

TLA+ models of the asupersync ANSI C runtime (`src/`), TLC configurations that check
them on small instances, and theorems about them that TLAPS checks for every value of
their constants.

`PROJECT.json` holds the machine-readable side: which definition models which lines
(`map`), the runs, the mutants that show that each property can fail, the hazards, the
findings and the theorems.

## 1. The system

The runtime implements structured concurrency in portable C. Everything lives in static
arenas; the program is single-threaded and drives it by calls. A *region* owns *tasks*
and *obligations*. A task is a poll callback the scheduler calls until it returns OK or
an error; it may return "pending", and it may call any operation of the runtime before
it returns, so what a concurrent program does with threads happens here by re-entry: the
scheduler's loop reads arenas that its own callbacks change. Cancellation is
cooperative, with a bounded number of cleanup polls after which the task is completed by
force. A region closes only when no task is left and no obligation is reserved.

### 1.1 Components

| component | state | operations | interaction |
|---|---|---|---|
| Lifecycle (`runtime/lifecycle.c`) | region, task and obligation arenas and their counts | open, close, poison a region; spawn (plain, captured); reserve, commit, abort | the arenas every other part of the kernel reads and writes |
| Transition tables (`core/transition_tables.c`) | constant | "is this edge legal" | consulted by close, commit and abort; for tasks only by the ghost monitors |
| Cancellation (`runtime/cancellation.c`, `core/cancel.c`) | cancel fields of a task | cancel, cancel with an origin, propagate to a region, checkpoint, finalize | called by programs and callbacks, by fault containment and by the drain |
| Scheduler (`runtime/scheduler.c`) | locals of a run in progress | `asx_scheduler_run` | polls callbacks; completes tasks; contains faults |
| Quiescence (`runtime/quiescence.c`) | locals of a drain in progress | `asx_region_drain` | cancels, runs the scheduler, closes the region |
| Budget (`core/budget.c`) | a budget value | consume a poll, cost; meet of two budgets | carried by a run |
| Cleanup stack (`core/cleanup.c`) | a stack of 32 callbacks | push, pop, drain | held by a region, drained when it closes; nothing pushes on it |
| MPSC channel (`channel/mpsc.c`) | ring buffers, permit tokens, end states | create, close an end, reserve, send, abort, receive | called by tasks; independent of the scheduler |
| Timer wheel (`time/timer_wheel.c`) | timer slots, free list, insertion sequence | register, cancel, collect, update, advance | the program wakes tasks with what it collects |
| Parallel lanes (`runtime/parallel.c`) | lanes of task slots, fairness counters | assign, remove, run | a second scheduler over the task arena |
| Lock-free queue, seqlock, epochs (`mpsc_lockfree_spike.c`, `seqlock_ebr_spike.c`) | cells with sequence numbers, versions, epochs | enqueue, dequeue; read, write; enter, leave, defer, advance | experiments, built single-threaded |
| Resource admission (`runtime/resource.c`) | none of its own | capacity queries, admission | reads the arenas |
| Ghost monitors (`core/ghost.c`) | violation ring, linearity and borrow tables, determinism record | record, check, borrow, release, seal | observe the kernel's operations |
| Error ledger, affinity (`core/status.c`, `core/affinity.c`) | a ring per task slot; owners of entities | record, bind; bind, check, transfer, unbind | called by the macros of every component |
| Trace, telemetry, replay (`runtime/trace.c`, `telemetry.c`) | event ring, reference, exported file | emit, verify, export, import, continuity | observe the kernel's operations |
| Hooks and hindsight (`runtime/hooks.c`, `hindsight.c`) | function table, fault windows, call counts, ring of readings | install, seal, inject, allocate, clock, entropy; log, flush | every reading of the hooks is logged |
| Virtual time (`runtime/virtual_time.c`) | clock, anomalies, stall | reading, reset, jitter, stall, jump | a hook for tests |
| Codecs (`runtime/hooks.c`, `equivalence.c`) | none of their own | encode, decode, compare | fixtures written and read back by tools |
| Adaptive decisions (`core/adaptive.c`) | policy, ring of decisions | decide, set policy | called by programs |
| Overload catalogue, adapters, instruments (`overload_catalog.c`, `adapter.c`, `vertical_adapter.c`, `hft_instrument.c`, `automotive_instrument.c`) | histograms, deadlines, watchdog, audit ring, the router's streak | record, evaluate, decide, reset | an adapter decides by load, and by what the instruments counted |
| Reload, regression, breaker (`config_reload.c`, `regression_localize.c`) | active configuration; nothing; state and counts | load, reload; localize; success, failure, tick | tools beside the kernel |
| Profile compatibility, platform, other spikes | tables | compare; system calls; benchmarks | not modelled |

### 1.2 What is hard about it

* **Re-entry.** A callback may spawn, cancel, close, poison, reserve, and run or drain a
  region, its own included, in the middle of the scan of `asx_scheduler_run`, which keeps
  an index, an active count and a pointer to the region slot across the callback.
* **Redundant state.** `task_count` repeats what the task arena says; `cancel_pending`,
  `cancel_phase` and the task state repeat one another; `reserved` repeats the permit
  tokens. The decisions "quiescent", "closed" and "disconnected" rest on the copies.
* **Reuse.** Region slots are recycled under a 16-bit generation while tasks, obligations
  and frames on the stack still name the old region.
* **Order of signals.** Cancels of different severity come directly, with an origin, by
  propagation and from a fault, before or after checkpoints, polls and finalizes.
* **Retries.** A drain that ran out of budget or met open obligations is called again, on
  a region that is half closed.
* **Bounded progress.** Tasks need not cooperate; budgets may be small; callbacks spawn.
* **Two-phase sends.** A permit outlives the ends of its channel, and a reset.

* **Rings and wraps.** Tokens, positions, epochs and generations wrap; traces, ledgers and audit
  rings fill up or overwrite; tables of borrows, timers and owners reuse their entries.
* **Rounding.** Shares of a budget, percentages of a load and ranks of a percentile are integer
  divisions.
* **Memory shared with other threads.** The seqlock and the epochs are written for readers that
  run at the same time, one access to memory at a time.
* **Damaged bytes.** Traces and fixtures are read back from files that may be cut or altered.

`PROJECT.json` lists each hazard at its line with the properties that cover it.

### 1.3 What makes each component correct

* Lifecycle: `task_count` is exact; a poisoned region gains nothing; captured states do
  not overlap; a closed region owes and owns nothing.
* Cancellation: a signal is never lost or weakened; cleanup polls only shrink; a completed
  task never changes its outcome; the redundant fields agree.
* Scheduler and drain: success is reported only when it is true; a call returns; cleanup
  is bounded; a fault stays in its region.
* Channel: capacity is kept; a permit is good exactly once; messages come out in order; the
  receiver learns that the senders are gone.
* Timers: they fire by deadline and order of registration, once; a stale handle cancels nothing.
* Lanes: no task is left out, however lanes are filled and emptied; counts stay exact; equal shares
  serve every lane.
* Lock-free queue, seqlock, epochs: the ring is a queue; no torn copy is accepted; nothing is
  reclaimed under a reader and everything in the end.
* Admission: who is admitted is served.
* Cleanup stack: a drain calls each function once, the last pushed first.
* Observers: what is read back is what was recorded, newest first to be kept; a verdict of "match"
  is right; borrows exclude one another.
* Decisions: where CORE rejects, an adapter sees the overload and rejects, makes the caller wait or
  evicts for what it admits; a decision follows from its inputs; a breaker trips and recovers for cause.
* Files: a fixture survives its codecs; a damaged one is refused or decodes to what was written, within
  the bounds that a checksum behind a flag, and an object without one, can give (section 5).

## 2. Modules

```
Transitions <- Lifecycle <- Cancellation <- Scheduler <- Runtime
Runtime -> StructuredRegions (abstract)
Runtime <- KernelInvariants, ResourceAdmission, ParallelLanes
MCRuntime  extends KernelInvariants, ResourceAdmission
MCLanes    extends ParallelLanes
Channel -> BoundedFifo (abstract)
MCChannel  extends Channel, LockFreeQueue, Seqlock, Reclamation
TimerWheel -> TimerQueue (abstract)
Hindsight <- RuntimeHooks                AutomotiveInstrument <- Overload
MCSupport  extends TimerWheel, VirtualClock, Ghost, CleanupStack, ErrorLedger, ReplayTrace,
           Affinity, HftInstrument, Overload, AdaptiveDecision, RuntimeHooks, FixtureCodec,
           CircuitBreaker, ConfigReload, Budget, Regression

KernelInvariants <- KernelProofs;   KernelProofs, ResourceAdmission <- StructureProofs
MCLanes, StructureProofs, ProofLemmas <- LaneProofs
MCChannel, ProofLemmas <- SharedProofs
MCSupport, ProofLemmas <- SupportProofs <- ReportProofs, DecisionProofs
```

(`<-` reads "is extended by", `->` "is shown to implement".)

**Transitions** holds the authority tables and enumerations as constant sets.

**Lifecycle** models `lifecycle.c`. `regions`, `tasks` and `obligations` are functions over
slots, one record per C struct; `taskCount` and `obligationCount` are the C counters. Tasks
and obligations are allocated in index order and never recycled in this program, so a slot
is in use exactly when its index is below the count, and their generations, which stay 0,
are left out. A region handle is a slot and a generation, as in the packed 64-bit handle.
`RegionOpen`, `RegionClose`, `RegionPoison`, `TaskSpawn`, `TaskSpawnCaptured`,
`ObligationReserve`, `ObligationCommit` and `ObligationAbort` are the functions of those
names.

**Cancellation** models `cancellation.c`. `Cancelled` is `asx_task_cancel` as a function on
a task record, `CancelledFrom` adds the origin, `Propagated` applies it to a region.
`Checkpoint` and `TaskFinalize` are the two steps a callback takes by itself.

**Scheduler** models `asx_scheduler_run` and `asx_region_drain`. A call in progress is a
*frame* with the C locals: the region looked up on entry, the scan index `next`, `active`,
the budget left, and where it is (`round`, `scan`, `poll`, `advance`, `return`). Frames form
a stack, because callbacks may make such calls. `RoundBegin`, `ScanForce`, `ScanPoll`,
`ScanEnd`, `PollOk`, `PollError`, `PollPending`, `DrainAdvance` and `Return` follow the
function from one point where other code can run to the next: a step skips the tasks the
loop passes without effect, which is all right because nothing else runs in between.
A drain and the scheduler run inside it are one frame: entering does the cancels of
`quiescence.c:95-112`, then the rounds follow, then `DrainAdvance` does lines 119-162.

**Runtime** puts them together: `Operation` is a call that runs to its end, made when nothing
runs or from inside a callback (`Callable`); `Enter` starts a run or drain; `Internal` is the
code of one; `CallbackReturn` is the callback's answer. It states the invariants and the
action properties.

**StructuredRegions** is what the kernel promises without any mechanism: a region owns
unfinished tasks and owes unresolved obligations, work enters only while it is open, and it
closes only owning and owing nothing. `Abstract` in **Runtime** maps the kernel to it: `owns` are
the live tasks, `owes` the reserved obligations of the slot's present generation.

The fairness assumptions and the liveness properties are the last section of **Runtime**.
**MCRuntime** also has the statements of the repository's documents that the code does not keep.
**KernelInvariants** has the inductive invariants of the kernel's proofs, and **ProofLemmas** the
lemmas that know nothing of the program.

**Channel** models `mpsc.c` in full: ring buffer with head and length, `reserved`, the token
array with its wrapping counter, end states, generations, and the permit structures the
producers hold. **BoundedFifo** is what it promises: a sequence, a set of permits and a
capacity. `ImplementsBoundedFifo` maps the ring to the sequence and the token array to the set.
`passed`, the value a send took or a receive returned last, is what a caller sees of the queue.
Both modules keep it, so that a message lost or swapped in the ring breaks the refinement.

**ResourceAdmission** reads the kernel's state as `resource.c` does.

**ParallelLanes** is the second scheduler, over the same regions and tasks. A run in progress has
the C locals of `asx_parallel_run`: the quotas, the budget left, the lane being served and the
cursor in it. Callbacks make every operation of the kernel and move tasks between lanes. A lane
entry is a task handle, whose state tag the code refreshes as the task moves. `ForeignTasks` says
whether callbacks assign tasks of other regions than the one being run, which the code does not
forbid (section 4).

**LockFreeQueue** takes a call as one step, as the build without threads does; `backlog` is the
queue the ring stands for. **Seqlock** and **Reclamation** take one access to shared memory as a
step. The seqlock's uninitialized `s2` is a free choice. A reader of the epochs holds what is linked
when it announces its epoch, and what is linked while it is inside.

**TimerWheel** has the slots, generations and the insertion counter of `timer_wheel.c`; one call is
one step, a collection included. **TimerQueue** promises a set of timers from which a collection
takes the first by deadline and order. Both keep `fired`, the batch handed out last.

The other support modules follow their file function by function:

| module | code | state |
|---|---|---|
| VirtualClock | `virtual_time.c` | clock, query count, anomalies, stall; the readings since the last reset |
| Ghost | `ghost.c` | violation ring, obligations, borrow table, determinism record |
| CleanupStack | `cleanup.c` | slots, count, the slot a drain is calling; what became of each push |
| ErrorLedger | `status.c` | ring and owner of each slot, the bound task |
| ReplayTrace | `trace.c`, `telemetry.c` | ring, count, tier, reference, and a file that storage may damage |
| Affinity | `affinity.c` | table of owners, current domain |
| HftInstrument | `hft_instrument.c` | histogram and jitter |
| AutomotiveInstrument | `automotive_instrument.c` | deadlines, watchdog, audit ring |
| Overload | `overload_catalog.c`, `adapter.c`, `vertical_adapter.c`, policy part of `hft_instrument.c` | the router's streak; the decisions are operators |
| AdaptiveDecision | `adaptive.c` | policy, counters, ring of decisions |
| Hindsight, RuntimeHooks | `hindsight.c`, `hooks.c` | ring, policy; hook table, seal, faults, call counts |
| FixtureCodec | `hooks.c`, `equivalence.c` | a fixture, its encoding, and what was decoded |
| CircuitBreaker, Regression | `regression_localize.c` | breaker; baseline and current snapshot |
| ConfigReload, Budget | `config_reload.c`, `budget.c` | active configuration; a budget and what was taken from it |

**MCChannel** and **MCSupport** run components that share no state side by side: a variable
`subject`, chosen at the start, names the one that moves while the others keep their initial state.
The states of a run are so the sum of the components' states and not their product, and every
action of every component is taken. Where components do share state they are one subject: the
hooks write the hindsight ring, the adapters read the automotive instruments. One component is
two subjects: the borrow table of the ghost monitors shares only the ring of violations with the
other monitors (`ghost.c:263-405`), so it moves apart from them. The theorems about `GhostSpec`
have all monitors move together. A property of one component is evaluated where it moves.

### 2.1 Abstractions

* A call the code rejects changes nothing; its status is left out and the action is disabled.
  The exception is a permit, which a rejected send or abort marks consumed.
* The event log, trace, ghost monitors and error ledger record what happens and decide nothing
  in the kernel; they are left out.
* The region's cleanup stack is always empty, as no interface hands it out.
* The destructor of a captured state is taken not to call back into the runtime.
* `asx_runtime_reset` is `Init`; a reset in the middle of a run is not modelled.
* Budgets are the poll quota. Deadline, cost and priority do not influence a run.
* `cancel_epoch` stops at `EpochCap`; nothing reads it.
* `EpochCap`, `MaxDepth`, `MaxBudget` (kernel) and `MaxGen` (channel) are bounds of the model
  and no constants of the program. `GenMod` and `TokenMod` are the widths of C integers, made
  small so that the wrap happens.
* `Reentrant = FALSE` keeps callbacks from running or draining a region that is already being
  run. The code does not forbid it; what then goes wrong is the run `ReentrantDrain`. The other
  runs check programs that do not do it; section 5 says which theorems need it. `ForeignTasks` is the
  same for lanes, with the run `ForeignLane`.
* The channel's producers settle a permit before they reuse its structure.
* Hashes, checksums and digests are taken not to collide: a digest is what it is taken of. Memory
  does not run out where the code only passes the failure on.
* A seqlock sequence does not wrap (`MaxWrites`). Timer, cleanup and channel generations are bounded
  instead of wrapping.
* A lock-free queue requested with more than half of the range of its positions has no cells, and a mask
  of all ones: what its calls do is undefined and left out (section 4).
* A text is the form that the codecs tell apart (plain, padded, with control characters, ...), and a
  file is the fields that decoding looks at. Storage damages whole fields and members, the header, the
  flag, the length and the checksum. Bytes are counted as far as four of them make a difference: a
  field is of eight or four, a checksum of four, and what the bytes of a checksum would parse as, were
  they payload, is a free choice (`FooterReadings`).
* Variables that the code does not have record history for a property: `backlog`, `since`, `held`,
  `fate`, `ran`, `firstLoad` and the like. No guard reads them; each is named where it is declared.

## 3. Runs

Run one with `tlc -config <run>.cfg <module>`.

| run | instance | shows |
|---|---|---|
| `Kernel` | 1 region recycled under a 1-bit generation, 2 tasks, 1 obligation, budgets 0..2, poison policy, fair runs with a poll for every task | `TypeOK`; `ClosedQuiescent`: finalizing means no live task, closed means no reserved obligation; `HonestReturn`: a run or drain that reports OK is right; `TaskTransitionsLegal`; `PoisonSeals`; `ImplementsStructuredRegions`; `CancelledCompletes` |
| `Tasks` | 1 region, 2 tasks, two severities, cancels with and without origin, capture arena of 16 bytes with states of 1 and 9 bytes | `CancelConsistent`, `CleanupWithinQuota`, `CleanupNarrows`, `OutcomeStable`, `CapturesDisjoint`, `AdmittedIsServed` |
| `Regions` | 2 regions, 2 tasks, calls nested two deep | `TaskCountExact`, `DrainNeverTasksLive`, `PolledTaskAlive`, `FaultContained` |
| `Closing` | 1 region, 2 tasks, 1 obligation, fair retries | `ClosingCloses`, `CallsReturn` |
| `Channel` | 1 channel of capacity 1 to 3, 2 permits, 4 tokens, 2 messages, a reset; a ring of 1, 2, 4 or no cells (requests 1, 2, 3, 5 and 9) with positions modulo 16; a block of 2 words, 3 writes, a reader with 3 retries; 2 epoch readers, 2 items, rings of 1 | `SharedTypeOK`, `CapacityKept`, `PermitsHonoured`, `CloseReachesReceiver`, `ImplementsBoundedFifo`; `RingHoldsBacklog`; `AcceptedReadIsWhole`; `NoReclaimUnderReader`, `DeferredReclaimed` |
| `Lanes` | 1 region, 2 tasks, lanes of 2, tasks assigned again while a lane holds them, each fairness policy, budgets 0..2, no foreign tasks | `LanesConsistent`: ranges and exact counts; `LanesKeepTasks`; `RoundRobinServesAll` |
| `Support` | each of the sixteen support modules with the smallest instance that fills its rings and tables; the borrow monitor moves apart from the other ghost monitors | `TimersImplementQueue`; `ReadingsReproduce`; `ReplayVerdictExact`; `DrainRunsEach`; `ReportsFaithful`; `GrantsKept`; `DecisionsExplained`; `FixtureSurvives`; `StepsGuarded` |

The properties of `Support` are conjunctions, defined in `MCSupport` by what they protect, of the
properties stated in the components' modules (`WheelConsistent`, `GhostRingRecent`,
`BorrowsExclusive`, `OverloadAnswered`, `RoundTripSettles`, `DamageRefused`, `FrozenSinceLoad`, ...).

Deadlock is checked in the kernel runs: a program can always call something. It is off in
`Channel`, where the bound on resets lets the system end with every channel closed, and in
`Support`, where bounds on pushes, anomalies and calls end a component.

**Why these bounds.** Two tasks are what the scan needs to have one task behind the cursor and
one ahead, or one that uses up the budget the other needs. One obligation is enough for "some
obligation is open". Two regions are needed only for what one region may do to another, and a
stack of two frames for a callback that runs a region; there the obligations are left out to
keep the run small, and the strong kinds of cancel grant no cleanup poll, so that a cancelled task
of either region is completed by the scan (`Kernel` and `Tasks` explore the cleanup polls). A
generation of one bit gives handles that are current, stale and reused.
Budgets 0 to 2 are none, fewer polls than tasks, and one for each. Quotas keep the order of
`quota_by_severity[]` and reach 0, so that a strengthened task can be out of polls at once.
16 bytes hold two aligned words: sizes 1 and 9 fill, fit and overflow them. In `Channel` a
capacity below the size of the array separates the two moduli a ring index could use, and 4
tokens wrap after a few sends with a permit outstanding. Sixteen positions take a ring of four cells
through several laps and over the wrap, and requests of 3, 5 and 9 are rounded up, clamped, and wrapped to
nothing. Two words can be torn; three writes and three retries let a
reader see every phase of the writer and give up. Two epoch readers can be in two different stale
epochs. In `Lanes` the weights 5 and 1 against budgets up to 2 bring a share to 0; one task in
each of two lanes, and one that moves between them, exercise the cursor. In `Support` rings of two
or three entries wrap at once, two entities are enough to reuse a table entry, and the scenarios,
surfaces, posteriors and fixtures are chosen at the boundaries the code compares with (the values
are at the end of `MCSupport`).

### 3.1 Fairness

* `CodeRuns`: the C code of a call goes on, and a callback returns. The interface requires
  callbacks not to block. Callbacks are not assumed to cooperate in any other way: one may return
  "pending" for ever and never look at its cancel.
* `DrainSlot`: the program calls `asx_region_drain` again; its status codes for an exhausted
  budget and for open obligations ask for it. Strong fairness, as the program does other things
  between calls. The budget is at least one poll.
* `ResolveDebt`: whoever reserved an obligation commits or aborts it.
* `AmpleRuns`, the specification of the run `Kernel`, asks of the drain nothing: fair are scheduler runs
  with a poll for every task the arena may hold. Runs scan from index 0, so with fewer polls the tasks
  behind may never be reached (section 4); `CancelledCompletes` says nothing of that.
* `SharedFairness`: the consumer of the channel keeps receiving, and a producer sends or aborts a
  permit it holds; epoch readers leave, as their critical sections are bounded
  (`seqlock_ebr_spike.c:230`), and the writer keeps trying to advance. The seqlock and the
  lock-free ring need none.

## 4. Findings

Each is a run that checks one statement of the repository and finds it violated by what the
code does.

* `ReentrantDrain` (code bug, `scheduler.c:208`): a callback that runs or drains its own region is
  not refused. The inner run completes the task on the stack, the outer run completes it again and
  takes a second one off `task_count`, and the drain then reports success with a task alive
  (`runtime.h:450`).
* `PoisonSchedule` (`scheduler.c:86`): a poisoned region can still be run (`runtime.h:118`). Draining
  a poisoned region depends on it.
* `AdmitRegion` (code bug, `resource.c:37`): regions in use are counted as slots ever used, so that
  admission is refused for ever once every slot was used, although a closed one is taken again
  (`resource.h:70`).
* `ForeignLane` (code bug, `parallel.c:476`): `asx_lane_assign` takes a task of any region, and a run
  counts the completion of whatever its lanes hold in the region it was called for. The other region
  keeps counting a task that has completed and never becomes quiescent
  (`runtime_internal.h:26`).
* `FullRing` (code bug, `mpsc_lockfree_spike.c:187`): initialization accepts a capacity of 1, and the mark of
  a full cell is then the sequence that the next enqueue waits for. A full ring accepts, and the value that
  waited is lost, where the comment at line 163 promises `ASX_E_CHANNEL_FULL`.

Disagreements met while modelling that have no run, because the model follows the code and nothing
depends on them, or because the text is not precise enough to be a property:

*Kernel.* A task that returns OK with a cancel it did not yet observe ends Cancelled (`scheduler.c:201`
against `LIFECYCLE_TRANSITION_TABLES.md:617`). A cancelled task behind others is never
reached by runs with too few polls, as each scans from index 0 (`scheduler.c:105` against the comment at
line 130). Closing a region cancels nothing; draining does
(`lifecycle.c:232` against `LIFECYCLE_TRANSITION_TABLES.md:400`). `cancel_epoch` grows on every
further cancel (`cancellation.c:49`) where the tables have it constant. An attributed cancel of a
completed task rewrites the origin of its reason (`cancellation.c:111`). A stronger cancel without an
origin keeps that of the weaker one (`cancellation.c:41`), where `core/cancel.c:58` takes the
stronger reason whole. `channel.h` says an empty channel with its sender closed answers
DISCONNECTED; with a permit outstanding the code answers WOULD_BLOCK.

*Lanes.* A weighted quota of 0 starves its lane; starvation counts are not reset when a run starts;
a run reports OK although a task spawned by a callback is in no lane (`parallel.h:166`). `asx_lane_assign`
puts a task in a second lane, or in the same one again, without asking (`parallel.c:87`).

*Shared memory.* A capacity above 2^31 wraps to 0 in `next_pow2`, and the queue gets no cells
(`mpsc_lockfree_spike.c:109`). The comment of
`seqlock_ebr_spike.c:373` has (E-1) where the code takes (E-2); the theorem is about the code.

*Time.* An anomaly whose query falls inside a stall is skipped. `asx_vtime_install` does nothing.

*Observers.* The ghost leak check of a region reports the obligations of all of them. A cleanup pushed
during a drain may be lost. A trace that overflowed fails against itself, replay without a reference
answers MATCH, and a failed import leaves no reference. Unbinding an entity asks for no domain. The
list of suspects is cut at four before it is ranked (`regression_localize.c:127`).

*Decisions.* The table of `hft_instrument.h:33-43` is not what `floor(log2(ns + 1))` gives, and a gate of
32768 ns or more never fails. The miss rate wraps at 32 bits and rounds to 0 past 10000 deadlines. At
90% and above the accelerated HFT adapter triggers and answers OK (`adapter.c:156`) where CORE answers
ADMISSION_CLOSED (line 119): it admits by evicting one or two tasks, against "never admits what CORE would
reject" (line 336), and the isomorphism proof passes as it compares `triggered` only (line 377). The isomorphism check leaves
the router's live streak changed (`vertical_adapter.c:300`). A capacity of 0 gives a status that
`decision_consistent` rejects. The adaptive budget is a total and is not reset by a new policy
(`adaptive.h:122`).

*Hooks and codecs.* Validation answers DETERMINISM_VIOLATION or INVALID_ARGUMENT where
`asx_config.h:324` has HOOK_INVALID; calls without a hook answer INVALID_STATE where lines 339-363 have
HOOK_MISSING. Installing hooks after the seal can lift it, `realloc` has no fault injection, and fault
windows count calls since the last clear (`asx_config.h:201`). Padded raw JSON and control characters are
valid in a fixture, but JSON changes them, so that cross-codec verification fails; JSON accepts
schema versions the binary codec refuses; a text with an embedded NUL is cut. The flag that asks for the
checksum is outside of what protects it: with the flag cleared and the fields four bytes shorter, a frame
fits its length, its checksum is read as payload, where it may parse as a field to pass over
(`hooks.c:2202`), and nothing is compared. Two keys exchanged leave a JSON object that is whole.

## 5. Theorems

Every invariant and every action property that the passing runs check is a theorem, for every value
of the constants, and so are the three refinements: 35 of the 40 properties. The other five are
liveness.

| module | about |
|---|---|
| `KernelProofs` | types and cancellation of the kernel |
| `StructureProofs` | counts, quiescence, outcomes, faults, captures, admission, the refinement of `StructuredRegions` |
| `LaneProofs` | the lane scheduler over the kernel |
| `SharedProofs` | channel, seqlock, epochs, lock-free ring |
| `SupportProofs` | cleanup stack, borrows, configuration, budgets, replay, steps, readings, timers |
| `ReportProofs` | rings, audit, suspects, percentiles |
| `DecisionProofs` | adapters, adaptive decisions, fixture codecs |
| `ProofLemmas` | remainders, recursion, sorting, rings of cells, counting |

**Kernel, types** (`KernelProofs`). `TypeCorrect`: `Spec => []TypeOK`, for every size of the arenas, nesting
depth, policy and quota table. `TypeOK` is not inductive by itself: spawning could push a region's
`task_count` past the arena, and completing a task could push `active` below zero or `next` past the
arena. `TypeInv` adds that a region counts at most the tasks allocated, that a scanning frame has
counted at most the tasks it passed, and that a polling frame's task is allocated and counted. The
proof has a lemma for the type of each operator on records (`CancelledType`, `PropagatedType`,
`CompleteType`, ...), one for frames that are pushed and replaced (`PushType`, `GotoType`), one per
group of actions (`OperationType`, `EnterType`, `InternalType`, `CallbackReturnType`), and puts them
together in `TypeStep`. It rests on the assumptions named in `Lifecycle`, `Cancellation`,
`Scheduler` and `Runtime`: the bounds are natural numbers, quotas do not grow with severity, origins
are handles.

**Kernel, cancellation** (`KernelProofs`). `CancelCorrect`, `CleanupBounded`, `CancelNarrows` and
`TransitionsLegal` state `CancelConsistent`, `CleanupWithinQuota`, `CleanupNarrows` and
`TaskTransitionsLegal` for all programs, re-entrant ones included: what a step does to one task
depends on nothing but that task. So the invariant `CancelInv` and the step `TaskStep` speak of single
records, each operator on a task has one lemma (`CancelledStep`, `CompleteStep`, ...), and an action is
a choice of which tasks take which step. Inductive is `TypeInv /\ CancelInv`; `CancelInv` adds to the
properties that the phase of a task never cancelled is the one that the first signal leaves unchanged.

**Kernel, structure** (`StructureProofs`, for programs with `~Reentrant`). `CountExact`,
`QuiescenceHonest`, `ReturnsHonest`, `CallbacksAlive` and `NoTasksLive` state `TaskCountExact`,
`ClosedQuiescent`, `HonestReturn`, `PolledTaskAlive` and `DrainNeverTasksLive`. They hold one another
up, so there is one invariant, `StructureInv == TypeInv /\ ArenaInv /\ CallsInv`. The copies are right
because whoever completes a task finds it live, which `PolledTaskAlive` says of a poll across its
callback; that needs `StackInv` (calls below the top wait in callbacks, no two calls share a region).
A run's success is right because of `RoundInv`: while `active` is 0 no live task is behind the scan, at
a callback too, since what a callback spawns has a higher index. A closed region owes nothing because
of `OwnersInv` (a reserved obligation belongs to a region that exists) and `DrainInv` (the region of a
drain is the one looked up, and no longer open). Without the assumption the theorems are false:
`ReentrantDrain` is the counterexample. It is an assumption on programs, the constant says which.

**Kernel, regions** (`StructureProofs`). From the same invariant, with the same assumption, the action
properties `OutcomesFinal` (`OutcomeStable`), `FaultsContained` (`FaultContained`) and `PoisonHolds`
(`PoisonSeals`; also `GenMod > 1`, as a recycled slot must get another generation; the code has 65536).
`CapturesApart` (`CapturesDisjoint`) has the additional invariant that the captures of live tasks lie
below the bump pointer (`CaptureInv`); that the pointer is rewound only by a region's last task is
where exact counts are needed. `AdmissionHonest` (`AdmittedIsServed`) rests on `AlignedInv`, that bump
pointers are aligned, and on `ArenaBytes % 8 = 0` (the code has 16384), and needs no other assumption.

`RuntimeRefinesRegions`: `Spec => ImplementsStructuredRegions`. Initial states map to initial states; each
action is shown to be a step of `StructuredRegions` or a stutter. Most are easy once it is known which
regions, tasks and obligations they touch (lemmas `OperationShape`, `EnterShape`, ...); the closing of a
drain is a step of the abstract system, where a region closes owning and owing nothing, only because
of `StructureInv`.

**Channel** (`SharedProofs`). `CapacityTheorem`: `Spec => []CapacityKept`, and `PermitTheorem`:
`Spec => []PermitsHonoured`, for every capacity, number of slots and permits, and token width larger
than the capacity. The invariant `ChannelInv` says of a slot (`SlotOK`) that messages and permits fit,
that `reserved` is the number of tokens in the array and that no token is there twice, and of a permit
(`PermitOK`) that it is of a past generation of its slot or stands for a token there that no other
permit has. Uniqueness of tokens is what makes freeing "the first cell with this token" free one
cell and one reservation, and no other permit's. Generations are assumed not to wrap within
`MaxGen` resets: with a wrap an old permit would be taken for a current one, as it would in the C code
after 65536 resets.

`ChannelImplementsFifo`: `Spec => ImplementsBoundedFifo`. The invariant `FifoInv` adds `RingOK`: the
head of a channel in use is below its capacity, a free slot is empty and has no token. Operation by
operation, what it does to one ring is shown to be what the queue does (append, drop the first, or
nothing), `QueueOf` being the messages from the head on; the lemmas about the index arithmetic are
stated for all capacities.

**Reclamation** (`SharedProofs`). `ReclamationSafe`: `EbrSpec => []NoReclaimUnderReader`, for every number
of readers and items and every size of the rings. The property does not say why the advance that
reclaims a ring finds no holder of it. `EbrInv` does (`HolderBehind`): an item is deferred under an
epoch d whatever stale epoch its holders announce; leaving d takes that none announces d + 1, leaving
d + 1 that none announces d + 2, and the next advance that none announces d. It also says that what
is linked is in no ring and that a reader outside holds nothing.

**Seqlock** (`SharedProofs`). `SeqlockSafe`: `SeqlockSpec => []AcceptedReadIsWhole`, for every number of
readers, length of the block, number of retries and of writes. The invariant says which words the
writer has stored (`BlockInv`), and of a reader that has copied some words that, if the sequence is
still the even one it read, they are of that version (`Copied`). At the loop condition without a retry
the copy is whole; with one, the uninitialized `s2` may end the loop, but the answer is 0.

**Lock-free ring** (`SharedProofs`). `RingIsQueue`: `RingSpec => []RingHoldsBacklog`, for every size of the array that
is a power of two, every number of positions that all powers up to twice that size divide, as 2^32 is of
1 to 128, and every order of requests. `RingHoldsBacklog` speaks of queues of two cells or more; a queue
of one (section 4), or of none, may come before, and `LapInv` keeps its types. The invariant `LapInv` says what each cell of a lap says, free ones
included, by its distance from the dequeue position (`CellOK`): ready with the next value, or waiting for
the position the enqueue will reach. The lemmas `WrapKeepsCell` and `LapApart` are why the wrap moves no
cell and no two positions of a lap share one; `Differences` is why the signed difference tells a full
ring from a free cell.

`SharedTypes`: `SharedSpec => []SharedTypeOK` puts the invariants of the channel, the ring, the seqlock and
the epochs together over the specification that the run `Channel` checks.

**Cleanup stack** (`SupportProofs`). `DrainHonest`: `SupportSpec => []DrainRunsEach`, for every capacity and
number of pushes, so long as no slot's generation wraps (`CleanupGenMax`). The invariant `CleanupInv` says
that the stack is ordered by push (`StackOrdered`), that during a drain nothing lies between the
trimmed top and the cursor, that what was neither popped nor called nor pushed late is in the stack
below the cursor (`NothingLost`), and that what is still to be called was pushed before what ran
(`RanInOrder`). Functions popping and pushing while the drain calls them are where it is needed: a pop
may trim the top below the cursor, and a push may then fill a slot the drain has yet to visit.

**Lanes** (`LaneProofs`). The second scheduler moves the tasks of the first, so the kernel's invariants
have to survive its steps too, and the lemmas about tasks and counts are used again.
`NoTaskLost`: `ParallelSpec => []LanesKeepTasks`. The types (`ShapeInv`) carry over what a run holds:
every task in a lane is allocated, and the one being polled has not completed. `KeepInv` says that
whatever the run sorted in on entry and is still live is in a lane; a handle goes out of date when
its task moves on, so tasks and not handles are compared. The sorting on entry is a fold over a
set put in order: the lemmas `SortUnique` and `SortCarries` say that a finite set has one ordering.
`LanesCountExact`: `ParallelSpec => []LanesConsistent`, assuming `~ForeignTasks`. `OwnInv` adds that
the lanes hold tasks of the region being run only, which is what makes decrementing that region's
count right. Without the assumption it is false, and `ForeignLane` is the counterexample.
`RoundRobinFair`: `ParallelSpec => []RoundRobinServesAll`. `TurnsInv` says of a round in progress that the
lanes busy at its start have one and the same quota, and that those whose turn is over did not starve.

**Supporting components.** In `SupportSpec` one component moves while the others stand still, so the first
lemma of each section is that a behaviour of the whole is one of the component (`GhostRunsAlone`, ...).
The theorems are about `SupportSpec`, the specification that the run `Support` checks.

* `GrantsStayKept` (`GrantsKept`). `BorrowsInv`: occupied slots of the borrow table are of different entities,
  and the one of an entity says what its callers were granted; free slots keep the names of entities, so
  that finding by name alone is wrong. `BudgetInv`: what is left of a meet and what was taken
  make up the smaller grant, in polls and in cost. `ConfigInv`: what is frozen is what was loaded first.
* `ReplayVerdictHolds` (`ReplayVerdictExact`). `TraceInv`: the trace keeps the first events of the
  run, as many as fit, and counts all; a reference comes from some run, and so does the digest of an
  exported file, whatever was done to the rest.
* `StepsStayGuarded` (`StepsGuarded`). Affinity and the seal are steps of one kind. A clock goes back
  only by a jitter that falls due at that query. `BreakerInv` relates the breaker's counts to the outcomes
  signalled since it last changed (`FailingSince`, `CoolingSince`, `ProbingSince`).
* `ReadingsReproduced` (`ReadingsReproduce`). The clock: there is a trajectory of times and stalls from the
  reset on that the schedule of anomalies determines and that the recorded readings follow
  (`ReplayInv`). The hooks: the ring holds the newest of what was returned, in order
  (`HooksInv`), while its index wraps and its count stops at the top of its range.
* `TimersAreQueue` (`TimersImplementQueue`). The wheel is a step-by-step refinement of the queue. `WheelInv`
  says that live slots have insertion numbers of their own below the counter and that the count is
  theirs. A collection takes timers in the order of a sort over slots; that it is the same batch
  as the queue's rests on the uniqueness of the sorting, slots and timers being in a bijection.
* `ReportsAreFaithful` (`ReportsFaithful`). Rings and ledgers: `LedgerInv` and `RingInv` say that the cells
  hold the newest entries in order; `CellsPush` is the one lemma for what a push does to a ring. Audit:
  `AutomotiveInv` says that every miss is counted and the latest stand at their distance behind the head,
  and that totals and extremes are those of what was observed. Suspects: a pass of the selection sort
  moves the most blamed to its place and only swaps, so the ranking keeps the set and puts the greatest first; that the greatest share is
  the greatest change needs at most a hundred events of difference, as shares are rounded to a
  percent, and the property says so. Percentiles: `HftInv` says that each bin counts the latencies
  of its bracket of powers of two; the bin that reaches a rank bounds the latency of that rank.
* `DecisionsAreExplained` (`DecisionsExplained`). The adapters: whatever the load, each rule is compared
  with the CORE rule; the percentage of the load is the one number both depend on. Where CORE rejects, two of
  the three reject or make the caller wait, and the third evicts (`AdmitsByEviction`). The adaptive ledger:
  `AdaptiveInv` carries a justification for every call made (`Justified`), and the loop over the actions is
  shown to find the least expected loss and the best of the others.
* `FixturesSurvive` (`FixtureSurvives`). `CodecInv` relates a payload to its source and to the faults done to
  it. While its flag is set a BIN payload has a checksum that covers all the rest, and any number of faults
  is borne. With the flag cleared only lengths protect it: one fault is borne, two are not (section 4). A
  JSON payload has its structure only, so it must be assumed that no value was changed and no keys were
  exchanged (`Bearable`); the number of the other faults is arbitrary.

**Recursive definitions.** Loops of the code that accumulate are recursive functions over `0 .. n`
(`Cumulative`, `Pow2`, `Ranked`, `Suspects`, ...). `RecursionExists` shows, for the definition at hand,
that the function it describes exists, and `InductionUpTo` proves what holds of it for each
argument; both are derived from the well-foundedness of `<` on `Nat`, with a set of
arguments in place of a predicate.

**Only model-checked.** Liveness (`ClosingCloses`, `CallsReturn`, `CancelledCompletes`,
`CloseReachesReceiver`, `DeferredReclaimed`) needs `ENABLED` and is out of the prover's reach. The five
statements that the code does not keep are counterexamples found by TLC. The theorems about the kernel
that assume `~Reentrant`, and `LanesCountExact`, say nothing of programs that do otherwise.

## 6. Plan

1. *Done:* the kernel, the channel, the shared-memory structures, the lanes, the timer wheel, admission,
   and the supporting components.
2. *Done:* theorems of the kernel, the channel, the shared-memory structures, the lanes and the supporting
   components; every safety property of the runs is proved.
3. Left: what section 7 names, and the report's statistics that no property speaks of (the mean deviation
   of the jitter, the counters of telemetry).

## 7. Not modelled

`PROJECT.json` gives the reason for each component. Platform files are system calls, the profile tables
and benchmarks keep no state, the outcome lattice and version numbers are called by nothing that is
modelled. Of modelled files, queries, names and the text of reports are left out, the spinlock (one
exchange and one store) and the benchmarks of the spikes too. The kernel, the lanes and the
supporting components have no synchronisation and are single-threaded by contract; threads are
modelled where the code is written for them, in `Seqlock` and `Reclamation`.
