---- MODULE KernelInvariants ----
(***************************************************************************)
(* The inductive invariants behind the theorems of KernelProofs.  They are *)
(* kept apart so that the model checker can check them first.              *)
(***************************************************************************)
EXTENDS Runtime

----------------------------------------------------------------------------
(* Types *)

\* A call in progress names a region and has counted as active at most the tasks
\* its scan has passed, the one being polled included.
FrameShape(f) ==
  /\ f.region \in RegionHandles
  /\ f.pc = "scan" => f.active <= f.next
  /\ f.pc = "poll" => f.next < taskCount /\ f.active \in 1 .. f.next + 1

\* What TypeOK needs to be inductive: a region counts at most the tasks allocated.
TypeInv ==
  /\ TypeOK
  /\ \A s \in RegionSlots : regions[s].taskCount <= taskCount
  /\ \A d \in 1 .. depth : FrameShape(frames[d])

----------------------------------------------------------------------------
(* Cancellation, whatever the callbacks do *)

\* What CancelConsistent and CleanupWithinQuota say of one task.  The phase of a task
\* that was never cancelled is the one the first signal takes over unchanged.
TaskInv(t) ==
  /\ ~IsTerminal(t.state) =>
       /\ t.pending <=> t.state \in {"CancelRequested", "Cancelling", "Finalizing"}
       /\ ~t.pending => t.phase = "Requested"
  /\ t.pending =>
       /\ t.phase = (IF t.state = "CancelRequested" THEN "Requested" ELSE t.state)
       /\ t.polls <= Quota(t.kind)
  /\ IsTerminal(t.state) => (t.pending <=> t.outcome = "Cancelled")

CancelInv ==
  \A i \in TaskSlots : IF i < taskCount THEN TaskInv(tasks[i]) ELSE ~tasks[i].pending

\* What CleanupNarrows and TaskTransitionsLegal say of one task over one step.
TaskStep(t, u) ==
  /\ TaskInv(u)
  /\ u.state # t.state => <<t.state, u.state>> \in TaskEdges
  /\ t.pending =>
       /\ u.pending
       /\ Severity[u.kind] >= Severity[t.kind]
       /\ u.polls <= t.polls
       /\ ~IsTerminal(t.state) /\ Severity[u.kind] = Severity[t.kind] =>
            u.kind = t.kind /\ u.origin = t.origin

----------------------------------------------------------------------------
(* Structure, when callbacks keep off the regions already running *)

\* Only the top call can be anywhere but in a callback, and no two calls share a region.
StackInv ==
  /\ \A d \in 1 .. depth - 1 : frames[d].pc = "poll"
  /\ \A d, e \in 1 .. depth : d # e => frames[d].region # frames[e].region

\* While no task passed in this round is pending, all live tasks are still ahead; a
\* run that left its rounds found none.
RoundInv ==
  \A d \in 1 .. depth :
    LET f == frames[d]
    IN  /\ \A j \in LiveTasks(f.region) :
             /\ f.pc = "scan" /\ f.active = 0 => f.next <= j
             /\ f.pc = "poll" /\ f.active = 1 => f.next <= j
        /\ f.pc = "advance" => f.drain /\ LiveTasks(f.region) = {}

\* A region being drained stays the one looked up, and has left Open.
DrainInv ==
  \A d \in 1 .. depth : frames[d].drain =>
    Resolves(frames[d].region) /\ regions[frames[d].region.slot].state # "Open"

\* What is allocated belongs to a region.  A reserved obligation belongs to one that
\* still exists: its slot could not be recycled before the obligation was resolved.
\* No region is ever left Draining.
OwnersInv ==
  /\ \A i \in TaskSlots : i < taskCount => tasks[i].region \in RegionHandles
  /\ \A o \in ObligationSlots : o < obligationCount =>
       /\ obligations[o].region \in RegionHandles
       /\ obligations[o].state = "Reserved" => Resolves(obligations[o].region)
  /\ \A s \in RegionSlots : regions[s].state # "Draining"

\* The inductive invariant: what the checked invariants need to hold one another up,
\* the arenas on one side and the calls in progress on the other.
ArenaInv == TaskCountExact /\ ClosedQuiescent /\ OwnersInv

CallsInv ==
  /\ HonestReturn
  /\ PolledTaskAlive
  /\ DrainNeverTasksLive
  /\ StackInv
  /\ RoundInv
  /\ DrainInv

StructureInv == TypeInv /\ ArenaInv /\ CallsInv

\* The captures of a region's live tasks lie below the bump pointer of its arena.
CaptureInv ==
  \A i \in TaskSlots : i < taskCount /\ ~IsTerminal(tasks[i].state) =>
    tasks[i].capture.start + tasks[i].capture.size
      <= regions[tasks[i].region.slot].captureUsed

\* A bump pointer is always aligned, so aligning it again costs nothing.
AlignedInv == \A s \in RegionSlots : regions[s].captureUsed % 8 = 0

====
