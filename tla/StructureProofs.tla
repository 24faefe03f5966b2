---- MODULE StructureProofs ----
(***************************************************************************)
(* Structured concurrency, for every number of regions, tasks, obligations *)
(* and nested calls: counts are exact, quiescence is honest, outcomes are  *)
(* final, a fault stays in its region, poison seals it, and the runtime    *)
(* implements StructuredRegions.  Callbacks may call every operation and   *)
(* run other regions, as long as they keep off the regions already         *)
(* running.                                                                *)
(***************************************************************************)
EXTENDS KernelProofs, FiniteSetTheorems, ResourceAdmission

----------------------------------------------------------------------------
(* What a step does to the tasks *)

\* Task i stays the same task, no nearer its end; a completed one is not touched.
Kept(t, u) ==
  /\ u.region = t.region /\ u.capture = t.capture
  /\ IsTerminal(u.state) <=> IsTerminal(t.state)
  /\ IsTerminal(t.state) => u.state = t.state /\ u.outcome = t.outcome

Ended(t, u) == u.region = t.region /\ ~IsTerminal(t.state) /\ IsTerminal(u.state)

\* No task is allocated and none completes.
TasksKept == taskCount' = taskCount /\ \A i \in TaskSlots : Kept(tasks[i], tasks'[i])

\* Task i completes, and no other.
TaskEnds(i) ==
  /\ taskCount' = taskCount
  /\ i \in TaskSlots /\ i < taskCount
  /\ Ended(tasks[i], tasks'[i])
  /\ \A j \in TaskSlots \ {i} : Kept(tasks[j], tasks'[j])

\* One task is allocated, for region h with this capture.
TaskBegins(h, capture) ==
  /\ taskCount \in TaskSlots /\ taskCount' = taskCount + 1
  /\ tasks' = [tasks EXCEPT ![taskCount] = NewTask(h, capture)]

LEMMA CancelledKeeps ==
  ASSUME NEW t \in Task, NEW k \in CancelKinds
  PROVE  Kept(t, Cancelled(t, k))
<1>1. CASE IsTerminal(t.state)
  BY <1>1 DEF Cancelled, Kept
<1>2. CASE ~IsTerminal(t.state) /\ t.pending
  BY <1>2 DEF Cancelled, Strengthened, Kept, Task
<1>3. CASE ~IsTerminal(t.state) /\ ~t.pending
  BY <1>3 DEF Cancelled, FirstCancel, Kept, Task, IsTerminal
<1> QED BY <1>1, <1>2, <1>3

LEMMA CancelledFromKeeps ==
  ASSUME NEW t \in Task, NEW k \in CancelKinds, NEW origin
  PROVE  Kept(t, CancelledFrom(t, k, origin))
BY CancelledKeeps, CancelledType DEF CancelledFrom, Kept, Task

LEMMA PropagatedKeeps ==
  ASSUME NEW ts \in [TaskSlots -> Task], NEW h, NEW k \in CancelKinds, NEW i \in TaskSlots
  PROVE  /\ Kept(ts[i], Propagated(ts, h, k)[i])
         /\ ts[i].region # h => Propagated(ts, h, k)[i] = ts[i]
BY CancelledFromKeeps DEF Propagated, Reaches, Kept

LEMMA KeptTwice ==
  ASSUME NEW t, NEW u, NEW v, Kept(t, u), Kept(u, v)
  PROVE  Kept(t, v)
BY DEF Kept

LEMMA PolledKeeps ==
  ASSUME NEW t \in Task
  PROVE  /\ Kept(t, t)
         /\ Kept(t, Spent(t))
         /\ Kept(t, [t EXCEPT !.state = IF t.state = "Created" THEN "Running" ELSE t.state])
         /\ \A p \in {"Cancelling", "Finalizing"} :
              ~IsTerminal(t.state) => Kept(t, [t EXCEPT !.state = p, !.phase = p])
BY DEF Kept, Spent, Task, IsTerminal

LEMMA CompleteEnds ==
  ASSUME NEW t \in Task, ~IsTerminal(t.state), NEW o
  PROVE  Ended(t, Complete(t, o)) /\ Ended(t, ForcedCompletion(t))
BY DEF Ended, Complete, ForcedCompletion, Task, IsTerminal

----------------------------------------------------------------------------
(* The live tasks of a region *)

LEMMA LiveFinite ==
  ASSUME LifecycleTypeOK, NEW h
  PROVE  /\ IsFiniteSet(LiveTasks(h)) /\ Cardinality(LiveTasks(h)) \in Nat
         /\ Cardinality(LiveTasks(h)) = 0 <=> LiveTasks(h) = {}
<1>1. IsFiniteSet(TaskSlots)
  BY FS_Interval, LifecycleAssumption DEF TaskSlots
<1>2. LiveTasks(h) \subseteq TaskSlots
  BY DEF LiveTasks
<1>3. IsFiniteSet(LiveTasks(h))
  BY <1>1, <1>2, FS_Subset
<1> QED BY <1>3, FS_CardinalityType, FS_EmptySet

LEMMA LiveKept ==
  ASSUME TasksKept
  PROVE  \A h : LiveTasks(h)' = LiveTasks(h)
BY DEF TasksKept, Kept, LiveTasks

LEMMA LiveEnds ==
  ASSUME NEW i, TaskEnds(i)
  PROVE  /\ i \in LiveTasks(tasks[i].region)
         /\ \A h : LiveTasks(h)' = LiveTasks(h) \ {i}
BY DEF TaskEnds, Ended, Kept, LiveTasks

LEMMA LiveBegins ==
  ASSUME LifecycleTypeOK, NEW h, NEW c, TaskBegins(h, c)
  PROVE  /\ \A g : taskCount \notin LiveTasks(g)
         /\ LiveTasks(h)' = LiveTasks(h) \cup {taskCount}
         /\ \A g : g # h => LiveTasks(g)' = LiveTasks(g)
         /\ \A g : \A i \in LiveTasks(g) : i < taskCount
<1>1. /\ tasks \in [TaskSlots -> Task] /\ taskCount \in TaskSlots /\ TaskSlots \subseteq Nat
      /\ taskCount' = taskCount + 1
      /\ tasks' = [tasks EXCEPT ![taskCount] = NewTask(h, c)]
  BY DEF TaskBegins, LifecycleTypeOK, TaskSlots
<1>2. tasks'[taskCount].region = h /\ ~IsTerminal(tasks'[taskCount].state)
  BY <1>1 DEF NewTask, IsTerminal
<1>3. \A i \in TaskSlots \ {taskCount} : tasks'[i] = tasks[i]
  BY <1>1
<1>4. \A i \in TaskSlots : i < taskCount' <=> i < taskCount \/ i = taskCount
  BY <1>1
<1>5. ASSUME NEW g, NEW i
      PROVE  i \in LiveTasks(g)' <=> i \in LiveTasks(g) \/ (g = h /\ i = taskCount)
  <2>1. CASE i \in TaskSlots /\ i # taskCount
    BY <1>1, <1>3, <1>4, <2>1 DEF LiveTasks
  <2>2. CASE i = taskCount
    BY <1>1, <1>2, <2>2 DEF LiveTasks
  <2>3. CASE i \notin TaskSlots
    BY <1>1, <2>3 DEF LiveTasks
  <2> QED BY <2>1, <2>2, <2>3
<1>6. \A g : taskCount \notin LiveTasks(g) /\ \A i \in LiveTasks(g) : i < taskCount
  BY <1>1 DEF LiveTasks
<1>7. ASSUME NEW g, g # h PROVE LiveTasks(g)' = LiveTasks(g)
  BY <1>5, <1>7
<1>8. LiveTasks(h)' = LiveTasks(h) \cup {taskCount}
  BY <1>5
<1> QED BY <1>6, <1>7, <1>8

----------------------------------------------------------------------------
(* The arenas under a step *)

\* Handles and slots.
LEMMA HandleFacts ==
  ASSUME LifecycleTypeOK, NEW h \in RegionHandles
  PROVE  /\ h.slot \in RegionSlots /\ regions[h.slot] \in Region
         /\ Resolves(h) <=> regions[h.slot].alive /\ HandleOf(h.slot) = h
         /\ \A s \in RegionSlots : HandleOf(s) \in RegionHandles /\ HandleOf(s).slot = s
                                  /\ regions[s] \in Region
BY DEF LifecycleTypeOK, RegionHandles, HandleOf, Resolves, Region

\* A live task belongs to the region that now holds the slot.
LEMMA LiveResolves ==
  ASSUME LifecycleTypeOK, TaskCountExact, NEW h, NEW i \in LiveTasks(h)
  PROVE  h = tasks[i].region /\ Resolves(h)
BY DEF TaskCountExact, LiveTasks

\* Steps that keep tasks, handles and counts, and may close an open region.
LEMMA ArenaQuiet ==
  ASSUME TypeInv, ArenaInv, TasksKept, UNCHANGED <<obligations, obligationCount>>,
         \A s \in RegionSlots :
           LET r == regions[s]
               q == regions'[s]
           IN  /\ q.gen = r.gen /\ q.alive = r.alive /\ q.taskCount = r.taskCount
               /\ q.state = r.state \/ q.state = "Closing"
  PROVE  ArenaInv'
<1>1. \A s \in RegionSlots : HandleOf(s)' = HandleOf(s)
  BY DEF HandleOf
<1>2. \A h : LiveTasks(h)' = LiveTasks(h)
  BY LiveKept
<1>3. \A h : Owed(h)' = Owed(h)
  BY DEF Owed
<1>4. ASSUME NEW h \in RegionHandles PROVE Resolves(h)' <=> Resolves(h)
  BY DEF Resolves, RegionHandles
<1>5. TaskCountExact'
  <2>1. ASSUME NEW s \in RegionSlots
        PROVE  regions'[s].taskCount = Cardinality(LiveTasks(HandleOf(s)))'
    BY <1>1, <1>2 DEF ArenaInv, TaskCountExact
  <2>2. ASSUME NEW i \in TaskSlots, i < taskCount', ~IsTerminal(tasks'[i].state)
        PROVE  Resolves(tasks[i].region)'
    <3>1. i < taskCount /\ ~IsTerminal(tasks[i].state) /\ tasks'[i].region = tasks[i].region
      BY <2>2 DEF TasksKept, Kept
    <3>2. Resolves(tasks[i].region) /\ tasks[i].region \in RegionHandles
      BY <3>1 DEF ArenaInv, TaskCountExact, OwnersInv
    <3> QED BY <3>1, <3>2 DEF Resolves, RegionHandles
  <2> QED BY <2>1, <2>2 DEF TaskCountExact
<1>6. ClosedQuiescent'
  BY <1>1, <1>2, <1>3 DEF ArenaInv, ClosedQuiescent
<1>7. OwnersInv'
  <2>1. \A i \in TaskSlots : i < taskCount' => tasks'[i].region \in RegionHandles
    BY DEF ArenaInv, OwnersInv, TasksKept, Kept
  <2> QED BY <1>4, <2>1 DEF ArenaInv, OwnersInv
<1> QED BY <1>5, <1>6, <1>7 DEF ArenaInv

\* A region whose live task i ends counts one less.
LEMMA ArenaEnds ==
  ASSUME TypeInv, ArenaInv, NEW i, TaskEnds(i), UNCHANGED <<obligations, obligationCount>>,
         \A s \in RegionSlots :
           LET r == regions[s]
               q == regions'[s]
           IN  /\ q.gen = r.gen /\ q.alive = r.alive /\ q.state = r.state
               /\ q.taskCount = IF s = tasks[i].region.slot /\ r.taskCount > 0
                                THEN r.taskCount - 1 ELSE r.taskCount
  PROVE  ArenaInv'
<1> DEFINE h == tasks[i].region
<1>1. LifecycleTypeOK /\ TaskCountExact /\ ClosedQuiescent /\ OwnersInv
  BY DEF TypeInv, TypeOK, ArenaInv
<1>2. i \in LiveTasks(h) /\ \A g : LiveTasks(g)' = LiveTasks(g) \ {i}
  BY LiveEnds
<1>3. h \in RegionHandles /\ Resolves(h) /\ h.slot \in RegionSlots /\ h = HandleOf(h.slot)
  <2>1. h \in RegionHandles /\ Resolves(h)
    BY <1>1, <1>2, LiveResolves DEF OwnersInv, LiveTasks
  <2> QED BY <1>1, <2>1, HandleFacts
<1> HIDE DEF h
<1>4. \A s \in RegionSlots : HandleOf(s)' = HandleOf(s)
  BY DEF HandleOf
<1>5. \A g : Owed(g)' = Owed(g)
  BY DEF Owed
<1>6. \A g \in RegionHandles : Resolves(g)' <=> Resolves(g)
  BY DEF Resolves, RegionHandles
<1>7. ASSUME NEW s \in RegionSlots
      PROVE  regions'[s].taskCount = Cardinality(LiveTasks(HandleOf(s)))'
  <2>1. regions[s].taskCount = Cardinality(LiveTasks(HandleOf(s)))
    BY <1>1 DEF TaskCountExact
  <2>2. LiveTasks(HandleOf(s))' = LiveTasks(HandleOf(s)) \ {i}
    BY <1>2, <1>4
  <2>3. IsFiniteSet(LiveTasks(HandleOf(s))) /\ Cardinality(LiveTasks(HandleOf(s))) \in Nat
        /\ (Cardinality(LiveTasks(HandleOf(s))) = 0 <=> LiveTasks(HandleOf(s)) = {})
    BY <1>1, LiveFinite
  <2>4. CASE s = h.slot
    <3>1. i \in LiveTasks(HandleOf(s))
      BY <1>2, <1>3, <2>4
    <3>2. Cardinality(LiveTasks(HandleOf(s)))' = Cardinality(LiveTasks(HandleOf(s))) - 1
      BY <2>2, <2>3, <3>1, FS_RemoveElement
    <3>3. Cardinality(LiveTasks(HandleOf(s))) > 0
      BY <2>3, <3>1
    <3> QED BY <2>1, <2>4, <3>2, <3>3 DEF h
  <2>5. CASE s # h.slot
    <3>1. HandleOf(s) # h
      BY <2>5 DEF HandleOf
    <3>2. i \notin LiveTasks(HandleOf(s))
      BY <3>1 DEF LiveTasks, h
    <3> QED BY <2>1, <2>2, <2>5, <3>2 DEF h
  <2> QED BY <2>4, <2>5
<1>8. ASSUME NEW j \in TaskSlots, j < taskCount', ~IsTerminal(tasks'[j].state)
      PROVE  Resolves(tasks[j].region)'
  <2>1. j < taskCount /\ ~IsTerminal(tasks[j].state) /\ tasks'[j].region = tasks[j].region
    BY <1>8 DEF TaskEnds, Ended, Kept
  <2> QED BY <1>1, <1>6, <2>1 DEF TaskCountExact, OwnersInv, Resolves
<1>9. TaskCountExact'
  BY <1>7, <1>8 DEF TaskCountExact
<1>10. ClosedQuiescent'
  BY <1>1, <1>2, <1>4, <1>5 DEF ClosedQuiescent
<1>11. OwnersInv'
  <2>1. \A j \in TaskSlots : j < taskCount' => tasks'[j].region \in RegionHandles
    BY <1>1 DEF OwnersInv, TaskEnds, Ended, Kept
  <2> QED BY <1>1, <1>6, <2>1 DEF OwnersInv
<1> QED BY <1>9, <1>10, <1>11 DEF ArenaInv

\* An open region that gets a task counts one more.
LEMMA ArenaBegins ==
  ASSUME TypeInv, ArenaInv, NEW h \in RegionHandles, NEW c, TaskBegins(h, c),
         Resolves(h), regions[h.slot].state = "Open",
         UNCHANGED <<obligations, obligationCount>>,
         \A s \in RegionSlots :
           LET r == regions[s]
               q == regions'[s]
           IN  /\ q.gen = r.gen /\ q.alive = r.alive /\ q.state = r.state
               /\ q.taskCount = IF s = h.slot THEN r.taskCount + 1 ELSE r.taskCount
  PROVE  ArenaInv'
<1>1. LifecycleTypeOK /\ TaskCountExact /\ ClosedQuiescent /\ OwnersInv
  BY DEF TypeInv, TypeOK, ArenaInv
<1>2. /\ \A g : taskCount \notin LiveTasks(g)
      /\ LiveTasks(h)' = LiveTasks(h) \cup {taskCount}
      /\ \A g : g # h => LiveTasks(g)' = LiveTasks(g)
  BY <1>1, LiveBegins
<1>3. h.slot \in RegionSlots /\ h = HandleOf(h.slot)
  BY <1>1, HandleFacts
<1>4. \A s \in RegionSlots : HandleOf(s)' = HandleOf(s)
  BY DEF HandleOf
<1>5. \A g : Owed(g)' = Owed(g)
  BY DEF Owed
<1>6. \A g \in RegionHandles : Resolves(g)' <=> Resolves(g)
  BY DEF Resolves, RegionHandles
<1>7. ASSUME NEW s \in RegionSlots
      PROVE  regions'[s].taskCount = Cardinality(LiveTasks(HandleOf(s)))'
  <2>1. regions[s].taskCount = Cardinality(LiveTasks(HandleOf(s)))
    BY <1>1 DEF TaskCountExact
  <2>2. CASE s = h.slot
    <3>1. LiveTasks(HandleOf(s))' = LiveTasks(HandleOf(s)) \cup {taskCount}
      BY <1>2, <1>3, <1>4, <2>2
    <3>2. IsFiniteSet(LiveTasks(HandleOf(s)))
      BY <1>1, LiveFinite
    <3>3. taskCount \notin LiveTasks(HandleOf(s))
      BY <1>2
    <3>4. Cardinality(LiveTasks(HandleOf(s)) \cup {taskCount})
            = Cardinality(LiveTasks(HandleOf(s))) + 1
      BY <3>2, <3>3, FS_AddElement
    <3> QED BY <1>2, <2>1, <2>2, <3>1, <3>4
  <2>3. CASE s # h.slot
    <3>1. HandleOf(s) # h
      BY <2>3 DEF HandleOf
    <3>2. LiveTasks(HandleOf(s))' = LiveTasks(HandleOf(s))
      BY <1>2, <1>4, <3>1
    <3> QED BY <2>1, <2>3, <3>2
  <2> QED BY <2>2, <2>3
<1>8. ASSUME NEW j \in TaskSlots, j < taskCount'
      PROVE  /\ tasks'[j].region \in RegionHandles
             /\ ~IsTerminal(tasks'[j].state) => Resolves(tasks[j].region)'
  <2>1. tasks \in [TaskSlots -> Task] /\ taskCount \in TaskSlots /\ taskCount \in Nat /\ j \in Nat
    BY <1>1 DEF TaskBegins, LifecycleTypeOK, TaskSlots
  <2>2. CASE j = taskCount
    BY <1>6, <2>1, <2>2 DEF TaskBegins, NewTask, Resolves
  <2>3. CASE j # taskCount
    <3>1. j < taskCount /\ tasks'[j] = tasks[j]
      BY <1>8, <2>1, <2>3 DEF TaskBegins
    <3> QED BY <1>1, <1>6, <3>1 DEF TaskCountExact, OwnersInv, Resolves
  <2> QED BY <2>2, <2>3
<1>9. TaskCountExact'
  BY <1>7, <1>8 DEF TaskCountExact
<1>10. ClosedQuiescent'
  <2> SUFFICES ASSUME NEW s \in RegionSlots, regions'[s].alive
               PROVE  /\ regions'[s].state \in {"Finalizing", "Closed"}
                            => LiveTasks(HandleOf(s))' = {}
                      /\ regions'[s].state = "Closed" => Owed(HandleOf(s))' = {}
    BY DEF ClosedQuiescent
  <2>1. CASE s = h.slot
    BY <2>1
  <2>2. CASE s # h.slot
    <3>1. HandleOf(s) # h
      BY <2>2 DEF HandleOf
    <3> QED BY <1>1, <1>2, <1>4, <1>5, <3>1 DEF ClosedQuiescent
  <2> QED BY <2>1, <2>2
<1>11. OwnersInv'
  BY <1>1, <1>6, <1>8 DEF OwnersInv
<1> QED BY <1>9, <1>10, <1>11 DEF ArenaInv

\* Recycling a slot strands nothing: no live task and no reserved obligation names it.
LEMMA RecyclableFree ==
  ASSUME TypeInv, ArenaInv, NEW s \in RegionSlots, Recyclable(s)
  PROVE  /\ \A h \in RegionHandles : h.slot = s => LiveTasks(h) = {} /\ Owed(h) = {}
         /\ LiveTasks(HandleOf(s)) = {} /\ Owed(HandleOf(s)) = {}
<1>1. LifecycleTypeOK /\ TaskCountExact /\ ClosedQuiescent /\ OwnersInv
  BY DEF TypeInv, TypeOK, ArenaInv
<1>2. regions[s].alive => LiveTasks(HandleOf(s)) = {} /\ Owed(HandleOf(s)) = {}
  BY <1>1 DEF ClosedQuiescent, Recyclable
<1>3. ASSUME NEW h \in RegionHandles, h.slot = s PROVE LiveTasks(h) = {} /\ Owed(h) = {}
  <2>1. ASSUME NEW i \in LiveTasks(h) PROVE FALSE
    <3>1. Resolves(h)
      BY <1>1, LiveResolves
    <3> QED BY <1>1, <1>2, <1>3, <2>1, <3>1, HandleFacts
  <2>2. ASSUME NEW o \in Owed(h) PROVE FALSE
    <3>1. Resolves(h)
      BY <1>1 DEF OwnersInv, Owed
    <3> QED BY <1>1, <1>2, <1>3, <2>2, <3>1, HandleFacts
  <2> QED BY <2>1, <2>2
<1>4. HandleOf(s) \in RegionHandles /\ HandleOf(s).slot = s
  BY <1>1 DEF HandleOf, RegionHandles, LifecycleTypeOK, Region
<1> QED BY <1>3, <1>4

LEMMA ArenaOpens ==
  ASSUME TypeInv, TypeInv', ArenaInv, RegionOpen
  PROVE  ArenaInv'
<1>1. LifecycleTypeOK /\ TaskCountExact /\ ClosedQuiescent /\ OwnersInv
  BY DEF TypeInv, TypeOK, ArenaInv
<1>2. PICK s \in RegionSlots :
        /\ Recyclable(s)
        /\ regions' = [regions EXCEPT ![s] =
                         NewRegion(IF @.alive THEN NextGen(@.gen) ELSE @.gen)]
        /\ UNCHANGED <<tasks, taskCount, obligations, obligationCount>>
  BY DEF RegionOpen
<1>3. \A h : LiveTasks(h)' = LiveTasks(h) /\ Owed(h)' = Owed(h)
  BY <1>2 DEF LiveTasks, Owed
<1>4. \A z \in RegionSlots \ {s} : regions'[z] = regions[z] /\ HandleOf(z)' = HandleOf(z)
  BY <1>1, <1>2 DEF LifecycleTypeOK, HandleOf
<1>5. regions'[s].taskCount = 0 /\ regions'[s].state = "Open"
  BY <1>1, <1>2 DEF LifecycleTypeOK, NewRegion
<1>6. HandleOf(s)' \in RegionHandles /\ HandleOf(s)'.slot = s
  BY DEF HandleOf, RegionHandles, TypeInv, TypeOK, LifecycleTypeOK, Region
<1>7. LiveTasks(HandleOf(s))' = {} /\ Owed(HandleOf(s))' = {}
  BY <1>2, <1>3, <1>6, RecyclableFree
<1>8. ASSUME NEW h \in RegionHandles, Resolves(h), LiveTasks(h) # {} \/ Owed(h) # {}
      PROVE  Resolves(h)'
  <2>1. h.slot # s
    BY <1>2, <1>8, RecyclableFree
  <2> QED BY <1>4, <1>8, <2>1 DEF Resolves, RegionHandles
<1>9. TaskCountExact'
  <2>1. ASSUME NEW z \in RegionSlots
        PROVE  regions'[z].taskCount = Cardinality(LiveTasks(HandleOf(z)))'
    <3>1. CASE z = s
      BY <1>5, <1>7, <3>1, FS_EmptySet
    <3>2. CASE z # s
      BY <1>1, <1>3, <1>4, <3>2 DEF TaskCountExact
    <3> QED BY <3>1, <3>2
  <2>2. ASSUME NEW i \in TaskSlots, i < taskCount, ~IsTerminal(tasks[i].state)
        PROVE  Resolves(tasks[i].region)'
    <3>1. i \in LiveTasks(tasks[i].region)
      BY <2>2 DEF LiveTasks
    <3>2. tasks[i].region \in RegionHandles /\ Resolves(tasks[i].region)
      BY <1>1, <2>2 DEF TaskCountExact, OwnersInv
    <3>3. PICK h \in RegionHandles : h = tasks[i].region
      BY <3>2
    <3>4. Resolves(h)'
      BY <1>8, <3>1, <3>2, <3>3
    <3> QED BY <1>2, <3>3, <3>4 DEF Resolves
  <2> QED BY <1>2, <2>1, <2>2 DEF TaskCountExact
<1>10. ClosedQuiescent'
  BY <1>1, <1>3, <1>4, <1>5 DEF ClosedQuiescent
<1>11. OwnersInv'
  <2>1. ASSUME NEW o \in ObligationSlots, o < obligationCount, obligations[o].state = "Reserved"
        PROVE  Resolves(obligations[o].region)'
    <3>1. o \in Owed(obligations[o].region)
      BY <2>1 DEF Owed
    <3>2. obligations[o].region \in RegionHandles /\ Resolves(obligations[o].region)
      BY <1>1, <2>1 DEF OwnersInv
    <3>3. PICK h \in RegionHandles : h = obligations[o].region
      BY <3>2
    <3>4. Resolves(h)'
      BY <1>8, <3>1, <3>2, <3>3
    <3> QED BY <1>2, <3>3, <3>4 DEF Resolves
  <2> QED BY <1>1, <1>2, <1>4, <1>5, <2>1 DEF OwnersInv
<1> QED BY <1>9, <1>10, <1>11 DEF ArenaInv

\* An open region takes on an obligation.
LEMMA ArenaReserves ==
  ASSUME TypeInv, ArenaInv, NEW h \in RegionHandles, ObligationReserve(h)
  PROVE  /\ ArenaInv'
         /\ obligationCount \notin Owed(h)
         /\ Owed(h)' = Owed(h) \cup {obligationCount}
         /\ \A g : g # h => Owed(g)' = Owed(g)
<1>1. LifecycleTypeOK /\ TaskCountExact /\ ClosedQuiescent /\ OwnersInv
  BY DEF TypeInv, TypeOK, ArenaInv
<1> DEFINE n == obligationCount
<1>2. /\ n \in ObligationSlots /\ ObligationSlots \subseteq Nat
      /\ obligations' = [obligations EXCEPT ![n] = [state |-> "Reserved", region |-> h]]
      /\ obligationCount' = n + 1 /\ UNCHANGED <<regions, tasks, taskCount>>
      /\ Resolves(h) /\ regions[h.slot].state = "Open"
  BY <1>1, LifecycleAssumption DEF ObligationReserve, LifecycleTypeOK, ObligationSlots, CanSpawn
<1>3. \A o \in ObligationSlots :
        /\ o # n => obligations'[o] = obligations[o]
        /\ o = n => obligations'[o] = [state |-> "Reserved", region |-> h]
        /\ o < obligationCount' <=> o < n \/ o = n
  BY <1>1, <1>2 DEF LifecycleTypeOK
<1>4. ASSUME NEW g, NEW o
      PROVE  o \in Owed(g)' <=> o \in Owed(g) \/ (g = h /\ o = n)
  <2>1. CASE o \in ObligationSlots /\ o # n
    BY <1>3, <2>1 DEF Owed
  <2>2. CASE o = n
    BY <1>2, <1>3, <2>2 DEF Owed
  <2>3. CASE o \notin ObligationSlots
    BY <1>2, <2>3 DEF Owed
  <2> QED BY <2>1, <2>2, <2>3
<1>5. n \notin Owed(h)
  BY <1>2 DEF Owed
<1>6. Owed(h)' = Owed(h) \cup {n} /\ \A g : g # h => Owed(g)' = Owed(g)
  BY <1>4
<1>7. TaskCountExact'
  BY <1>1, <1>2 DEF TaskCountExact, LiveTasks, HandleOf, Resolves
<1>8. ClosedQuiescent'
  <2>1. \A s \in RegionSlots : LiveTasks(HandleOf(s))' = LiveTasks(HandleOf(s))
                               /\ HandleOf(s)' = HandleOf(s)
    BY <1>2 DEF LiveTasks, HandleOf
  <2>2. \A s \in RegionSlots : regions[s].state = "Closed" => HandleOf(s) # h
    BY <1>2 DEF HandleOf
  <2> QED BY <1>1, <1>2, <1>6, <2>1, <2>2 DEF ClosedQuiescent
<1>9. OwnersInv'
  <2>1. ASSUME NEW o \in ObligationSlots, o < obligationCount'
        PROVE  /\ obligations'[o].region \in RegionHandles
               /\ obligations'[o].state = "Reserved" => Resolves(obligations[o].region)'
    <3>1. CASE o = n
      BY <1>2, <1>3, <3>1 DEF Resolves
    <3>2. CASE o # n
      BY <1>1, <1>2, <1>3, <2>1, <3>2 DEF OwnersInv, Resolves
    <3> QED BY <3>1, <3>2
  <2> QED BY <1>1, <1>2, <2>1 DEF OwnersInv
<1> QED BY <1>5, <1>6, <1>7, <1>8, <1>9 DEF ArenaInv

\* An obligation is resolved.
LEMMA ArenaResolves ==
  ASSUME TypeInv, ArenaInv, NEW o \in ObligationSlots, NEW target \in {"Committed", "Aborted"},
         ObligationResolve(o, target)
  PROVE  /\ ArenaInv'
         /\ o \in Owed(obligations[o].region)
         /\ \A h : Owed(h)' = Owed(h) \ {o}
<1>1. LifecycleTypeOK /\ TaskCountExact /\ ClosedQuiescent /\ OwnersInv
  BY DEF TypeInv, TypeOK, ArenaInv
<1>2. /\ o < obligationCount /\ obligations[o].state = "Reserved"
      /\ obligations'[o].state # "Reserved" /\ obligations'[o].region = obligations[o].region
      /\ \A p \in ObligationSlots \ {o} : obligations'[p] = obligations[p]
      /\ UNCHANGED <<regions, tasks, taskCount, obligationCount>>
  BY <1>1 DEF ObligationResolve, ObligationEdges, LifecycleTypeOK, Obligation
<1>3. \A h : Owed(h)' = Owed(h) \ {o}
  BY <1>2 DEF Owed
<1>4. o \in Owed(obligations[o].region)
  BY <1>2 DEF Owed
<1>5. TaskCountExact'
  BY <1>1, <1>2 DEF TaskCountExact, LiveTasks, HandleOf, Resolves
<1>6. ClosedQuiescent'
  <2>1. \A s \in RegionSlots : LiveTasks(HandleOf(s))' = LiveTasks(HandleOf(s))
                               /\ HandleOf(s)' = HandleOf(s)
    BY <1>2 DEF LiveTasks, HandleOf
  <2> QED BY <1>1, <1>2, <1>3, <2>1 DEF ClosedQuiescent
<1>7. OwnersInv'
  <2>1. ASSUME NEW p \in ObligationSlots, p < obligationCount
        PROVE  /\ obligations'[p].region \in RegionHandles
               /\ obligations'[p].state = "Reserved" => Resolves(obligations[p].region)'
    BY <1>1, <1>2, <2>1 DEF OwnersInv, Resolves
  <2> QED BY <1>1, <1>2, <2>1 DEF OwnersInv
<1> QED BY <1>3, <1>4, <1>5, <1>6, <1>7 DEF ArenaInv

\* A region whose tasks are gone settles in Finalizing, or closes once it owes nothing.
LEMMA ArenaSettles ==
  ASSUME TypeInv, ArenaInv, UNCHANGED <<tasks, taskCount, obligations, obligationCount>>,
         NEW s \in RegionSlots, LiveTasks(HandleOf(s)) = {},
         NEW st \in RegionStates, regions' = [regions EXCEPT ![s].state = st],
         st # "Draining", st = "Closed" => Owed(HandleOf(s)) = {}
  PROVE  ArenaInv'
<1>1. LifecycleTypeOK /\ TaskCountExact /\ ClosedQuiescent /\ OwnersInv
  BY DEF TypeInv, TypeOK, ArenaInv
<1>2. \A z \in RegionSlots :
        /\ regions'[z].gen = regions[z].gen /\ regions'[z].alive = regions[z].alive
        /\ regions'[z].taskCount = regions[z].taskCount
        /\ regions'[z].state = IF z = s THEN st ELSE regions[z].state
  BY <1>1 DEF LifecycleTypeOK, Region
<1>3. \A z \in RegionSlots : HandleOf(z)' = HandleOf(z)
  BY <1>2 DEF HandleOf
<1>4. \A h : LiveTasks(h)' = LiveTasks(h) /\ Owed(h)' = Owed(h)
  BY DEF LiveTasks, Owed
<1>5. \A h \in RegionHandles : Resolves(h)' <=> Resolves(h)
  BY <1>2 DEF Resolves, RegionHandles
<1>6. TaskCountExact'
  BY <1>1, <1>2, <1>3, <1>4, <1>5 DEF TaskCountExact, OwnersInv, Resolves
<1>7. ClosedQuiescent'
  BY <1>1, <1>2, <1>3, <1>4 DEF ClosedQuiescent
<1>8. OwnersInv'
  BY <1>1, <1>2, <1>5 DEF OwnersInv, Resolves
<1> QED BY <1>6, <1>7, <1>8 DEF ArenaInv

----------------------------------------------------------------------------
(* The calls in progress under a step *)

\* What CallsInv says of one call.
FrameInv(f) ==
  /\ f.pc = "poll" => f.next \in LiveTasks(f.region) /\ Resolves(f.region)
  /\ \A j \in LiveTasks(f.region) :
       /\ f.pc = "scan" /\ f.active = 0 => f.next <= j
       /\ f.pc = "poll" /\ f.active = 1 => f.next <= j
  /\ f.pc = "advance" => f.drain /\ LiveTasks(f.region) = {}
  /\ f.drain => Resolves(f.region) /\ regions[f.region.slot].state # "Open"
  /\ f.pc = "return" /\ f.status = "Ok" =>
       /\ LiveTasks(f.region) = {}
       /\ f.drain => /\ regions[f.region.slot].state = "Closed"
                     /\ Owed(f.region) = {}
  /\ f.pc = "return" => f.status # "TasksLive"

LEMMA CallsByFrame ==
  TypeInv => (CallsInv <=> StackInv /\ \A d \in 1 .. depth : FrameInv(frames[d]))
<1> SUFFICES ASSUME TypeInv
             PROVE  CallsInv <=> StackInv /\ \A d \in 1 .. depth : FrameInv(frames[d])
  OBVIOUS
<1>1. depth \in Nat /\ \A d \in 1 .. depth : d \in 1 .. depth - 1 \/ d = depth
  BY SchedulerAssumption DEF TypeInv, TypeOK, SchedulerTypeOK
<1>2. ASSUME CallsInv, NEW d \in 1 .. depth PROVE FrameInv(frames[d])
  <2>1. d = depth \/ frames[d].pc = "poll"
    BY <1>1, <1>2 DEF CallsInv, StackInv
  <2> QED BY <1>1, <1>2, <2>1
          DEF CallsInv, FrameInv, HonestReturn, PolledTaskAlive, DrainNeverTasksLive,
              RoundInv, DrainInv, At, Top
<1>3. ASSUME StackInv, \A d \in 1 .. depth : FrameInv(frames[d]) PROVE CallsInv
  <2>1. depth > 0 => depth \in 1 .. depth
    BY <1>1
  <2>2. HonestReturn /\ DrainNeverTasksLive
    BY <1>3, <2>1 DEF FrameInv, HonestReturn, DrainNeverTasksLive, At, Top
  <2>3. PolledTaskAlive /\ RoundInv /\ DrainInv
    BY <1>3 DEF FrameInv, PolledTaskAlive, RoundInv, DrainInv
  <2> QED BY <1>3, <2>2, <2>3 DEF CallsInv
<1> QED BY <1>2, <1>3 DEF CallsInv

\* The same after the step.
LEMMA CallsByFrameNext ==
  TypeInv' => (CallsInv' <=> (StackInv /\ \A d \in 1 .. depth : FrameInv(frames[d]))')
BY CallsByFrame, PTL

\* A call waiting for its callback is not disturbed by a step that completes no task of
\* its region: a task spawned meanwhile is allocated past the one being polled.
LEMMA WaitingKept ==
  ASSUME TypeInv, NEW d \in 1 .. depth, frames'[d] = frames[d],
         FrameInv(frames[d]), frames[d].pc = "poll",
         LiveTasks(frames[d].region) \subseteq LiveTasks(frames[d].region)',
         \A j \in LiveTasks(frames[d].region)' :
           j \in LiveTasks(frames[d].region) \/ j = taskCount,
         Resolves(frames[d].region)',
         LET s == frames[d].region.slot
         IN  regions'[s].state = "Open" => regions[s].state = "Open"
  PROVE  FrameInv(frames[d])'
<1>1. frames[d] \in Frame /\ FrameShape(frames[d])
  BY SchedulerAssumption DEF TypeInv, TypeOK, SchedulerTypeOK
<1>2. frames[d].next < taskCount /\ frames[d].next \in Nat /\ taskCount \in Nat
  BY <1>1 DEF FrameShape, Frame, TypeInv, TypeOK, LifecycleTypeOK
<1> QED BY <1>1, <1>2 DEF FrameInv, LiveTasks, TaskSlots

\* Steps that leave the stack alone, taken while every call waits for its callback.
LEMMA OperationCalls ==
  ASSUME TypeInv, TypeInv', CallsInv, UNCHANGED schedulerVars, Callable,
         \A h \in RegionHandles :
           /\ LiveTasks(h) \subseteq LiveTasks(h)'
           /\ \A j \in LiveTasks(h)' : j \in LiveTasks(h) \/ j = taskCount
           /\ Resolves(h) /\ LiveTasks(h) # {} =>
                /\ Resolves(h)'
                /\ regions'[h.slot].state = "Open" => regions[h.slot].state = "Open"
  PROVE  CallsInv'
<1>1. frames' = frames /\ depth' = depth /\ depth \in Nat
  BY DEF schedulerVars, TypeInv, TypeOK, SchedulerTypeOK
<1>2. StackInv /\ \A d \in 1 .. depth : FrameInv(frames[d])
  BY CallsByFrame
<1>3. StackInv'
  BY <1>1, <1>2 DEF StackInv
<1>4. ASSUME NEW d \in 1 .. depth PROVE FrameInv(frames[d])'
  <2>1. frames[d].pc = "poll"
    BY <1>1, <1>2 DEF StackInv, Callable, Top
  <2>2. frames[d].region \in RegionHandles
    BY DEF TypeInv, FrameShape
  <2>3. PICK h \in RegionHandles : h = frames[d].region
    BY <2>2
  <2>4. Resolves(h) /\ LiveTasks(h) # {}
    BY <1>2, <2>1, <2>3 DEF FrameInv
  <2>5. /\ LiveTasks(h) \subseteq LiveTasks(h)'
        /\ \A j \in LiveTasks(h)' : j \in LiveTasks(h) \/ j = taskCount
        /\ Resolves(h)'
        /\ regions'[h.slot].state = "Open" => regions[h.slot].state = "Open"
    BY <2>4
  <2>6. h = frames'[d].region
    BY <1>1, <2>3
  <2> QED BY <1>1, <1>2, <2>1, <2>3, <2>5, <2>6, WaitingKept
<1>5. \A d \in 1 .. depth' : FrameInv(frames[d])'
  BY <1>1, <1>4
<1> QED BY <1>3, <1>5, CallsByFrameNext

\* Steps of the top call.
LEMMA TopCalls ==
  ASSUME TypeInv, TypeInv', CallsInv, depth > 0,
         NEW f \in Frame, f.region = Top.region, Goto(f),
         FrameInv(Top)',
         \A h \in RegionHandles : h # Top.region =>
           /\ LiveTasks(h)' = LiveTasks(h)
           /\ Resolves(h) =>
                /\ Resolves(h)'
                /\ regions'[h.slot].state = "Open" => regions[h.slot].state = "Open"
  PROVE  CallsInv'
<1>1. depth' = depth /\ depth \in 1 .. MaxDepth /\ frames' = [frames EXCEPT ![depth] = f]
      /\ frames \in [1 .. MaxDepth -> Frame] /\ MaxDepth \in Nat
  BY TopType, SchedulerAssumption DEF Goto, TypeInv, TypeOK, SchedulerTypeOK
<1>2. StackInv /\ \A d \in 1 .. depth : FrameInv(frames[d])
  BY CallsByFrame
<1>3. frames'[depth] = f /\ \A d \in 1 .. depth : d # depth => frames'[d] = frames[d]
  BY <1>1
<1>4. StackInv'
  BY <1>1, <1>2, <1>3 DEF StackInv, Top
<1>5. ASSUME NEW d \in 1 .. depth, d # depth PROVE FrameInv(frames[d])'
  <2>1. frames[d].pc = "poll" /\ frames[d].region # Top.region
    BY <1>1, <1>2, <1>5 DEF StackInv, Top
  <2>2. PICK h \in RegionHandles : h = frames[d].region
    BY DEF TypeInv, FrameShape
  <2>3. Resolves(h)
    BY <1>2, <2>1, <2>2 DEF FrameInv
  <2>4. /\ LiveTasks(h)' = LiveTasks(h)
        /\ Resolves(h)'
        /\ regions'[h.slot].state = "Open" => regions[h.slot].state = "Open"
    BY <2>1, <2>2, <2>3
  <2>5. h = frames'[d].region /\ frames'[d] = frames[d]
    BY <1>3, <1>5, <2>2
  <2> QED BY <1>2, <2>1, <2>2, <2>4, <2>5, WaitingKept
<1>6. \A d \in 1 .. depth' : FrameInv(frames[d])'
  BY <1>1, <1>5 DEF Top
<1> QED BY <1>4, <1>6, CallsByFrameNext

\* A call entered from a callback, or from the program, on a region not running yet.
LEMMA PushCalls ==
  ASSUME TypeInv, TypeInv', CallsInv, ~Reentrant, NEW h \in RegionHandles, MayEnter(h),
         NEW drain \in BOOLEAN, NEW pc \in {"round", "advance"}, NEW budget \in 0 .. MaxBudget,
         Push(h, drain, pc, budget),
         pc = "advance" => drain /\ LiveTasks(h) = {},
         drain => regions'[h.slot].state # "Open",
         \A g \in RegionHandles :
           /\ LiveTasks(g)' = LiveTasks(g)
           /\ Resolves(g) =>
                /\ Resolves(g)'
                /\ regions'[g.slot].state = "Open" => regions[g.slot].state = "Open"
  PROVE  CallsInv'
<1> DEFINE f == [pc |-> pc, drain |-> drain, region |-> h, next |-> 0, active |-> 0,
                 budget |-> budget, status |-> "None"]
<1>1. /\ depth \in Nat /\ depth' = depth + 1 /\ depth + 1 \in 1 .. MaxDepth
      /\ frames' = [frames EXCEPT ![depth + 1] = f] /\ frames \in [1 .. MaxDepth -> Frame]
      /\ MaxDepth \in Nat
  BY SchedulerAssumption DEF Push, MayEnter, TypeInv, TypeOK, SchedulerTypeOK
<1>2. StackInv /\ \A d \in 1 .. depth : FrameInv(frames[d])
  BY CallsByFrame
<1>3. frames'[depth + 1] = f
  BY <1>1
<1>4. ASSUME NEW d \in 1 .. depth
      PROVE  frames'[d] = frames[d] /\ frames[d].pc = "poll" /\ frames[d].region # h
  <2>1. d # depth + 1 /\ (d \in 1 .. depth - 1 \/ d = depth)
    BY <1>1
  <2>2. frames[d].pc = "poll"
    BY <1>1, <1>2, <2>1 DEF StackInv, MayEnter, Callable, Top
  <2>3. frames[d].region # h
    BY DEF MayEnter
  <2> QED BY <1>1, <2>1, <2>2, <2>3
<1>5. \A d \in 1 .. depth + 1 : d \in 1 .. depth \/ d = depth + 1
  BY <1>1
<1>6. StackInv'
  <2>1. \A d \in 1 .. depth' - 1 : frames'[d].pc = "poll"
    BY <1>1, <1>4
  <2>2. ASSUME NEW d \in 1 .. depth', NEW e \in 1 .. depth', d # e
        PROVE  frames'[d].region # frames'[e].region
    <3>1. f.region = h
      OBVIOUS
    <3>2. CASE d \in 1 .. depth /\ e \in 1 .. depth
      BY <1>2, <1>4, <2>2, <3>2 DEF StackInv
    <3>3. CASE d = depth + 1 \/ e = depth + 1
      <4> HIDE DEF f
      <4> QED BY <1>1, <1>3, <1>4, <1>5, <2>2, <3>1, <3>3
    <3> QED BY <1>1, <1>5, <3>2, <3>3
  <2> QED BY <2>1, <2>2 DEF StackInv
<1>7. ASSUME NEW d \in 1 .. depth PROVE FrameInv(frames[d])'
  <2>1. PICK g \in RegionHandles : g = frames[d].region
    BY DEF TypeInv, FrameShape
  <2>2. Resolves(g)
    BY <1>2, <1>4, <2>1 DEF FrameInv
  <2>3. /\ LiveTasks(g)' = LiveTasks(g)
        /\ Resolves(g)'
        /\ regions'[g.slot].state = "Open" => regions[g.slot].state = "Open"
    BY <2>2
  <2>4. g = frames'[d].region /\ frames'[d] = frames[d]
    BY <1>4, <2>1
  <2> QED BY <1>2, <1>4, <2>1, <2>3, <2>4, WaitingKept
<1>8. FrameInv(frames[depth])'
  <2>1. frames'[depth'] = f /\ Resolves(h)' /\ LiveTasks(h)' = LiveTasks(h)
    BY <1>1, <1>3 DEF MayEnter
  <2> QED BY <2>1 DEF FrameInv
<1>9. \A d \in 1 .. depth' : FrameInv(frames[d])'
  <2>1. ASSUME NEW d \in 1 .. depth' PROVE FrameInv(frames[d])'
    <3>1. CASE d \in 1 .. depth
      BY <1>7, <3>1
    <3>2. CASE d = depth'
      BY <1>8, <3>2 DEF FrameInv, LiveTasks, Owed, Resolves
    <3> QED BY <1>1, <1>5, <3>1, <3>2
  <2> QED BY <2>1
<1> QED BY <1>6, <1>9, CallsByFrameNext

LEMMA ReturnCalls ==
  ASSUME TypeInv, TypeInv', CallsInv, Return
  PROVE  CallsInv'
<1>1. /\ depth \in 1 .. MaxDepth /\ depth' = depth - 1 /\ MaxDepth \in Nat
      /\ frames' = [frames EXCEPT ![depth] = NoFrame] /\ frames \in [1 .. MaxDepth -> Frame]
      /\ UNCHANGED lifecycleVars
  BY TopType, SchedulerAssumption DEF Return, At, TypeInv, TypeOK, SchedulerTypeOK
<1>2. StackInv /\ \A d \in 1 .. depth : FrameInv(frames[d])
  BY CallsByFrame
<1>3. \A d \in 1 .. depth' : d \in 1 .. depth /\ d # depth /\ frames'[d] = frames[d]
  BY <1>1
<1>4. \A d \in 1 .. depth' - 1 : d \in 1 .. depth - 1
  BY <1>1
<1>5. StackInv'
  BY <1>1, <1>2, <1>3, <1>4 DEF StackInv
<1>6. \A d \in 1 .. depth' : FrameInv(frames[d])'
  <2> TAKE d \in 1 .. depth'
  <2>1. FrameInv(frames[d]) /\ frames'[d] = frames[d]
    BY <1>2, <1>3
  <2> QED
    BY <1>1, <2>1, ZenonT(30) DEF FrameInv, LiveTasks, Owed, Resolves, lifecycleVars
<1> QED BY <1>5, <1>6, CallsByFrameNext

----------------------------------------------------------------------------
(* Every step keeps the structure *)

\* Steps that touch no task, seen as keeping each of them.
LEMMA TasksUntouched ==
  ASSUME UNCHANGED <<tasks, taskCount>>
  PROVE  TasksKept
BY DEF TasksKept, Kept

LEMMA OneTaskKept ==
  ASSUME LifecycleTypeOK, UNCHANGED taskCount, NEW i \in TaskSlots, NEW u,
         tasks' = [tasks EXCEPT ![i] = u], Kept(tasks[i], u)
  PROVE  TasksKept
BY DEF TasksKept, Kept, LifecycleTypeOK

LEMMA CancelKeepsTasks ==
  ASSUME LifecycleTypeOK, CancelOperation
  PROVE  TasksKept
<1>1. Kinds \subseteq CancelKinds /\ tasks \in [TaskSlots -> Task]
  BY CancellationAssumption DEF LifecycleTypeOK
<1>2. ASSUME NEW i \in TaskSlots, NEW kind \in Kinds, TaskCancel(i, kind) PROVE TasksKept
  BY <1>1, <1>2, CancelledKeeps, OneTaskKept DEF TaskCancel
<1>3. ASSUME NEW i \in TaskSlots, NEW kind \in Kinds, NEW origin \in Origins,
             TaskCancelWithOrigin(i, kind, origin)
      PROVE  TasksKept
  BY <1>1, <1>3, CancelledFromKeeps, OneTaskKept DEF TaskCancelWithOrigin
<1>4. ASSUME NEW h \in RegionHandles, NEW kind \in Kinds, CancelPropagate(h, kind)
      PROVE  TasksKept
  <2>1. ASSUME NEW i \in TaskSlots PROVE Kept(tasks[i], Propagated(tasks, h, kind)[i])
    BY <1>1, PropagatedKeeps
  <2> QED BY <1>4, <2>1 DEF CancelPropagate, TasksKept
<1>5. ASSUME NEW i \in TaskSlots, NEW p \in {"Cancelling", "Finalizing"},
             ~IsTerminal(tasks[i].state), UNCHANGED taskCount,
             tasks' = [tasks EXCEPT ![i].state = p, ![i].phase = p]
      PROVE  TasksKept
  <2> DEFINE u == [tasks[i] EXCEPT !.state = p, !.phase = p]
  <2>1. Kept(tasks[i], u)
    BY <1>1, <1>5, PolledKeeps
  <2>2. tasks' = [tasks EXCEPT ![i] = u]
    BY <1>5
  <2> HIDE DEF u
  <2> QED BY <1>5, <2>1, <2>2, OneTaskKept
<1>6. ASSUME NEW i \in TaskSlots, Checkpoint(i) PROVE TasksKept
  BY <1>5, <1>6 DEF Checkpoint, IsTerminal
<1>7. ASSUME NEW i \in TaskSlots, TaskFinalize(i) PROVE TasksKept
  BY <1>5, <1>7 DEF TaskFinalize, IsTerminal
<1> QED BY <1>2, <1>3, <1>4, <1>6, <1>7 DEF CancelOperation

\* Either form of spawn begins a task of an open region and counts it.
LEMMA SpawnBegins ==
  ASSUME TypeInv, NEW h \in RegionHandles,
         TaskSpawn(h) \/ \E size \in CaptureSizes : TaskSpawnCaptured(h, size)
  PROVE  /\ MaySpawn(h) /\ regions[h.slot].state = "Open"
         /\ \E c : TaskBegins(h, c)
         /\ UNCHANGED <<obligations, obligationCount>>
         /\ \A s \in RegionSlots :
              LET r == regions[s]
                  q == regions'[s]
              IN  /\ q.gen = r.gen /\ q.alive = r.alive /\ q.state = r.state
                  /\ q.poisoned = r.poisoned
                  /\ q.taskCount = IF s = h.slot THEN r.taskCount + 1 ELSE r.taskCount
<1>1. /\ LifecycleTypeOK /\ h.slot \in RegionSlots
      /\ \A s \in RegionSlots : regions[s] \in Region
  BY HandleFacts DEF TypeInv, TypeOK
<1>2. MaySpawn(h)
  BY DEF TaskSpawn, TaskSpawnCaptured
<1>3. taskCount \in TaskSlots
  BY <1>1, <1>2, LifecycleAssumption DEF MaySpawn, LifecycleTypeOK, TaskSlots
<1>4. \E c : Allocate(h, c)
  BY DEF TaskSpawn, TaskSpawnCaptured
<1>5. (\E c : TaskBegins(h, c)) /\ UNCHANGED <<obligations, obligationCount>>
  BY <1>3, <1>4 DEF Allocate, TaskBegins
<1>6. CASE TaskSpawn(h)
  BY <1>1, <1>2, <1>5, <1>6 DEF TaskSpawn, MaySpawn, CanSpawn, LifecycleTypeOK, Region
<1>7. ASSUME NEW size \in CaptureSizes, TaskSpawnCaptured(h, size)
      PROVE  \A s \in RegionSlots :
               LET r == regions[s]
                   q == regions'[s]
               IN  /\ q.gen = r.gen /\ q.alive = r.alive /\ q.state = r.state
                   /\ q.poisoned = r.poisoned
                   /\ q.taskCount = IF s = h.slot THEN r.taskCount + 1 ELSE r.taskCount
  <2>1. PICK u : regions' = [regions EXCEPT ![h.slot].taskCount = @ + 1,
                                            ![h.slot].captureUsed = u]
    BY <1>7 DEF TaskSpawnCaptured
  <2>2. regions \in [RegionSlots -> Region]
    BY <1>1 DEF LifecycleTypeOK
  <2> QED BY <1>1, <2>1, <2>2 DEF Region
<1> QED BY <1>2, <1>5, <1>6, <1>7 DEF MaySpawn, CanSpawn

LEMMA OperationStructure ==
  ASSUME StructureInv, TypeInv', Operation
  PROVE  StructureInv'
<1> USE DEF StructureInv
<1>1. UNCHANGED schedulerVars /\ Callable /\ LifecycleTypeOK
      /\ \A s \in RegionSlots : regions[s] \in Region
  BY HandleFacts DEF Operation, TypeInv, TypeOK, LifecycleTypeOK
<1>2. ASSUME TasksKept, UNCHANGED <<obligations, obligationCount>>,
             \A s \in RegionSlots :
               LET r == regions[s]
                   q == regions'[s]
               IN  /\ q.gen = r.gen /\ q.alive = r.alive /\ q.taskCount = r.taskCount
                   /\ q.state = r.state \/ q.state = "Closing"
      PROVE  StructureInv'
  <2>1. ArenaInv'
    BY <1>2, ArenaQuiet
  <2>2. \A h : LiveTasks(h)' = LiveTasks(h)
    BY <1>2, LiveKept
  <2>3. \A h \in RegionHandles : Resolves(h) =>
          /\ Resolves(h)'
          /\ regions'[h.slot].state = "Open" => regions[h.slot].state = "Open"
    BY <1>2 DEF Resolves, RegionHandles
  <2>4. CallsInv'
    BY <1>1, <2>2, <2>3, OperationCalls
  <2> QED BY <2>1, <2>4
<1>3. CASE RegionOpen
  <2>1. PICK s \in RegionSlots :
          /\ Recyclable(s)
          /\ \A z \in RegionSlots \ {s} : regions'[z] = regions[z]
          /\ UNCHANGED <<tasks, taskCount>>
    BY <1>1, <1>3 DEF RegionOpen, LifecycleTypeOK
  <2>2. \A h : LiveTasks(h)' = LiveTasks(h)
    BY <2>1 DEF LiveTasks
  <2>3. ASSUME NEW h \in RegionHandles, Resolves(h), LiveTasks(h) # {}
        PROVE  Resolves(h)' /\ regions'[h.slot] = regions[h.slot]
    <3>1. h.slot # s
      BY <2>1, <2>3, RecyclableFree
    <3> QED BY <2>1, <2>3, <3>1 DEF Resolves, RegionHandles
  <2>4. CallsInv'
    BY <1>1, <2>2, <2>3, OperationCalls
  <2> QED BY <1>3, <2>4, ArenaOpens
<1>4. ASSUME NEW h \in RegionHandles, RegionClose(h) \/ RegionPoison(h)
      PROVE  StructureInv'
  <2>1. TasksKept /\ UNCHANGED <<obligations, obligationCount>>
    BY <1>4, TasksUntouched DEF RegionClose, RegionPoison
  <2>2. \A s \in RegionSlots :
          LET r == regions[s]
              q == regions'[s]
          IN  /\ q.gen = r.gen /\ q.alive = r.alive /\ q.taskCount = r.taskCount
              /\ q.state = r.state \/ q.state = "Closing"
    BY <1>1, <1>4 DEF RegionClose, RegionPoison, LifecycleTypeOK, Region
  <2> QED BY <1>2, <2>1, <2>2
<1>5. ASSUME NEW h \in RegionHandles,
             TaskSpawn(h) \/ \E size \in CaptureSizes : TaskSpawnCaptured(h, size)
      PROVE  StructureInv'
  <2>1. /\ Resolves(h) /\ regions[h.slot].state = "Open"
        /\ UNCHANGED <<obligations, obligationCount>>
        /\ \A s \in RegionSlots :
             LET r == regions[s]
                 q == regions'[s]
             IN  /\ q.gen = r.gen /\ q.alive = r.alive /\ q.state = r.state
                 /\ q.taskCount = IF s = h.slot THEN r.taskCount + 1 ELSE r.taskCount
    BY <1>5, SpawnBegins DEF MaySpawn
  <2>2. PICK c : TaskBegins(h, c)
    BY <1>5, SpawnBegins
  <2>3. ArenaInv'
    BY <2>1, <2>2, ArenaBegins
  <2>4. \A g : /\ LiveTasks(g) \subseteq LiveTasks(g)'
               /\ \A j \in LiveTasks(g)' : j \in LiveTasks(g) \/ j = taskCount
    BY <1>1, <2>2, LiveBegins
  <2>5. \A g \in RegionHandles : Resolves(g) =>
          /\ Resolves(g)'
          /\ regions'[g.slot].state = "Open" => regions[g.slot].state = "Open"
    BY <2>1 DEF Resolves, RegionHandles
  <2>6. CallsInv'
    BY <1>1, <2>4, <2>5, OperationCalls
  <2> QED BY <2>3, <2>6
<1>6. ASSUME UNCHANGED <<regions, tasks, taskCount>>, ArenaInv' PROVE StructureInv'
  <2>1. \A h : LiveTasks(h)' = LiveTasks(h) /\ (Resolves(h)' <=> Resolves(h))
    BY <1>6 DEF LiveTasks, Resolves
  <2>2. CallsInv'
    BY <1>1, <1>6, <2>1, OperationCalls
  <2> QED BY <1>6, <2>2
<1>7. ASSUME NEW h \in RegionHandles, ObligationReserve(h) PROVE StructureInv'
  BY <1>6, <1>7, ArenaReserves DEF ObligationReserve
<1>8. ASSUME NEW o \in ObligationSlots, ObligationCommit(o) \/ ObligationAbort(o)
      PROVE  StructureInv'
  <2>1. PICK target \in {"Committed", "Aborted"} : ObligationResolve(o, target)
    BY <1>8 DEF ObligationCommit, ObligationAbort
  <2> QED BY <1>6, <2>1, ArenaResolves DEF ObligationResolve
<1>9. CASE CancelOperation
  <2>1. UNCHANGED <<regions, obligations, obligationCount>>
    BY <1>9 DEF CancelOperation, TaskCancel, TaskCancelWithOrigin, CancelPropagate, Checkpoint,
                TaskFinalize
  <2> QED BY <1>1, <1>2, <1>9, <2>1, CancelKeepsTasks
<1> QED BY <1>3, <1>4, <1>5, <1>7, <1>8, <1>9
        DEF Operation, RegionOperation, TaskOperation, ObligationOperation

\* Entering a run or a drain cancels at most: no task begins or ends.
LEMMA EnterKeepsTasks ==
  ASSUME LifecycleTypeOK, Enter
  PROVE  TasksKept
<1>1. PICK h \in RegionHandles, budget \in 0 .. MaxBudget :
        SchedulerRun(h, budget) \/ RegionDrain(h, budget)
  BY DEF Enter
<1>2. tasks \in [TaskSlots -> Task] /\ "Parent" \in CancelKinds
  BY DEF LifecycleTypeOK, CancelKinds
<1> DEFINE opening == IF regions[h.slot].state = "Open"
                      THEN Propagated(tasks, h, "Parent") ELSE tasks
<1>3. tasks' = tasks \/ tasks' = opening \/ tasks' = Propagated(opening, h, "Parent")
  BY <1>1 DEF SchedulerRun, RegionDrain, DrainCancels, lifecycleVars
<1>4. opening \in [TaskSlots -> Task]
  BY <1>2, PropagatedType
<1>5. \A i \in TaskSlots : Kept(tasks[i], tasks[i]) /\ Kept(tasks[i], opening[i])
  BY <1>2, PropagatedKeeps, PolledKeeps
<1> HIDE DEF opening
<1>6. ASSUME NEW i \in TaskSlots PROVE Kept(opening[i], Propagated(opening, h, "Parent")[i])
  BY <1>2, <1>4, PropagatedKeeps
<1>7. \A i \in TaskSlots : Kept(tasks[i], tasks'[i])
  BY <1>3, <1>5, <1>6, KeptTwice
<1>8. taskCount' = taskCount
  BY <1>1 DEF SchedulerRun, RegionDrain, lifecycleVars
<1> QED BY <1>7, <1>8 DEF TasksKept

LEMMA EnterStructure ==
  ASSUME StructureInv, TypeInv', ~Reentrant, Enter
  PROVE  StructureInv'
<1> USE DEF StructureInv
<1>1. LifecycleTypeOK /\ TaskCountExact
  BY DEF TypeInv, TypeOK, ArenaInv
<1>2. PICK h \in RegionHandles, budget \in 0 .. MaxBudget :
        SchedulerRun(h, budget) \/ RegionDrain(h, budget)
  BY DEF Enter
<1>3. h.slot \in RegionSlots /\ HandleOf(h.slot) = h /\ MayEnter(h) /\ Resolves(h)
      /\ regions[h.slot] \in Region
  BY <1>1, <1>2, HandleFacts DEF SchedulerRun, RegionDrain, MayEnter
<1>4. \E drain \in BOOLEAN, pc \in {"round", "advance"} :
        /\ Push(h, drain, pc, budget)
        /\ pc = "advance" => drain /\ LiveTasks(h) = {}
        /\ drain => regions'[h.slot].state # "Open"
  <2>1. CASE SchedulerRun(h, budget)
    BY <2>1 DEF SchedulerRun
  <2>2. CASE RegionDrain(h, budget)
    <3>1. regions[h.slot].taskCount = Cardinality(LiveTasks(h))
      BY <1>1, <1>3 DEF TaskCountExact
    <3>2. ~(regions[h.slot].taskCount > 0) => LiveTasks(h) = {}
      BY <1>1, <3>1, LiveFinite
    <3>3. regions'[h.slot].state # "Open"
      BY <1>1, <1>3, <2>2 DEF RegionDrain, LifecycleTypeOK, Region
    <3> QED BY <2>2, <3>2, <3>3 DEF RegionDrain
  <2> QED BY <1>2, <2>1, <2>2
<1>5. /\ UNCHANGED <<taskCount, obligations, obligationCount>>
      /\ \A s \in RegionSlots :
           LET r == regions[s]
               q == regions'[s]
           IN  /\ q.gen = r.gen /\ q.alive = r.alive /\ q.taskCount = r.taskCount
               /\ q.state = r.state \/ q.state = "Closing"
  <2>1. UNCHANGED <<taskCount, obligations, obligationCount>>
        /\ \/ UNCHANGED regions
           \/ regions' = [regions EXCEPT ![h.slot].state = IF @ = "Open" THEN "Closing" ELSE @]
    BY <1>2 DEF SchedulerRun, RegionDrain, lifecycleVars
  <2> QED BY <1>1, <1>3, <2>1 DEF LifecycleTypeOK, Region
<1>6. TasksKept
  BY <1>1, EnterKeepsTasks
<1>7. ArenaInv'
  BY <1>5, <1>6, ArenaQuiet
<1>8. \A g : LiveTasks(g)' = LiveTasks(g)
  BY <1>6, LiveKept
<1>9. \A g \in RegionHandles : Resolves(g) =>
        /\ Resolves(g)'
        /\ regions'[g.slot].state = "Open" => regions[g.slot].state = "Open"
  BY <1>5 DEF Resolves, RegionHandles
<1>10. CallsInv'
  BY <1>3, <1>4, <1>8, <1>9, PushCalls
<1> QED BY <1>7, <1>10

\* Steps that move the top call and change nothing in the arenas.
LEMMA TopMoves ==
  ASSUME StructureInv, TypeInv', depth > 0, UNCHANGED lifecycleVars,
         NEW f \in Frame, f.region = Top.region, Goto(f), FrameInv(Top)'
  PROVE  StructureInv'
<1>1. ArenaInv'
  BY ArenaQuiet, TasksUntouched DEF StructureInv, lifecycleVars
<1>2. \A h : LiveTasks(h)' = LiveTasks(h) /\ (Resolves(h)' <=> Resolves(h))
  BY DEF LiveTasks, Resolves, lifecycleVars
<1>3. CallsInv'
  BY <1>2, TopCalls DEF StructureInv, lifecycleVars
<1> QED BY <1>1, <1>3 DEF StructureInv

\* What is known of the call on top.
LEMMA TopFacts ==
  ASSUME StructureInv, depth > 0
  PROVE  /\ Top \in Frame /\ FrameShape(Top) /\ FrameInv(Top)
         /\ Top.region \in RegionHandles /\ Top.region.slot \in RegionSlots
         /\ Top.active \in Nat /\ Top.next \in Nat /\ taskCount \in Nat /\ TaskSlots \subseteq Nat
         /\ LifecycleTypeOK
<1>1. Top \in Frame /\ FrameShape(Top) /\ depth \in 1 .. depth
  BY TopType DEF StructureInv
<1>2. FrameInv(Top)
  BY <1>1, CallsByFrame DEF StructureInv, Top
<1> QED BY <1>1, <1>2
        DEF FrameShape, Frame, RegionHandles, StructureInv, TypeInv, TypeOK, LifecycleTypeOK, TaskSlots

\* The frame a Goto leaves on top.
LEMMA GotoTop ==
  ASSUME TypeInv, depth > 0, NEW f, Goto(f)
  PROVE  Top' = f /\ depth' = depth
<1>1. depth \in 1 .. MaxDepth /\ frames \in [1 .. MaxDepth -> Frame]
  BY TopType DEF TypeInv, TypeOK, SchedulerTypeOK
<1> QED BY <1>1 DEF Goto, Top

LEMMA RoundBeginStructure ==
  ASSUME StructureInv, TypeInv', RoundBegin
  PROVE  StructureInv'
<1>1. depth > 0 /\ Top.pc = "round" /\ UNCHANGED lifecycleVars
  BY DEF RoundBegin, At
<1>2. Top \in Frame /\ FrameInv(Top)
  BY <1>1, TopFacts
<1>3. PICK f : /\ Goto(f)
               /\ f = [Top EXCEPT !.pc = "return", !.status = "BudgetExhausted"]
                  \/ f = [Top EXCEPT !.pc = "scan", !.next = 0, !.active = 0]
  BY DEF RoundBegin, Finish
<1>4. /\ f \in Frame /\ f.region = Top.region /\ f.drain = Top.drain
      /\ \/ f.pc = "return" /\ f.status = "BudgetExhausted"
         \/ f.pc = "scan" /\ f.next = 0
  <2>1. 0 \in 0 .. MaxTasks /\ "return" \in PCs /\ "scan" \in PCs
        /\ "BudgetExhausted" \in Statuses
    BY LifecycleAssumption DEF PCs, Statuses
  <2>2. CASE f = [Top EXCEPT !.pc = "return", !.status = "BudgetExhausted"]
    <3>1. f \in Frame
      BY <1>2, <2>1, <2>2, Zenon DEF Frame
    <3>2. f.region = Top.region /\ f.drain = Top.drain
          /\ f.pc = "return" /\ f.status = "BudgetExhausted"
      BY <1>2, <2>2, Zenon DEF Frame
    <3> QED BY <3>1, <3>2
  <2>3. CASE f = [Top EXCEPT !.pc = "scan", !.next = 0, !.active = 0]
    BY <1>2, <2>1, <2>3 DEF Frame
  <2> QED BY <1>3, <2>2, <2>3
<1>5. Top' = f
  BY <1>1, <1>3, GotoTop DEF StructureInv
<1>6. FrameInv(Top)'
  BY <1>1, <1>2, <1>4, <1>5 DEF FrameInv, LiveTasks, TaskSlots, Resolves, Owed, lifecycleVars
<1> QED BY <1>1, <1>3, <1>4, <1>6, TopMoves

LEMMA ScanEndStructure ==
  ASSUME StructureInv, TypeInv', ScanEnd
  PROVE  StructureInv'
<1>1. depth > 0 /\ Top.pc = "scan" /\ UNCHANGED lifecycleVars
      /\ \A i \in LiveTasks(Top.region) : i < Top.next
  BY DEF ScanEnd, At
<1>2. Top \in Frame /\ FrameInv(Top) /\ Top.active \in Nat /\ Top.next \in Nat
  BY <1>1, TopFacts
<1>3. ~(Top.active > 0) => LiveTasks(Top.region) = {}
  BY <1>1, <1>2 DEF FrameInv, LiveTasks, TaskSlots
<1>4. PICK f :
        /\ Goto(f)
        /\ \/ f = [Top EXCEPT !.pc = "round"]
           \/ f = [Top EXCEPT !.pc = "advance"] /\ Top.drain /\ LiveTasks(Top.region) = {}
           \/ f = [Top EXCEPT !.pc = "return", !.status = "Ok"] /\ ~Top.drain
              /\ LiveTasks(Top.region) = {}
  BY <1>3 DEF ScanEnd, Finish
<1>5. /\ f \in Frame /\ f.region = Top.region /\ f.drain = Top.drain
      /\ \/ f.pc = "round"
         \/ f.pc = "advance" /\ f.drain /\ LiveTasks(f.region) = {}
         \/ f.pc = "return" /\ f.status = "Ok" /\ ~f.drain /\ LiveTasks(f.region) = {}
  BY <1>2, <1>4 DEF Frame, PCs, Statuses
<1>6. Top' = f
  BY <1>1, <1>4, GotoTop DEF StructureInv
<1>7. FrameInv(Top)'
  BY <1>1, <1>2, <1>5, <1>6 DEF FrameInv, LiveTasks, Resolves, Owed, lifecycleVars
<1> QED BY <1>1, <1>4, <1>5, <1>7, TopMoves

LEMMA ReturnStructure ==
  ASSUME StructureInv, TypeInv', Return
  PROVE  StructureInv'
BY ReturnCalls, ArenaQuiet, TasksUntouched DEF StructureInv, Return, lifecycleVars

\* A step of the top call that completes one task of its region.
LEMMA CompletionStructure ==
  ASSUME StructureInv, TypeInv', depth > 0, NEW i \in LiveTasks(Top.region), TaskEnds(i),
         UNCHANGED <<obligations, obligationCount>>,
         \A s \in RegionSlots :
           LET r == regions[s]
               q == regions'[s]
           IN  /\ q.gen = r.gen /\ q.alive = r.alive /\ q.state = r.state
               /\ q.taskCount = IF s = Top.region.slot /\ r.taskCount > 0
                                THEN r.taskCount - 1 ELSE r.taskCount,
         NEW f \in Frame, f.region = Top.region, f.drain = Top.drain, Goto(f),
         f.pc \in {"scan", "return"}, f.pc = "return" => f.status = "Fault",
         f.pc = "scan" /\ f.active = 0 =>
           \A j \in LiveTasks(Top.region) : j = i \/ f.next <= j
  PROVE  StructureInv'
<1>1. tasks[i].region = Top.region /\ \A g : LiveTasks(g)' = LiveTasks(g) \ {i}
  BY LiveEnds DEF LiveTasks
<1>2. ArenaInv'
  BY <1>1, ArenaEnds DEF StructureInv
<1>3. \A h : h # Top.region => LiveTasks(h)' = LiveTasks(h)
  BY <1>1 DEF LiveTasks
<1>4. \A h \in RegionHandles : /\ Resolves(h)' <=> Resolves(h)
                               /\ regions'[h.slot].state = regions[h.slot].state
  BY DEF Resolves, RegionHandles
<1>5. FrameInv(Top) /\ Top.region \in RegionHandles
  BY TopFacts
<1>6. Top' = f
  BY GotoTop DEF StructureInv
<1>7. PICK h \in RegionHandles : h = Top.region
  BY <1>5
<1>8. /\ LiveTasks(h)' = LiveTasks(h) \ {i}
      /\ Resolves(h)' <=> Resolves(h)
      /\ regions'[h.slot].state = regions[h.slot].state
      /\ h = Top'.region
  BY <1>1, <1>4, <1>6, <1>7
<1>9. FrameInv(Top)'
  BY <1>5, <1>6, <1>7, <1>8 DEF FrameInv
<1>10. CallsInv'
  BY <1>3, <1>4, <1>9, TopCalls DEF StructureInv
<1> QED BY <1>2, <1>10 DEF StructureInv

\* A step of the top call that completes no task.
LEMMA PollingStructure ==
  ASSUME StructureInv, TypeInv', depth > 0, TasksKept,
         UNCHANGED <<regions, obligations, obligationCount>>,
         NEW f \in Frame, f.region = Top.region, f.drain = Top.drain, Goto(f),
         f.pc \in {"scan", "poll", "return"}, f.pc = "return" => f.status = "BudgetExhausted",
         f.pc = "scan" => f.active # 0,
         f.pc = "poll" => f.next \in LiveTasks(Top.region),
         f.pc = "poll" /\ f.active = 1 => \A j \in LiveTasks(Top.region) : f.next <= j
  PROVE  StructureInv'
<1>1. \A h : LiveTasks(h)' = LiveTasks(h) /\ (Resolves(h)' <=> Resolves(h))
  BY LiveKept DEF Resolves
<1>2. ArenaInv'
  BY ArenaQuiet DEF StructureInv
<1>3. FrameInv(Top) /\ Top.region \in RegionHandles /\ LifecycleTypeOK
  BY TopFacts
<1>4. Top' = f
  BY GotoTop DEF StructureInv
<1>5. f.pc = "poll" => Resolves(f.region)
  BY <1>3, LiveResolves DEF StructureInv, ArenaInv
<1>6. FrameInv(Top)'
  BY <1>1, <1>3, <1>4, <1>5 DEF FrameInv
<1>7. CallsInv'
  BY <1>1, <1>6, TopCalls DEF StructureInv
<1> QED BY <1>2, <1>7 DEF StructureInv

\* Uncount takes one task off the region's count and changes nothing else.
LEMMA UncountFields ==
  ASSUME LifecycleTypeOK, NEW z \in RegionSlots, NEW s \in RegionSlots
  PROVE  LET r == regions[s]
             q == Uncount(z)[s]
         IN  /\ q.gen = r.gen /\ q.alive = r.alive /\ q.state = r.state
             /\ q.poisoned = r.poisoned /\ q.captureUsed = r.captureUsed
             /\ q.taskCount = IF s = z /\ r.taskCount > 0 THEN r.taskCount - 1 ELSE r.taskCount
BY DEF Uncount, LifecycleTypeOK, Region

\* The task the scan stops at is the first live one not passed yet.
LEMMA ScannedFacts ==
  ASSUME StructureInv, At("scan"), NEW i \in TaskSlots, Scanned(i)
  PROVE  /\ i \in LiveTasks(Top.region) /\ i \in Nat /\ i < taskCount /\ i + 1 \in 0 .. MaxTasks
         /\ tasks[i] \in Task /\ ~IsTerminal(tasks[i].state)
         /\ Top.active <= i
         /\ Top.active = 0 => \A j \in LiveTasks(Top.region) : i <= j
<1>1. depth > 0 /\ Top.pc = "scan"
  BY DEF At
<1>2. i \in LiveTasks(Top.region) /\ Top.next <= i
      /\ \A j \in LiveTasks(Top.region) : j >= Top.next => i <= j
  BY DEF Scanned
<1>3. /\ FrameShape(Top) /\ FrameInv(Top) /\ Top.active \in Nat /\ Top.next \in Nat
      /\ TaskSlots \subseteq Nat /\ LifecycleTypeOK
  BY <1>1, TopFacts
<1>4. Top.active <= i
  BY <1>1, <1>2, <1>3 DEF FrameShape
<1>5. Top.active = 0 => \A j \in LiveTasks(Top.region) : i <= j
  BY <1>1, <1>2, <1>3 DEF FrameInv, LiveTasks
<1>6. i + 1 \in 0 .. MaxTasks
  BY LifecycleAssumption DEF TaskSlots
<1> QED BY <1>2, <1>3, <1>4, <1>5, <1>6 DEF LiveTasks, LifecycleTypeOK

\* A task that is completed unpolled ends.
LEMMA ScanForceEnds ==
  ASSUME StructureInv, NEW i \in TaskSlots, ScanForce(i)
  PROVE  TaskEnds(i)
<1>1. /\ At("scan") /\ Scanned(i) /\ UNCHANGED taskCount
      /\ tasks' = [tasks EXCEPT ![i] = ForcedCompletion(@)]
  BY DEF ScanForce
<1>2. /\ tasks[i] \in Task /\ ~IsTerminal(tasks[i].state) /\ i < taskCount
      /\ tasks \in [TaskSlots -> Task]
  BY <1>1, ScannedFacts DEF StructureInv, TypeInv, TypeOK, LifecycleTypeOK
<1>3. Ended(tasks[i], ForcedCompletion(tasks[i]))
  BY <1>2, CompleteEnds
<1> QED BY <1>1, <1>2, <1>3 DEF TaskEnds, Kept

\* Starting a callback, or finding no budget for it, completes no task.
LEMMA ScanPollKeeps ==
  ASSUME StructureInv, NEW i \in TaskSlots, ScanPoll(i)
  PROVE  TasksKept
<1> DEFINE u == [tasks[i] EXCEPT !.state =
                   IF tasks[i].state = "Created" THEN "Running" ELSE tasks[i].state]
<1>1. /\ UNCHANGED taskCount
      /\ UNCHANGED tasks \/ tasks' = [tasks EXCEPT ![i] = u]
  BY DEF ScanPoll
<1>2. LifecycleTypeOK /\ tasks[i] \in Task
  BY DEF StructureInv, TypeInv, TypeOK, LifecycleTypeOK
<1>3. Kept(tasks[i], u)
  BY <1>2, PolledKeeps
<1> HIDE DEF u
<1> QED BY <1>1, <1>2, <1>3, OneTaskKept, TasksUntouched

LEMMA ScanForceStructure ==
  ASSUME StructureInv, TypeInv', NEW i \in TaskSlots, ScanForce(i)
  PROVE  StructureInv'
<1>1. At("scan") /\ depth > 0 /\ Top.pc = "scan" /\ Scanned(i)
  BY DEF ScanForce, At
<1>2. /\ i \in LiveTasks(Top.region) /\ i \in Nat /\ i < taskCount /\ i + 1 \in 0 .. MaxTasks
      /\ tasks[i] \in Task /\ ~IsTerminal(tasks[i].state)
      /\ Top.active = 0 => \A j \in LiveTasks(Top.region) : i <= j
  BY <1>1, ScannedFacts
<1>3. Top \in Frame /\ Top.region.slot \in RegionSlots /\ LifecycleTypeOK /\ TaskSlots \subseteq Nat
  BY <1>1, TopFacts
<1>4. TaskEnds(i)
  BY ScanForceEnds
<1>5. PICK f : f = [Top EXCEPT !.next = i + 1] /\ Goto(f)
  BY DEF ScanForce
<1>6. f \in Frame /\ f.region = Top.region /\ f.drain = Top.drain /\ f.pc = "scan"
      /\ f.next = i + 1 /\ f.active = Top.active
  BY <1>1, <1>2, <1>3, <1>5 DEF Frame
<1>7. f.active = 0 => \A j \in LiveTasks(Top.region) : j = i \/ f.next <= j
  <2> SUFFICES ASSUME f.active = 0, NEW j \in LiveTasks(Top.region), j # i
               PROVE  f.next <= j
    OBVIOUS
  <2>1. j \in TaskSlots
    BY DEF LiveTasks
  <2>2. j \in Nat /\ i <= j
    BY <1>2, <1>3, <1>6, <2>1
  <2> QED BY <1>2, <1>6, <2>2
<1>8. regions' = Uncount(Top.region.slot) /\ UNCHANGED <<obligations, obligationCount>>
  BY DEF ScanForce
<1> QED BY <1>1, <1>2, <1>3, <1>4, <1>5, <1>6, <1>7, <1>8, UncountFields, CompletionStructure

LEMMA ScanPollStructure ==
  ASSUME StructureInv, TypeInv', NEW i \in TaskSlots, ScanPoll(i)
  PROVE  StructureInv'
<1>1. At("scan") /\ depth > 0 /\ Top.pc = "scan" /\ Scanned(i)
  BY DEF ScanPoll, At
<1>2. /\ i \in LiveTasks(Top.region) /\ i \in Nat /\ i < taskCount /\ i + 1 \in 0 .. MaxTasks
      /\ tasks[i] \in Task /\ Top.active <= i
      /\ Top.active = 0 => \A j \in LiveTasks(Top.region) : i <= j
  BY <1>1, ScannedFacts
<1>3. Top \in Frame /\ LifecycleTypeOK /\ Top.active \in Nat
  BY <1>1, TopFacts
<1>4. TasksKept /\ UNCHANGED <<regions, obligations, obligationCount>>
  BY ScanPollKeeps DEF ScanPoll
<1>5. CASE Top.budget = 0
  <2>1. PICK f : f = [Top EXCEPT !.pc = "return", !.status = "BudgetExhausted"] /\ Goto(f)
    BY <1>5 DEF ScanPoll, Finish
  <2>2. "return" \in PCs /\ "BudgetExhausted" \in Statuses
    BY DEF PCs, Statuses
  <2>3. f \in Frame
    BY <1>3, <2>1, <2>2, Zenon DEF Frame
  <2>4. f.region = Top.region /\ f.drain = Top.drain
        /\ f.pc = "return" /\ f.status = "BudgetExhausted"
    BY <1>3, <2>1 DEF Frame
  <2> QED BY <1>1, <1>4, <2>1, <2>3, <2>4, PollingStructure
<1>6. CASE Top.budget # 0
  <2>1. PICK f : Goto(f) /\ f = [Top EXCEPT !.pc = "poll", !.next = i,
                                   !.active = Top.active + 1, !.budget = ConsumePoll(Top.budget)]
    BY <1>6 DEF ScanPoll
  <2>2. Top.active + 1 \in 0 .. MaxTasks /\ ConsumePoll(Top.budget) \in 0 .. MaxBudget
        /\ "poll" \in PCs /\ i \in 0 .. MaxTasks
    BY <1>2, <1>3, <1>6, LifecycleAssumption, SchedulerAssumption DEF Frame, ConsumePoll, PCs
  <2>3. f \in Frame /\ f.region = Top.region /\ f.drain = Top.drain /\ f.pc = "poll"
        /\ f.next = i /\ f.active = Top.active + 1
    BY <1>3, <2>1, <2>2, Zenon DEF Frame
  <2>4. f.active = 1 => \A j \in LiveTasks(Top.region) : f.next <= j
    BY <1>2, <1>3, <2>3
  <2> QED BY <1>1, <1>2, <1>4, <2>1, <2>3, <2>4, PollingStructure
<1> QED BY <1>5, <1>6

\* The task whose callback returns.
LEMMA ReturningFacts ==
  ASSUME StructureInv, At("poll")
  PROVE  /\ depth > 0 /\ Top.pc = "poll" /\ Top \in Frame /\ LifecycleTypeOK
         /\ Top.next \in LiveTasks(Top.region) /\ Top.next \in TaskSlots /\ Top.next \in Nat
         /\ Top.next < taskCount /\ Top.next + 1 \in 0 .. MaxTasks
         /\ Top.active \in 1 .. MaxTasks /\ Top.active - 1 \in 0 .. MaxTasks
         /\ tasks[Top.next] \in Task /\ ~IsTerminal(tasks[Top.next].state)
         /\ tasks[Top.next].region = Top.region
         /\ Top.region \in RegionHandles /\ Top.region.slot \in RegionSlots
         /\ Top.active = 1 => \A j \in LiveTasks(Top.region) : Top.next <= j
<1>1. depth > 0 /\ Top.pc = "poll"
  BY DEF At
<1>2. /\ Top \in Frame /\ FrameShape(Top) /\ FrameInv(Top) /\ LifecycleTypeOK
      /\ Top.region \in RegionHandles /\ Top.region.slot \in RegionSlots
  BY <1>1, TopFacts
<1>3. Top.next \in LiveTasks(Top.region)
      /\ (Top.active = 1 => \A j \in LiveTasks(Top.region) : Top.next <= j)
  BY <1>1, <1>2 DEF FrameInv
<1>4. Top.active \in 0 .. MaxTasks /\ Top.next \in 0 .. MaxTasks
      /\ Top.active \in 1 .. Top.next + 1 /\ MaxTasks \in Nat
  BY <1>1, <1>2, LifecycleAssumption DEF FrameShape, Frame
<1>5. /\ Top.next \in TaskSlots /\ Top.next < taskCount /\ Top.next + 1 \in 0 .. MaxTasks
      /\ tasks[Top.next] \in Task /\ ~IsTerminal(tasks[Top.next].state)
      /\ tasks[Top.next].region = Top.region
  BY <1>2, <1>3, <1>4 DEF LiveTasks, TaskSlots, LifecycleTypeOK
<1> QED BY <1>1, <1>2, <1>3, <1>4, <1>5

LEMMA AfterCompletionFacts ==
  ASSUME StructureInv, At("poll")
  PROVE  LET f == AfterCompletion
             g == [AfterCompletion EXCEPT !.pc = "return", !.status = "Fault"]
         IN  /\ f \in Frame /\ f.region = Top.region /\ f.drain = Top.drain /\ f.pc = "scan"
             /\ f.next = Top.next + 1 /\ f.active = Top.active - 1
             /\ g \in Frame /\ g.region = Top.region /\ g.drain = Top.drain
             /\ g.pc = "return" /\ g.status = "Fault"
<1>1. Top \in Frame /\ Top.next + 1 \in 0 .. MaxTasks /\ Top.active - 1 \in 0 .. MaxTasks
  BY ReturningFacts
<1>2. "scan" \in PCs /\ "return" \in PCs /\ "Fault" \in Statuses
  BY DEF PCs, Statuses
<1>3. PICK f : f = AfterCompletion
  OBVIOUS
<1>4. f \in Frame /\ f.region = Top.region /\ f.drain = Top.drain /\ f.pc = "scan"
      /\ f.next = Top.next + 1 /\ f.active = Top.active - 1
  BY <1>1, <1>2, <1>3, Zenon DEF AfterCompletion, Frame
<1>5. PICK g : g = [f EXCEPT !.pc = "return", !.status = "Fault"]
  OBVIOUS
<1>6. g \in Frame /\ g.region = f.region /\ g.drain = f.drain
      /\ g.pc = "return" /\ g.status = "Fault"
  BY <1>2, <1>4, <1>5, Zenon DEF Frame
<1> QED BY <1>3, <1>4, <1>5, <1>6

\* A callback that completes its task, whatever else happens to the region's others.
LEMMA CallbackEnds ==
  ASSUME StructureInv, TypeInv', At("poll"), TaskEnds(Top.next),
         UNCHANGED <<obligations, obligationCount>>,
         Goto(AfterCompletion) \/ Finish(AfterCompletion, "Fault"),
         \A s \in RegionSlots :
           LET r == regions[s]
               q == regions'[s]
           IN  /\ q.gen = r.gen /\ q.alive = r.alive /\ q.state = r.state
               /\ q.taskCount = IF s = Top.region.slot /\ r.taskCount > 0
                                THEN r.taskCount - 1 ELSE r.taskCount
  PROVE  StructureInv'
<1>1. PICK f : /\ Goto(f)
               /\ f = AfterCompletion
                  \/ f = [AfterCompletion EXCEPT !.pc = "return", !.status = "Fault"]
  BY DEF Finish
<1>2. /\ f \in Frame /\ f.region = Top.region /\ f.drain = Top.drain
      /\ \/ f.pc = "scan" /\ f.next = Top.next + 1 /\ f.active = Top.active - 1
         \/ f.pc = "return" /\ f.status = "Fault"
  BY <1>1, AfterCompletionFacts
<1>3. /\ depth > 0 /\ Top.next \in LiveTasks(Top.region) /\ Top.next \in Nat
      /\ Top.active \in Nat /\ LiveTasks(Top.region) \subseteq Nat
      /\ Top.active = 1 => \A j \in LiveTasks(Top.region) : Top.next <= j
  BY ReturningFacts DEF LiveTasks, TaskSlots
<1>4. f.pc = "scan" /\ f.active = 0 =>
        \A j \in LiveTasks(Top.region) : j = Top.next \/ f.next <= j
  BY <1>2, <1>3
<1> QED BY <1>1, <1>2, <1>3, <1>4, CompletionStructure

\* A callback that returns ASX_OK ends its task.
LEMMA PollOkEnds ==
  ASSUME StructureInv, PollOk
  PROVE  TaskEnds(Top.next)
<1>1. /\ Top.next \in TaskSlots /\ Top.next < taskCount /\ LifecycleTypeOK
      /\ tasks[Top.next] \in Task /\ ~IsTerminal(tasks[Top.next].state)
  BY ReturningFacts DEF PollOk
<1>2. Ended(tasks[Top.next], Complete(tasks[Top.next], "Ok"))
  BY <1>1, CompleteEnds
<1> QED BY <1>1, <1>2 DEF PollOk, TaskEnds, Kept, LifecycleTypeOK

LEMMA PollOkStructure ==
  ASSUME StructureInv, TypeInv', PollOk
  PROVE  StructureInv'
<1>1. At("poll")
  BY DEF PollOk
<1>2. /\ Top.next \in TaskSlots /\ Top.next < taskCount /\ LifecycleTypeOK
      /\ tasks[Top.next] \in Task /\ ~IsTerminal(tasks[Top.next].state)
      /\ Top.region.slot \in RegionSlots
  BY <1>1, ReturningFacts
<1>3. TaskEnds(Top.next)
  BY PollOkEnds
<1>4. regions' = Uncount(Top.region.slot) /\ UNCHANGED <<obligations, obligationCount>>
      /\ Goto(AfterCompletion)
  BY DEF PollOk
<1> QED BY <1>1, <1>2, <1>3, <1>4, UncountFields, CallbackEnds

\* What a failing callback does to the arenas.
LEMMA PollErrorEnds ==
  ASSUME StructureInv, PollError
  PROVE  /\ TaskEnds(Top.next)
         /\ UNCHANGED <<obligations, obligationCount>>
         /\ \A i \in TaskSlots : tasks[i].region # Top.region => tasks'[i] = tasks[i]
         /\ \A s \in RegionSlots : s # Top.region.slot => regions'[s] = regions[s]
         /\ \A s \in RegionSlots :
              LET r == regions[s]
                  q == regions'[s]
              IN  /\ q.gen = r.gen /\ q.alive = r.alive /\ q.state = r.state
                  /\ r.poisoned => q.poisoned
                  /\ q.captureUsed = r.captureUsed
                  /\ q.taskCount = IF s = Top.region.slot /\ r.taskCount > 0
                                   THEN r.taskCount - 1 ELSE r.taskCount
<1> DEFINE n == Top.next
           completed == [tasks EXCEPT ![n] = Complete(@, "Err")]
           counted == Uncount(Top.region.slot)
<1>1. At("poll") /\ taskCount' = taskCount /\ UNCHANGED <<obligations, obligationCount>>
  BY DEF PollError
<1>2. /\ n \in TaskSlots /\ n < taskCount /\ LifecycleTypeOK
      /\ tasks[n] \in Task /\ ~IsTerminal(tasks[n].state) /\ tasks[n].region = Top.region
      /\ Top.region \in RegionHandles /\ Top.region.slot \in RegionSlots
  BY <1>1, ReturningFacts
<1>3. completed \in [TaskSlots -> Task] /\ Ended(tasks[n], completed[n])
      /\ \A j \in TaskSlots \ {n} : completed[j] = tasks[j]
  <2>1. Complete(tasks[n], "Err") \in Task /\ Ended(tasks[n], Complete(tasks[n], "Err"))
    BY <1>2, CompleteType, CompleteEnds
  <2> QED BY <1>2, <2>1 DEF LifecycleTypeOK
<1>4. tasks' = completed \/ tasks' = Propagated(completed, Top.region, "Resource")
  BY DEF PollError
<1>5. \A s \in RegionSlots : /\ regions'[s] = counted[s]
                                \/ (s = Top.region.slot
                                    /\ regions'[s] = [counted[s] EXCEPT !.poisoned = TRUE])
  BY <1>2 DEF PollError, Uncount, LifecycleTypeOK
<1>6. \A s \in RegionSlots : /\ counted[s] \in Region
                             /\ s # Top.region.slot => counted[s] = regions[s]
  <2>1. counted \in [RegionSlots -> Region]
    BY <1>2, UncountType DEF StructureInv
  <2> QED BY <1>2, <2>1 DEF Uncount, LifecycleTypeOK
<1> HIDE DEF completed, counted
<1>7. \A j \in TaskSlots : /\ Kept(completed[j], tasks'[j])
                           /\ completed[j].region # Top.region => tasks'[j] = completed[j]
  <2>1. "Resource" \in CancelKinds
    BY DEF CancelKinds
  <2>2. CASE tasks' = completed
    BY <1>3, <2>2, PolledKeeps
  <2>3. CASE tasks' = Propagated(completed, Top.region, "Resource")
    BY <1>3, <2>1, <2>3, PropagatedKeeps
  <2> QED BY <1>4, <2>2, <2>3
<1>8. TaskEnds(n)
  <2>1. Ended(tasks[n], tasks'[n])
    BY <1>2, <1>3, <1>7 DEF Ended, Kept
  <2>2. \A j \in TaskSlots \ {n} : Kept(tasks[j], tasks'[j])
    BY <1>3, <1>7
  <2> QED BY <1>1, <1>2, <2>1, <2>2 DEF TaskEnds
<1>9. \A i \in TaskSlots : tasks[i].region # Top.region => tasks'[i] = tasks[i]
  BY <1>2, <1>3, <1>7
<1>10. \A s \in RegionSlots : s # Top.region.slot => regions'[s] = regions[s]
  BY <1>5, <1>6
<1>11. ASSUME NEW s \in RegionSlots
       PROVE  LET r == counted[s]
                  q == regions'[s]
              IN  /\ q.gen = r.gen /\ q.alive = r.alive /\ q.state = r.state
                  /\ r.poisoned => q.poisoned
                  /\ q.captureUsed = r.captureUsed /\ q.taskCount = r.taskCount
  <2>1. counted[s] \in Region
    BY <1>6
  <2>2. regions'[s] = counted[s] \/ regions'[s] = [counted[s] EXCEPT !.poisoned = TRUE]
    BY <1>5
  <2> HIDE DEF counted
  <2>3. CASE regions'[s] = counted[s]
    BY <2>3
  <2>4. CASE regions'[s] = [counted[s] EXCEPT !.poisoned = TRUE]
    BY <2>1, <2>4 DEF Region
  <2> QED BY <2>2, <2>3, <2>4
<1> QED BY <1>1, <1>2, <1>8, <1>9, <1>10, <1>11, UncountFields DEF counted

LEMMA PollErrorStructure ==
  ASSUME StructureInv, TypeInv', PollError
  PROVE  StructureInv'
<1>1. At("poll") /\ (Goto(AfterCompletion) \/ Finish(AfterCompletion, "Fault"))
  BY DEF PollError
<1> QED BY <1>1, PollErrorEnds, CallbackEnds

\* A callback that returns ASX_E_PENDING ends nothing.
LEMMA PollPendingKeeps ==
  ASSUME StructureInv, PollPending
  PROVE  TasksKept
<1>1. LifecycleTypeOK /\ Top.next \in TaskSlots /\ tasks[Top.next] \in Task
  BY ReturningFacts DEF PollPending
<1>2. Kept(tasks[Top.next], Spent(tasks[Top.next]))
  BY <1>1, PolledKeeps
<1> QED BY <1>1, <1>2, OneTaskKept DEF PollPending

LEMMA PollPendingStructure ==
  ASSUME StructureInv, TypeInv', PollPending
  PROVE  StructureInv'
<1>1. At("poll")
  BY DEF PollPending
<1>2. /\ depth > 0 /\ Top \in Frame /\ LifecycleTypeOK /\ Top.next \in TaskSlots
      /\ Top.next + 1 \in 0 .. MaxTasks /\ Top.active \in 1 .. MaxTasks
      /\ tasks[Top.next] \in Task
  BY <1>1, ReturningFacts
<1>3. TasksKept
  BY PollPendingKeeps
<1>4. PICK f : f = AfterPoll /\ Goto(f)
  BY DEF PollPending
<1>5. f \in Frame /\ f.region = Top.region /\ f.drain = Top.drain /\ f.pc = "scan"
      /\ f.active = Top.active
  <2>1. "scan" \in PCs
    BY DEF PCs
  <2> QED BY <1>2, <1>4, <2>1, Zenon DEF AfterPoll, Frame
<1>6. f.active # 0
  BY <1>2, <1>5
<1> QED BY <1>2, <1>3, <1>4, <1>5, <1>6, PollingStructure DEF PollPending

\* The step that settles a drained region: it leaves the region Finalizing and says so,
\* or closed and owing nothing.
LEMMA DrainAdvanceFacts ==
  ASSUME StructureInv, DrainAdvance
  PROVE  LET s == Top.region.slot
         IN  /\ depth > 0 /\ Top \in Frame /\ s \in RegionSlots /\ Top.region \in RegionHandles
             /\ Top.drain /\ Resolves(Top.region) /\ HandleOf(s) = Top.region
             /\ LiveTasks(Top.region) = {}
             /\ regions[s].state \in {"Closing", "Finalizing", "Closed"}
             /\ regions[s].state = "Closed" => Owed(Top.region) = {}
             /\ \E st \in {"Finalizing", "Closed"}, status \in {"Ok", "ObligationsUnresolved"} :
                  /\ regions' = [regions EXCEPT ![s].state = st]
                  /\ Finish(Top, status)
                  /\ st = "Closed" <=> Owed(Top.region) = {}
                  /\ status = "Ok" => st = "Closed"
<1> DEFINE s == Top.region.slot
<1>1. /\ depth > 0 /\ Top.pc = "advance"
  BY DEF DrainAdvance, At
<1>2. /\ Top \in Frame /\ FrameInv(Top) /\ Top.region \in RegionHandles /\ s \in RegionSlots
      /\ LifecycleTypeOK /\ TaskCountExact /\ ClosedQuiescent /\ OwnersInv
  BY <1>1, TopFacts DEF StructureInv, ArenaInv
<1>3. Top.drain /\ LiveTasks(Top.region) = {} /\ Resolves(Top.region)
      /\ regions[s].state # "Open" /\ regions[s].state # "Draining"
  BY <1>1, <1>2 DEF FrameInv, OwnersInv
<1>4. HandleOf(s) = Top.region /\ regions[s] \in Region /\ regions[s].alive
  BY <1>2, <1>3, HandleFacts
<1>5. regions[s].taskCount = 0
  BY <1>2, <1>3, <1>4, LiveFinite DEF TaskCountExact
<1>6. Unresolved(Top.region) <=> Owed(Top.region) # {}
  BY DEF Unresolved, Owed
<1>7. regions[s].state \in {"Closing", "Finalizing", "Closed"}
  BY <1>3, <1>4 DEF Region, RegionStates
<1>8. regions[s].state = "Closed" => Owed(Top.region) = {}
  BY <1>2, <1>4 DEF ClosedQuiescent
<1>9. \E st \in {"Finalizing", "Closed"}, status \in {"Ok", "ObligationsUnresolved"} :
        /\ regions' = [regions EXCEPT ![s].state = st]
        /\ Finish(Top, status)
        /\ st = "Closed" <=> Owed(Top.region) = {}
        /\ status = "Ok" => st = "Closed"
  <2>1. CASE regions[s].state = "Closed"
    <3>1. regions' = [regions EXCEPT ![s].state = "Closed"] /\ Finish(Top, "Ok")
      BY <1>5, <2>1 DEF DrainAdvance
    <3> QED BY <1>8, <2>1, <3>1
  <2>2. CASE regions[s].state \in {"Closing", "Finalizing"} /\ Unresolved(Top.region)
    <3>1. regions' = [regions EXCEPT ![s].state = "Finalizing"]
          /\ Finish(Top, "ObligationsUnresolved")
      BY <1>5, <2>2 DEF DrainAdvance
    <3> QED BY <1>6, <2>2, <3>1
  <2>3. CASE regions[s].state \in {"Closing", "Finalizing"} /\ ~Unresolved(Top.region)
    <3>1. regions' = [regions EXCEPT ![s].state = "Closed"] /\ Finish(Top, "Ok")
      BY <1>5, <2>3 DEF DrainAdvance
    <3> QED BY <1>6, <2>3, <3>1
  <2> QED BY <1>7, <2>1, <2>2, <2>3
<1> QED BY <1>1, <1>2, <1>3, <1>4, <1>7, <1>8, <1>9

LEMMA DrainAdvanceStructure ==
  ASSUME StructureInv, TypeInv', DrainAdvance
  PROVE  StructureInv'
<1> DEFINE s == Top.region.slot
<1>1. /\ depth > 0 /\ Top \in Frame /\ s \in RegionSlots /\ Top.region \in RegionHandles
      /\ Top.drain /\ Resolves(Top.region) /\ HandleOf(s) = Top.region
      /\ LiveTasks(Top.region) = {} /\ LifecycleTypeOK
  BY DrainAdvanceFacts DEF StructureInv, TypeInv, TypeOK
<1>2. PICK st \in {"Finalizing", "Closed"}, status \in {"Ok", "ObligationsUnresolved"} :
        /\ regions' = [regions EXCEPT ![s].state = st]
        /\ Finish(Top, status)
        /\ st = "Closed" <=> Owed(Top.region) = {}
        /\ status = "Ok" => st = "Closed"
  BY DrainAdvanceFacts
<1>3. UNCHANGED <<tasks, taskCount, obligations, obligationCount>>
  BY DEF DrainAdvance
<1>4. ArenaInv'
  <2>1. st \in RegionStates /\ st # "Draining"
    BY DEF RegionStates
  <2> QED BY <1>1, <1>2, <1>3, <2>1, ArenaSettles DEF StructureInv
<1>5. \A h : LiveTasks(h)' = LiveTasks(h) /\ Owed(h)' = Owed(h)
  BY <1>3 DEF LiveTasks, Owed
<1>6. \A z \in RegionSlots : /\ regions'[z].gen = regions[z].gen
                             /\ regions'[z].alive = regions[z].alive
                             /\ regions'[z].state = IF z = s THEN st ELSE regions[z].state
  BY <1>1, <1>2 DEF LifecycleTypeOK, Region
<1>7. \A h \in RegionHandles : /\ Resolves(h)' <=> Resolves(h)
                               /\ regions'[h.slot].state = "Open" => regions[h.slot].state = "Open"
  BY <1>6 DEF Resolves, RegionHandles
<1>8. PICK f : f = [Top EXCEPT !.pc = "return", !.status = status] /\ Goto(f)
  BY <1>2 DEF Finish
<1>9. f \in Frame /\ f.region = Top.region /\ f.drain /\ f.pc = "return" /\ f.status = status
  <2>1. "return" \in PCs /\ status \in Statuses
    BY DEF PCs, Statuses
  <2> QED BY <1>1, <1>8, <2>1, Zenon DEF Frame
<1>10. Top' = f
  BY <1>1, <1>8, GotoTop DEF StructureInv
<1>11. FrameInv(Top)'
  <2>1. PICK h \in RegionHandles : h = Top.region
    BY <1>1
  <2>2. /\ LiveTasks(h)' = {} /\ Resolves(h)' /\ regions'[h.slot].state = st
        /\ Owed(h)' = Owed(h) /\ h = Top'.region
    BY <1>1, <1>5, <1>6, <1>7, <1>9, <1>10, <2>1
  <2> QED BY <1>2, <1>9, <1>10, <2>1, <2>2 DEF FrameInv
<1>12. CallsInv'
  BY <1>1, <1>5, <1>7, <1>8, <1>9, <1>11, TopCalls DEF StructureInv
<1> QED BY <1>4, <1>12 DEF StructureInv

LEMMA StructureInit == Init => StructureInv
<1> SUFFICES ASSUME Init PROVE StructureInv
  OBVIOUS
<1>1. TypeInv
  BY TypeInit
<1>2. /\ taskCount = 0 /\ obligationCount = 0 /\ depth = 0
      /\ \A s \in RegionSlots : /\ regions[s].taskCount = 0 /\ regions[s].state = "Open"
                                /\ ~regions[s].alive
  BY DEF Init, LifecycleInit, SchedulerInit, NewRegion
<1>3. \A h : LiveTasks(h) = {}
  BY <1>2 DEF LiveTasks, TaskSlots
<1>4. TaskCountExact
  <2>1. \A s \in RegionSlots : regions[s].taskCount = Cardinality(LiveTasks(HandleOf(s)))
    BY <1>2, <1>3, FS_EmptySet
  <2>2. \A i \in TaskSlots : ~(i < taskCount)
    BY <1>2 DEF TaskSlots
  <2> QED BY <2>1, <2>2 DEF TaskCountExact
<1>5. ClosedQuiescent /\ OwnersInv
  BY <1>2 DEF ClosedQuiescent, OwnersInv, TaskSlots, ObligationSlots
<1>6. CallsInv
  BY <1>2 DEF CallsInv, HonestReturn, PolledTaskAlive, DrainNeverTasksLive, StackInv, RoundInv,
              DrainInv, At
<1> QED BY <1>1, <1>4, <1>5, <1>6 DEF StructureInv, ArenaInv

LEMMA StructureStep ==
  ASSUME ~Reentrant, StructureInv, [Next]_vars
  PROVE  StructureInv'
<1>1. TypeInv'
  BY TypeStep DEF StructureInv
<1>2. CASE UNCHANGED vars
  <2>1. TypeInv /\ ArenaInv /\ CallsInv
    BY DEF StructureInv
  <2>2. ArenaInv'
    BY <1>2, <2>1 DEF vars, lifecycleVars, ArenaInv, TaskCountExact, ClosedQuiescent, OwnersInv,
                      LiveTasks, Owed, HandleOf, Resolves
  <2>3. CallsInv'
    <3>1. StackInv' /\ RoundInv' /\ DrainInv'
      BY <1>2, <2>1 DEF vars, lifecycleVars, schedulerVars, CallsInv, StackInv, RoundInv,
                        DrainInv, LiveTasks, Resolves
    <3>2. HonestReturn' /\ PolledTaskAlive' /\ DrainNeverTasksLive'
      BY <1>2, <2>1 DEF vars, lifecycleVars, schedulerVars, CallsInv, HonestReturn,
                        PolledTaskAlive, DrainNeverTasksLive, LiveTasks, Owed, Resolves, At, Top
    <3> QED BY <3>1, <3>2 DEF CallsInv
  <2> QED BY <1>1, <2>2, <2>3 DEF StructureInv
<1>3. CASE Operation
  BY <1>1, <1>3, OperationStructure
<1>4. CASE Enter
  BY <1>1, <1>4, EnterStructure
<1>5. CASE Internal
  BY <1>1, <1>5, RoundBeginStructure, ScanForceStructure, ScanPollStructure, ScanEndStructure,
     DrainAdvanceStructure, ReturnStructure DEF Internal, Scan
<1>6. CASE CallbackReturn
  BY <1>1, <1>6, PollOkStructure, PollErrorStructure, PollPendingStructure DEF CallbackReturn
<1> QED BY <1>2, <1>3, <1>4, <1>5, <1>6 DEF Next

----------------------------------------------------------------------------
(* The theorems *)

LEMMA StructureInvariant ==
  ASSUME ~Reentrant
  PROVE  Spec => []StructureInv
<1>1. StructureInv /\ [Next]_vars => StructureInv'
  BY StructureStep
<1> QED BY <1>1, StructureInit, PTL DEF Spec

\* The task_count a region keeps is exact in every behaviour, and no live task is left
\* behind in a region that is gone, although slots are recycled and generations wrap.
THEOREM CountExact ==
  ASSUME ~Reentrant
  PROVE  Spec => []TaskCountExact
<1>1. StructureInv => TaskCountExact
  BY DEF StructureInv, ArenaInv
<1> QED BY <1>1, StructureInvariant, PTL

\* A region is Finalizing only without live tasks and Closed only without reserved
\* obligations, whatever callbacks spawn and reserve (quiescence.c).
THEOREM QuiescenceHonest ==
  ASSUME ~Reentrant
  PROVE  Spec => []ClosedQuiescent
<1>1. StructureInv => ClosedQuiescent
  BY DEF StructureInv, ArenaInv
<1> QED BY <1>1, StructureInvariant, PTL

\* asx_scheduler_run and asx_region_drain return ASX_OK only when it is so.
THEOREM ReturnsHonest ==
  ASSUME ~Reentrant
  PROVE  Spec => []HonestReturn
<1>1. StructureInv => HonestReturn
  BY DEF StructureInv, CallsInv
<1> QED BY <1>1, StructureInvariant, PTL

\* A callback runs for a live task of a region that still exists, at every depth of
\* nested runs.
THEOREM CallbacksAlive ==
  ASSUME ~Reentrant
  PROVE  Spec => []PolledTaskAlive
<1>1. StructureInv => PolledTaskAlive
  BY DEF StructureInv, CallsInv
<1> QED BY <1>1, StructureInvariant, PTL

\* ASX_E_QUIESCENCE_TASKS_LIVE is unreachable: a run that found no live task leaves a
\* count of zero behind.
THEOREM NoTasksLive ==
  ASSUME ~Reentrant
  PROVE  Spec => []DrainNeverTasksLive
<1>1. StructureInv => DrainNeverTasksLive
  BY DEF StructureInv, CallsInv
<1> QED BY <1>1, StructureInvariant, PTL

----------------------------------------------------------------------------
(* What every step does to the tasks, the slots and the obligations *)

\* No slot changes hands, and poison stays.
SlotsKept ==
  \A s \in RegionSlots :
    /\ regions'[s].gen = regions[s].gen /\ regions'[s].alive = regions[s].alive
    /\ regions[s].poisoned => regions'[s].poisoned

\* At most one task begins or ends in a step; it begins in a region that may spawn.
TasksStep ==
  \/ TasksKept
  \/ \E i \in TaskSlots : TaskEnds(i)
  \/ \E h \in RegionHandles : MaySpawn(h) /\ \E c : TaskBegins(h, c)

ObligationsStep ==
  \/ UNCHANGED <<obligations, obligationCount>>
  \/ \E h \in RegionHandles : ObligationReserve(h)
  \/ \E o \in ObligationSlots, target \in {"Committed", "Aborted"} : ObligationResolve(o, target)

StepShape == TasksStep /\ (SlotsKept \/ RegionOpen) /\ ObligationsStep

LEMMA SlotsUntouched ==
  ASSUME UNCHANGED regions
  PROVE  SlotsKept
BY DEF SlotsKept

LEMMA OperationShape ==
  ASSUME StructureInv, Operation
  PROVE  StepShape
<1>1. LifecycleTypeOK /\ TypeInv
  BY DEF StructureInv, TypeInv, TypeOK
<1>2. CASE RegionOpen
  BY <1>2, TasksUntouched DEF RegionOpen, StepShape, TasksStep, ObligationsStep
<1>3. ASSUME NEW h \in RegionHandles, RegionClose(h) \/ RegionPoison(h) PROVE StepShape
  <2>1. SlotsKept
    BY <1>1, <1>3 DEF RegionClose, RegionPoison, SlotsKept, LifecycleTypeOK, Region
  <2>2. TasksKept /\ UNCHANGED <<obligations, obligationCount>>
    BY <1>3, TasksUntouched DEF RegionClose, RegionPoison
  <2> QED BY <2>1, <2>2 DEF StepShape, TasksStep, ObligationsStep
<1>4. ASSUME NEW h \in RegionHandles,
             TaskSpawn(h) \/ \E size \in CaptureSizes : TaskSpawnCaptured(h, size)
      PROVE  StepShape
  <2>1. /\ MaySpawn(h) /\ (\E c : TaskBegins(h, c))
        /\ UNCHANGED <<obligations, obligationCount>>
        /\ SlotsKept
    BY <1>1, <1>4, SpawnBegins DEF SlotsKept
  <2> QED BY <2>1 DEF StepShape, TasksStep, ObligationsStep
<1>5. ASSUME NEW h \in RegionHandles, ObligationReserve(h) PROVE StepShape
  <2>1. TasksKept /\ SlotsKept
    BY <1>5, TasksUntouched, SlotsUntouched DEF ObligationReserve
  <2> QED BY <1>5, <2>1 DEF StepShape, TasksStep, ObligationsStep
<1>6. ASSUME NEW o \in ObligationSlots, ObligationCommit(o) \/ ObligationAbort(o)
      PROVE  StepShape
  <2>1. PICK target \in {"Committed", "Aborted"} : ObligationResolve(o, target)
    BY <1>6 DEF ObligationCommit, ObligationAbort
  <2>2. TasksKept /\ SlotsKept
    BY <2>1, TasksUntouched, SlotsUntouched DEF ObligationResolve
  <2> QED BY <2>1, <2>2 DEF StepShape, TasksStep, ObligationsStep
<1>7. CASE CancelOperation
  <2>1. UNCHANGED <<regions, obligations, obligationCount>>
    BY <1>7 DEF CancelOperation, TaskCancel, TaskCancelWithOrigin, CancelPropagate, Checkpoint,
                TaskFinalize
  <2>2. TasksKept /\ SlotsKept
    BY <1>1, <1>7, <2>1, CancelKeepsTasks, SlotsUntouched
  <2> QED BY <2>1, <2>2 DEF StepShape, TasksStep, ObligationsStep
<1> QED BY <1>2, <1>3, <1>4, <1>5, <1>6, <1>7
        DEF Operation, RegionOperation, TaskOperation, ObligationOperation

LEMMA EnterShape ==
  ASSUME StructureInv, Enter
  PROVE  StepShape
<1>1. LifecycleTypeOK
  BY DEF StructureInv, TypeInv, TypeOK
<1>2. PICK h \in RegionHandles, budget \in 0 .. MaxBudget :
        SchedulerRun(h, budget) \/ RegionDrain(h, budget)
  BY DEF Enter
<1>3. SlotsKept /\ UNCHANGED <<obligations, obligationCount>>
  <2>1. CASE SchedulerRun(h, budget)
    BY <2>1, SlotsUntouched DEF SchedulerRun, lifecycleVars
  <2>2. CASE RegionDrain(h, budget)
    <3>1. /\ regions' = [regions EXCEPT ![h.slot].state = IF @ = "Open" THEN "Closing" ELSE @]
          /\ UNCHANGED <<obligations, obligationCount>>
      BY <2>2 DEF RegionDrain
    <3> QED BY <1>1, <3>1 DEF SlotsKept, LifecycleTypeOK, Region
  <2> QED BY <1>2, <2>1, <2>2
<1> QED BY <1>1, <1>3, EnterKeepsTasks DEF StepShape, TasksStep, ObligationsStep

\* What the scheduler and the drain do by themselves, and what a callback's return does.
LEMMA RunningShape ==
  ASSUME StructureInv, Internal \/ CallbackReturn
  PROVE  StepShape
<1>1. LifecycleTypeOK
  BY DEF StructureInv, TypeInv, TypeOK
<1>2. CASE RoundBegin \/ ScanEnd \/ Return
  <2>1. UNCHANGED lifecycleVars
    BY <1>2 DEF RoundBegin, ScanEnd, Return
  <2> QED BY <2>1, TasksUntouched, SlotsUntouched
          DEF lifecycleVars, StepShape, TasksStep, ObligationsStep
<1>3. ASSUME TasksKept, UNCHANGED <<regions, obligations, obligationCount>> PROVE StepShape
  BY <1>3, SlotsUntouched DEF StepShape, TasksStep, ObligationsStep
<1>4. ASSUME NEW i, TaskEnds(i), SlotsKept, UNCHANGED <<obligations, obligationCount>>
      PROVE  StepShape
  BY <1>4 DEF StepShape, TasksStep, ObligationsStep, TaskEnds
<1>5. ASSUME NEW z \in RegionSlots, regions' = Uncount(z) PROVE SlotsKept
  BY <1>1, <1>5, UncountFields DEF SlotsKept
<1>6. ASSUME NEW i \in TaskSlots, ScanForce(i) PROVE StepShape
  <2>1. Top.region.slot \in RegionSlots
    BY <1>6, TopFacts DEF ScanForce, At
  <2> QED BY <1>4, <1>5, <1>6, <2>1, ScanForceEnds DEF ScanForce
<1>7. ASSUME NEW i \in TaskSlots, ScanPoll(i) PROVE StepShape
  BY <1>3, <1>7, ScanPollKeeps DEF ScanPoll
<1>8. CASE DrainAdvance
  <2>1. SlotsKept
    BY <1>1, <1>8, DrainAdvanceFacts DEF SlotsKept, LifecycleTypeOK, Region
  <2>2. TasksKept /\ UNCHANGED <<obligations, obligationCount>>
    BY <1>8, TasksUntouched DEF DrainAdvance
  <2> QED BY <2>1, <2>2 DEF StepShape, TasksStep, ObligationsStep
<1>9. CASE PollOk
  <2>1. Top.region.slot \in RegionSlots
    BY <1>9, ReturningFacts DEF PollOk
  <2> QED BY <1>4, <1>5, <1>9, <2>1, PollOkEnds DEF PollOk
<1>10. CASE PollError
  <2>1. SlotsKept
    BY <1>10, PollErrorEnds DEF SlotsKept
  <2> QED BY <1>4, <1>10, <2>1, PollErrorEnds
<1>11. CASE PollPending
  BY <1>3, <1>11, PollPendingKeeps DEF PollPending
<1> QED BY <1>2, <1>6, <1>7, <1>8, <1>9, <1>10, <1>11 DEF Internal, Scan, CallbackReturn

LEMMA NextShape == StructureInv /\ Next => StepShape
BY OperationShape, EnterShape, RunningShape DEF Next

----------------------------------------------------------------------------
(* Outcomes, faults and poison *)

\* A completed task keeps its state and its outcome in every behaviour: no later poll,
\* cancel, propagation or nested run rewrites it.
THEOREM OutcomesFinal ==
  ASSUME ~Reentrant
  PROVE  Spec => OutcomeStable
<1> DEFINE Final ==
      \A i \in TaskSlots : i < taskCount /\ IsTerminal(tasks[i].state) =>
        /\ tasks'[i].state = tasks[i].state
        /\ tasks'[i].outcome = tasks[i].outcome
<1>1. StructureInv /\ [Next]_vars => [Final]_vars
  <2> SUFFICES ASSUME StructureInv, Next, NEW i \in TaskSlots, i < taskCount,
                      IsTerminal(tasks[i].state)
               PROVE  tasks'[i].state = tasks[i].state /\ tasks'[i].outcome = tasks[i].outcome
    OBVIOUS
  <2>1. TasksStep
    BY NextShape DEF StepShape
  <2>2. CASE TasksKept
    BY <2>2 DEF TasksKept, Kept
  <2>3. ASSUME NEW k \in TaskSlots, TaskEnds(k)
        PROVE  tasks'[i].state = tasks[i].state /\ tasks'[i].outcome = tasks[i].outcome
    BY <2>3 DEF TaskEnds, Ended, Kept
  <2>4. ASSUME NEW h, NEW c, TaskBegins(h, c) PROVE tasks'[i] = tasks[i]
    BY <2>4 DEF TaskBegins, StructureInv, TypeInv, TypeOK, LifecycleTypeOK, TaskSlots
  <2> QED BY <2>1, <2>2, <2>3, <2>4 DEF TasksStep
<1> QED BY <1>1, StructureInvariant, PTL DEF Spec, OutcomeStable

\* The step that fails a task touches no task and no region but its own, under every
\* containment policy.
THEOREM FaultsContained ==
  ASSUME ~Reentrant
  PROVE  Spec => FaultContained
<1> DEFINE Contained ==
      PollError =>
        /\ \A i \in TaskSlots : tasks[i].region # Top.region => tasks'[i] = tasks[i]
        /\ \A s \in RegionSlots \ {Top.region.slot} : regions'[s] = regions[s]
<1>1. StructureInv => [Contained]_vars
  BY PollErrorEnds
<1> QED BY <1>1, StructureInvariant, PTL DEF Spec, FaultContained

\* A poisoned region takes no task and no obligation and stays poisoned while its
\* generation lasts; it needs that a new generation differs from the old one, as it does
\* with 16 bits.
THEOREM PoisonHolds ==
  ASSUME ~Reentrant, GenMod > 1
  PROVE  Spec => PoisonSeals
<1> DEFINE Seals ==
      \A s \in RegionSlots :
        regions[s].alive /\ regions[s].poisoned /\ regions'[s].gen = regions[s].gen =>
          /\ regions'[s].poisoned
          /\ LiveTasks(HandleOf(s))' \subseteq LiveTasks(HandleOf(s))
          /\ Owed(HandleOf(s))' \subseteq Owed(HandleOf(s))
<1>1. StructureInv /\ [Next]_vars => [Seals]_vars
  <2> SUFFICES ASSUME StructureInv, Next, NEW s \in RegionSlots, regions[s].alive,
                      regions[s].poisoned, regions'[s].gen = regions[s].gen
               PROVE  /\ regions'[s].poisoned
                      /\ LiveTasks(HandleOf(s))' \subseteq LiveTasks(HandleOf(s))
                      /\ Owed(HandleOf(s))' \subseteq Owed(HandleOf(s))
    OBVIOUS
  <2>0. PICK h : h = HandleOf(s)
    OBVIOUS
  <2>1. TasksStep /\ (SlotsKept \/ RegionOpen) /\ ObligationsStep /\ LifecycleTypeOK
    BY NextShape DEF StepShape, StructureInv, TypeInv, TypeOK
  <2>2. HandleOf(s)' = h /\ h.slot = s
    BY <2>0 DEF HandleOf
  <2>3. regions'[s].poisoned
    <3>1. CASE SlotsKept
      BY <3>1 DEF SlotsKept
    <3>2. CASE RegionOpen
      <4>1. regions[s].gen \in 0 .. GenMod - 1
        BY <2>1 DEF LifecycleTypeOK, Region
      <4>2. NextGen(regions[s].gen) # regions[s].gen
        BY <4>1, LifecycleAssumption DEF NextGen
      <4>3. regions'[s] = regions[s]
        BY <2>1, <3>2, <4>2 DEF RegionOpen, NewRegion, LifecycleTypeOK
      <4> QED BY <4>3
    <3> QED BY <2>1, <3>1, <3>2
  <2>4. LiveTasks(h)' \subseteq LiveTasks(h)
    <3>1. CASE TasksKept
      BY <3>1, LiveKept
    <3>2. ASSUME NEW i \in TaskSlots, TaskEnds(i) PROVE LiveTasks(h)' \subseteq LiveTasks(h)
      BY <3>2, LiveEnds
    <3>3. ASSUME NEW g \in RegionHandles, MaySpawn(g), NEW c, TaskBegins(g, c)
          PROVE  LiveTasks(h)' \subseteq LiveTasks(h)
      <4>1. g # h
        BY <2>2, <3>3 DEF MaySpawn
      <4> QED BY <2>1, <3>3, <4>1, LiveBegins
    <3> QED BY <2>1, <3>1, <3>2, <3>3 DEF TasksStep
  <2>5. Owed(h)' \subseteq Owed(h)
    <3>1. CASE UNCHANGED <<obligations, obligationCount>>
      BY <3>1 DEF Owed
    <3>2. ASSUME NEW g \in RegionHandles, ObligationReserve(g) PROVE Owed(h)' \subseteq Owed(h)
      <4>1. g # h
        BY <2>2, <3>2 DEF ObligationReserve
      <4> QED BY <3>2, <4>1, ArenaReserves DEF StructureInv
    <3>3. ASSUME NEW o \in ObligationSlots, NEW target \in {"Committed", "Aborted"},
                 ObligationResolve(o, target)
          PROVE  Owed(h)' \subseteq Owed(h)
      BY <3>3, ArenaResolves DEF StructureInv
    <3> QED BY <2>1, <3>1, <3>2, <3>3 DEF ObligationsStep
  <2>6. LiveTasks(HandleOf(s))' \subseteq LiveTasks(h) /\ Owed(HandleOf(s))' \subseteq Owed(h)
    BY <2>2, <2>4, <2>5 DEF LiveTasks, Owed
  <2> QED BY <2>0, <2>3, <2>6
<1> QED BY <1>1, StructureInvariant, PTL DEF Spec, PoisonSeals

----------------------------------------------------------------------------
(* The runtime implements StructuredRegions *)

\* The refinement mapping, by region slot.
Phase(s) == IF regions[s].alive THEN regions[s].state ELSE "Free"
Owns(s) == LiveTasks(HandleOf(s))
Owes(s) == Owed(HandleOf(s))

PhasesKept == \A s \in RegionSlots : Phase(s)' = Phase(s)
OwnsKept == \A s \in RegionSlots : Owns(s)' = Owns(s)
OwesKept == \A s \in RegionSlots : Owes(s)' = Owes(s)
NamesKept == UNCHANGED <<taskCount, obligationCount>>

LEMMA Stutters ==
  ASSUME PhasesKept, OwnsKept, OwesKept, NamesKept
  PROVE  UNCHANGED Abstract!vars
BY DEF PhasesKept, OwnsKept, OwesKept, NamesKept, Phase, Owns, Owes, Abstract!vars

\* A step that moves one region on the abstract side.
LEMMA Moves ==
  ASSUME NEW s \in RegionSlots, NEW st, OwnsKept, OwesKept, NamesKept, Phase(s)' = st,
         \A z \in RegionSlots \ {s} : Phase(z)' = Phase(z)
  PROVE  /\ Phase(s) \in {"Free", "Closed"} /\ st = "Open" => Abstract!Open(s)
         /\ Phase(s) = "Open" /\ st = "Closing" => Abstract!Close(s)
         /\ /\ Phase(s) \in {"Closing", "Finalizing"} /\ Owns(s) = {}
            /\ st = (IF Owes(s) = {} THEN "Closed" ELSE "Finalizing")
            => Abstract!Settle(s)
BY DEF OwnsKept, OwesKept, NamesKept, Phase, Owns, Owes,
       Abstract!Open, Abstract!Close, Abstract!Settle

LEMMA AbstractSpawn ==
  ASSUME NEW s \in RegionSlots, NEW i \in TaskSlots, i = taskCount, taskCount' = i + 1,
         Phase(s) = "Open", PhasesKept, OwesKept, UNCHANGED obligationCount,
         Owns(s)' = Owns(s) \cup {i},
         \A z \in RegionSlots \ {s} : Owns(z)' = Owns(z)
  PROVE  Abstract!Spawn(s, i)
<1>1. /\ {j \in TaskSlots : j >= taskCount'} = {j \in TaskSlots : j >= taskCount} \ {i}
      /\ i \in {j \in TaskSlots : j >= taskCount}
      /\ {o \in ObligationSlots : o >= obligationCount'}
           = {o \in ObligationSlots : o >= obligationCount}
  BY DEF TaskSlots
<1>2. [z \in RegionSlots |-> LiveTasks(HandleOf(z))]'
        = [[z \in RegionSlots |-> LiveTasks(HandleOf(z))]
             EXCEPT ![s] = LiveTasks(HandleOf(s)) \cup {i}]
  BY DEF Owns
<1>3. [z \in RegionSlots |-> Owed(HandleOf(z))]' = [z \in RegionSlots |-> Owed(HandleOf(z))]
  BY DEF OwesKept, Owes
<1>4. [z \in RegionSlots |-> IF regions[z].alive THEN regions[z].state ELSE "Free"]'
        = [z \in RegionSlots |-> IF regions[z].alive THEN regions[z].state ELSE "Free"]
  BY DEF PhasesKept, Phase
<1>5. [z \in RegionSlots |-> IF regions[z].alive THEN regions[z].state ELSE "Free"][s] = "Open"
  BY DEF Phase
<1>6. [tasks |-> {j \in TaskSlots : j >= taskCount},
       obligations |-> {o \in ObligationSlots : o >= obligationCount}]'
        = [[tasks |-> {j \in TaskSlots : j >= taskCount},
            obligations |-> {o \in ObligationSlots : o >= obligationCount}]
             EXCEPT !.tasks = {j \in TaskSlots : j >= taskCount} \ {i}]
  <2>1. PICK A : A = {j \in TaskSlots : j >= taskCount}
    OBVIOUS
  <2>2. PICK B : B = {o \in ObligationSlots : o >= obligationCount}
    OBVIOUS
  <2>3. [tasks |-> A \ {i}, obligations |-> B]
          = [[tasks |-> A, obligations |-> B] EXCEPT !.tasks = A \ {i}]
    OBVIOUS
  <2>4. [tasks |-> {j \in TaskSlots : j >= taskCount},
         obligations |-> {o \in ObligationSlots : o >= obligationCount}]'
          = [tasks |-> A \ {i}, obligations |-> B]
    BY <1>1, <2>1, <2>2
  <2> QED BY <2>1, <2>2, <2>3, <2>4
<1>7. [z \in RegionSlots |-> LiveTasks(HandleOf(z))][s] = LiveTasks(HandleOf(s))
  OBVIOUS
<1>8. [tasks |-> {j \in TaskSlots : j >= taskCount},
       obligations |-> {o \in ObligationSlots : o >= obligationCount}].tasks
        = {j \in TaskSlots : j >= taskCount}
  OBVIOUS
<1> QED BY <1>1, <1>2, <1>3, <1>4, <1>5, <1>6, <1>7, <1>8, Zenon DEF Abstract!Spawn

LEMMA AbstractComplete ==
  ASSUME NEW s \in RegionSlots, NEW i \in Owns(s), PhasesKept, OwesKept, NamesKept,
         Owns(s)' = Owns(s) \ {i},
         \A z \in RegionSlots \ {s} : Owns(z)' = Owns(z)
  PROVE  Abstract!Complete(s, i)
BY DEF PhasesKept, OwesKept, NamesKept, Phase, Owns, Owes, Abstract!Complete

LEMMA AbstractReserve ==
  ASSUME NEW s \in RegionSlots, NEW o \in ObligationSlots, o = obligationCount,
         obligationCount' = o + 1,
         Phase(s) = "Open", PhasesKept, OwnsKept, UNCHANGED taskCount,
         Owes(s)' = Owes(s) \cup {o},
         \A z \in RegionSlots \ {s} : Owes(z)' = Owes(z)
  PROVE  Abstract!Reserve(s, o)
<1>1. /\ {p \in ObligationSlots : p >= obligationCount'}
           = {p \in ObligationSlots : p >= obligationCount} \ {o}
      /\ o \in {p \in ObligationSlots : p >= obligationCount}
      /\ {i \in TaskSlots : i >= taskCount'} = {i \in TaskSlots : i >= taskCount}
  BY DEF ObligationSlots
<1>2. [z \in RegionSlots |-> Owed(HandleOf(z))]'
        = [[z \in RegionSlots |-> Owed(HandleOf(z))] EXCEPT ![s] = Owed(HandleOf(s)) \cup {o}]
  BY DEF Owes
<1>3. [z \in RegionSlots |-> LiveTasks(HandleOf(z))]'
        = [z \in RegionSlots |-> LiveTasks(HandleOf(z))]
  BY DEF OwnsKept, Owns
<1>4. [z \in RegionSlots |-> IF regions[z].alive THEN regions[z].state ELSE "Free"]'
        = [z \in RegionSlots |-> IF regions[z].alive THEN regions[z].state ELSE "Free"]
  BY DEF PhasesKept, Phase
<1>5. [z \in RegionSlots |-> IF regions[z].alive THEN regions[z].state ELSE "Free"][s] = "Open"
  BY DEF Phase
<1>6. [tasks |-> {i \in TaskSlots : i >= taskCount},
       obligations |-> {p \in ObligationSlots : p >= obligationCount}]'
        = [[tasks |-> {i \in TaskSlots : i >= taskCount},
            obligations |-> {p \in ObligationSlots : p >= obligationCount}]
             EXCEPT !.obligations = {p \in ObligationSlots : p >= obligationCount} \ {o}]
  <2>1. PICK A : A = {i \in TaskSlots : i >= taskCount}
    OBVIOUS
  <2>2. PICK B : B = {p \in ObligationSlots : p >= obligationCount}
    OBVIOUS
  <2>3. [tasks |-> A, obligations |-> B \ {o}]
          = [[tasks |-> A, obligations |-> B] EXCEPT !.obligations = B \ {o}]
    OBVIOUS
  <2>4. [tasks |-> {i \in TaskSlots : i >= taskCount},
         obligations |-> {p \in ObligationSlots : p >= obligationCount}]'
          = [tasks |-> A, obligations |-> B \ {o}]
    BY <1>1, <2>1, <2>2
  <2> QED BY <2>1, <2>2, <2>3, <2>4
<1>7. [z \in RegionSlots |-> Owed(HandleOf(z))][s] = Owed(HandleOf(s))
  OBVIOUS
<1>8. [tasks |-> {i \in TaskSlots : i >= taskCount},
       obligations |-> {p \in ObligationSlots : p >= obligationCount}].obligations
        = {p \in ObligationSlots : p >= obligationCount}
  OBVIOUS
<1> QED BY <1>1, <1>2, <1>3, <1>4, <1>5, <1>6, <1>7, <1>8, Zenon DEF Abstract!Reserve

LEMMA AbstractResolve ==
  ASSUME NEW s \in RegionSlots, NEW o \in Owes(s), PhasesKept, OwnsKept, NamesKept,
         Owes(s)' = Owes(s) \ {o},
         \A z \in RegionSlots \ {s} : Owes(z)' = Owes(z)
  PROVE  Abstract!Resolve(s, o)
BY DEF PhasesKept, OwnsKept, NamesKept, Phase, Owns, Owes, Abstract!Resolve

LEMMA RefinesInit == Init => Abstract!Init
<1> SUFFICES ASSUME Init PROVE Abstract!Init
  OBVIOUS
<1>1. /\ taskCount = 0 /\ obligationCount = 0
      /\ \A s \in RegionSlots : ~regions[s].alive
  BY DEF Init, LifecycleInit, NewRegion
<1>2. \A h : LiveTasks(h) = {} /\ Owed(h) = {}
  BY <1>1 DEF LiveTasks, Owed, TaskSlots, ObligationSlots
<1>3. {i \in TaskSlots : i >= taskCount} = TaskSlots
      /\ {o \in ObligationSlots : o >= obligationCount} = ObligationSlots
  BY <1>1 DEF TaskSlots, ObligationSlots
<1> QED BY <1>1, <1>2, <1>3 DEF Abstract!Init

AbstractStep == Abstract!Next \/ UNCHANGED Abstract!vars

StatesKept == \A s \in RegionSlots : regions'[s].state = regions[s].state

LEMMA HandlesStay ==
  ASSUME SlotsKept
  PROVE  /\ \A s \in RegionSlots : HandleOf(s)' = HandleOf(s)
         /\ StatesKept => PhasesKept
BY DEF SlotsKept, StatesKept, PhasesKept, HandleOf, Phase

LEMMA OwesStay ==
  ASSUME SlotsKept, UNCHANGED <<obligations, obligationCount>>
  PROVE  OwesKept
<1>1. \A h : Owed(h)' = Owed(h)
  BY DEF Owed
<1> QED BY <1>1, HandlesStay DEF OwesKept, Owes

LEMMA OwnsStay ==
  ASSUME SlotsKept, TasksKept
  PROVE  OwnsKept
BY LiveKept, HandlesStay DEF OwnsKept, Owns

\* A step that moves no region and no obligation: a task begins, a task ends, or nothing
\* the abstraction sees happens.
LEMMA TasksRefine ==
  ASSUME StructureInv, TasksStep, SlotsKept, StatesKept,
         UNCHANGED <<obligations, obligationCount>>
  PROVE  AbstractStep
<1>1. /\ PhasesKept /\ OwesKept /\ UNCHANGED obligationCount /\ LifecycleTypeOK
      /\ TaskCountExact /\ OwnersInv
      /\ \A s \in RegionSlots : HandleOf(s)' = HandleOf(s)
  BY HandlesStay, OwesStay DEF StructureInv, ArenaInv, TypeInv, TypeOK
<1>2. CASE TasksKept
  <2>1. OwnsKept /\ NamesKept
    BY <1>2, OwnsStay DEF TasksKept, NamesKept
  <2> QED BY <1>1, <2>1, Stutters DEF AbstractStep
<1>3. ASSUME NEW i \in TaskSlots, TaskEnds(i) PROVE AbstractStep
  <2>1. PICK h : h = tasks[i].region
    OBVIOUS
  <2>2. i \in LiveTasks(h) /\ (\A g : LiveTasks(g)' = LiveTasks(g) \ {i}) /\ NamesKept
    BY <1>3, <2>1, LiveEnds DEF TaskEnds, NamesKept
  <2>3. h \in RegionHandles /\ Resolves(h)
    BY <1>1, <2>1, <2>2, LiveResolves DEF OwnersInv, LiveTasks
  <2>4. h.slot \in RegionSlots /\ HandleOf(h.slot) = h
    BY <1>1, <2>3, HandleFacts
  <2>5. PICK s \in RegionSlots : s = h.slot
    BY <2>4
  <2>6. \A z \in RegionSlots \ {s} : i \notin Owns(z)
    BY <2>1, <2>5 DEF Owns, LiveTasks, HandleOf
  <2>7. i \in Owns(s) /\ \A z \in RegionSlots : Owns(z)' = Owns(z) \ {i}
    BY <1>1, <2>2, <2>4, <2>5 DEF Owns
  <2>8. Abstract!Complete(s, i)
    BY <1>1, <2>2, <2>6, <2>7, AbstractComplete
  <2> QED BY <2>8 DEF AbstractStep, Abstract!Next
<1>4. ASSUME NEW h \in RegionHandles, MaySpawn(h), NEW c, TaskBegins(h, c)
      PROVE  AbstractStep
  <2>1. taskCount \in TaskSlots /\ taskCount' = taskCount + 1
    BY <1>4 DEF TaskBegins
  <2>2. /\ LiveTasks(h)' = LiveTasks(h) \cup {taskCount}
        /\ \A g : g # h => LiveTasks(g)' = LiveTasks(g)
    BY <1>1, <1>4, LiveBegins
  <2>3. Resolves(h) /\ regions[h.slot].state = "Open"
    BY <1>4 DEF MaySpawn, CanSpawn
  <2>4. h.slot \in RegionSlots /\ HandleOf(h.slot) = h /\ regions[h.slot].alive
    BY <1>1, <2>3, HandleFacts
  <2>5. PICK s \in RegionSlots : s = h.slot
    BY <2>4
  <2>6. \A z \in RegionSlots \ {s} : HandleOf(z) # h
    BY <2>5 DEF HandleOf
  <2>7. /\ Phase(s) = "Open" /\ Owns(s)' = Owns(s) \cup {taskCount}
        /\ \A z \in RegionSlots \ {s} : Owns(z)' = Owns(z)
    BY <1>1, <2>2, <2>3, <2>4, <2>5, <2>6 DEF Phase, Owns
  <2>8. PICK i \in TaskSlots : i = taskCount
    BY <2>1
  <2>9. Abstract!Spawn(s, i)
    BY <1>1, <2>1, <2>7, <2>8, AbstractSpawn
  <2> QED BY <2>9 DEF AbstractStep, Abstract!Next
<1> QED BY <1>2, <1>3, <1>4 DEF TasksStep

\* A step that does nothing but reserve or resolve an obligation.
LEMMA ObligationsRefine ==
  ASSUME StructureInv, UNCHANGED <<regions, tasks, taskCount>>, ObligationsStep
  PROVE  AbstractStep
<1>1. SlotsKept /\ StatesKept /\ TasksKept
  BY SlotsUntouched, TasksUntouched DEF StatesKept
<1>2. /\ PhasesKept /\ OwnsKept /\ UNCHANGED taskCount /\ LifecycleTypeOK
      /\ OwnersInv /\ TypeInv /\ ArenaInv
      /\ \A s \in RegionSlots : HandleOf(s)' = HandleOf(s)
  BY <1>1, HandlesStay, OwnsStay DEF StructureInv, ArenaInv, TypeInv, TypeOK
<1>3. CASE UNCHANGED <<obligations, obligationCount>>
  BY <1>1, <1>3, TasksRefine DEF TasksStep
<1>4. ASSUME NEW h \in RegionHandles, ObligationReserve(h) PROVE AbstractStep
  <2>1. /\ obligationCount \in ObligationSlots /\ obligationCount' = obligationCount + 1
        /\ Resolves(h) /\ regions[h.slot].state = "Open"
    BY <1>2, <1>4, LifecycleAssumption
       DEF ObligationReserve, LifecycleTypeOK, ObligationSlots, CanSpawn
  <2>2. /\ Owed(h)' = Owed(h) \cup {obligationCount}
        /\ \A g : g # h => Owed(g)' = Owed(g)
    BY <1>2, <1>4, ArenaReserves
  <2>3. h.slot \in RegionSlots /\ HandleOf(h.slot) = h /\ regions[h.slot].alive
    BY <1>2, <2>1, HandleFacts
  <2>4. PICK s \in RegionSlots : s = h.slot
    BY <2>3
  <2>5. \A z \in RegionSlots \ {s} : HandleOf(z) # h
    BY <2>4 DEF HandleOf
  <2>6. /\ Phase(s) = "Open" /\ Owes(s)' = Owes(s) \cup {obligationCount}
        /\ \A z \in RegionSlots \ {s} : Owes(z)' = Owes(z)
    BY <1>2, <2>1, <2>2, <2>3, <2>4, <2>5 DEF Phase, Owes
  <2>7. PICK o \in ObligationSlots : o = obligationCount
    BY <2>1
  <2>8. Abstract!Reserve(s, o)
    BY <1>2, <2>1, <2>6, <2>7, AbstractReserve
  <2> QED BY <2>8 DEF AbstractStep, Abstract!Next
<1>5. ASSUME NEW o \in ObligationSlots, NEW target \in {"Committed", "Aborted"},
             ObligationResolve(o, target)
      PROVE  AbstractStep
  <2>1. PICK h : h = obligations[o].region
    OBVIOUS
  <2>2. o \in Owed(h) /\ (\A g : Owed(g)' = Owed(g) \ {o}) /\ NamesKept
    BY <1>2, <1>5, <2>1, ArenaResolves DEF ObligationResolve, NamesKept
  <2>3. h \in RegionHandles /\ Resolves(h)
    BY <1>2, <2>1, <2>2 DEF OwnersInv, Owed
  <2>4. h.slot \in RegionSlots /\ HandleOf(h.slot) = h
    BY <1>2, <2>3, HandleFacts
  <2>5. PICK s \in RegionSlots : s = h.slot
    BY <2>4
  <2>6. \A z \in RegionSlots \ {s} : o \notin Owes(z)
    BY <2>1, <2>5 DEF Owes, Owed, HandleOf
  <2>7. o \in Owes(s) /\ \A z \in RegionSlots : Owes(z)' = Owes(z) \ {o}
    BY <1>2, <2>2, <2>4, <2>5 DEF Owes
  <2>8. Abstract!Resolve(s, o)
    BY <1>2, <2>2, <2>6, <2>7, AbstractResolve
  <2> QED BY <2>8 DEF AbstractStep, Abstract!Next
<1> QED BY <1>3, <1>4, <1>5 DEF ObligationsStep

\* A step that does nothing the abstraction sees but move the region in slot s.
LEMMA RegionRefines ==
  ASSUME StructureInv, TasksKept, SlotsKept, UNCHANGED <<obligations, obligationCount>>,
         NEW s \in RegionSlots, regions[s].alive, NEW st, regions'[s].state = st,
         \A z \in RegionSlots \ {s} : regions'[z].state = regions[z].state,
         \/ st = regions[s].state
         \/ regions[s].state = "Open" /\ st = "Closing"
         \/ /\ regions[s].state \in {"Closing", "Finalizing"} /\ LiveTasks(HandleOf(s)) = {}
            /\ st = IF Owed(HandleOf(s)) = {} THEN "Closed" ELSE "Finalizing"
  PROVE  AbstractStep
<1>1. OwnsKept /\ OwesKept /\ NamesKept
  BY OwnsStay, OwesStay DEF TasksKept, NamesKept
<1>2. Phase(s) = regions[s].state /\ Phase(s)' = st
      /\ \A z \in RegionSlots \ {s} : Phase(z)' = Phase(z)
  BY DEF Phase, SlotsKept
<1>3. CASE st = regions[s].state
  <2>1. PhasesKept
    BY <1>2, <1>3 DEF PhasesKept
  <2> QED BY <1>1, <2>1, Stutters DEF AbstractStep
<1>4. CASE regions[s].state = "Open" /\ st = "Closing"
  <2>1. Abstract!Close(s)
    BY <1>1, <1>2, <1>4, Moves
  <2> QED BY <2>1 DEF AbstractStep, Abstract!Next
<1>5. CASE /\ regions[s].state \in {"Closing", "Finalizing"} /\ LiveTasks(HandleOf(s)) = {}
           /\ st = IF Owed(HandleOf(s)) = {} THEN "Closed" ELSE "Finalizing"
  <2>1. Abstract!Settle(s)
    BY <1>1, <1>2, <1>5, Moves DEF Owns, Owes
  <2> QED BY <2>1 DEF AbstractStep, Abstract!Next
<1> QED BY <1>3, <1>4, <1>5

\* Opening a region recycles a slot that owns and owes nothing.
LEMMA OpenRefines ==
  ASSUME StructureInv, StructureInv', RegionOpen
  PROVE  AbstractStep
<1>1. PICK s \in RegionSlots :
        /\ Recyclable(s)
        /\ regions' = [regions EXCEPT ![s] =
                         NewRegion(IF @.alive THEN NextGen(@.gen) ELSE @.gen)]
        /\ UNCHANGED <<tasks, taskCount, obligations, obligationCount>>
  BY DEF RegionOpen
<1>2. TypeInv /\ ArenaInv /\ regions \in [RegionSlots -> Region]
  BY DEF StructureInv, TypeInv, TypeOK, LifecycleTypeOK
<1>3. \A h : LiveTasks(h)' = LiveTasks(h) /\ Owed(h)' = Owed(h)
  BY <1>1 DEF LiveTasks, Owed
<1>4. \A z \in RegionSlots \ {s} : regions'[z] = regions[z] /\ HandleOf(z)' = HandleOf(z)
  BY <1>1, <1>2 DEF HandleOf
<1>5. regions'[s].alive /\ regions'[s].state = "Open"
  BY <1>1, <1>2 DEF NewRegion
<1>6. HandleOf(s)' \in RegionHandles /\ HandleOf(s)'.slot = s
  BY DEF HandleOf, RegionHandles, StructureInv, TypeInv, TypeOK, LifecycleTypeOK, Region
<1>7. LiveTasks(HandleOf(s)) = {} /\ Owed(HandleOf(s)) = {}
      /\ LiveTasks(HandleOf(s))' = {} /\ Owed(HandleOf(s))' = {}
  BY <1>1, <1>2, <1>3, <1>6, RecyclableFree
<1>8. OwnsKept /\ OwesKept /\ NamesKept
  BY <1>1, <1>3, <1>4, <1>7 DEF OwnsKept, OwesKept, NamesKept, Owns, Owes
<1>9. Phase(s) \in {"Free", "Closed"} /\ Phase(s)' = "Open"
      /\ \A z \in RegionSlots \ {s} : Phase(z)' = Phase(z)
  BY <1>1, <1>4, <1>5 DEF Phase, Recyclable
<1>10. Abstract!Open(s)
  BY <1>8, <1>9, Moves
<1> QED BY <1>10 DEF AbstractStep, Abstract!Next

LEMMA OperationRefines ==
  ASSUME StructureInv, StructureInv', Operation
  PROVE  AbstractStep
<1>1. LifecycleTypeOK /\ OwnersInv /\ StepShape /\ TypeInv
  BY OperationShape DEF StructureInv, TypeInv, TypeOK, ArenaInv
<1>2. ASSUME NEW h \in RegionHandles, RegionClose(h) PROVE AbstractStep
  <2>1. TasksKept /\ UNCHANGED <<obligations, obligationCount>>
    BY <1>2, TasksUntouched DEF RegionClose
  <2>2. h.slot \in RegionSlots /\ regions[h.slot].alive /\ regions[h.slot].state = "Open"
    BY <1>1, <1>2, HandleFacts DEF RegionClose, Resolves, RegionEdges
  <2>3. SlotsKept
    BY <1>1, <1>2, <2>2 DEF RegionClose, SlotsKept, LifecycleTypeOK, Region
  <2>4. /\ regions'[h.slot].state = "Closing"
        /\ \A z \in RegionSlots \ {h.slot} : regions'[z].state = regions[z].state
    BY <1>1, <1>2, <2>2 DEF RegionClose, LifecycleTypeOK, Region
  <2> QED BY <2>1, <2>2, <2>3, <2>4, RegionRefines
<1>3. ASSUME StatesKept, SlotsKept, UNCHANGED <<obligations, obligationCount>> PROVE AbstractStep
  BY <1>1, <1>3, TasksRefine DEF StepShape
<1>4. ASSUME NEW h \in RegionHandles, RegionPoison(h) PROVE AbstractStep
  <2>1. StatesKept /\ SlotsKept
    BY <1>1, <1>4 DEF RegionPoison, StatesKept, SlotsKept, LifecycleTypeOK, Region
  <2> QED BY <1>3, <1>4, <2>1 DEF RegionPoison
<1>5. ASSUME NEW h \in RegionHandles,
             TaskSpawn(h) \/ \E size \in CaptureSizes : TaskSpawnCaptured(h, size)
      PROVE  AbstractStep
  <2>1. StatesKept /\ SlotsKept /\ UNCHANGED <<obligations, obligationCount>>
    BY <1>1, <1>5, SpawnBegins DEF StatesKept, SlotsKept
  <2> QED BY <1>3, <2>1
<1>6. CASE ObligationOperation
  <2>1. UNCHANGED <<regions, tasks, taskCount>>
    BY <1>6 DEF ObligationOperation, ObligationReserve, ObligationCommit, ObligationAbort,
                ObligationResolve
  <2> QED BY <1>1, <2>1, ObligationsRefine DEF StepShape
<1>7. CASE CancelOperation
  <2>1. UNCHANGED <<regions, obligations, obligationCount>>
    BY <1>7 DEF CancelOperation, TaskCancel, TaskCancelWithOrigin, CancelPropagate, Checkpoint,
                TaskFinalize
  <2> QED BY <1>3, <2>1, SlotsUntouched DEF StatesKept
<1> QED BY <1>2, <1>4, <1>5, <1>6, <1>7, OpenRefines
        DEF Operation, RegionOperation, TaskOperation

LEMMA EnterRefines ==
  ASSUME StructureInv, Enter
  PROVE  AbstractStep
<1>1. LifecycleTypeOK /\ TasksKept
  BY EnterKeepsTasks DEF StructureInv, TypeInv, TypeOK
<1>2. PICK h \in RegionHandles, budget \in 0 .. MaxBudget :
        SchedulerRun(h, budget) \/ RegionDrain(h, budget)
  BY DEF Enter
<1>3. CASE SchedulerRun(h, budget)
  <2>1. UNCHANGED <<regions, obligations, obligationCount>>
    BY <1>3 DEF SchedulerRun, lifecycleVars
  <2> QED BY <1>1, <2>1, SlotsUntouched, TasksRefine DEF StatesKept, TasksStep
<1>4. CASE RegionDrain(h, budget)
  <2>1. h.slot \in RegionSlots /\ regions[h.slot] \in Region /\ regions[h.slot].alive
    BY <1>1, <1>4, HandleFacts DEF RegionDrain, MayEnter, Resolves
  <2>2. /\ regions' = [regions EXCEPT ![h.slot].state = IF @ = "Open" THEN "Closing" ELSE @]
        /\ UNCHANGED <<obligations, obligationCount>>
    BY <1>4 DEF RegionDrain
  <2>3. SlotsKept
    BY <1>1, <2>1, <2>2 DEF SlotsKept, LifecycleTypeOK, Region
  <2>4. /\ regions'[h.slot].state = IF regions[h.slot].state = "Open" THEN "Closing"
                                    ELSE regions[h.slot].state
        /\ \A z \in RegionSlots \ {h.slot} : regions'[z].state = regions[z].state
    BY <1>1, <2>1, <2>2 DEF LifecycleTypeOK, Region
  <2> QED BY <1>1, <2>1, <2>2, <2>3, <2>4, RegionRefines
<1> QED BY <1>2, <1>3, <1>4

LEMMA RunningRefines ==
  ASSUME StructureInv, Internal \/ CallbackReturn
  PROVE  AbstractStep
<1>1. LifecycleTypeOK /\ StepShape
  BY RunningShape DEF StructureInv, TypeInv, TypeOK
<1>2. ASSUME StatesKept, SlotsKept, UNCHANGED <<obligations, obligationCount>> PROVE AbstractStep
  BY <1>1, <1>2, TasksRefine DEF StepShape
<1>3. CASE UNCHANGED <<regions, obligations, obligationCount>>
  BY <1>2, <1>3, SlotsUntouched DEF StatesKept
<1>4. CASE RoundBegin \/ ScanEnd \/ Return \/ (\E i \in TaskSlots : ScanPoll(i)) \/ PollPending
  BY <1>3, <1>4 DEF RoundBegin, ScanEnd, Return, ScanPoll, PollPending, lifecycleVars
<1>5. ASSUME NEW z \in RegionSlots, regions' = Uncount(z), UNCHANGED <<obligations, obligationCount>>
      PROVE  AbstractStep
  BY <1>1, <1>2, <1>5, UncountFields DEF SlotsKept, StatesKept
<1>6. CASE (\E i \in TaskSlots : ScanForce(i)) \/ PollOk
  <2>1. Top.region.slot \in RegionSlots
    BY <1>6, TopFacts DEF ScanForce, PollOk, At
  <2> QED BY <1>5, <1>6, <2>1 DEF ScanForce, PollOk
<1>7. CASE PollError
  <2>1. SlotsKept /\ StatesKept /\ UNCHANGED <<obligations, obligationCount>>
    BY <1>7, PollErrorEnds DEF SlotsKept, StatesKept
  <2> QED BY <1>2, <2>1
<1>8. CASE DrainAdvance
  <2>1. PICK s \in RegionSlots : s = Top.region.slot
    BY <1>8, DrainAdvanceFacts
  <2>2. PICK st \in {"Finalizing", "Closed"} :
          /\ regions' = [regions EXCEPT ![s].state = st]
          /\ st = "Closed" <=> Owed(HandleOf(s)) = {}
    BY <1>8, <2>1, DrainAdvanceFacts
  <2>3. /\ regions[s].alive /\ LiveTasks(HandleOf(s)) = {}
        /\ regions[s].state \in {"Closing", "Finalizing", "Closed"}
        /\ regions[s].state = "Closed" => Owed(HandleOf(s)) = {}
    BY <1>8, <2>1, DrainAdvanceFacts DEF Resolves
  <2>4. SlotsKept /\ regions'[s].state = st
        /\ \A z \in RegionSlots \ {s} : regions'[z].state = regions[z].state
    BY <1>1, <2>2 DEF SlotsKept, LifecycleTypeOK, Region
  <2>5. TasksKept /\ UNCHANGED <<obligations, obligationCount>>
    BY <1>8, TasksUntouched DEF DrainAdvance
  <2> QED BY <2>2, <2>3, <2>4, <2>5, RegionRefines
<1> QED BY <1>4, <1>6, <1>7, <1>8 DEF Internal, Scan, CallbackReturn

\* The kernel implements structured concurrency: whatever callbacks do that keep off the
\* regions being run, nothing enters a region that is not open, every task and obligation
\* ends once and in the region it was given, and a region closes owning and owing nothing.
THEOREM RuntimeRefinesRegions ==
  ASSUME ~Reentrant
  PROVE  Spec => ImplementsStructuredRegions
<1>1. StructureInv /\ StructureInv' /\ [Next]_vars => [Abstract!Next]_Abstract!vars
  <2> SUFFICES ASSUME StructureInv, StructureInv', [Next]_vars PROVE AbstractStep
    BY DEF AbstractStep
  <2>1. CASE UNCHANGED vars
    BY <2>1, TasksUntouched, SlotsUntouched, TasksRefine
       DEF vars, lifecycleVars, StatesKept, TasksStep
  <2> QED BY <2>1, OperationRefines, EnterRefines, RunningRefines DEF Next
<1> QED BY <1>1, RefinesInit, StructureInvariant, PTL
        DEF Spec, ImplementsStructuredRegions, Abstract!Spec

----------------------------------------------------------------------------
(* Captured states *)

CaptureSafe == CaptureInv /\ CapturesDisjoint

Live(i) == i < taskCount /\ ~IsTerminal(tasks[i].state)

\* The bytes captured for task i, in the arena of its region.
CaptureOf(i) == tasks[i].capture

Apart(a, b) ==
  a.size = 0 \/ b.size = 0 \/ a.start + a.size <= b.start \/ b.start + b.size <= a.start

\* The same, task by task.
LEMMA CapturesByTask ==
  CaptureSafe <=>
    \A i \in TaskSlots : Live(i) =>
      /\ CaptureOf(i).start + CaptureOf(i).size <= regions[tasks[i].region.slot].captureUsed
      /\ CaptureOf(i).start + CaptureOf(i).size <= ArenaBytes
      /\ \A j \in TaskSlots \ {i} :
           Live(j) /\ tasks[j].region = tasks[i].region => Apart(CaptureOf(i), CaptureOf(j))
BY DEF CaptureSafe, CaptureInv, CapturesDisjoint, Live, CaptureOf, Apart, LiveTasks

LEMMA CapturesByTaskNext ==
  CaptureSafe' <=>
    (\A i \in TaskSlots : Live(i) =>
      /\ CaptureOf(i).start + CaptureOf(i).size <= regions[tasks[i].region.slot].captureUsed
      /\ CaptureOf(i).start + CaptureOf(i).size <= ArenaBytes
      /\ \A j \in TaskSlots \ {i} :
           Live(j) /\ tasks[j].region = tasks[i].region => Apart(CaptureOf(i), CaptureOf(j)))'
BY CapturesByTask, PTL

\* The arenas of regions with live tasks are left alone by every step but a spawn.
UsedKept ==
  \A i \in TaskSlots : Live(i) =>
    regions'[tasks[i].region.slot].captureUsed = regions[tasks[i].region.slot].captureUsed

LEMMA CapturesHold ==
  ASSUME CaptureSafe, TasksKept \/ (\E i \in TaskSlots : TaskEnds(i)), UsedKept
  PROVE  CaptureSafe'
<1>1. ASSUME NEW i \in TaskSlots, Live(i)'
      PROVE  Live(i) /\ tasks'[i].region = tasks[i].region /\ CaptureOf(i)' = CaptureOf(i)
  BY <1>1 DEF TasksKept, TaskEnds, Ended, Kept, Live, CaptureOf
<1>2. ASSUME NEW i \in TaskSlots, Live(i)'
      PROVE  regions'[tasks'[i].region.slot].captureUsed
               = regions[tasks[i].region.slot].captureUsed
  BY <1>1, <1>2 DEF UsedKept
<1> QED BY <1>1, <1>2, CapturesByTask, CapturesByTaskNext

\* A task begins with the bytes beyond those used so far, or with none.
LEMMA CapturesGrow ==
  ASSUME StructureInv, TypeInv', CaptureSafe, NEW h \in RegionHandles,
         NEW c \in Capture, TaskBegins(h, c),
         \A s \in RegionSlots : regions'[s].captureUsed >= regions[s].captureUsed,
         c.start + c.size <= regions'[h.slot].captureUsed,
         c.size = 0 \/ c.start >= regions[h.slot].captureUsed
  PROVE  CaptureSafe'
<1>1. /\ LifecycleTypeOK /\ LifecycleTypeOK' /\ OwnersInv /\ taskCount \in Nat
      /\ ArenaBytes \in Nat
  BY LifecycleAssumption DEF StructureInv, TypeInv, TypeOK, ArenaInv, LifecycleTypeOK
<1>2. /\ tasks' = [tasks EXCEPT ![taskCount] = NewTask(h, c)]
      /\ taskCount' = taskCount + 1 /\ taskCount \in TaskSlots
      /\ tasks \in [TaskSlots -> Task]
  BY <1>1 DEF TaskBegins, LifecycleTypeOK
<1>3. tasks'[taskCount].region = h /\ tasks'[taskCount].capture = c
  BY <1>2 DEF NewTask
<1>4. \A s \in RegionSlots : /\ regions[s].captureUsed \in Nat /\ regions'[s].captureUsed \in Nat
                             /\ regions'[s].captureUsed <= ArenaBytes
  BY <1>1 DEF LifecycleTypeOK, Region
<1>5. ASSUME NEW i \in TaskSlots, i # taskCount, Live(i)'
      PROVE  /\ Live(i) /\ tasks'[i] = tasks[i] /\ tasks[i].region.slot \in RegionSlots
             /\ CaptureOf(i).start \in Nat /\ CaptureOf(i).size \in Nat
             /\ CaptureOf(i).start + CaptureOf(i).size
                  <= regions[tasks[i].region.slot].captureUsed
  <2>1. i \in Nat /\ tasks'[i] = tasks[i]
    BY <1>2, <1>5 DEF TaskSlots
  <2>2. Live(i)
    BY <1>1, <1>2, <1>5, <2>1 DEF Live
  <2>3. tasks[i].region \in RegionHandles /\ tasks[i] \in Task
    BY <1>1, <2>2 DEF OwnersInv, Live, LifecycleTypeOK
  <2> QED BY <2>1, <2>2, <2>3, CapturesByTask
          DEF RegionHandles, Task, Capture, CaptureOf
<1>6. c.start \in Nat /\ c.size \in Nat /\ h.slot \in RegionSlots
  BY DEF Capture, RegionHandles
<1>7. ASSUME NEW i \in TaskSlots, Live(i)'
      PROVE  /\ tasks'[i].region.slot \in RegionSlots
             /\ tasks'[i].capture.start + tasks'[i].capture.size
                  <= regions'[tasks'[i].region.slot].captureUsed
             /\ tasks'[i].capture.start + tasks'[i].capture.size <= ArenaBytes
  <2>1. CASE i = taskCount
    BY <1>1, <1>3, <1>4, <1>6, <2>1
  <2>2. CASE i # taskCount
    <3>1. PICK s \in RegionSlots : s = tasks[i].region.slot
      BY <1>5, <1>7, <2>2
    <3>2. PICK a, n \in Nat : a = tasks[i].capture.start /\ n = tasks[i].capture.size
      BY <1>5, <1>7, <2>2 DEF CaptureOf
    <3>3. a + n <= regions[s].captureUsed /\ tasks'[i] = tasks[i]
      BY <1>5, <1>7, <2>2, <3>1, <3>2 DEF CaptureOf
    <3>4. a + n <= regions'[s].captureUsed /\ a + n <= ArenaBytes
      BY <1>1, <1>4, <3>2, <3>3
    <3> QED BY <3>1, <3>2, <3>3, <3>4
  <2> QED BY <2>1, <2>2
<1>8. ASSUME NEW i \in TaskSlots, NEW j \in TaskSlots \ {i}, Live(i)', Live(j)',
             tasks'[j].region = tasks'[i].region
      PROVE  Apart(tasks'[i].capture, tasks'[j].capture)
  <2>1. ASSUME NEW k \in TaskSlots, k # taskCount, Live(k)', tasks'[k].region = h
        PROVE  Apart(c, tasks'[k].capture) /\ Apart(tasks'[k].capture, c)
    <3>1. PICK a, n \in Nat : a = tasks'[k].capture.start /\ n = tasks'[k].capture.size
      BY <1>5, <2>1 DEF CaptureOf
    <3>2. a + n <= regions[h.slot].captureUsed
      BY <1>5, <2>1, <3>1 DEF CaptureOf
    <3>3. c.size = 0 \/ a + n <= c.start
      BY <1>4, <1>6, <3>2
    <3> QED BY <3>1, <3>3 DEF Apart
  <2>2. CASE i = taskCount
    BY <1>3, <1>8, <2>1, <2>2
  <2>3. CASE j = taskCount
    BY <1>3, <1>8, <2>1, <2>3
  <2>4. CASE i # taskCount /\ j # taskCount
    BY <1>5, <1>8, <2>4, CapturesByTask DEF CaptureOf
  <2> QED BY <2>2, <2>3, <2>4
<1> QED BY <1>7, <1>8, CapturesByTaskNext DEF CaptureOf

\* Where no slot's bump pointer moves and no task begins there is nothing to show.
LEMMA CapturesStay ==
  ASSUME StructureInv, CaptureSafe, TasksKept \/ (\E i \in TaskSlots : TaskEnds(i)),
         \A s \in RegionSlots : regions'[s].captureUsed = regions[s].captureUsed
  PROVE  CaptureSafe'
<1>1. ASSUME NEW i \in TaskSlots, Live(i) PROVE tasks[i].region.slot \in RegionSlots
  BY <1>1 DEF StructureInv, ArenaInv, OwnersInv, Live, RegionHandles
<1> QED BY <1>1, CapturesHold DEF UsedKept

LEMMA SpawnCaptures ==
  ASSUME StructureInv, TypeInv', CaptureSafe, NEW h \in RegionHandles,
         TaskSpawn(h) \/ \E size \in CaptureSizes : TaskSpawnCaptured(h, size)
  PROVE  CaptureSafe'
<1>1. /\ h.slot \in RegionSlots /\ regions \in [RegionSlots -> Region]
      /\ taskCount \in TaskSlots /\ ArenaBytes \in Nat
  BY SpawnBegins, LifecycleAssumption
     DEF StructureInv, TypeInv, TypeOK, LifecycleTypeOK, RegionHandles, TaskBegins
<1>2. \A s \in RegionSlots : regions[s] \in Region /\ regions[s].captureUsed \in Nat
  BY <1>1 DEF Region
<1>3. CASE TaskSpawn(h)
  <2>1. TaskBegins(h, NoCapture) /\ NoCapture \in Capture
    BY <1>1, <1>3, LifecycleAssumption DEF TaskSpawn, Allocate, TaskBegins, NoCapture, Capture
  <2>2. \A s \in RegionSlots : regions'[s].captureUsed = regions[s].captureUsed
    BY <1>1, <1>2, <1>3 DEF TaskSpawn, Region
  <2>3. NoCapture.start + NoCapture.size <= regions'[h.slot].captureUsed /\ NoCapture.size = 0
    BY <1>1, <1>2, <2>2 DEF NoCapture
  <2>4. \A s \in RegionSlots : regions'[s].captureUsed >= regions[s].captureUsed
    BY <1>2, <2>2
  <2> QED BY <2>1, <2>3, <2>4, CapturesGrow
<1>4. ASSUME NEW size \in CaptureSizes, TaskSpawnCaptured(h, size) PROVE CaptureSafe'
  <2>1. PICK used \in Nat : used = regions[h.slot].captureUsed
    BY <1>1, <1>2
  <2>2. /\ size \in Nat /\ AlignUp(used) \in Nat /\ used <= AlignUp(used)
        /\ AlignUp(size) \in Nat /\ size <= AlignUp(size)
    BY <2>1, AlignUpType, LifecycleAssumption
  <2>3. PICK c : c = [start |-> AlignUp(used), size |-> size]
    OBVIOUS
  <2>4. TaskBegins(h, c)
    BY <1>1, <1>4, <2>1, <2>3 DEF TaskSpawnCaptured, Allocate, TaskBegins
  <2>5. AlignUp(used) + AlignUp(size) <= ArenaBytes
    BY <1>4, <2>1 DEF TaskSpawnCaptured, CaptureEnd
  <2>6. c \in Capture /\ c.start = AlignUp(used) /\ c.size = size
    BY <1>1, <2>2, <2>3, <2>5 DEF Capture
  <2>7. \A s \in RegionSlots :
          regions'[s].captureUsed = IF s = h.slot THEN AlignUp(used) + AlignUp(size)
                                    ELSE regions[s].captureUsed
    BY <1>1, <1>2, <1>4, <2>1 DEF TaskSpawnCaptured, CaptureEnd, Region
  <2>8. \A s \in RegionSlots : regions'[s].captureUsed >= regions[s].captureUsed
    BY <1>2, <2>1, <2>2, <2>7
  <2>9. c.start + c.size <= regions'[h.slot].captureUsed
        /\ c.start >= regions[h.slot].captureUsed
    BY <1>1, <2>1, <2>2, <2>6, <2>7
  <2> QED BY <2>4, <2>6, <2>8, <2>9, CapturesGrow
<1> QED BY <1>3, <1>4

LEMMA CaptureStep ==
  ASSUME StructureInv, TypeInv', CaptureSafe, [Next]_vars
  PROVE  CaptureSafe'
<1>1. LifecycleTypeOK /\ TypeInv /\ ArenaInv /\ regions \in [RegionSlots -> Region]
  BY DEF StructureInv, TypeInv, TypeOK, LifecycleTypeOK
<1>2. CASE UNCHANGED <<regions, tasks, taskCount>>
  BY <1>2, CapturesStay, TasksUntouched
<1>3. CASE RegionOpen
  <2>1. PICK s \in RegionSlots :
          /\ Recyclable(s) /\ \A z \in RegionSlots \ {s} : regions'[z] = regions[z]
          /\ UNCHANGED <<tasks, taskCount>>
    BY <1>1, <1>3 DEF RegionOpen
  <2>2. ASSUME NEW i \in TaskSlots, Live(i)
        PROVE  tasks[i].region.slot \in RegionSlots \ {s}
    <3>1. PICK h \in RegionHandles : h = tasks[i].region
      BY <1>1, <2>2 DEF ArenaInv, OwnersInv, Live
    <3>2. LiveTasks(h) # {}
      BY <2>2, <3>1 DEF LiveTasks, Live
    <3> QED BY <1>1, <2>1, <3>1, <3>2, RecyclableFree DEF RegionHandles
  <2>3. UsedKept
    BY <2>1, <2>2 DEF UsedKept
  <2> QED BY <2>1, <2>3, CapturesHold, TasksUntouched
<1>4. ASSUME NEW h \in RegionHandles, RegionClose(h) \/ RegionPoison(h) PROVE CaptureSafe'
  <2>1. \A s \in RegionSlots : regions'[s].captureUsed = regions[s].captureUsed
    BY <1>1, <1>4 DEF RegionClose, RegionPoison, Region
  <2> QED BY <1>4, <2>1, CapturesStay, TasksUntouched DEF RegionClose, RegionPoison
<1>5. CASE TaskOperation
  BY <1>5, SpawnCaptures DEF TaskOperation
<1>6. CASE ObligationOperation
  BY <1>2, <1>6 DEF ObligationOperation, ObligationReserve, ObligationCommit, ObligationAbort,
                    ObligationResolve
<1>7. CASE CancelOperation
  <2>1. UNCHANGED regions
    BY <1>7 DEF CancelOperation, TaskCancel, TaskCancelWithOrigin, CancelPropagate, Checkpoint,
                TaskFinalize
  <2> QED BY <1>1, <1>7, <2>1, CancelKeepsTasks, CapturesStay
<1>8. CASE Enter
  <2>1. PICK h \in RegionHandles :
          \/ UNCHANGED regions
          \/ regions' = [regions EXCEPT ![h.slot].state = IF @ = "Open" THEN "Closing" ELSE @]
    BY <1>8 DEF Enter, SchedulerRun, RegionDrain, lifecycleVars
  <2>2. \A s \in RegionSlots : regions'[s].captureUsed = regions[s].captureUsed
    BY <1>1, <2>1 DEF Region
  <2> QED BY <1>1, <1>8, <2>2, EnterKeepsTasks, CapturesStay
<1>9. CASE RoundBegin \/ ScanEnd \/ Return
  BY <1>2, <1>9 DEF RoundBegin, ScanEnd, Return, lifecycleVars
<1>10. CASE (\E i \in TaskSlots : ScanForce(i)) \/ PollOk
  <2>1. Top.region.slot \in RegionSlots /\ regions' = Uncount(Top.region.slot)
    BY <1>10, TopFacts DEF ScanForce, PollOk, At
  <2>2. \A s \in RegionSlots : regions'[s].captureUsed = regions[s].captureUsed
    BY <1>1, <2>1, UncountFields
  <2>3. \E i \in TaskSlots : TaskEnds(i)
    BY <1>10, ScanForceEnds, PollOkEnds DEF TaskEnds
  <2> QED BY <2>2, <2>3, CapturesStay
<1>11. CASE PollError
  <2>1. /\ \A s \in RegionSlots : regions'[s].captureUsed = regions[s].captureUsed
        /\ \E i \in TaskSlots : TaskEnds(i)
    BY <1>11, PollErrorEnds DEF TaskEnds
  <2> QED BY <2>1, CapturesStay
<1>12. CASE (\E i \in TaskSlots : ScanPoll(i)) \/ PollPending
  <2>1. TasksKept /\ UNCHANGED regions
    BY <1>12, ScanPollKeeps, PollPendingKeeps DEF ScanPoll, PollPending
  <2> QED BY <2>1, CapturesStay
<1>13. CASE DrainAdvance
  <2>1. \A s \in RegionSlots : regions'[s].captureUsed = regions[s].captureUsed
    BY <1>1, <1>13, DrainAdvanceFacts DEF Region
  <2> QED BY <1>13, <2>1, CapturesStay, TasksUntouched DEF DrainAdvance
<1>14. UNCHANGED vars => UNCHANGED <<regions, tasks, taskCount>>
  BY DEF vars, lifecycleVars
<1> QED BY <1>2, <1>3, <1>4, <1>5, <1>6, <1>7, <1>8, <1>9, <1>10, <1>11, <1>12, <1>13, <1>14
        DEF Next, Operation, RegionOperation, Internal, Scan, CallbackReturn

\* The states captured for the live tasks of a region never overlap and stay inside its
\* arena, for every arena size and every size callers ask for (asx_region_capture_alloc).
THEOREM CapturesApart ==
  ASSUME ~Reentrant
  PROVE  Spec => []CapturesDisjoint
<1>1. Init => CaptureSafe
  <2>1. ASSUME Init, NEW i \in TaskSlots PROVE ~Live(i)
    BY <2>1 DEF Init, LifecycleInit, Live, TaskSlots
  <2> QED BY <2>1, CapturesByTask
<1>2. StructureInv /\ StructureInv' /\ CaptureSafe /\ [Next]_vars => CaptureSafe'
  BY CaptureStep DEF StructureInv
<1>3. CaptureSafe => CapturesDisjoint
  BY DEF CaptureSafe
<1> QED BY <1>1, <1>2, <1>3, StructureInvariant, PTL DEF Spec

----------------------------------------------------------------------------
(* Admission *)

\* asx_align_up_u32 gives a multiple of 8, and the least one that is not below.
LEMMA AlignUpMultiple ==
  ASSUME NEW v \in Nat
  PROVE  /\ AlignUp(v) % 8 = 0
         /\ \A w \in Nat : v <= w /\ w % 8 = 0 => AlignUp(v) <= w
BY DEF AlignUp

LEMMA MultiplesAdd ==
  ASSUME NEW v \in Nat, NEW w \in Nat, v % 8 = 0, w % 8 = 0
  PROVE  (v + w) % 8 = 0 /\ (v <= w => (w - v) % 8 = 0)
OBVIOUS

\* Only a new region and a spawn with a captured state move a bump pointer.
LEMMA AlignedStep ==
  ASSUME TypeInv, AlignedInv, [Next]_vars
  PROVE  AlignedInv'
<1>1. /\ regions \in [RegionSlots -> Region]
      /\ \A s \in RegionSlots : regions[s].captureUsed \in Nat
  BY LifecycleAssumption DEF TypeInv, TypeOK, LifecycleTypeOK, Region
<1>2. ASSUME \A s \in RegionSlots : regions'[s].captureUsed = regions[s].captureUsed
      PROVE  AlignedInv'
  BY <1>2 DEF AlignedInv
<1>3. CASE UNCHANGED regions
  BY <1>2, <1>3
<1>4. CASE RegionOpen
  <2>1. 0 % 8 = 0
    OBVIOUS
  <2>2. PICK z \in RegionSlots : \E g : regions' = [regions EXCEPT ![z] = NewRegion(g)]
    BY <1>4 DEF RegionOpen
  <2>3. \A s \in RegionSlots : regions'[s] = regions[s] \/ regions'[s].captureUsed = 0
    BY <1>1, <2>2 DEF NewRegion
  <2> QED BY <2>1, <2>3 DEF AlignedInv
<1>5. ASSUME NEW h \in RegionHandles,
             RegionClose(h) \/ RegionPoison(h) \/ TaskSpawn(h)
      PROVE  AlignedInv'
  BY <1>1, <1>2, <1>5 DEF RegionClose, RegionPoison, TaskSpawn, Region
<1>6. ASSUME NEW h \in RegionHandles, NEW size \in CaptureSizes, TaskSpawnCaptured(h, size)
      PROVE  AlignedInv'
  <2>1. PICK used \in Nat : used = regions[h.slot].captureUsed
    BY <1>1 DEF RegionHandles
  <2>2. size \in Nat
    BY LifecycleAssumption
  <2>3. (AlignUp(used) + AlignUp(size)) % 8 = 0
    BY <2>1, <2>2, AlignUpType, AlignUpMultiple, MultiplesAdd
  <2>4. \A s \in RegionSlots :
          regions'[s].captureUsed = IF s = h.slot THEN AlignUp(used) + AlignUp(size)
                                    ELSE regions[s].captureUsed
    BY <1>1, <1>6, <2>1 DEF TaskSpawnCaptured, CaptureEnd, Region
  <2> QED BY <2>3, <2>4 DEF AlignedInv
<1>7. CASE ObligationOperation \/ CancelOperation
  BY <1>3, <1>7 DEF ObligationOperation, ObligationReserve, ObligationCommit, ObligationAbort,
                    ObligationResolve, CancelOperation, TaskCancel, TaskCancelWithOrigin,
                    CancelPropagate, Checkpoint, TaskFinalize
<1>8. CASE Enter
  <2>1. PICK h \in RegionHandles :
          \/ UNCHANGED regions
          \/ regions' = [regions EXCEPT ![h.slot].state = IF @ = "Open" THEN "Closing" ELSE @]
    BY <1>8 DEF Enter, SchedulerRun, RegionDrain, lifecycleVars
  <2> QED BY <1>1, <1>2, <2>1 DEF Region
<1>9. ASSUME NEW z, regions' = Uncount(z) PROVE AlignedInv'
  BY <1>1, <1>2, <1>9 DEF Uncount, Region
<1>10. CASE PollError
  <2>1. PICK z : /\ z = Top.region.slot
                 /\ \/ regions' = [Uncount(z) EXCEPT ![z].poisoned = TRUE]
                    \/ regions' = Uncount(z)
    BY <1>10 DEF PollError
  <2> QED BY <1>1, <1>2, <2>1 DEF Uncount, Region
<1>11. CASE Internal \/ PollOk \/ PollPending
  <2>1. CASE RoundBegin \/ ScanEnd \/ Return \/ PollPending \/ \E i \in TaskSlots : ScanPoll(i)
    BY <1>3, <2>1 DEF RoundBegin, ScanEnd, Return, PollPending, ScanPoll, lifecycleVars
  <2>2. CASE PollOk \/ \E i \in TaskSlots : ScanForce(i)
    BY <1>9, <2>2 DEF PollOk, ScanForce
  <2>3. CASE DrainAdvance
    <3>1. PICK z, state : \/ UNCHANGED regions
                          \/ regions' = [regions EXCEPT ![z].state = state]
      BY <2>3 DEF DrainAdvance
    <3> QED BY <1>1, <1>2, <3>1 DEF Region
  <2> QED BY <1>11, <2>1, <2>2, <2>3 DEF Internal, Scan
<1>12. CASE UNCHANGED vars
  BY <1>3, <1>12 DEF vars, lifecycleVars
<1> QED BY <1>4, <1>5, <1>6, <1>7, <1>8, <1>10, <1>11, <1>12
        DEF Next, Operation, RegionOperation, TaskOperation, CallbackReturn

\* A caller who was admitted is served (asx_resource_admit and
\* asx_resource_region_capture_remaining against asx_task_spawn_captured): the bytes
\* reported as remaining can be had whatever was captured before, since every pointer and,
\* as the 16384 bytes of the code are, the arena itself is a multiple of the alignment.
\* Callbacks may do what they like.
THEOREM AdmissionHonest ==
  ASSUME ArenaBytes % 8 = 0
  PROVE  Spec => []AdmittedIsServed
<1>1. Init => AlignedInv
  BY DEF Init, LifecycleInit, NewRegion, AlignedInv
<1>2. TypeInv /\ AlignedInv => AdmittedIsServed
  <2> SUFFICES ASSUME TypeInv, AlignedInv, NEW h \in RegionHandles, NEW size \in CaptureSizes,
                      Admits("Task", 1), size <= CaptureRemaining(h)
               PROVE  /\ taskCount < MaxTasks
                      /\ CaptureEnd(regions[h.slot].captureUsed, size) <= ArenaBytes
    BY DEF AdmittedIsServed
  <2>1. taskCount < MaxTasks
    BY LifecycleAssumption
       DEF Admits, Remaining, Used, Capacity, TypeInv, TypeOK, LifecycleTypeOK
  <2>2. PICK used \in 0 .. ArenaBytes : used = regions[h.slot].captureUsed
    BY DEF TypeInv, TypeOK, LifecycleTypeOK, Region, RegionHandles
  <2>3. used \in Nat /\ used % 8 = 0 /\ ArenaBytes \in Nat /\ size \in Nat \ {0}
    BY <2>2, LifecycleAssumption DEF AlignedInv, RegionHandles
  <2>4. size <= ArenaBytes - used /\ ArenaBytes - used \in Nat
    BY <2>2, <2>3 DEF CaptureRemaining
  <2>5. (ArenaBytes - used) % 8 = 0
    BY <2>2, <2>3, MultiplesAdd
  <2>6. AlignUp(size) <= ArenaBytes - used /\ AlignUp(size) \in Nat
    BY <2>3, <2>4, <2>5, AlignUpMultiple, AlignUpType
  <2>7. AlignUp(used) = used
    BY <2>3 DEF AlignUp
  <2>8. AlignUp(used) + AlignUp(size) <= ArenaBytes
    BY <2>3, <2>6, <2>7
  <2> QED BY <2>1, <2>2, <2>8 DEF CaptureEnd
<1>3. TypeInv /\ AlignedInv /\ [Next]_vars => AlignedInv'
  BY AlignedStep
<1> QED BY <1>1, <1>2, <1>3, TypeInit, TypeStep, PTL DEF Spec

====
