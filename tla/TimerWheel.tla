------------------------------ MODULE TimerWheel ------------------------------
(* The timer wheel, time/timer_wheel.c: a flat arena of timers with handles that
   carry the slot's generation. *)
EXTENDS Naturals, FiniteSets, SequencesExt

CONSTANTS
  MaxTimers,      \* ASX_MAX_TIMERS
  MaxTime,        \* largest point in time
  MaxDuration,    \* ASX_TIMER_MAX_DURATION_NS
  Limits,         \* what asx_timer_set_max_duration is called with
  Wakers,         \* what callers pass as waker_data
  NoWaker,        \* NULL
  GenMod,         \* width of a generation (2^32 in the code)
  InsertionCap,   \* bound on registrations between two resets
  MaxHeld         \* bound on the handles the program keeps

ASSUME TimerAssumption ==
  /\ MaxTimers \in Nat \ {0} /\ MaxTime \in Nat /\ MaxDuration \in Limits /\ Limits \subseteq Nat
  /\ GenMod \in Nat \ {0, 1} /\ InsertionCap \in Nat /\ MaxHeld \in Nat /\ NoWaker \notin Wakers

TimerSlots == 0 .. MaxTimers - 1
Times == 0 .. MaxTime
TimerHandles == [slot : TimerSlots, generation : 0 .. GenMod - 1]

VARIABLES
  timers,         \* wheel->slots
  slotCount,      \* high-water mark of the slots
  activeCount,    \* number of live timers
  nextInsertion,  \* insertion sequence
  wheelTime,      \* wheel->current_time
  maxDuration,    \* wheel->max_duration_ns
  timerHandles,   \* handles the program holds
  fired           \* wakers the call just made has written to the caller's array
wheelVars == <<timers, slotCount, activeCount, nextInsertion, wheelTime, maxDuration,
               timerHandles, fired>>

Timer == [deadline : Times, waker : Wakers \cup {NoWaker}, insertion : 0 .. InsertionCap,
          generation : 0 .. GenMod - 1, alive : BOOLEAN]

WheelTypeOK ==
  /\ timers \in [TimerSlots -> Timer]
  /\ slotCount \in 0 .. MaxTimers /\ activeCount \in 0 .. MaxTimers
  /\ nextInsertion \in 0 .. InsertionCap /\ wheelTime \in Times /\ maxDuration \in Limits
  /\ timerHandles \subseteq TimerHandles /\ fired \in Seq(Wakers)

EmptyTimer(generation) ==
  [deadline |-> 0, waker |-> NoWaker, insertion |-> 0, generation |-> generation, alive |-> FALSE]

\* Generations wrap past 0, which no handle carries.
NextGeneration(g) == IF (g + 1) % GenMod = 0 THEN 1 ELSE g + 1

LiveTimers == {s \in TimerSlots : timers[s].alive}

-------------------------------------------------------------------------------
WheelInit ==
  /\ timers = [s \in TimerSlots |-> EmptyTimer(0)]
  /\ slotCount = 0 /\ activeCount = 0 /\ nextInsertion = 0 /\ wheelTime = 0
  /\ maxDuration = MaxDuration /\ timerHandles = {} /\ fired = <<>>

TimerReset ==
  /\ timers' = [s \in TimerSlots |-> EmptyTimer(NextGeneration(timers[s].generation))]
  /\ slotCount' = 0 /\ activeCount' = 0 /\ nextInsertion' = 0 /\ wheelTime' = 0
  /\ maxDuration' = MaxDuration /\ fired' = <<>>
  /\ UNCHANGED timerHandles

\* First dead slot below the mark, else the slot at the mark, which may be MaxTimers.
FreeSlot(slots) ==
  LET dead == {s \in TimerSlots : s < slotCount /\ ~slots[s].alive}
  IN  IF dead = {} THEN slotCount ELSE CHOOSE s \in dead : \A r \in dead : s <= r

\* The checks of a registration, made on the slots as they then are.
Registrable(slots, d) ==
  /\ d > wheelTime => d - wheelTime <= maxDuration
  /\ FreeSlot(slots) < MaxTimers

\* The effect of a registration on the given slots and count of live timers.  The
\* program keeps no handle so long that the generation of its slot comes round.
Registered(slots, active, d, w) ==
  LET s == FreeSlot(slots)
      g == NextGeneration(slots[s].generation)
      h == [slot |-> s, generation |-> g]
  IN  /\ nextInsertion < InsertionCap
      /\ h \notin timerHandles /\ Cardinality(timerHandles) < MaxHeld
      /\ timers' = [slots EXCEPT ![s] = [deadline |-> d, waker |-> w,
                      insertion |-> nextInsertion, generation |-> g, alive |-> TRUE]]
      /\ slotCount' = IF s = slotCount THEN slotCount + 1 ELSE slotCount
      /\ activeCount' = active + 1
      /\ nextInsertion' = nextInsertion + 1
      /\ timerHandles' = timerHandles \cup {h}

TimerRegister(d, w) ==
  /\ Registrable(timers, d)
  /\ Registered(timers, activeCount, d, w)
  /\ fired' = <<>> /\ UNCHANGED <<wheelTime, maxDuration>>

Cancellable(h) ==
  h.slot < slotCount /\ timers[h.slot].alive /\ timers[h.slot].generation = h.generation

Decrement(n) == IF n > 0 THEN n - 1 ELSE n

TimerCancel(h) ==
  /\ Cancellable(h)
  /\ timers' = [timers EXCEPT ![h.slot].alive = FALSE]
  /\ activeCount' = Decrement(activeCount) /\ fired' = <<>>
  /\ UNCHANGED <<slotCount, nextInsertion, wheelTime, maxDuration, timerHandles>>

\* Cancel, then register: a refused registration leaves the old timer cancelled.
TimerUpdate(h, d, w) ==
  LET gone == Cancellable(h)
      slots == IF gone THEN [timers EXCEPT ![h.slot].alive = FALSE] ELSE timers
      active == IF gone THEN Decrement(activeCount) ELSE activeCount
  IN  /\ IF Registrable(slots, d)
           THEN Registered(slots, active, d, w)
           ELSE /\ timers' = slots /\ activeCount' = active
                /\ UNCHANGED <<slotCount, nextInsertion, timerHandles>>
      /\ fired' = <<>> /\ UNCHANGED <<wheelTime, maxDuration>>

Later(now) == IF now > wheelTime THEN now ELSE wheelTime

Before_TiesBySlot(s, r) ==
  \/ timers[s].deadline < timers[r].deadline
  \/ timers[s].deadline = timers[r].deadline /\ s < r
\* Order in which expired timers leave: by deadline, then by insertion.
Before(s, r) ==
  \/ timers[s].deadline < timers[r].deadline
  \/ timers[s].deadline = timers[r].deadline /\ timers[s].insertion < timers[r].insertion

\* The given slots, each once, in the given order.
Sorted(slots, Order(_, _)) ==
  CHOOSE q \in SetToSeqs(slots) : \A i, j \in DOMAIN q : i < j => Order(q[i], q[j])

\* Expiry is judged by the caller's time, which may lie before the wheel's.
TimerCollectExpired(now, maxWakers) ==
  LET expired == {s \in LiveTimers : s < slotCount /\ timers[s].deadline <= now}
      sorted == Sorted(expired, Before)
      n == IF Len(sorted) > maxWakers THEN maxWakers ELSE Len(sorted)
      out == SubSeq(sorted, 1, n)
  IN  /\ wheelTime' = Later(now)
      /\ fired' = [k \in 1 .. n |-> timers[out[k]].waker]
      /\ timers' = [s \in TimerSlots |->
           IF s \in ToSet(out) THEN [timers[s] EXCEPT !.alive = FALSE] ELSE timers[s]]
      /\ activeCount' = IF activeCount > n THEN activeCount - n ELSE 0
      /\ UNCHANGED <<slotCount, nextInsertion, maxDuration, timerHandles>>

\* Also what a collection without an output array does.
TimerAdvance(now) ==
  /\ now > wheelTime
  /\ wheelTime' = now /\ fired' = <<>>
  /\ UNCHANGED <<timers, slotCount, activeCount, nextInsertion, maxDuration, timerHandles>>

TimerSetMaxDuration(n) ==
  /\ maxDuration' = n /\ fired' = <<>>
  /\ UNCHANGED <<timers, slotCount, activeCount, nextInsertion, wheelTime, timerHandles>>

\* The program lets go of a handle.
ForgetHandle(h) ==
  /\ timerHandles' = timerHandles \ {h} /\ fired' = <<>>
  /\ UNCHANGED <<timers, slotCount, activeCount, nextInsertion, wheelTime, maxDuration>>

WheelNext ==
  \/ \E d \in Times, w \in Wakers :
       TimerRegister(d, w) \/ \E h \in timerHandles : TimerUpdate(h, d, w)
  \/ \E h \in timerHandles : TimerCancel(h) \/ ForgetHandle(h)
  \/ \E now \in Times :
       TimerAdvance(now) \/ \E n \in 1 .. MaxTimers : TimerCollectExpired(now, n)
  \/ \E n \in Limits : TimerSetMaxDuration(n)
  \/ TimerReset

WheelSpec == WheelInit /\ [][WheelNext]_wheelVars

-------------------------------------------------------------------------------
(* Properties *)

\* The counts and the mark agree with the slots: active_count, which the queries
\* report, is the number of live timers; no timer lives beyond the mark, where no
\* scan looks; and no two live timers share the key that orders them.
WheelConsistent ==
  /\ activeCount = Cardinality(LiveTimers)
  /\ \A s \in LiveTimers : s < slotCount /\ timers[s].insertion < nextInsertion
  /\ \A s, r \in LiveTimers : s # r => timers[s].insertion # timers[r].insertion

\* The wheel implements the queue of timers in order of registration: slots,
\* generations and insertion numbers are not visible through its operations.
Registrations == Sorted(LiveTimers, LAMBDA s, r : timers[s].insertion < timers[r].insertion)
PendingTimer(s) ==
  [handle |-> [slot |-> s, generation |-> timers[s].generation],
   deadline |-> timers[s].deadline, waker |-> timers[s].waker]
PendingTimers == [n \in DOMAIN Registrations |-> PendingTimer(Registrations[n])]

Queue == INSTANCE TimerQueue WITH
  Handles <- TimerHandles, Capacity <- MaxTimers, pending <- PendingTimers,
  held <- timerHandles, clock <- wheelTime, limit <- maxDuration
ImplementsTimerQueue == Queue!QueueSpec
===============================================================================
