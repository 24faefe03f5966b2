------------------------------ MODULE TimerQueue ------------------------------
(* What the timer wheel promises (include/asx/time/timer_wheel.h): a list of
   pending timers in the order of their registration.  A handle names one
   registration.  Collecting hands out the wakers of the timers that are due,
   earliest deadline first and first registered first among equals. *)
EXTENDS Naturals, FiniteSets, SequencesExt

CONSTANTS
  Handles,      \* what a registration may be named
  Capacity,     \* number of timers that can be pending
  Times,        \* points in time
  Limits,       \* limits on the time a timer may be set ahead
  Wakers        \* what a program can ask to get back

VARIABLES
  pending,      \* the timers, in the order of registration
  held,         \* handles the program holds
  clock,        \* the latest time the queue was told
  limit,        \* how far ahead a timer may be set
  fired         \* wakers the last call handed out, in order
queueVars == <<pending, held, clock, limit, fired>>

\* The members of S, each once, in the given order.
InOrder(S, Before(_, _)) ==
  CHOOSE q \in SetToSeqs(S) : \A i, j \in DOMAIN q : i < j => Before(q[i], q[j])

\* The timers at the given positions.
Kept(positions) ==
  LET kept == InOrder(positions, LAMBDA i, j : i < j)
  IN  [n \in DOMAIN kept |-> pending[kept[n]]]

Without(h) == Kept({i \in DOMAIN pending : pending[i].handle # h})

Accepts(q, d) == Len(q) < Capacity /\ d <= clock + limit

QueueInit ==
  /\ pending = <<>> /\ held = {} /\ fired = <<>>
  /\ clock \in Times /\ limit \in Limits

\* A call that hands out no waker leaves time and limit alone.
Quiet == fired' = <<>> /\ UNCHANGED <<clock, limit>>

\* A timer is accepted under a handle that no one holds.
Set(h, d, w) ==
  /\ Quiet /\ held' = held \cup {h} /\ h \notin held
  /\ Accepts(pending, d)
  /\ pending' = Append(pending, [handle |-> h, deadline |-> d, waker |-> w])

Unset(h) ==
  /\ Quiet /\ UNCHANGED held /\ h \in held
  /\ pending' = Without(h)

\* Replacing removes the old timer and needs no room if that was pending.
Replace(old, h, d, w) ==
  /\ Quiet /\ held' = held \cup {h} /\ h \notin held /\ old \in held
  /\ Accepts(Without(old), d)
  /\ pending' = Append(Without(old), [handle |-> h, deadline |-> d, waker |-> w])

\* The old timer is gone even when the new one is not accepted.
ReplaceRefused(old, d) ==
  /\ Quiet /\ UNCHANGED held /\ old \in held
  /\ ~Accepts(Without(old), d)
  /\ pending' = Without(old)

\* Positions of the due timers, in the order they are handed out.
Due(now) ==
  InOrder({i \in DOMAIN pending : pending[i].deadline <= now},
    LAMBDA i, j : \/ pending[i].deadline < pending[j].deadline
                  \/ pending[i].deadline = pending[j].deadline /\ i < j)

Fire(now, most) ==
  /\ UNCHANGED <<held, limit>>
  /\ clock' = IF now > clock THEN now ELSE clock
  /\ LET due == Due(now)
         out == SubSeq(due, 1, IF Len(due) < most THEN Len(due) ELSE most)
     IN  /\ fired' = [n \in DOMAIN out |-> pending[out[n]].waker]
         /\ pending' = Kept(DOMAIN pending \ ToSet(out))

Tell(now) ==
  /\ UNCHANGED <<held, limit>> /\ fired' = <<>>
  /\ now > clock /\ clock' = now /\ UNCHANGED pending

SetLimit(n) ==
  UNCHANGED <<held, clock>> /\ fired' = <<>> /\ limit' = n /\ UNCHANGED pending

Discard(h) ==
  Quiet /\ h \in held /\ held' = held \ {h} /\ UNCHANGED pending

\* Everything is forgotten but the names that are held.
Clear ==
  /\ pending' = <<>> /\ clock' \in Times /\ limit' \in Limits
  /\ fired' = <<>> /\ UNCHANGED held

QueueNext ==
  \/ \E h \in held : Unset(h) \/ Discard(h)
  \/ \E d \in Times, w \in Wakers, h \in Handles \ held :
       Set(h, d, w) \/ \E old \in held : Replace(old, h, d, w)
  \/ \E old \in held, d \in Times : ReplaceRefused(old, d)
  \/ \E now \in Times : Tell(now) \/ \E most \in 1 .. Capacity : Fire(now, most)
  \/ \E n \in Limits : SetLimit(n)
  \/ Clear

QueueSpec == QueueInit /\ [][QueueNext]_queueVars
===============================================================================
