---- MODULE LockFreeQueue ----
(***************************************************************************)
(* src/channel/mpsc_lockfree_spike.c: a ring of cells with sequence        *)
(* numbers.  A cell whose sequence is the enqueue position is free, one    *)
(* ahead of the dequeue position is full; positions wrap at 32 bits and    *)
(* are compared by a signed difference.  The build has no threads (its     *)
(* atomics are plain accesses): each call is one step, and a call that is  *)
(* refused changes nothing and is left out.                                *)
(***************************************************************************)
EXTENDS Integers, Sequences

CONSTANTS
  RingMax,       \* LOCKFREE_MAX_CAPACITY
  Requests,      \* capacities passed to asx_lockfree_queue_init
  PosMod,        \* 2^32
  BacklogMax,    \* bound on the values accepted and not yet delivered
  Payloads,      \* the values enqueued
  NoPayload      \* the 0 a cell is initialized with

IsPower(p) == \E k \in 0 .. p : p = 2 ^ k

\* 64 and 2^32: the positions are a multiple of every power up to the size of the array.
ASSUME LockFreeAssumption ==
  /\ RingMax \in Nat \ {0} /\ IsPower(RingMax)
  /\ PosMod \in Nat /\ PosMod > 2 * RingMax
  /\ \A p \in 1 .. 2 * RingMax : IsPower(p) => PosMod % p = 0
  /\ Requests \subseteq 1 .. PosMod - 1
  /\ BacklogMax \in Nat /\ BacklogMax > RingMax
  /\ NoPayload \notin Payloads

RingCells == 0 .. RingMax - 1
Positions == 0 .. PosMod - 1

VARIABLES
  ring,          \* the queue: cells, positions, len, capacity, alive
  backlog        \* the values accepted and not yet delivered: what the queue stands for
ringVars == <<ring, backlog>>

RingTypeOK ==
  /\ ring \in [sequence : [RingCells -> Positions], value : [RingCells -> Payloads \cup {NoPayload}],
               capacity : 0 .. RingMax, enqueuePos : Positions, dequeuePos : Positions,
               len : Positions, alive : BOOLEAN]
  /\ backlog \in Seq(Payloads)

\* next_pow2, which wraps to 0 above half the range, and the clamp behind it.
RoundedUp(n) ==
  LET powers == {p \in 1 .. RingMax : IsPower(p) /\ p >= n}
  IN  IF n > PosMod \div 2 THEN 0
      ELSE IF powers = {} THEN RingMax
      ELSE CHOOSE p \in powers : \A q \in powers : p <= q

\* (int32_t)(a - b)
SignedDiff(a, b) ==
  LET d == (a - b) % PosMod IN IF d < PosMod \div 2 THEN d ELSE d - PosMod

RingInit ==
  /\ ring = [sequence |-> [k \in RingCells |-> 0], value |-> [k \in RingCells |-> NoPayload],
             capacity |-> 0, enqueuePos |-> 0, dequeuePos |-> 0, len |-> 0, alive |-> FALSE]
  /\ backlog = <<>>

\* Cells beyond the capacity are left as they were; no call looks at them again before
\* another initialization, and they are shown empty.
QueueInit(request) ==
  LET cap == RoundedUp(request)
  IN  /\ ring' = [sequence |-> [k \in RingCells |-> IF k < cap THEN k ELSE 0],
                  value |-> [k \in RingCells |-> NoPayload],
                  capacity |-> cap, enqueuePos |-> 0, dequeuePos |-> 0, len |-> 0, alive |-> TRUE]
      /\ backlog' = <<>>

QueueDestroy ==
  /\ ring.alive
  /\ ring' = [ring EXCEPT !.alive = FALSE, !.len = 0]
  /\ backlog' = <<>>

\* The mask of a power of two.  A queue without cells has a mask of all ones: its calls use
\* cells that nothing initialized and, later, none of the array.  They are undefined, and
\* left out.
CellAt(pos) == pos % ring.capacity

\* A sequence ahead of the position is not refused: the cell is written without a claim.
Enqueue(v) ==
  LET pos == ring.enqueuePos
      cell == CellAt(pos)
      diff == SignedDiff(ring.sequence[cell], pos)
  IN  /\ ring.alive /\ ring.capacity > 0 /\ Len(backlog) < BacklogMax
      /\ diff >= 0
      /\ ring' = [ring EXCEPT !.enqueuePos = IF diff = 0 THEN (@ + 1) % PosMod ELSE @,
                              !.value[cell] = v, !.sequence[cell] = (pos + 1) % PosMod,
                              !.len = (@ + 1) % PosMod]
      /\ backlog' = Append(backlog, v)

Recycled_NextPosition(pos) == (pos + 1) % PosMod
\* What a consumed cell waits for: the position one lap ahead.
Recycled(pos) == (pos + ring.capacity) % PosMod

Dequeue ==
  LET pos == ring.dequeuePos
      cell == CellAt(pos)
  IN  /\ ring.alive /\ ring.capacity > 0
      /\ SignedDiff(ring.sequence[cell], (pos + 1) % PosMod) >= 0
      /\ ring' = [ring EXCEPT !.sequence[cell] = Recycled(pos),
                              !.dequeuePos = (@ + 1) % PosMod, !.len = (@ - 1) % PosMod]
      /\ backlog' = IF backlog = <<>> THEN backlog ELSE Tail(backlog)

RingNext ==
  \/ \E n \in Requests : QueueInit(n)
  \/ QueueDestroy
  \/ \E v \in Payloads : Enqueue(v)
  \/ Dequeue

RingSpec == RingInit /\ [][RingNext]_ringVars

----------------------------------------------------------------------------
(* Properties *)

\* From two cells on the ring is the FIFO of what was accepted, across the wrap of the
\* positions: the cells from the dequeue position on hold the backlog in order, each marked
\* ready; the next cell is free exactly when there is room; "len" is the number of messages.
RingHoldsBacklog ==
  ring.alive /\ ring.capacity >= 2 =>
    /\ ring.len = Len(backlog) /\ Len(backlog) <= ring.capacity
    /\ ring.enqueuePos = (ring.dequeuePos + Len(backlog)) % PosMod
    /\ \A k \in 1 .. Len(backlog) :
         LET pos == (ring.dequeuePos + k - 1) % PosMod
         IN  ring.value[CellAt(pos)] = backlog[k] /\ ring.sequence[CellAt(pos)] = (pos + 1) % PosMod
    /\ (SignedDiff(ring.sequence[CellAt(ring.enqueuePos)], ring.enqueuePos) = 0)
         <=> Len(backlog) < ring.capacity

\* mpsc_lockfree_spike.c:162-163 says of asx_lockfree_enqueue that it returns
\* "ASX_E_CHANNEL_FULL if ring is full".  With one cell the mark of a full one is the
\* position of the next enqueue, so that a value is accepted over the one that waits.
FullRefuses ==
  [][ring.alive /\ ring.capacity > 0 /\ ring.len >= ring.capacity => ring'.len <= ring.len]_ringVars

----------------------------------------------------------------------------
(* The inductive invariant *)

\* What the cell of the k-th position from the dequeue position says: ready with the k-th
\* value of the backlog, or free for the lap that is under way.
CellOK(k) ==
  LET pos == (ring.dequeuePos + k) % PosMod
  IN  IF k < Len(backlog)
      THEN /\ ring.sequence[CellAt(pos)] = (pos + 1) % PosMod
           /\ ring.value[CellAt(pos)] = backlog[k + 1]
      ELSE ring.sequence[CellAt(pos)] = pos

LapInv ==
  /\ RingTypeOK
  /\ ring.alive /\ ring.capacity >= 2 =>
       /\ PosMod % ring.capacity = 0
       /\ ring.len = Len(backlog) /\ Len(backlog) <= ring.capacity
       /\ ring.enqueuePos = (ring.dequeuePos + Len(backlog)) % PosMod
       /\ \A k \in 0 .. ring.capacity - 1 : CellOK(k)
====
