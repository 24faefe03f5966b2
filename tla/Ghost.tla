---- MODULE Ghost ----
(***************************************************************************)
(* src/core/ghost.c: the debug monitors.  Illegal transitions, obligations *)
(* resolved twice or leaked, conflicting borrows and runs that drift from  *)
(* a sealed reference become entries of one ring that keeps the latest.    *)
(* The states a violation quotes and the digest are left out.              *)
(***************************************************************************)
EXTENDS Naturals, SequencesExt

CONSTANTS
  GhostRing,        \* ASX_GHOST_RING_CAPACITY
  GhostCountMax,    \* UINT32_MAX, where the count of violations stops
  LinearityMax,     \* ASX_GHOST_LINEARITY_CAPACITY
  BorrowMax,        \* ASX_GHOST_BORROW_TABLE_CAPACITY
  EventMax,         \* ASX_GHOST_DETERMINISM_CAPACITY
  EventCountMax,    \* bound on the events of one run: their count does not wrap here
  SharedMax,        \* bound on the shared borrows of one entity
  Protocols,        \* the transition tables monitored: Region, Task, Obligation
  Entities,         \* handles of regions, tasks, obligations, and event keys
  NoEntity          \* the 0 of a memset, and of a drift in length

ASSUME GhostAssumption ==
  /\ GhostRing \in Nat \ {0} /\ GhostCountMax \in Nat /\ GhostCountMax > GhostRing
  /\ LinearityMax \in Nat /\ BorrowMax \in Nat /\ EventMax \in Nat
  /\ EventCountMax \in Nat /\ SharedMax \in Nat /\ NoEntity \notin Entities
  /\ Protocols \subseteq {"Region", "Task", "Obligation"}

Violation == [kind : Protocols \cup {"Double", "Leak", "Exclusive", "Shared", "Drift", "None"},
              entity : Entities \cup {NoEntity}, sequence : 0 .. GhostCountMax]

VARIABLES
  ghostRing,     \* g_ghost_ring, its write position, count and overflow flag
  linearity,     \* g_ghost_linearity
  borrows,       \* g_ghost_borrows
  runEvents,     \* g_ghost_det_events, up to the count, and the sealed reference
  granted,       \* the borrows callers were granted and have not released
  recorded       \* the latest violations, oldest first: what the ring stands for
ghostVars == <<ghostRing, linearity, borrows, runEvents, granted, recorded>>

GhostSlots == 0 .. GhostRing - 1
NoViolation == [kind |-> "None", entity |-> NoEntity, sequence |-> 0]
EmptyGhostRing ==
  [slots |-> [k \in GhostSlots |-> NoViolation], write |-> 0, count |-> 0, overflow |-> FALSE]
NoRun == [current |-> <<>>, count |-> 0, reference |-> <<>>, refCount |-> 0, sealed |-> FALSE]
NoBorrow == [shared |-> 0, exclusive |-> FALSE]
BorrowSlots == 0 .. BorrowMax - 1
EmptyTable ==
  [k \in BorrowSlots |-> [occupied |-> FALSE, entity |-> NoEntity, shared |-> 0, exclusive |-> FALSE]]

GhostInit ==
  /\ ghostRing = EmptyGhostRing /\ linearity = <<>> /\ borrows = EmptyTable /\ runEvents = NoRun
  /\ granted = [e \in Entities |-> NoBorrow] /\ recorded = <<>>

\* asx_ghost_reset forgets the borrows that are still held: callers start anew.
GhostReset ==
  /\ ghostRing' = EmptyGhostRing /\ linearity' = <<>> /\ borrows' = EmptyTable /\ runEvents' = NoRun
  /\ granted' = [e \in Entities |-> NoBorrow] /\ recorded' = <<>>

----------------------------------------------------------------------------
(* The ring *)

\* ghost_record_violation; an entry is <<kind, entity>>
RecordIn(ring, v) ==
  LET count == IF ring.count < GhostCountMax THEN ring.count + 1 ELSE ring.count
  IN  [slots |-> [ring.slots EXCEPT ![ring.write] =
                    [kind |-> v[1], entity |-> v[2], sequence |-> ring.count]],
       write |-> (ring.write + 1) % GhostRing, count |-> count,
       overflow |-> ring.overflow \/ count > GhostRing]

\* One violation after the other; what the ring stands for goes along.
RecordAll(vs) ==
  LET Ring[n \in 0 .. Len(vs)] == IF n = 0 THEN ghostRing ELSE RecordIn(Ring[n - 1], vs[n])
      Kept[n \in 0 .. Len(vs)] ==
        IF n = 0 THEN recorded
        ELSE IF Len(Kept[n - 1]) = GhostRing THEN Append(Tail(Kept[n - 1]), vs[n])
        ELSE Append(Kept[n - 1], vs[n])
  IN  ghostRing' = Ring[Len(vs)] /\ recorded' = Kept[Len(vs)]

Record(kind, entity) == RecordAll(<<<<kind, entity>>>>)

\* What a loop over the entries of s reports, in order: those at the places "which".
Reported(s, which) ==
  LET Upto[n \in 0 .. Len(s)] ==
        IF n = 0 THEN <<>> ELSE IF n \in which THEN Append(Upto[n - 1], s[n]) ELSE Upto[n - 1]
  IN  Upto[Len(s)]

NoRecord == UNCHANGED <<ghostRing, recorded>>

Available == IF ghostRing.count < GhostRing THEN ghostRing.count ELSE GhostRing

ViolationGet_FromSlotZero(index) == ghostRing.slots[index]
\* asx_ghost_violation_get of an index below Available
ViolationGet(index) ==
  ghostRing.slots[IF ghostRing.overflow THEN (ghostRing.write + index) % GhostRing ELSE index]

\* asx_ghost_check_*_transition with a transition its table refuses.
IllegalTransition(protocol, entity) ==
  /\ Record(protocol, entity)
  /\ UNCHANGED <<linearity, borrows, runEvents, granted>>

----------------------------------------------------------------------------
(* Linearity *)

\* A full table drops the obligation in silence.  Handles of obligations are not reused.
ObligationReserved(o) ==
  /\ \A n \in DOMAIN linearity : linearity[n].id # o
  /\ Len(linearity) < LinearityMax
  /\ linearity' = Append(linearity, [id |-> o, resolved |-> FALSE])
  /\ NoRecord /\ UNCHANGED <<borrows, runEvents, granted>>

ObligationResolved(o) ==
  \E n \in DOMAIN linearity :
    /\ linearity[n].id = o
    /\ IF linearity[n].resolved THEN Record("Double", o) ELSE NoRecord
    /\ linearity' = [linearity EXCEPT ![n].resolved = TRUE]
    /\ UNCHANGED <<borrows, runEvents, granted>>

Unresolved ==
  Reported([n \in 1 .. Len(linearity) |-> <<"Leak", linearity[n].id>>],
           {n \in DOMAIN linearity : ~linearity[n].resolved})

\* asx_ghost_check_obligation_leaks reports the unresolved obligations of every region.
CheckLeaks ==
  /\ RecordAll(Unresolved)
  /\ UNCHANGED <<linearity, borrows, runEvents, granted>>

----------------------------------------------------------------------------
(* Borrows *)

First(S) == CHOOSE k \in S : \A j \in S : k <= j

BorrowFound_Freed(e) == {k \in BorrowSlots : borrows[k].entity = e}
\* ghost_borrow_find
BorrowFound(e) == {k \in BorrowSlots : borrows[k].occupied /\ borrows[k].entity = e}
BorrowFree == {k \in BorrowSlots : ~borrows[k].occupied}

\* The slot of an entity, with ghost_borrow_alloc for one that has none, and the entry in
\* it; a full table refuses.
Borrowable(e) == BorrowFound(e) # {} \/ BorrowFree # {}
BorrowSlot(e) == IF BorrowFound(e) # {} THEN First(BorrowFound(e)) ELSE First(BorrowFree)
BorrowEntry(e) ==
  IF BorrowFound(e) # {} THEN borrows[BorrowSlot(e)]
  ELSE [occupied |-> TRUE, entity |-> e, shared |-> 0, exclusive |-> FALSE]

BorrowShared(e) ==
  /\ Borrowable(e) /\ BorrowEntry(e).shared < SharedMax
  /\ IF BorrowEntry(e).exclusive
     THEN Record("Shared", e) /\ UNCHANGED <<borrows, granted>>
     ELSE /\ borrows' = [borrows EXCEPT ![BorrowSlot(e)] = [BorrowEntry(e) EXCEPT !.shared = @ + 1]]
          /\ granted' = [granted EXCEPT ![e].shared = @ + 1]
          /\ NoRecord
  /\ UNCHANGED <<linearity, runEvents>>

BorrowExclusive(e) ==
  /\ Borrowable(e)
  /\ IF BorrowEntry(e).exclusive \/ BorrowEntry(e).shared > 0
     THEN Record("Exclusive", e) /\ UNCHANGED <<borrows, granted>>
     ELSE /\ borrows' = [borrows EXCEPT ![BorrowSlot(e)] = [BorrowEntry(e) EXCEPT !.exclusive = TRUE]]
          /\ granted' = [granted EXCEPT ![e].exclusive = TRUE]
          /\ NoRecord
  /\ UNCHANGED <<linearity, runEvents>>

Weakened(b) ==
  IF b.exclusive THEN [b EXCEPT !.exclusive = FALSE]
  ELSE IF b.shared > 0 THEN [b EXCEPT !.shared = @ - 1] ELSE b

\* A caller releases what it was granted, and the slot is free after the last borrow; it
\* keeps the name of its entity.
BorrowRelease(e) ==
  /\ BorrowFound(e) # {} /\ granted[e] # NoBorrow
  /\ LET b == Weakened(BorrowEntry(e))
     IN  borrows' = [borrows EXCEPT ![BorrowSlot(e)] =
                       [b EXCEPT !.occupied = b.exclusive \/ b.shared > 0]]
  /\ granted' = [granted EXCEPT ![e] = Weakened(@)]
  /\ NoRecord /\ UNCHANGED <<linearity, runEvents>>

BorrowReleaseAll(e) ==
  /\ BorrowFound(e) # {}
  /\ borrows' = [borrows EXCEPT ![BorrowSlot(e)] =
                   [@ EXCEPT !.shared = 0, !.exclusive = FALSE, !.occupied = FALSE]]
  /\ granted' = [granted EXCEPT ![e] = NoBorrow]
  /\ NoRecord /\ UNCHANGED <<linearity, runEvents>>

----------------------------------------------------------------------------
(* Determinism *)

\* Events beyond the capacity are only counted.
DeterminismRecord(key) ==
  /\ runEvents.count < EventCountMax
  /\ runEvents' = [runEvents EXCEPT !.count = @ + 1,
                     !.current = IF Len(@) < EventMax THEN Append(@, key) ELSE @]
  /\ NoRecord /\ UNCHANGED <<linearity, borrows, granted>>

DeterminismSeal ==
  /\ runEvents' = [NoRun EXCEPT !.reference = runEvents.current, !.refCount = runEvents.count,
                                !.sealed = TRUE]
  /\ NoRecord /\ UNCHANGED <<linearity, borrows, granted>>

DeterminismReset ==
  /\ runEvents' = NoRun
  /\ NoRecord /\ UNCHANGED <<linearity, borrows, granted>>

\* The violations of one check, a drift in length before the events that differ.
Drifts ==
  LET r == runEvents
      both == IF Len(r.current) < Len(r.reference) THEN Len(r.current) ELSE Len(r.reference)
  IN  (IF r.count # r.refCount THEN <<<<"Drift", NoEntity>>>> ELSE <<>>)
        \o Reported([n \in 1 .. both |-> <<"Drift", r.current[n]>>],
                    {n \in 1 .. both : r.current[n] # r.reference[n]})

DeterminismCheck ==
  /\ runEvents.sealed
  /\ RecordAll(Drifts)
  /\ UNCHANGED <<linearity, borrows, runEvents, granted>>

BorrowNext ==
  \E e \in Entities :
    BorrowShared(e) \/ BorrowExclusive(e) \/ BorrowRelease(e) \/ BorrowReleaseAll(e)

MonitorNext ==
  \/ \E e \in Entities :
       \/ \E p \in Protocols : IllegalTransition(p, e)
       \/ ObligationReserved(e) \/ ObligationResolved(e)
       \/ DeterminismRecord(e)
  \/ CheckLeaks
  \/ DeterminismSeal \/ DeterminismReset \/ DeterminismCheck

GhostNext == GhostReset \/ MonitorNext \/ BorrowNext

GhostSpec == GhostInit /\ [][GhostNext]_ghostVars

----------------------------------------------------------------------------
(* Properties *)

\* Whatever monitors report and however often the ring wraps, also after its count has
\* stopped: reading it from index 0 gives the latest violations, oldest first.
GhostRingRecent ==
  /\ Available = Len(recorded)
  /\ \A n \in 1 .. Available :
       ViolationGet(n - 1).kind = recorded[n][1] /\ ViolationGet(n - 1).entity = recorded[n][2]

\* Callers who release only what they were granted never hold a shared and an exclusive
\* borrow of an entity together, over conflicts, a full table and slots freed and reused.
BorrowsExclusive ==
  \A e \in Entities : granted[e].exclusive => granted[e].shared = 0
====
