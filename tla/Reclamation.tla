---- MODULE Reclamation ----
(***************************************************************************)
(* src/runtime/seqlock_ebr_spike.c, section 2: epoch-based reclamation.    *)
(* Readers announce the epoch they entered in; the writer defers what it   *)
(* has unlinked and reclaims a ring when no reader announces its epoch.    *)
(* A step is one access to shared memory of a reader, or one call of the   *)
(* single writer; entering is two steps, and what was read may be stale    *)
(* when it is announced.  A reader does not enter twice.                   *)
(***************************************************************************)
EXTENDS Naturals, FiniteSets

CONSTANTS
  EbrReaders,      \* the registered readers
  Items,           \* arena slots the readers reach and the writer replaces
  DeferCapacity    \* ASX_EBR_DEFER_CAPACITY

ASSUME ReclamationAssumption == DeferCapacity \in Nat

Epochs == 0 .. 2

VARIABLES
  epoch,         \* global_epoch
  announced,     \* reader_epoch: an epoch, or 3 for ASX_EBR_INACTIVE
  entering,      \* the epoch a reader has loaded and not announced yet, or 3
  deferred,      \* defer_ring, as sets
  linked,        \* the items a reader can find
  held           \* the items each reader may have found since it entered
ebrVars == <<epoch, announced, entering, deferred, linked, held>>

Inactive == 3

EbrTypeOK ==
  /\ epoch \in Epochs
  /\ announced \in [EbrReaders -> Epochs \cup {Inactive}]
  /\ entering \in [EbrReaders -> Epochs \cup {Inactive}]
  /\ deferred \in [Epochs -> SUBSET Items]
  /\ linked \in SUBSET Items
  /\ held \in [EbrReaders -> SUBSET Items]

EbrInit ==
  /\ epoch = 0 /\ linked = Items
  /\ announced = [r \in EbrReaders |-> Inactive] /\ entering = [r \in EbrReaders |-> Inactive]
  /\ deferred = [e \in Epochs |-> {}] /\ held = [r \in EbrReaders |-> {}]

\* asx_ebr_reader_enter: the load, then the store.
EnterLoad(r) ==
  /\ announced[r] = Inactive /\ entering[r] = Inactive
  /\ entering' = [entering EXCEPT ![r] = epoch]
  /\ UNCHANGED <<epoch, announced, deferred, linked, held>>

EnterStore(r) ==
  /\ entering[r] # Inactive
  /\ announced' = [announced EXCEPT ![r] = entering[r]]
  /\ entering' = [entering EXCEPT ![r] = Inactive]
  /\ held' = [held EXCEPT ![r] = linked]
  /\ UNCHANGED <<epoch, deferred, linked>>

Leave(r) ==
  /\ announced[r] # Inactive
  /\ announced' = [announced EXCEPT ![r] = Inactive]
  /\ held' = [held EXCEPT ![r] = {}]
  /\ UNCHANGED <<epoch, entering, deferred, linked>>

\* The writer unlinks an item and defers it; a full ring refuses it and it stays linked.
Defer(x) ==
  /\ x \in linked
  /\ Cardinality(deferred[epoch]) < DeferCapacity
  /\ linked' = linked \ {x}
  /\ deferred' = [deferred EXCEPT ![epoch] = @ \cup {x}]
  /\ UNCHANGED <<epoch, announced, entering, held>>

InDefer == UNION {deferred[e] : e \in Epochs}

\* The item is used again: readers inside may find it.
Link(x) ==
  /\ x \notin linked /\ x \notin InDefer
  /\ linked' = linked \cup {x}
  /\ held' = [r \in EbrReaders |-> IF announced[r] = Inactive THEN held[r] ELSE held[r] \cup {x}]
  /\ UNCHANGED <<epoch, announced, entering, deferred>>

ReclaimEpoch_Previous == (epoch + 2) % 3
ReclaimEpoch == (epoch + 1) % 3      \* (current + 3 - 2) % 3

Quiesced_NobodyInside(e) == \A r \in EbrReaders : announced[r] = Inactive
Quiesced(e) == \A r \in EbrReaders : announced[r] # e

\* asx_ebr_try_advance; with a reader in the epoch to reclaim it changes nothing.
TryAdvance ==
  /\ Quiesced(ReclaimEpoch)
  /\ deferred' = [deferred EXCEPT ![ReclaimEpoch] = {}]
  /\ epoch' = (epoch + 1) % 3
  /\ UNCHANGED <<announced, entering, linked, held>>

EbrNext ==
  \/ \E r \in EbrReaders : EnterLoad(r) \/ EnterStore(r) \/ Leave(r)
  \/ \E x \in Items : Defer(x) \/ Link(x)
  \/ TryAdvance

EbrSpec == EbrInit /\ [][EbrNext]_ebrVars

\* Critical sections are bounded (seqlock_ebr_spike.c:230) and the writer keeps trying.
EbrFairness ==
  /\ \A r \in EbrReaders : WF_ebrVars(Leave(r)) /\ WF_ebrVars(EnterStore(r))
  /\ WF_ebrVars(TryAdvance)

----------------------------------------------------------------------------
(* Properties *)

\* What a reader inside may have found is linked or deferred, never reclaimed, although
\* the epoch it announces may be one or two behind when it is announced.
NoReclaimUnderReader == \A r \in EbrReaders : held[r] \subseteq linked \cup InDefer

\* Every deferred item is reclaimed, as far as readers keep leaving.
DeferredReclaimed == \A x \in Items : x \in InDefer ~> x \notin InDefer
====
