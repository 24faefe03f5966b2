---- MODULE Affinity ----
(***************************************************************************)
(* src/core/affinity.c: the debug table that ties an entity to a domain    *)
(* and refuses what is done to it from another one.                        *)
(***************************************************************************)
EXTENDS Naturals, FiniteSets

CONSTANTS
  TableMax,      \* ASX_AFFINITY_TABLE_CAPACITY
  Domains,       \* the domains threads run in
  AnyDomain,     \* ASX_AFFINITY_DOMAIN_ANY
  Tracked        \* the handles that may be bound

ASSUME AffinityAssumption == TableMax \in Nat /\ AnyDomain \notin Domains

AllDomains == Domains \cup {AnyDomain}

VARIABLES
  bound,         \* the occupied entries of g_affinity_table: a domain for each entity
  trackedCount,  \* g_affinity_count
  current        \* g_current_domain
affinityVars == <<bound, trackedCount, current>>

AffinityInit == bound = <<>> /\ trackedCount = 0 /\ current = AnyDomain

AffinityReset == bound' = <<>> /\ trackedCount' = 0 /\ current' = AnyDomain

SetDomain(d) == current' = d /\ UNCHANGED <<bound, trackedCount>>

Bound(e) == e \in DOMAIN bound
With(e, d) == [x \in DOMAIN bound \cup {e} |-> IF x = e THEN d ELSE bound[x]]

Bindable_Rebinds(e, d) == Bound(e) \/ Cardinality(DOMAIN bound) < TableMax
\* A refused call returns ALREADY_BOUND or TABLE_FULL and changes nothing.
Bindable(e, d) ==
  IF Bound(e) THEN bound[e] \in {d, AnyDomain} ELSE Cardinality(DOMAIN bound) < TableMax

Bind(e, d) ==
  /\ Bindable(e, d)
  /\ bound' = With(e, d)
  /\ trackedCount' = IF Bound(e) THEN trackedCount ELSE trackedCount + 1
  /\ UNCHANGED current

\* asx_affinity_check; an entity that is not tracked passes.
Accessible(e) == Bound(e) => (bound[e] = AnyDomain \/ current = AnyDomain \/ current = bound[e])

\* Handing over asks for what an access asks for.
Transfer(e, d) ==
  /\ Bound(e) /\ Accessible(e)
  /\ bound' = With(e, d)
  /\ UNCHANGED <<trackedCount, current>>

Without(e) == [x \in DOMAIN bound \ {e} |-> bound[x]]

\* The caller's domain is not asked for.
Unbind(e) ==
  /\ Bound(e)
  /\ bound' = Without(e)
  /\ trackedCount' = IF trackedCount > 0 THEN trackedCount - 1 ELSE 0
  /\ UNCHANGED current

AffinityNext ==
  \/ AffinityReset
  \/ \E d \in AllDomains : SetDomain(d)
  \/ \E e \in Tracked :
       \/ \E d \in AllDomains : Bind(e, d) \/ Transfer(e, d)
       \/ Unbind(e)

AffinitySpec == AffinityInit /\ [][AffinityNext]_affinityVars

----------------------------------------------------------------------------
(* Properties *)

\* An entity that stays in the table moves to another domain only by the hand of one that
\* may access it, and the count is that of the entries, over rebinding, release and reuse.
AffinityKept ==
  [][ /\ \A e \in DOMAIN bound \cap DOMAIN bound' : bound'[e] # bound[e] => Accessible(e)
      /\ trackedCount' = Cardinality(DOMAIN bound') ]_affinityVars
====
