---- MODULE LaneProofs ----
(***************************************************************************)
(* The lane scheduler, for every number of tasks, every configuration and  *)
(* every budget: no task is lost, the counts of the kernel stay exact, and *)
(* round robin serves every lane.                                          *)
(***************************************************************************)
EXTENDS MCLanes, StructureProofs, ProofLemmas

----------------------------------------------------------------------------
(* Sequences and lanes *)

\* A sequence without the element at i.
LEMMA WithoutAt ==
  ASSUME NEW S, NEW s \in Seq(S), NEW i \in 1 .. Len(s)
  PROVE  /\ RemoveAt(s, i) \in Seq(S) /\ Len(RemoveAt(s, i)) = Len(s) - 1
         /\ \A k \in 1 .. Len(s) - 1 : RemoveAt(s, i)[k] = IF k < i THEN s[k] ELSE s[k + 1]
<1> DEFINE a == SubSeq(s, 1, i - 1)
           b == SubSeq(s, i + 1, Len(s))
<1>1. Len(s) \in Nat /\ i \in Nat /\ \A k \in 1 .. Len(s) : s[k] \in S
  OBVIOUS
<1>2. /\ a \in Seq(S) /\ Len(a) = i - 1
      /\ \A k \in 1 .. i - 1 : a[k] = s[k]
  BY <1>1, SubSeqProperties
<1>3. /\ b \in Seq(S) /\ Len(b) = Len(s) - i
      /\ \A k \in 1 .. Len(s) - i : b[k] = s[i + k]
  BY <1>1, SubSeqProperties
<1> HIDE DEF a, b
<1>4. /\ a \o b \in Seq(S) /\ Len(a \o b) = Len(s) - 1
      /\ \A k \in 1 .. Len(s) - 1 : (a \o b)[k] = IF k <= i - 1 THEN a[k] ELSE b[k - (i - 1)]
  BY <1>1, <1>2, <1>3, ConcatProperties
<1>5. ASSUME NEW k \in 1 .. Len(s) - 1
      PROVE  (a \o b)[k] = IF k < i THEN s[k] ELSE s[k + 1]
  <2>1. CASE k < i
    BY <1>1, <1>2, <1>4, <2>1
  <2>2. CASE ~(k < i)
    <3>1. k - (i - 1) \in 1 .. Len(s) - i /\ i + (k - (i - 1)) = k + 1 /\ ~(k <= i - 1)
      BY <1>1, <2>2
    <3> QED BY <1>3, <1>4, <2>2, <3>1
  <2> QED BY <2>1, <2>2
<1> QED BY <1>4, <1>5 DEF RemoveAt, a, b

\* Removing the first occurrence of e loses nothing but e.
LEMMA FirstRemoved ==
  ASSUME NEW S, NEW s \in Seq(S), NEW e
  PROVE  /\ RemoveFirst(s, e) \in Seq(S) /\ Len(RemoveFirst(s, e)) <= Len(s)
         /\ ToSet(RemoveFirst(s, e)) \subseteq ToSet(s)
         /\ ToSet(s) \subseteq ToSet(RemoveFirst(s, e)) \cup {e}
<1>0. Len(s) \in Nat /\ DOMAIN s = 1 .. Len(s)
  OBVIOUS
<1>1. CASE ~\E i \in 1 .. Len(s) : s[i] = e
  BY <1>0, <1>1 DEF RemoveFirst
<1>2. CASE \E i \in 1 .. Len(s) : s[i] = e
  <2> DEFINE I == {i \in 1 .. Len(s) : s[i] = e}
             m == Min(I)
             q == RemoveAt(s, m)
  <2>1. I # {} /\ I \subseteq Nat
    BY <1>2
  <2>2. PICK i \in I : \A j \in I : i <= j
    <3>1. PICK n \in I : \A k \in I : ~(k < n)
      <4>1. IsWellFoundedOn(OpToRel(<, Nat), Nat)
        BY NatLessThanWellFounded
      <4>2. PICK n \in I : \A k \in I : <<k, n>> \notin OpToRel(<, Nat)
        BY <2>1, <4>1, WFMin
      <4> QED BY <2>1, <4>2 DEF OpToRel
    <3> QED BY <2>1, <3>1
  <2>3. m \in I /\ \A j \in I : m <= j
    BY <2>2 DEF Min
  <2>4. RemoveFirst(s, e) = q
    BY <1>2 DEF RemoveFirst, SelectInSeq
  <2> HIDE DEF m, q
  <2>5. m \in 1 .. Len(s) /\ s[m] = e /\ m \in Nat
    BY <2>3
  <2>6. /\ q \in Seq(S) /\ Len(q) = Len(s) - 1
        /\ \A k \in 1 .. Len(s) - 1 : q[k] = IF k < m THEN s[k] ELSE s[k + 1]
    BY <2>5, WithoutAt DEF q
  <2>7. ToSet(q) \subseteq ToSet(s)
    BY <1>0, <2>5, <2>6 DEF ToSet
  <2>8. ToSet(s) \subseteq ToSet(q) \cup {e}
    <3> SUFFICES ASSUME NEW k \in 1 .. Len(s), s[k] # e PROVE s[k] \in ToSet(q)
      BY <1>0 DEF ToSet
    <3>1. DOMAIN q = 1 .. Len(s) - 1 /\ k # m
      BY <2>5, <2>6
    <3>2. CASE k < m
      BY <1>0, <2>5, <2>6, <3>1, <3>2 DEF ToSet
    <3>3. CASE k > m
      <4>1. k - 1 \in 1 .. Len(s) - 1 /\ ~(k - 1 < m) /\ (k - 1) + 1 = k
        BY <1>0, <2>5, <3>3
      <4>2. q[k - 1] = s[k]
        BY <2>6, <4>1
      <4> QED BY <3>1, <4>1, <4>2 DEF ToSet
    <3> QED BY <2>5, <3>1, <3>2, <3>3
  <2> QED BY <1>0, <2>4, <2>6, <2>7, <2>8
<1> QED BY <1>1, <1>2

\* The entries of the lanes, one by one.
LEMMA EntriesAre ==
  ASSUME NEW ls \in [Lanes -> Seq(Entry)]
  PROVE  \A e : e \in AllEntries(ls) <=> \E l \in Lanes : e \in ToSet(ls[l])
BY DEF AllEntries

\* What asx_lane_remove leaves.
LEMMA RemovedEntries ==
  ASSUME NEW ls \in [Lanes -> Seq(Entry)], NEW e
  PROVE  /\ Removed(ls, e) \in [Lanes -> Seq(Entry)]
         /\ \A l \in Lanes : Len(Removed(ls, e)[l]) <= Len(ls[l])
         /\ AllEntries(Removed(ls, e)) \subseteq AllEntries(ls)
         /\ AllEntries(ls) \subseteq AllEntries(Removed(ls, e)) \cup {e}
<1> DEFINE order == <<"Ready", "Cancel", "Timed">>
           having == {k \in 1 .. 3 : Contains(ls[order[k]], e)}
           first == CHOOSE k \in having : \A j \in having : k <= j
           l == order[first]
<1>0. \A m \in Lanes : ls[m] \in Seq(Entry) /\ Len(ls[m]) \in Nat
  OBVIOUS
<1>1. CASE having = {}
  <2>1. Removed(ls, e) = ls
    BY <1>1 DEF Removed
  <2> QED BY <1>0, <2>1
<1>2. CASE having # {}
  <2>1. \E k \in having : \A j \in having : k <= j
    <3>1. \A k \in having : k = 1 \/ k = 2 \/ k = 3
      OBVIOUS
    <3> HIDE DEF having
    <3>2. CASE 1 \in having
      BY <3>1, <3>2
    <3>3. CASE 1 \notin having /\ 2 \in having
      BY <3>1, <3>3
    <3>4. CASE 1 \notin having /\ 2 \notin having
      BY <1>2, <3>1, <3>4
    <3> QED BY <3>2, <3>3, <3>4
  <2>2. first \in {1, 2, 3}
    BY <2>1
  <2>3. Removed(ls, e) = [ls EXCEPT ![l] = RemoveFirst(@, e)]
    BY <1>2 DEF Removed
  <2> HIDE DEF first
  <2>4. l \in Lanes
    BY <2>2 DEF Lanes
  <2> HIDE DEF l
  <2> DEFINE cut == RemoveFirst(ls[l], e)
             rs == Removed(ls, e)
  <2>5. /\ cut \in Seq(Entry) /\ Len(cut) <= Len(ls[l])
        /\ ToSet(cut) \subseteq ToSet(ls[l])
        /\ ToSet(ls[l]) \subseteq ToSet(cut) \cup {e}
    BY <1>0, <2>4, FirstRemoved
  <2> HIDE DEF cut
  <2>6. \A m \in Lanes : rs[m] = IF m = l THEN cut ELSE ls[m]
    BY <2>3, <2>4 DEF cut
  <2>7. rs \in [Lanes -> Seq(Entry)]
    BY <2>3, <2>4, <2>5 DEF cut
  <2> HIDE DEF rs
  <2>8. \A m \in Lanes : Len(rs[m]) <= Len(ls[m])
    BY <1>0, <2>5, <2>6
  <2>9. \A m \in Lanes : /\ ToSet(rs[m]) \subseteq ToSet(ls[m])
                         /\ ToSet(ls[m]) \subseteq ToSet(rs[m]) \cup {e}
    BY <2>5, <2>6
  <2> QED BY <2>7, <2>8, <2>9 DEF AllEntries, rs
<1> QED BY <1>1, <1>2

\* The tasks the lanes hold, under whatever handle.
TasksIn(ls) == {e.task : e \in AllEntries(ls)}

LEMMA RemovedTasks ==
  ASSUME NEW ls \in [Lanes -> Seq(Entry)], NEW e \in Entry
  PROVE  /\ TasksIn(Removed(ls, e)) \subseteq TasksIn(ls)
         /\ TasksIn(ls) \subseteq TasksIn(Removed(ls, e)) \cup {e.task}
BY RemovedEntries DEF TasksIn

LEMMA EntryType ==
  ASSUME LifecycleTypeOK, NEW i \in TaskSlots
  PROVE  EntryOf(i) \in Entry /\ EntryOf(i).task = i
BY DEF EntryOf, Entry, LifecycleTypeOK, Task

\* Writing one element of one lane.
Put(ls, l, n, e) == [ls EXCEPT ![l] = [ls[l] EXCEPT ![n] = e]]

LEMMA LaneWritten ==
  ASSUME NEW ls \in [Lanes -> Seq(Entry)], NEW l \in Lanes, NEW n \in 1 .. Len(ls[l]),
         NEW e \in Entry, e.task = ls[l][n].task
  PROVE  /\ Put(ls, l, n, e) \in [Lanes -> Seq(Entry)] /\ e \in AllEntries(Put(ls, l, n, e))
         /\ \A m \in Lanes : Len(Put(ls, l, n, e)[m]) = Len(ls[m])
         /\ TasksIn(Put(ls, l, n, e)) = TasksIn(ls)
<1> DEFINE q == [ls[l] EXCEPT ![n] = e]
           rs == Put(ls, l, n, e)
<1>1. \A m \in Lanes : ls[m] \in Seq(Entry) /\ Len(ls[m]) \in Nat /\ DOMAIN ls[m] = 1 .. Len(ls[m])
  OBVIOUS
<1>2. /\ q \in Seq(Entry) /\ Len(q) = Len(ls[l]) /\ DOMAIN q = 1 .. Len(ls[l])
      /\ \A k \in 1 .. Len(ls[l]) : q[k] = IF k = n THEN e ELSE ls[l][k]
  BY <1>1
<1>3. rs \in [Lanes -> Seq(Entry)] /\ \A m \in Lanes : rs[m] = IF m = l THEN q ELSE ls[m]
  <2>1. rs = [ls EXCEPT ![l] = q]
    BY DEF Put
  <2> HIDE DEF q
  <2> QED BY <1>2, <2>1
<1> HIDE DEF q, rs
<1>4. e \in AllEntries(rs)
  <2>1. e \in ToSet(q)
    BY <1>2 DEF ToSet
  <2> QED BY <1>3, <2>1, EntriesAre
<1>5. \A m \in Lanes : Len(rs[m]) = Len(ls[m])
  BY <1>2, <1>3
<1>6. ASSUME NEW x \in AllEntries(rs)
      PROVE  x.task \in TasksIn(ls)
  <2>1. PICK m \in Lanes : x \in ToSet(rs[m])
    BY <1>3, EntriesAre
  <2>2. PICK k \in 1 .. Len(ls[m]) : x = rs[m][k]
    BY <1>1, <1>2, <1>3, <2>1 DEF ToSet
  <2>3. ls[m][k] \in AllEntries(ls)
    BY <1>1, EntriesAre DEF ToSet
  <2>4. x.task = ls[m][k].task
    BY <1>2, <1>3, <2>2
  <2> QED BY <2>3, <2>4 DEF TasksIn
<1>7. ASSUME NEW x \in AllEntries(ls)
      PROVE  x.task \in TasksIn(rs)
  <2>1. PICK m \in Lanes : x \in ToSet(ls[m])
    BY EntriesAre
  <2>2. PICK k \in 1 .. Len(ls[m]) : x = ls[m][k]
    BY <1>1, <2>1 DEF ToSet
  <2>3. k \in DOMAIN rs[m]
    BY <1>1, <1>2, <1>3
  <2>4. rs[m][k] \in AllEntries(rs)
    <3>1. rs[m][k] \in ToSet(rs[m])
      BY <2>3 DEF ToSet
    <3> QED BY <1>3, <3>1, EntriesAre
  <2>5. x.task = rs[m][k].task
    BY <1>2, <1>3, <2>2
  <2> QED BY <2>4, <2>5 DEF TasksIn
<1>8. TasksIn(rs) = TasksIn(ls)
  BY <1>6, <1>7 DEF TasksIn
<1> QED BY <1>3, <1>4, <1>5, <1>8 DEF rs

\* Putting one element at the end of one lane.
LEMMA LaneGrown ==
  ASSUME NEW ls \in [Lanes -> Seq(Entry)], NEW l \in Lanes, NEW e \in Entry
  PROVE  LET rs == [ls EXCEPT ![l] = Append(@, e)]
         IN  /\ rs \in [Lanes -> Seq(Entry)]
             /\ \A m \in Lanes : Len(rs[m]) = IF m = l THEN Len(ls[m]) + 1 ELSE Len(ls[m])
             /\ AllEntries(rs) = AllEntries(ls) \cup {e}
<1> DEFINE q == Append(ls[l], e)
           rs == [ls EXCEPT ![l] = q]
<1>1. /\ q \in Seq(Entry) /\ Len(q) = Len(ls[l]) + 1 /\ ToSet(q) = ToSet(ls[l]) \cup {e}
  <2>1. ls[l] \in Seq(Entry) /\ Len(ls[l]) \in Nat /\ DOMAIN ls[l] = 1 .. Len(ls[l])
    OBVIOUS
  <2>2. /\ q \in Seq(Entry) /\ Len(q) = Len(ls[l]) + 1 /\ DOMAIN q = 1 .. Len(ls[l]) + 1
        /\ q[Len(ls[l]) + 1] = e /\ \A k \in 1 .. Len(ls[l]) : q[k] = ls[l][k]
    BY <2>1
  <2>3. ToSet(q) \subseteq ToSet(ls[l]) \cup {e}
    <3> SUFFICES ASSUME NEW k \in 1 .. Len(ls[l]) + 1 PROVE q[k] \in ToSet(ls[l]) \cup {e}
      BY <2>2 DEF ToSet
    <3>1. k = Len(ls[l]) + 1 \/ k \in 1 .. Len(ls[l])
      BY <2>1
    <3> QED BY <2>1, <2>2, <3>1 DEF ToSet
  <2>4. ToSet(ls[l]) \cup {e} \subseteq ToSet(q)
    BY <2>1, <2>2 DEF ToSet
  <2> QED BY <2>2, <2>3, <2>4
<1> HIDE DEF q
<1>2. rs \in [Lanes -> Seq(Entry)] /\ \A m \in Lanes : rs[m] = IF m = l THEN q ELSE ls[m]
  BY <1>1
<1> HIDE DEF rs
<1>3. AllEntries(rs) = AllEntries(ls) \cup {e}
  BY <1>1, <1>2 DEF AllEntries
<1> QED BY <1>1, <1>2, <1>3 DEF rs, q

\* The lanes a run begins with hold the region's live tasks.
LEMMA ClassifiedLanes ==
  ASSUME LifecycleTypeOK, NEW h \in RegionHandles
  PROVE  /\ Classified(h) \in [Lanes -> Seq(Entry)]
         /\ \A l \in Lanes : Len(Classified(h)[l]) <= LaneCapacity
         /\ TasksIn(Classified(h)) = LiveTasks(h)
<1> DEFINE Of(l) == {i \in LiveTasks(h) : LaneOf(tasks[i]) = l}
           order(l) == Ascending(Of(l))
           lane(l) == [n \in DOMAIN order(l) |-> EntryOf(order(l)[n])]
<1>1. ASSUME NEW l \in Lanes
      PROVE  /\ lane(l) \in Seq(Entry) /\ Len(lane(l)) <= LaneCapacity
             /\ {e.task : e \in ToSet(lane(l))} = Of(l)
  <2> DEFINE S == Of(l)
             R == {e \in S \X S : e[1] < e[2]}
             q == order(l)
  <2>1. S \subseteq TaskSlots /\ TaskSlots \subseteq Nat /\ IsFiniteSet(TaskSlots)
        /\ Cardinality(TaskSlots) = MaxTasks /\ MaxTasks \in Nat
    BY LifecycleAssumption, FS_Interval DEF TaskSlots, LiveTasks
  <2>2. IsFiniteSet(S) /\ Cardinality(S) <= MaxTasks
    BY <2>1, FS_Subset
  <2>3. StrictOrder(R, S)
    <3> HIDE DEF S
    <3> QED BY <2>1 DEF StrictOrder
  <2>4. \E r \in SetToSeqs(S) : \A m, n \in DOMAIN r : m < n => r[m] < r[n]
    <3>1. PICK r \in SetToSeqs(S) : SortOf(r, S, R)
      <4> HIDE DEF S, R
      <4> QED BY <2>2, <2>3, SortExists
    <3> QED BY <3>1 DEF SortOf
  <2>5. q \in SetToSeqs(S)
    BY <2>4 DEF Ascending
  <2> HIDE DEF S, q
  <2>6. /\ Cardinality(S) \in Nat /\ DOMAIN q = 1 .. Cardinality(S)
        /\ \A n \in DOMAIN q : q[n] \in S
        /\ \A i \in S : \E n \in DOMAIN q : q[n] = i
    BY <2>2, <2>5, SeqOfSet
  <2>7. \A n \in DOMAIN q : EntryOf(q[n]) \in Entry /\ EntryOf(q[n]).task = q[n]
    BY <2>1, <2>6, EntryType
  <2> DEFINE p == [n \in 1 .. Cardinality(S) |-> EntryOf(q[n])]
  <2>8. p \in Seq(Entry) /\ Len(p) = Cardinality(S) /\ DOMAIN p = 1 .. Cardinality(S)
    BY <2>6, <2>7
  <2>9. {e.task : e \in ToSet(p)} = S
    BY <2>6, <2>7, <2>8 DEF ToSet
  <2>10. lane(l) = p
    BY <2>6 DEF q
  <2>11. Cardinality(S) <= LaneCapacity
    BY <2>1, <2>2, <2>6, LaneAssumption
  <2> HIDE DEF p
  <2> QED BY <2>8, <2>9, <2>10, <2>11 DEF S
<1>2. \A l \in Lanes : Classified(h)[l] = lane(l)
  BY DEF Classified
<1>3. DOMAIN Classified(h) = Lanes /\ Classified(h) = [l \in Lanes |-> Classified(h)[l]]
  BY DEF Classified
<1> DEFINE c == Classified(h)
<1> HIDE DEF lane, c
<1>4. c \in [Lanes -> Seq(Entry)] /\ \A l \in Lanes : Len(c[l]) <= LaneCapacity
  BY <1>1, <1>2, <1>3 DEF c
<1>5. TasksIn(c) = UNION {Of(l) : l \in Lanes}
  <2>1. \A l \in Lanes : {e.task : e \in ToSet(c[l])} = Of(l)
    BY <1>1, <1>2 DEF c
  <2> HIDE DEF Of
  <2> QED BY <2>1 DEF TasksIn, AllEntries
<1>6. UNION {Of(l) : l \in Lanes} = LiveTasks(h)
  BY DEF LaneOf, Lanes
<1> QED BY <1>4, <1>5, <1>6 DEF c

----------------------------------------------------------------------------
(* Quotas *)

\* A part of the budget is no more than the budget.
LEMMA PartBounded ==
  ASSUME NEW total \in Nat, NEW part \in Nat, NEW whole \in Nat, whole > 0, part <= whole
  PROVE  (total * part) \div whole \in 0 .. total
<1>1. total * part \in Nat /\ total * part <= total * whole
  BY SMT
<1> DEFINE n == total * part
<1>2. n \in Nat /\ n \div whole \in Nat /\ (n \div whole) * whole <= n
  BY <1>1, SMT
<1> DEFINE d == n \div whole
<1>3. d \in Nat /\ d * whole <= total * whole
  <2>1. total * whole \in Nat /\ d * whole \in Nat
    BY <1>2, SMT
  <2> QED BY <1>1, <1>2, <2>1
<1> HIDE DEF d
<1>4. d <= total
  <2> SUFFICES ASSUME d >= total + 1 PROVE FALSE
    BY <1>3
  <2>1. d * whole >= (total + 1) * whole
    BY <1>3, SMT
  <2>2. (total + 1) * whole = total * whole + whole /\ total * whole \in Nat /\ d * whole \in Nat
    BY <1>3, SMT
  <2> QED BY <1>3, <2>1, <2>2
<1> QED BY <1>3, <1>4 DEF d

\* There are at most three lanes with tasks.
LEMMA ActiveFinite ==
  /\ IsFiniteSet(Active) /\ Cardinality(Active) \in Nat
  /\ Active # {} => Cardinality(Active) > 0
<1>1. IsFiniteSet(Lanes)
  <2>1. Lanes = (({} \cup {"Ready"}) \cup {"Cancel"}) \cup {"Timed"}
    BY DEF Lanes
  <2> QED BY <2>1, FS_EmptySet, FS_AddElement
<1>2. IsFiniteSet(Active)
  BY <1>1, FS_Subset DEF Active
<1> QED BY <1>2, FS_CardinalityType, FS_EmptySet

\* No quota is more than the budget, and the quotas of round robin are all the same.
LEMMA QuotasBounded ==
  ASSUME LanesTypeOK, config # NoConfig, NEW total \in 0 .. MaxBudget
  PROVE  /\ Quotas(total) \in [Lanes -> 0 .. MaxBudget]
         /\ config.fairness = "RoundRobin" =>
              \E q \in Nat : /\ \A l \in Lanes : Quotas(total)[l] \in {0, q}
                            /\ \A l \in Active : Quotas(total)[l] = q
<1>1. config \in [fairness : Fairness, weights : [Lanes -> Nat]]
  BY LaneAssumption DEF LanesTypeOK
<1>2. total \in Nat /\ total <= MaxBudget /\ MaxBudget \in Nat
  BY SchedulerAssumption
<1>3. CASE config.fairness = "RoundRobin"
  <2> DEFINE q == IF Active = {} THEN 0 ELSE total \div Cardinality(Active)
  <2>1. q \in 0 .. MaxBudget
    <3>1. CASE Active # {}
      <4>1. Cardinality(Active) \in Nat /\ Cardinality(Active) >= 1
        BY <3>1, ActiveFinite
      <4>2. \A n \in Nat : n >= 1 => total \div n \in 0 .. total
        BY <1>2, PartBounded
      <4> QED BY <1>2, <3>1, <4>1, <4>2
    <3> QED BY <1>2, <3>1
  <2>2. Quotas(total) = [l \in Lanes |-> IF l \in Active THEN q ELSE 0]
    <3>1. Quotas(total) = Share(total)
      BY <1>3 DEF Quotas
    <3> QED BY <3>1 DEF Share
  <2> HIDE DEF q
  <2> QED BY <1>2, <2>1, <2>2 DEF Active
<1>4. CASE config.fairness = "Weighted"
  <2> DEFINE weight == [l \in Lanes |-> IF l \in Active THEN config.weights[l] ELSE 0]
             sum == weight["Ready"] + weight["Cancel"] + weight["Timed"]
  <2>1. Quotas(total) = [l \in Lanes |-> IF sum > 0 THEN (total * weight[l]) \div sum ELSE 0]
    <3>1. Quotas(total) = WeightedShare(total)
      BY <1>4 DEF Quotas
    <3> QED BY <3>1 DEF WeightedShare
  <2>2. weight \in [Lanes -> Nat]
    BY <1>1
  <2> HIDE DEF weight
  <2>3. sum \in Nat /\ \A l \in Lanes : weight[l] \in Nat /\ weight[l] <= sum
    BY <2>2 DEF Lanes
  <2> HIDE DEF sum
  <2>4. ASSUME NEW l \in Lanes
        PROVE  Quotas(total)[l] \in 0 .. MaxBudget
    <3>1. CASE sum > 0
      <4>1. (total * weight[l]) \div sum \in 0 .. total
        BY <1>2, <2>3, <3>1, PartBounded
      <4>2. Quotas(total)[l] = (total * weight[l]) \div sum
        BY <2>1, <3>1
      <4> QED BY <1>2, <4>1, <4>2
    <3>2. CASE ~(sum > 0)
      BY <1>2, <2>1, <3>2
    <3> QED BY <3>1, <3>2
  <2> QED BY <1>4, <2>1, <2>4
<1>5. CASE config.fairness = "Priority"
  BY <1>2, <1>5 DEF Quotas
<1> QED BY <1>1, <1>3, <1>4, <1>5 DEF Fairness

----------------------------------------------------------------------------
(* Shapes *)

\* What the types need to be inductive: a run has a region, the lanes hold tasks that are
\* allocated, and the callback in progress is that of a task that has not completed.
RunShape ==
  /\ run.pc # "idle" => config # NoConfig /\ run.region \in RegionHandles
  /\ run.pc # "return" => run.status = "None"
  /\ \A i \in TasksIn(lanes) \cup run.entered : i < taskCount
  /\ run.next >= 1
  /\ run.pc \in {"pick", "lane", "poll"} => run.at <= 3
  /\ run.pc = "poll" =>
       run.tid.task < taskCount /\ ~IsTerminal(tasks[run.tid.task].state)

ShapeInv == TypeInv /\ depth = 0 /\ LanesTypeOK /\ RunShape

\* What a run holds, field by field.
LEMMA RunFields ==
  ASSUME LanesTypeOK
  PROVE  /\ run.region \in RegionHandles \cup {InvalidId} /\ run.budget \in 0 .. MaxBudget
         /\ run.quotas \in [Lanes -> 0 .. MaxBudget] /\ run.at \in 1 .. 4 /\ run.at \in Nat
         /\ run.next \in Nat /\ run.polls \in Nat /\ run.tid \in Entry
         /\ run.tid.task \in TaskSlots
         /\ run.anyPolled \in BOOLEAN /\ run.entered \subseteq TaskSlots
         /\ run.busy \subseteq Lanes /\ run.status \in Statuses
BY DEF LanesTypeOK, Run, Entry

LEMMA IdleType == Idle \in Run
<1>1. [task |-> 0, mask |-> "Created"] \in Entry
  BY LifecycleAssumption, LaneAssumption DEF Entry, TaskSlots, TaskStates
<1>2. 0 \in 0 .. MaxBudget
  BY SchedulerAssumption
<1> QED BY <1>1, <1>2 DEF Idle, Run, Statuses

LEMMA EntriesTyped ==
  ASSUME NEW ls \in [Lanes -> Seq(Entry)]
  PROVE  AllEntries(ls) \subseteq Entry /\ TasksIn(ls) \subseteq TaskSlots
<1>1. \A l \in Lanes : ToSet(ls[l]) \subseteq Entry
  BY DEF ToSet
<1> QED BY <1>1 DEF AllEntries, TasksIn, Entry

\* The lane at its turn and the entry at the cursor.
LEMMA CurrentFacts ==
  ASSUME ShapeInv, InLane
  PROVE  /\ CurrentLane \in Lanes /\ run.next \in 1 .. Len(lanes[CurrentLane])
         /\ Current \in Entry /\ Current \in AllEntries(lanes)
         /\ Current.task \in TaskSlots /\ Current.task \in TasksIn(lanes)
         /\ Current.task < taskCount
         /\ tasks[Current.task] \in Task
         /\ EntryOf(Current.task) \in Entry /\ EntryOf(Current.task).task = Current.task
         /\ Refreshed \in [Lanes -> Seq(Entry)] /\ EntryOf(Current.task) \in AllEntries(Refreshed)
         /\ \A l \in Lanes : Len(Refreshed[l]) = Len(lanes[l])
         /\ TasksIn(Refreshed) = TasksIn(lanes)
<1>1. /\ LifecycleTypeOK /\ LanesTypeOK /\ RunShape
      /\ lanes \in [Lanes -> Seq(Entry)] /\ run.pc = "lane" /\ run.next <= Len(lanes[CurrentLane])
  BY DEF ShapeInv, TypeInv, TypeOK, LanesTypeOK, InLane
<1>2. run.at \in {1, 2, 3} /\ run.next \in Nat /\ run.next >= 1
  BY <1>1, RunFields DEF RunShape
<1>3. CurrentLane \in Lanes
  BY <1>2 DEF CurrentLane, LaneOrder, Lanes
<1>4. lanes[CurrentLane] \in Seq(Entry)
  BY <1>1, <1>3
<1>5. run.next \in 1 .. Len(lanes[CurrentLane])
  BY <1>1, <1>2, <1>4
<1>6. Current \in Entry /\ Current \in ToSet(lanes[CurrentLane])
  BY <1>4, <1>5 DEF Current, ToSet
<1>7. Current \in AllEntries(lanes)
  BY <1>1, <1>3, <1>6, EntriesAre
<1>8. Current.task \in TaskSlots /\ Current.task \in TasksIn(lanes)
  BY <1>6, <1>7 DEF Entry, TasksIn
<1>9. Current.task < taskCount /\ tasks[Current.task] \in Task
  BY <1>1, <1>8 DEF RunShape, LifecycleTypeOK
<1>10. EntryOf(Current.task) \in Entry /\ EntryOf(Current.task).task = Current.task
  BY <1>1, <1>8, EntryType
<1>11. /\ Refreshed \in [Lanes -> Seq(Entry)] /\ EntryOf(Current.task) \in AllEntries(Refreshed)
       /\ \A l \in Lanes : Len(Refreshed[l]) = Len(lanes[l])
       /\ TasksIn(Refreshed) = TasksIn(lanes)
  <2>1. PICK l \in Lanes : l = CurrentLane
    BY <1>3
  <2>2. PICK n \in 1 .. Len(lanes[l]) : n = run.next
    BY <1>5, <2>1
  <2>3. PICK e \in Entry : e = EntryOf(Current.task) /\ e.task = lanes[l][n].task
    BY <1>10, <2>1, <2>2 DEF Current
  <2>4. PICK ls \in [Lanes -> Seq(Entry)] : ls = lanes
    BY <1>1
  <2> DEFINE rs == Put(ls, l, n, e)
  <2>6. n \in 1 .. Len(ls[l]) /\ e.task = ls[l][n].task /\ rs = Refreshed
    BY <2>1, <2>2, <2>3, <2>4 DEF Refreshed, Put
  <2>7. /\ rs \in [Lanes -> Seq(Entry)] /\ e \in AllEntries(rs)
        /\ \A m \in Lanes : Len(rs[m]) = Len(ls[m])
        /\ TasksIn(rs) = TasksIn(ls)
    BY <2>6, LaneWritten
  <2> QED BY <2>3, <2>4, <2>6, <2>7
<1> QED BY <1>3, <1>5, <1>6, <1>7, <1>8, <1>9, <1>10, <1>11

\* Lanes that hold no more than before keep their range.
LEMMA LanesShrink ==
  ASSUME LanesTypeOK, NEW ls \in [Lanes -> Seq(Entry)],
         \A l \in Lanes : Len(ls[l]) <= Len(lanes[l])
  PROVE  \A l \in Lanes : Len(ls[l]) <= LaneCapacity
<1> SUFFICES ASSUME NEW l \in Lanes PROVE Len(ls[l]) <= LaneCapacity
  OBVIOUS
<1>1. ls[l] \in Seq(Entry) /\ lanes[l] \in Seq(Entry) /\ Len(lanes[l]) <= LaneCapacity
      /\ LaneCapacity \in Nat
  BY LaneAssumption DEF LanesTypeOK
<1>2. Len(ls[l]) \in Nat /\ Len(lanes[l]) \in Nat
  BY <1>1
<1> QED BY <1>1, <1>2

----------------------------------------------------------------------------
(* What the steps do to the arenas *)

\* Every task allocated stays the same task, no nearer its end.
TasksGrow ==
  /\ taskCount' = taskCount \/ taskCount' = taskCount + 1
  /\ \A i \in TaskSlots : i < taskCount => Kept(tasks[i], tasks'[i])

LEMMA KernelGrows ==
  ASSUME ShapeInv, KernelOperation
  PROVE  TypeInv' /\ depth' = 0 /\ TasksGrow
<1>1. TypeInv /\ LifecycleTypeOK /\ depth = 0 /\ taskCount \in Nat
  BY DEF ShapeInv, TypeInv, TypeOK, LifecycleTypeOK
<1>2. Operation
  BY <1>1 DEF KernelOperation, Operation, Callable, RegionOperation
<1>3. TypeInv' /\ depth' = 0
  BY <1>1, <1>2, OperationType DEF KernelOperation, schedulerVars
<1>4. CASE RegionOpen
  <2>1. TasksKept
    BY <1>4, TasksUntouched DEF RegionOpen
  <2> QED BY <1>3, <2>1 DEF TasksKept, TasksGrow
<1>5. CASE TaskOperation
  <2>1. PICK h \in RegionHandles :
          TaskSpawn(h) \/ \E size \in CaptureSizes : TaskSpawnCaptured(h, size)
    BY <1>5 DEF TaskOperation
  <2>2. PICK c : TaskBegins(h, c)
    BY <1>1, <2>1, SpawnBegins
  <2>3. \A i \in TaskSlots : i < taskCount => tasks'[i] = tasks[i] /\ tasks[i] \in Task
    BY <1>1, <2>2 DEF TaskBegins, LifecycleTypeOK, TaskSlots
  <2>4. \A i \in TaskSlots : i < taskCount => Kept(tasks[i], tasks'[i])
    BY <2>3, PolledKeeps
  <2>5. taskCount' = taskCount + 1
    BY <2>2 DEF TaskBegins
  <2> QED BY <1>3, <2>4, <2>5 DEF TasksGrow
<1>6. CASE CancelOperation
  <2>1. TasksKept
    BY <1>1, <1>6, CancelKeepsTasks
  <2> QED BY <1>3, <2>1 DEF TasksKept, TasksGrow
<1> QED BY <1>3, <1>4, <1>5, <1>6 DEF KernelOperation

\* A task of the lanes completes, on any of the three paths that do it.
LEMMA EndKeepsTypes ==
  ASSUME ShapeInv, NEW s \in RegionSlots,
         UNCHANGED <<taskCount, obligations, obligationCount, schedulerVars>>,
         tasks' \in [TaskSlots -> Task],
         regions' = Uncount(s) \/ regions' = [Uncount(s) EXCEPT ![s].poisoned = TRUE]
  PROVE  TypeInv' /\ depth' = 0
<1>1. TypeInv /\ taskCount' \in Nat /\ taskCount' >= taskCount /\ UNCHANGED schedulerVars
  BY DEF ShapeInv, TypeInv, TypeOK, LifecycleTypeOK
<1>2. /\ Uncount(s) \in [RegionSlots -> Region]
      /\ \A z \in RegionSlots : Uncount(s)[z].taskCount <= regions[z].taskCount
  BY <1>1, UncountType
<1> DEFINE rs == Uncount(s)
<1> HIDE DEF rs
<1>3. /\ regions' \in [RegionSlots -> Region]
      /\ \A z \in RegionSlots : regions'[z].taskCount <= regions[z].taskCount
  <2>1. CASE regions' = rs
    BY <1>2, <2>1 DEF rs
  <2>2. CASE regions' = [rs EXCEPT ![s].poisoned = TRUE]
    <3>1. rs[s] \in Region /\ [rs[s] EXCEPT !.poisoned = TRUE] \in Region
          /\ [rs[s] EXCEPT !.poisoned = TRUE].taskCount = rs[s].taskCount
      BY <1>2 DEF rs, Region
    <3>2. regions' = [rs EXCEPT ![s] = [rs[s] EXCEPT !.poisoned = TRUE]]
      BY <2>2
    <3> QED BY <1>2, <3>1, <3>2 DEF rs
  <2> QED BY <2>1, <2>2 DEF rs
<1>4. LifecycleTypeOK' /\ (\A z \in RegionSlots : regions[z].taskCount <= taskCount)'
  BY <1>1, <1>3, ArenasKept
<1>5. (\A d \in 1 .. depth : FrameShape(frames[d]))' /\ SchedulerTypeOK'
  BY <1>1, FramesKept
<1> QED BY <1>4, <1>5 DEF TypeInv, TypeOK, ShapeInv, schedulerVars

----------------------------------------------------------------------------
(* No task is lost *)

\* LanesKeepTasks, with the tasks of the lanes as a set.
KeepInv ==
  /\ run.pc # "idle" => \A i \in run.entered : ~IsTerminal(tasks[i].state) => i \in TasksIn(lanes)
  /\ run.status = "Ok" => \A i \in run.entered : IsTerminal(tasks[i].state)

KeptShape == ShapeInv /\ KeepInv

LEMMA SameTypes ==
  ASSUME ShapeInv, UNCHANGED vars
  PROVE  TypeInv' /\ depth' = 0 /\ LanesTypeOK /\ run \in Run
<1>1. TypeInv' /\ depth' = 0
  BY TasksOnly DEF ShapeInv, TypeInv, TypeOK, LifecycleTypeOK, vars, lifecycleVars, schedulerVars
<1> QED BY <1>1 DEF ShapeInv, LanesTypeOK

\* A step that only moves the run in progress.
LEMMA RunMoves ==
  ASSUME KeptShape, UNCHANGED <<vars, config, lanes>>, starved' \in [Lanes -> 0 .. StarvationCap],
         NEW r \in Run, run' = r, r.region = run.region, r.entered = run.entered,
         r.next >= 1, r.pc \in {"round", "pick", "lane", "roundEnd", "return"},
         r.pc \in {"pick", "lane"} => r.at <= 3,
         r.pc # "return" => r.status = "None",
         r.status = "Ok" => Active = {}, run.pc # "idle"
  PROVE  KeptShape'
<1>1. TypeInv' /\ depth' = 0 /\ LanesTypeOK /\ RunShape
  BY SameTypes DEF KeptShape, ShapeInv, vars
<1>2. LanesTypeOK'
  BY <1>1 DEF LanesTypeOK
<1>3. TasksIn(lanes)' = TasksIn(lanes) /\ taskCount' = taskCount /\ tasks' = tasks
  BY DEF TasksIn, AllEntries, vars, lifecycleVars
<1>4. RunShape'
  BY <1>1, <1>3 DEF RunShape
<1>5. Active = {} => TasksIn(lanes) = {}
  BY <1>1 DEF Active, TasksIn, AllEntries, ToSet
<1>6. KeepInv'
  BY <1>3, <1>5 DEF KeptShape, KeepInv
<1> QED BY <1>1, <1>2, <1>4, <1>6 DEF KeptShape, ShapeInv

LEMMA StopKeeps ==
  ASSUME KeptShape, UNCHANGED <<vars, config, lanes, starved>>, NEW s \in Statuses, Stop(s),
         s = "Ok" => Active = {}, run.pc # "idle"
  PROVE  KeptShape'
<1>1. PICK r : r = [run EXCEPT !.pc = "return", !.status = s]
  OBVIOUS
<1>2. run \in Run /\ RunShape /\ starved \in [Lanes -> 0 .. StarvationCap]
  BY DEF KeptShape, ShapeInv, LanesTypeOK
<1>3. r \in Run /\ r.region = run.region /\ r.entered = run.entered /\ r.next = run.next
      /\ r.pc = "return" /\ r.status = s
  BY <1>1, <1>2 DEF Run
<1>4. run' = r /\ r.next >= 1 /\ starved' \in [Lanes -> 0 .. StarvationCap]
  BY <1>1, <1>2, <1>3 DEF Stop, RunShape
<1> QED BY <1>3, <1>4, RunMoves

LEMMA RoundKeeps ==
  ASSUME KeptShape, ParallelRound
  PROVE  KeptShape'
<1>1. /\ run.pc = "round" /\ run \in Run /\ RunShape /\ LanesTypeOK
      /\ starved \in [Lanes -> 0 .. StarvationCap] /\ UNCHANGED <<vars, config, lanes, starved>>
  BY DEF KeptShape, ShapeInv, LanesTypeOK, ParallelRound
<1>2. CASE Stop("BudgetExhausted")
  BY <1>1, <1>2, StopKeeps DEF Statuses
<1>3. CASE Active = {} /\ Stop("Ok")
  BY <1>1, <1>3, StopKeeps DEF Statuses
<1>4. CASE run' = [run EXCEPT !.pc = "pick", !.quotas = Quotas(run.budget), !.at = 1,
                              !.next = 1, !.polls = 0, !.anyPolled = FALSE, !.busy = Active]
  <2>1. PICK q : q = Quotas(run.budget)
    OBVIOUS
  <2>2. PICK b : b = Active
    OBVIOUS
  <2>3. q \in [Lanes -> 0 .. MaxBudget]
    <3>1. config # NoConfig /\ run.budget \in 0 .. MaxBudget
      BY <1>1, RunFields DEF RunShape
    <3> QED BY <1>1, <2>1, <3>1, QuotasBounded
  <2>4. PICK r : r = [run EXCEPT !.pc = "pick", !.quotas = q, !.at = 1,
                                 !.next = 1, !.polls = 0, !.anyPolled = FALSE, !.busy = b]
    OBVIOUS
  <2>5. b \subseteq Lanes /\ run' = r
    BY <1>4, <2>1, <2>2, <2>4 DEF Active
  <2>6. r \in Run
    <3>1. 1 \in 1 .. 4 /\ 1 \in Nat /\ 0 \in Nat
      OBVIOUS
    <3> QED BY <1>1, <2>3, <2>4, <2>5, <3>1, Zenon DEF Run
  <2>8. r.region = run.region /\ r.entered = run.entered /\ r.next = 1
        /\ r.pc = "pick" /\ r.status = run.status /\ r.at = 1
    BY <1>1, <2>4 DEF Run
  <2>7. run.status = "None"
    BY <1>1 DEF RunShape
  <2> QED BY <1>1, <2>5, <2>6, <2>7, <2>8, RunMoves
<1> QED BY <1>2, <1>3, <1>4 DEF ParallelRound

\* What passing to the next lane leaves of the run.
LEMMA NextLaneFields ==
  ASSUME ShapeInv, run.pc \in {"pick", "lane"}
  PROVE  /\ NextLane \in Run /\ NextLane.region = run.region /\ NextLane.entered = run.entered
         /\ NextLane.next = 1 /\ NextLane.polls = 0 /\ NextLane.at = run.at + 1
         /\ NextLane.status = "None" /\ NextLane.quotas = run.quotas
         /\ NextLane.busy = run.busy /\ NextLane.anyPolled = run.anyPolled
         /\ NextLane.pc = IF run.at = 3 THEN "roundEnd" ELSE "pick"
         /\ run.at \in 1 .. 3 /\ CurrentLane \in Lanes
<1>1. run \in Run /\ run.at \in 1 .. 3 /\ run.status = "None"
  BY RunFields DEF ShapeInv, RunShape, LanesTypeOK
<1>2. PICK p, n : p = (IF run.at = 3 THEN "roundEnd" ELSE "pick") /\ n = run.at + 1
  OBVIOUS
<1>3. p \in {"pick", "roundEnd"} /\ n \in 1 .. 4
  BY <1>1, <1>2
<1>4. NextLane = [run EXCEPT !.pc = p, !.at = n, !.next = 1, !.polls = 0]
  BY <1>2 DEF NextLane
<1>5. CurrentLane \in Lanes
  BY <1>1 DEF CurrentLane, LaneOrder, Lanes
<1> QED BY <1>1, <1>2, <1>3, <1>4, <1>5 DEF Run

LEMMA PickKeeps ==
  ASSUME KeptShape, LanePick
  PROVE  KeptShape'
<1>1. /\ run.pc = "pick" /\ run \in Run /\ RunShape /\ ShapeInv
      /\ starved' \in [Lanes -> 0 .. StarvationCap] /\ UNCHANGED <<vars, config, lanes>>
  BY DEF KeptShape, ShapeInv, LanesTypeOK, LanePick
<1>2. CASE run' = [NextLane EXCEPT !.busy = @ \ {CurrentLane}]
  <2>1. PICK n, c : n = NextLane /\ c = CurrentLane
    OBVIOUS
  <2>2. PICK r : r = [n EXCEPT !.busy = @ \ {c}]
    OBVIOUS
  <2>3. /\ n \in Run /\ n.region = run.region /\ n.entered = run.entered /\ n.next = 1
        /\ n.at = run.at + 1 /\ n.status = "None" /\ run.at \in 1 .. 3
        /\ n.pc = IF run.at = 3 THEN "roundEnd" ELSE "pick"
    BY <1>1, <2>1, NextLaneFields
  <2>4. r \in Run /\ r.region = n.region /\ r.entered = n.entered /\ r.next = n.next
        /\ r.at = n.at /\ r.status = n.status /\ r.pc = n.pc
    BY <2>2, <2>3 DEF Run
  <2>5. run' = r
    BY <1>2, <2>1, <2>2
  <2> QED BY <1>1, <2>3, <2>4, <2>5, RunMoves
<1>3. CASE run' = [run EXCEPT !.pc = "lane"]
  <2>1. PICK r : r = [run EXCEPT !.pc = "lane"]
    OBVIOUS
  <2>2. r \in Run /\ r.region = run.region /\ r.entered = run.entered /\ r.next = run.next
        /\ r.at = run.at /\ r.status = run.status /\ r.pc = "lane"
    BY <1>1, <2>1 DEF Run
  <2> QED BY <1>1, <1>3, <2>1, <2>2, RunMoves DEF RunShape
<1> QED BY <1>2, <1>3 DEF LanePick

LEMMA DoneKeeps ==
  ASSUME KeptShape, LaneDone
  PROVE  KeptShape'
<1>1. /\ run.pc = "lane" /\ ShapeInv /\ starved \in [Lanes -> 0 .. StarvationCap]
      /\ UNCHANGED <<vars, config, lanes>> /\ run' = NextLane
      /\ starved' = [starved EXCEPT ![CurrentLane] = StarvedAfter(@)]
  BY DEF KeptShape, ShapeInv, LanesTypeOK, LaneDone
<1>2. PICK n : n = NextLane
  OBVIOUS
<1>3. /\ n \in Run /\ n.region = run.region /\ n.entered = run.entered /\ n.next = 1
      /\ n.at = run.at + 1 /\ n.status = "None" /\ run.at \in 1 .. 3
      /\ n.pc = (IF run.at = 3 THEN "roundEnd" ELSE "pick") /\ CurrentLane \in Lanes
  BY <1>1, <1>2, NextLaneFields
<1>4. \A k \in 0 .. StarvationCap : StarvedAfter(k) \in 0 .. StarvationCap
  BY LaneAssumption DEF StarvedAfter
<1>5. starved' \in [Lanes -> 0 .. StarvationCap]
  BY <1>1, <1>3, <1>4
<1> QED BY <1>1, <1>2, <1>3, <1>5, RunMoves

LEMMA BudgetOutKeeps ==
  ASSUME KeptShape, LaneBudgetOut
  PROVE  KeptShape'
BY StopKeeps DEF LaneBudgetOut, InLane, Statuses

LEMMA RoundEndKeeps ==
  ASSUME KeptShape, RoundEnd
  PROVE  KeptShape'
<1>1. /\ run.pc = "roundEnd" /\ run \in Run /\ RunShape
      /\ starved' \in [Lanes -> 0 .. StarvationCap] /\ UNCHANGED <<vars, config, lanes, starved>>
  BY DEF KeptShape, ShapeInv, LanesTypeOK, RoundEnd
<1>2. CASE Active = {} /\ Stop("Ok")
  BY <1>1, <1>2, StopKeeps DEF Statuses
<1>3. CASE Stop("BudgetExhausted")
  BY <1>1, <1>3, StopKeeps DEF Statuses
<1>4. CASE run' = [run EXCEPT !.pc = "round"]
  <2>1. PICK r : r = [run EXCEPT !.pc = "round"]
    OBVIOUS
  <2>2. r \in Run /\ r.region = run.region /\ r.entered = run.entered /\ r.next = run.next
        /\ r.status = run.status /\ r.pc = "round"
    BY <1>1, <2>1 DEF Run
  <2> QED BY <1>1, <1>4, <2>1, <2>2, RunMoves DEF RunShape
<1> QED BY <1>2, <1>3, <1>4 DEF RoundEnd

\* Between runs.
LEMMA IdleKeeps ==
  ASSUME ShapeInv, TypeInv', depth' = 0, taskCount' = taskCount,
         starved' = starved \/ starved' = [l \in Lanes |-> 0],
         config' \in Configs \cup {NoConfig}, lanes' = lanes \/ lanes' = Empty,
         run' = Idle \/ (run.pc = "idle" /\ run' = run)
  PROVE  KeptShape'
<1>1. Idle \in Run /\ run \in Run
  BY IdleType DEF ShapeInv, LanesTypeOK
<1>2. starved' \in [Lanes -> 0 .. StarvationCap]
  BY LaneAssumption DEF ShapeInv, LanesTypeOK
<1>3. /\ Empty \in [Lanes -> Seq(Entry)] /\ TasksIn(Empty) = {}
      /\ \A l \in Lanes : Len(Empty[l]) <= LaneCapacity
  BY LaneAssumption DEF Empty, TasksIn, AllEntries, ToSet
<1>4. /\ lanes' \in [Lanes -> Seq(Entry)] /\ TasksIn(lanes)' \subseteq TasksIn(lanes)
      /\ \A l \in Lanes : Len(lanes'[l]) <= LaneCapacity
  <2>1. CASE lanes' = lanes
    BY <2>1 DEF ShapeInv, LanesTypeOK, TasksIn, AllEntries
  <2>2. CASE lanes' = Empty
    <3>1. TasksIn(lanes)' = {}
      BY <1>3, <2>2
    <3> QED BY <1>3, <2>2, <3>1
  <2> QED BY <2>1, <2>2
<1>5. LanesTypeOK'
  BY <1>1, <1>2, <1>4 DEF LanesTypeOK
<1>6. /\ Idle.pc = "idle" /\ Idle.status = "None" /\ Idle.entered = {} /\ Idle.next = 1
  BY DEF Idle
<1>7. RunShape'
  BY <1>4, <1>6 DEF RunShape, ShapeInv
<1>8. KeepInv'
  BY <1>6 DEF KeepInv, ShapeInv, RunShape
<1> QED BY <1>5, <1>7, <1>8 DEF KeptShape, ShapeInv

LEMMA ParallelReturnKeeps ==
  ASSUME KeptShape, ParallelReturn
  PROVE  KeptShape'
<1>1. TypeInv' /\ depth' = 0 /\ config' \in Configs \cup {NoConfig} /\ taskCount' = taskCount
  BY SameTypes DEF KeptShape, ShapeInv, LanesTypeOK, ParallelReturn, vars, lifecycleVars
<1> QED BY <1>1, IdleKeeps DEF ParallelReturn, KeptShape

LEMMA ConfigureKeeps ==
  ASSUME KeptShape, NEW c \in Configs \cup {NoConfig}, Configure(c)
  PROVE  KeptShape'
<1>1. TypeInv' /\ depth' = 0 /\ taskCount' = taskCount
  BY SameTypes DEF KeptShape, ShapeInv, LanesTypeOK, Configure, vars, lifecycleVars
<1> QED BY <1>1, IdleKeeps DEF Configure, KeptShape

\* A run begins with the live tasks of its region in the lanes.
LEMMA ParallelRunKeeps ==
  ASSUME KeptShape, NEW h \in RegionHandles, NEW budget \in 0 .. MaxBudget, ParallelRun(h, budget)
  PROVE  KeptShape'
<1>1. /\ LifecycleTypeOK /\ LanesTypeOK /\ TypeInv' /\ depth' = 0
      /\ UNCHANGED <<vars, config, starved>> /\ config # NoConfig /\ lanes' = Classified(h)
      /\ tasks' = tasks /\ taskCount' = taskCount
  BY SameTypes DEF KeptShape, ShapeInv, TypeInv, TypeOK, ParallelRun, vars, lifecycleVars
<1>2. PICK e \in SUBSET TaskSlots : e = LiveTasks(h)
  BY DEF LiveTasks
<1>3. PICK r : r = [Idle EXCEPT !.pc = "round", !.region = h, !.budget = budget, !.entered = e]
  OBVIOUS
<1>4. r \in Run /\ r.region = h /\ r.entered = e /\ r.next = 1 /\ r.status = "None"
      /\ r.pc = "round"
  <2>1. Idle \in Run /\ Idle.next = 1 /\ Idle.status = "None"
    BY IdleType DEF Idle
  <2> HIDE DEF Idle
  <2> QED BY <1>3, <2>1 DEF Run
<1>5. run' = r
  BY <1>2, <1>3 DEF ParallelRun
<1>6. /\ Classified(h) \in [Lanes -> Seq(Entry)] /\ TasksIn(Classified(h)) = LiveTasks(h)
      /\ \A l \in Lanes : Len(Classified(h)[l]) <= LaneCapacity
  BY <1>1, ClassifiedLanes
<1>7. TasksIn(lanes)' = e /\ \A i \in e : i < taskCount
  <2>1. TasksIn(lanes)' = LiveTasks(h)
    BY <1>1, <1>6
  <2> QED BY <1>2, <2>1 DEF LiveTasks
<1>8. LanesTypeOK'
  BY <1>1, <1>4, <1>5, <1>6 DEF LanesTypeOK
<1>9. RunShape'
  BY <1>1, <1>4, <1>5, <1>7 DEF RunShape
<1>10. KeepInv'
  BY <1>4, <1>5, <1>7 DEF KeepInv
<1> QED BY <1>1, <1>8, <1>9, <1>10 DEF KeptShape, ShapeInv

\* A step during a run, or an operation of the kernel: completed tasks stay completed, and
\* the lanes may lose those and the ones a callback takes out.
LEMMA LaneStep ==
  ASSUME KeptShape, TypeInv', depth' = 0, UNCHANGED <<config, starved>>,
         taskCount' = taskCount \/ taskCount' = taskCount + 1,
         \A i \in TaskSlots :
           i < taskCount /\ IsTerminal(tasks[i].state) => IsTerminal(tasks'[i].state),
         NEW ls \in [Lanes -> Seq(Entry)], lanes' = ls, \A l \in Lanes : Len(ls[l]) <= LaneCapacity,
         \A i \in TasksIn(ls) : i < taskCount,
         NEW r \in Run, run' = r, r.region = run.region, r.entered \subseteq run.entered,
         r.next >= 1, r.pc = "idle" <=> run.pc = "idle", r.pc \in {"idle", "lane", "poll", "return"},
         r.pc \in {"lane", "poll"} => r.at <= 3,
         r.pc # "return" => r.status = "None", r.status # "Ok",
         \A i \in r.entered :
           ~IsTerminal(tasks'[i].state) /\ i \in TasksIn(lanes) => i \in TasksIn(ls),
         r.pc = "poll" => r.tid.task < taskCount /\ ~IsTerminal(tasks'[r.tid.task].state)
  PROVE  KeptShape'
<1>1. /\ LanesTypeOK /\ RunShape /\ KeepInv /\ run.entered \subseteq TaskSlots
      /\ TasksIn(ls) \subseteq TaskSlots /\ r.tid.task \in TaskSlots
      /\ taskCount \in Nat /\ TaskSlots \subseteq Nat
  <2>1. LanesTypeOK /\ RunShape /\ KeepInv /\ run.entered \subseteq TaskSlots
    BY RunFields DEF KeptShape, ShapeInv
  <2>2. TasksIn(ls) \subseteq TaskSlots
    BY EntriesTyped
  <2>3. r.tid \in Entry /\ r.tid.task \in TaskSlots
    BY DEF Run, Entry
  <2>4. taskCount \in Nat /\ TaskSlots \subseteq Nat
    BY DEF KeptShape, ShapeInv, TypeInv, TypeOK, LifecycleTypeOK, TaskSlots
  <2> QED BY <2>1, <2>2, <2>3, <2>4
<1>2. TasksIn(lanes)' = TasksIn(ls)
  OBVIOUS
<1>3. LanesTypeOK'
  BY <1>1 DEF LanesTypeOK
<1>4. \A i \in TaskSlots : i < taskCount => i < taskCount'
  BY <1>1
<1>5. RunShape'
  <2>1. \A i \in TasksIn(ls) \cup r.entered : i < taskCount'
    BY <1>1, <1>4 DEF RunShape
  <2> QED BY <1>1, <1>2, <1>4, <2>1 DEF RunShape
<1>6. KeepInv'
  <2>1. ASSUME NEW i \in r.entered, r.pc # "idle", ~IsTerminal(tasks'[i].state)
        PROVE  i \in TasksIn(ls)
    <3>1. i \in run.entered /\ i \in TaskSlots /\ i < taskCount
      BY <1>1 DEF RunShape
    <3>2. ~IsTerminal(tasks[i].state) /\ run.pc # "idle"
      BY <2>1, <3>1
    <3> QED BY <1>1, <2>1, <3>1, <3>2 DEF KeepInv
  <2> QED BY <1>2, <2>1 DEF KeepInv
<1> QED BY <1>3, <1>5, <1>6 DEF KeptShape, ShapeInv

LEMMA KernelKeeps ==
  ASSUME KeptShape, KernelOperation
  PROVE  KeptShape'
<1>1. /\ TypeInv' /\ depth' = 0 /\ TasksGrow /\ run.pc \in {"idle", "poll"}
      /\ UNCHANGED <<config, starved, lanes, run>>
  BY KernelGrows DEF KeptShape, KernelOperation, laneVars
<1>2. PICK ls \in [Lanes -> Seq(Entry)] : ls = lanes
  BY DEF KeptShape, ShapeInv, LanesTypeOK
<1>3. PICK r \in Run : r = run
  BY DEF KeptShape, ShapeInv, LanesTypeOK
<1>4. /\ \A i \in TasksIn(ls) : i < taskCount
      /\ \A l \in Lanes : Len(ls[l]) <= LaneCapacity
      /\ r.next >= 1 /\ (r.pc = "poll" => r.at <= 3) /\ r.status = "None"
      /\ r.pc = "poll" => r.tid.task < taskCount /\ ~IsTerminal(tasks[r.tid.task].state)
  BY <1>1, <1>2, <1>3 DEF KeptShape, ShapeInv, LanesTypeOK, RunShape
<1>5. \A i \in TaskSlots : i < taskCount => (IsTerminal(tasks[i].state) <=> IsTerminal(tasks'[i].state))
  BY <1>1 DEF TasksGrow, Kept
<1>6. r.tid.task \in TaskSlots
  BY <1>3, RunFields DEF KeptShape, ShapeInv
<1>7. r.pc = "poll" => r.tid.task < taskCount /\ ~IsTerminal(tasks'[r.tid.task].state)
  BY <1>4, <1>5, <1>6
<1> QED BY <1>1, <1>2, <1>3, <1>4, <1>5, <1>7, LaneStep DEF TasksGrow

\* A callback assigns a task to a lane.
LEMMA AssignKeeps ==
  ASSUME KeptShape, NEW i \in TaskSlots, NEW l \in Lanes, LaneAssign(i, l)
  PROVE  KeptShape'
<1>1. /\ TypeInv' /\ depth' = 0 /\ LanesTypeOK /\ RunShape /\ run.pc = "poll"
      /\ UNCHANGED <<config, starved, run, tasks, taskCount>>
      /\ i < taskCount /\ Len(lanes[l]) < LaneCapacity
  BY SameTypes DEF KeptShape, ShapeInv, LaneAssign, vars, lifecycleVars
<1>2. PICK old \in [Lanes -> Seq(Entry)] : old = lanes
  BY <1>1 DEF LanesTypeOK
<1>3. PICK e \in Entry : e = [task |-> i, mask |-> "Created"] /\ e.task = i
  <2>1. [task |-> i, mask |-> "Created"] \in Entry
    BY DEF Entry, TaskStates
  <2> QED BY <2>1
<1>4. PICK ls : ls = [old EXCEPT ![l] = Append(@, e)]
  OBVIOUS
<1>5. lanes' = ls
  BY <1>2, <1>3, <1>4 DEF LaneAssign
<1>6. /\ ls \in [Lanes -> Seq(Entry)] /\ AllEntries(ls) = AllEntries(old) \cup {e}
      /\ \A m \in Lanes : Len(ls[m]) = IF m = l THEN Len(old[m]) + 1 ELSE Len(old[m])
  BY <1>4, LaneGrown
<1>7. TasksIn(ls) = TasksIn(old) \cup {i}
  BY <1>3, <1>6 DEF TasksIn
<1>8. \A m \in Lanes : Len(ls[m]) <= LaneCapacity
  <2> SUFFICES ASSUME NEW m \in Lanes PROVE Len(ls[m]) <= LaneCapacity
    OBVIOUS
  <2>1. Len(old[m]) \in Nat /\ Len(old[m]) <= LaneCapacity /\ LaneCapacity \in Nat
        /\ Len(old[l]) \in Nat
    BY <1>1, <1>2, LaneAssumption DEF LanesTypeOK
  <2> QED BY <1>1, <1>2, <1>6, <2>1
<1>9. PICK r \in Run : r = run
  BY <1>1 DEF LanesTypeOK
<1>10. /\ \A j \in TasksIn(ls) : j < taskCount
       /\ r.next >= 1 /\ r.pc = "poll" /\ r.at <= 3 /\ r.status = "None"
       /\ r.tid.task < taskCount /\ ~IsTerminal(tasks[r.tid.task].state)
  BY <1>1, <1>2, <1>7, <1>9 DEF RunShape
<1> QED BY <1>1, <1>2, <1>5, <1>6, <1>7, <1>8, <1>9, <1>10, LaneStep

\* A callback takes an entry out of its lane.
LEMMA RemoveKeeps ==
  ASSUME KeptShape, NEW e \in AllEntries(lanes), LaneRemove(e)
  PROVE  KeptShape'
<1>1. /\ TypeInv' /\ depth' = 0 /\ LanesTypeOK /\ RunShape /\ run.pc = "poll"
      /\ UNCHANGED <<config, starved, tasks, taskCount>>
  BY SameTypes DEF KeptShape, ShapeInv, LaneRemove, vars, lifecycleVars
<1>2. PICK old \in [Lanes -> Seq(Entry)] : old = lanes
  BY <1>1 DEF LanesTypeOK
<1>3. e \in Entry
  BY <1>1, EntriesTyped DEF LanesTypeOK
<1>4. PICK ls : ls = Removed(old, e)
  OBVIOUS
<1>5. /\ ls \in [Lanes -> Seq(Entry)] /\ TasksIn(ls) \subseteq TasksIn(old)
      /\ TasksIn(old) \subseteq TasksIn(ls) \cup {e.task}
      /\ \A l \in Lanes : Len(ls[l]) <= Len(old[l])
  BY <1>3, <1>4, RemovedEntries, RemovedTasks
<1>6. \A l \in Lanes : Len(ls[l]) <= LaneCapacity
  BY <1>1, <1>2, <1>5, LanesShrink
<1>7. PICK r : r = [run EXCEPT !.entered = @ \ {e.task}]
  OBVIOUS
<1>8. /\ r \in Run /\ r.region = run.region /\ r.entered = run.entered \ {e.task}
      /\ r.next = run.next /\ r.pc = "poll" /\ r.at = run.at /\ r.status = run.status
      /\ r.tid = run.tid
  BY <1>1, <1>7 DEF LanesTypeOK, Run
<1>9. lanes' = ls /\ run' = r
  BY <1>2, <1>4, <1>7 DEF LaneRemove
<1>10. /\ \A j \in TasksIn(ls) : j < taskCount
       /\ r.next >= 1 /\ r.at <= 3 /\ r.status = "None"
       /\ r.tid.task < taskCount /\ ~IsTerminal(tasks[r.tid.task].state)
  BY <1>1, <1>2, <1>5, <1>8 DEF RunShape
<1> QED BY <1>1, <1>2, <1>5, <1>6, <1>8, <1>9, <1>10, LaneStep

LEMMA PruneKeeps ==
  ASSUME KeptShape, LanePrune
  PROVE  KeptShape'
<1>1. /\ TypeInv' /\ depth' = 0 /\ LanesTypeOK /\ RunShape /\ run.pc = "lane"
      /\ UNCHANGED <<config, starved, run, tasks, taskCount>>
  BY SameTypes DEF KeptShape, ShapeInv, LanePrune, InLane, vars, lifecycleVars
<1>2. PICK old \in [Lanes -> Seq(Entry)] : old = lanes
  BY <1>1 DEF LanesTypeOK
<1>3. PICK e \in Entry : e = Current
  BY CurrentFacts DEF KeptShape, LanePrune
<1>4. PICK ls : ls = Removed(old, e)
  OBVIOUS
<1>5. /\ ls \in [Lanes -> Seq(Entry)] /\ TasksIn(ls) \subseteq TasksIn(old)
      /\ TasksIn(old) \subseteq TasksIn(ls) \cup {e.task}
      /\ \A l \in Lanes : Len(ls[l]) <= Len(old[l])
  BY <1>4, RemovedEntries, RemovedTasks
<1>6. \A l \in Lanes : Len(ls[l]) <= LaneCapacity
  BY <1>1, <1>2, <1>5, LanesShrink
<1>7. PICK r \in Run : r = run
  BY <1>1 DEF LanesTypeOK
<1>8. lanes' = ls /\ IsTerminal(tasks[e.task].state)
  BY <1>2, <1>3, <1>4 DEF LanePrune
<1>9. /\ \A j \in TasksIn(ls) : j < taskCount
      /\ r.next >= 1 /\ r.pc = "lane" /\ r.at <= 3 /\ r.status = "None"
  BY <1>1, <1>2, <1>5, <1>7 DEF RunShape
<1>10. \A j \in r.entered : ~IsTerminal(tasks'[j].state) /\ j \in TasksIn(lanes) => j \in TasksIn(ls)
  BY <1>1, <1>2, <1>5, <1>8
<1> QED BY <1>1, <1>5, <1>6, <1>7, <1>8, <1>9, <1>10, LaneStep

\* One task completes, the others stay what they are.
LEMMA OneEnds ==
  ASSUME LifecycleTypeOK, NEW i \in TaskSlots, NEW t \in Task, i < taskCount,
         Ended(tasks[i], t), taskCount' = taskCount, tasks' = [tasks EXCEPT ![i] = t]
  PROVE  TaskEnds(i) /\ tasks' \in [TaskSlots -> Task]
<1>1. tasks \in [TaskSlots -> Task] /\ tasks'[i] = t /\ \A j \in TaskSlots \ {i} : tasks'[j] = tasks[j]
  BY DEF LifecycleTypeOK
<1>2. \A j \in TaskSlots \ {i} : Kept(tasks[j], tasks'[j])
  BY <1>1 DEF Kept
<1> QED BY <1>1, <1>2 DEF TaskEnds, LifecycleTypeOK

\* A task of a lane that is completed without being polled.
LEMMA ForceEnds ==
  ASSUME ShapeInv, LaneForce
  PROVE  /\ TaskEnds(Current.task) /\ tasks' \in [TaskSlots -> Task]
         /\ run.region \in RegionHandles /\ run.region.slot \in RegionSlots
<1>1. PICK i \in TaskSlots : i = Current.task
  BY CurrentFacts DEF LaneForce
<1>2. /\ i < taskCount /\ tasks[i] \in Task /\ LifecycleTypeOK /\ run.pc = "lane" /\ RunShape
  BY <1>1, CurrentFacts DEF LaneForce, InLane, ShapeInv, TypeInv, TypeOK
<1>3. ~IsTerminal(tasks[i].state)
  BY <1>1 DEF LaneForce, OutOfCleanup, IsTerminal
<1>4. PICK t : t = ForcedCompletion(tasks[i])
  OBVIOUS
<1>5. t \in Task /\ Ended(tasks[i], t)
  BY <1>2, <1>3, <1>4, CompleteType, CompleteEnds
<1>6. tasks' = [tasks EXCEPT ![i] = t] /\ taskCount' = taskCount
  BY <1>1, <1>4 DEF LaneForce
<1>7. TaskEnds(i) /\ tasks' \in [TaskSlots -> Task]
  BY <1>2, <1>5, <1>6, OneEnds
<1> QED BY <1>1, <1>2, <1>7 DEF RunShape, RegionHandles

LEMMA ForceKeeps ==
  ASSUME KeptShape, LaneForce
  PROVE  KeptShape'
<1>1. /\ LanesTypeOK /\ RunShape /\ ShapeInv /\ run.pc = "lane" /\ InLane
      /\ UNCHANGED <<config, starved, run, taskCount, obligations, obligationCount, schedulerVars>>
      /\ regions' = Uncount(run.region.slot)
  BY DEF KeptShape, ShapeInv, LaneForce, InLane
<1>2. /\ TaskEnds(Current.task) /\ tasks' \in [TaskSlots -> Task] /\ run.region.slot \in RegionSlots
  BY <1>1, ForceEnds
<1>3. TypeInv' /\ depth' = 0
  BY <1>1, <1>2, EndKeepsTypes
<1>4. PICK i \in TaskSlots : i = Current.task
  BY <1>1, CurrentFacts
<1>5. PICK e \in Entry : e = EntryOf(i) /\ e.task = i
  BY <1>1, <1>4, CurrentFacts
<1>6. PICK mid \in [Lanes -> Seq(Entry)] : mid = Refreshed
  BY <1>1, CurrentFacts
<1>7. TasksIn(mid) = TasksIn(lanes) /\ \A l \in Lanes : Len(mid[l]) = Len(lanes[l])
  BY <1>1, <1>6, CurrentFacts
<1>8. PICK ls : ls = Removed(mid, e)
  OBVIOUS
<1>9. /\ ls \in [Lanes -> Seq(Entry)] /\ TasksIn(ls) \subseteq TasksIn(lanes)
      /\ TasksIn(lanes) \subseteq TasksIn(ls) \cup {i}
      /\ \A l \in Lanes : Len(ls[l]) <= Len(mid[l])
  BY <1>5, <1>7, <1>8, RemovedEntries, RemovedTasks
<1>10. \A l \in Lanes : Len(ls[l]) <= LaneCapacity
  BY <1>1, <1>7, <1>9, LanesShrink
<1>11. PICK r \in Run : r = run
  BY <1>1 DEF LanesTypeOK
<1>12. lanes' = ls
  BY <1>4, <1>5, <1>6, <1>8 DEF LaneForce
<1>13. /\ \A j \in TasksIn(ls) : j < taskCount
       /\ r.next >= 1 /\ r.pc = "lane" /\ r.at <= 3 /\ r.status = "None"
  BY <1>1, <1>9, <1>11 DEF RunShape
<1>14. IsTerminal(tasks'[i].state)
       /\ \A j \in TaskSlots : IsTerminal(tasks[j].state) => IsTerminal(tasks'[j].state)
  BY <1>2, <1>4 DEF TaskEnds, Ended, Kept
<1>15. \A j \in r.entered : ~IsTerminal(tasks'[j].state) /\ j \in TasksIn(lanes) => j \in TasksIn(ls)
  BY <1>9, <1>14
<1> QED BY <1>1, <1>3, <1>9, <1>10, <1>11, <1>12, <1>13, <1>14, <1>15, LaneStep

\* A task of a lane is polled.
LEMMA PollKeeps ==
  ASSUME KeptShape, LanePoll
  PROVE  KeptShape' /\ TasksKept
<1>1. /\ LanesTypeOK /\ RunShape /\ ShapeInv /\ run.pc = "lane" /\ InLane /\ run.budget > 0
      /\ UNCHANGED <<regions, config, starved, taskCount, obligations, obligationCount, schedulerVars>>
  BY DEF KeptShape, ShapeInv, LanePoll, InLane
<1>2. PICK i \in TaskSlots : i = Current.task
  BY <1>1, CurrentFacts
<1>3. PICK e \in Entry : e = EntryOf(i) /\ e.task = i
  BY <1>1, <1>2, CurrentFacts
<1>4. PICK ls \in [Lanes -> Seq(Entry)] : ls = Refreshed
  BY <1>1, CurrentFacts
<1>5. TasksIn(ls) = TasksIn(lanes) /\ \A l \in Lanes : Len(ls[l]) = Len(lanes[l])
  BY <1>1, <1>4, CurrentFacts
<1>6. PICK t : t = [tasks[i] EXCEPT !.state = IF tasks[i].state = "Created" THEN "Running"
                                              ELSE tasks[i].state]
  OBVIOUS
<1>7. tasks[i] \in Task /\ i < taskCount /\ LifecycleTypeOK /\ ~IsTerminal(tasks[i].state)
  BY <1>1, <1>2, CurrentFacts DEF LanePoll, ShapeInv, TypeInv, TypeOK
<1>8. t \in Task /\ Kept(tasks[i], t)
  BY <1>6, <1>7, PolledKeeps DEF Task, TaskStates
<1>9. tasks' = [tasks EXCEPT ![i] = t]
  BY <1>2, <1>6 DEF LanePoll
<1>10. tasks' \in [TaskSlots -> Task] /\ TasksKept
  BY <1>1, <1>7, <1>8, <1>9, OneTaskKept DEF LifecycleTypeOK
<1>11. TypeInv' /\ depth' = 0
  BY <1>1, <1>10, TasksOnly DEF ShapeInv, schedulerVars
<1>12. PICK r : r = [run EXCEPT !.pc = "poll", !.budget = ConsumePoll(@), !.polls = @ + 1,
                                !.tid = e, !.anyPolled = TRUE]
  OBVIOUS
<1>13. PICK b \in 0 .. MaxBudget : b = ConsumePoll(run.budget)
  BY <1>1, RunFields, SchedulerAssumption DEF ConsumePoll
<1>14. r \in Run /\ r.region = run.region /\ r.entered = run.entered /\ r.next = run.next
       /\ r.status = run.status /\ r.pc = "poll" /\ r.at = run.at /\ r.tid = e
  <2>1. run.polls + 1 \in Nat /\ run \in Run
    BY <1>1, RunFields DEF LanesTypeOK
  <2>2. r = [run EXCEPT !.pc = "poll", !.budget = b, !.polls = run.polls + 1,
                        !.tid = e, !.anyPolled = TRUE]
    BY <1>12, <1>13
  <2>3. r \in Run
    BY <1>13, <2>1, <2>2, Zenon DEF Run
  <2> QED BY <2>1, <2>2, <2>3 DEF Run
<1>15. lanes' = ls /\ run' = r
  BY <1>2, <1>3, <1>4, <1>12 DEF LanePoll
<1>16. /\ \A j \in TasksIn(ls) : j < taskCount
       /\ r.next >= 1 /\ r.at <= 3 /\ r.status = "None"
       /\ r.tid.task < taskCount /\ ~IsTerminal(tasks'[r.tid.task].state)
       /\ \A l \in Lanes : Len(ls[l]) <= LaneCapacity
  BY <1>1, <1>3, <1>5, <1>7, <1>10, <1>14 DEF RunShape, TasksKept, Kept, LanesTypeOK
<1>17. \A j \in TaskSlots : IsTerminal(tasks[j].state) => IsTerminal(tasks'[j].state)
  BY <1>10 DEF TasksKept, Kept
<1> QED BY <1>1, <1>5, <1>10, <1>11, <1>14, <1>15, <1>16, <1>17, LaneStep

\* The task whose callback answers.
LEMMA AnswerFacts ==
  ASSUME ShapeInv, run.pc = "poll"
  PROVE  /\ run.tid \in Entry /\ run.tid.task \in TaskSlots /\ run.tid.task < taskCount
         /\ tasks[run.tid.task] \in Task /\ ~IsTerminal(tasks[run.tid.task].state)
         /\ LifecycleTypeOK /\ LanesTypeOK /\ RunShape /\ run.at <= 3 /\ run.next >= 1
         /\ run.region \in RegionHandles /\ run.region.slot \in RegionSlots
         /\ run.status = "None" /\ Idle.tid \in Entry
<1>1. LifecycleTypeOK /\ LanesTypeOK /\ RunShape
  BY DEF ShapeInv, TypeInv, TypeOK
<1>2. Idle.tid \in Entry
  BY IdleType DEF Run
<1> QED BY <1>1, <1>2, RunFields DEF RunShape, LifecycleTypeOK, RegionHandles

\* A callback that does not pend ends its task, and what the region keeps is one count less.
LEMMA AnswerEnds ==
  ASSUME ShapeInv, ParallelOk \/ ParallelError
  PROVE  /\ TaskEnds(run.tid.task) /\ tasks' \in [TaskSlots -> Task]
         /\ regions' = Uncount(run.region.slot)
            \/ regions' = [Uncount(run.region.slot) EXCEPT ![run.region.slot].poisoned = TRUE]
         /\ lanes' = Removed(lanes, run.tid)
<1>1. /\ run.pc = "poll" /\ taskCount' = taskCount /\ lanes' = Removed(lanes, run.tid)
  BY DEF ParallelOk, ParallelError, Answered
<1>2. PICK i \in TaskSlots : i = run.tid.task
  BY <1>1, AnswerFacts
<1>3. tasks[i] \in Task /\ i < taskCount /\ ~IsTerminal(tasks[i].state) /\ LifecycleTypeOK
  BY <1>1, <1>2, AnswerFacts
<1>4. PICK o \in {"Ok", "Err"} :
        /\ LET done == [tasks EXCEPT ![i] = Complete(@, o)]
           IN  tasks' = done \/ tasks' = Propagated(done, run.region, "Resource")
        /\ \/ regions' = Uncount(run.region.slot)
           \/ regions' = [Uncount(run.region.slot) EXCEPT ![run.region.slot].poisoned = TRUE]
  <2>1. CASE ParallelOk
    BY <1>2, <2>1 DEF ParallelOk, Answered
  <2>2. CASE ParallelError
    BY <1>2, <2>2 DEF ParallelError, Answered, Poisoned
  <2> QED BY <2>1, <2>2
<1>5. PICK t : t = Complete(tasks[i], o)
  OBVIOUS
<1>6. t \in Task /\ Ended(tasks[i], t)
  BY <1>3, <1>5, CompleteType, CompleteEnds
<1>7. PICK done : done = [tasks EXCEPT ![i] = t]
  OBVIOUS
<1>8. /\ done \in [TaskSlots -> Task] /\ done[i] = t
      /\ \A j \in TaskSlots \ {i} : done[j] = tasks[j]
      /\ tasks' = done \/ tasks' = Propagated(done, run.region, "Resource")
  BY <1>3, <1>4, <1>5, <1>6, <1>7 DEF LifecycleTypeOK
<1>9. tasks' \in [TaskSlots -> Task] /\ \A j \in TaskSlots : Kept(done[j], tasks'[j])
  <2>1. "Resource" \in CancelKinds
    BY DEF CancelKinds
  <2>2. CASE tasks' = done
    BY <1>8, <2>2, PolledKeeps
  <2>3. CASE tasks' = Propagated(done, run.region, "Resource")
    <3>1. PICK d \in [TaskSlots -> Task], h \in RegionHandles,
               p \in {Propagated(done, run.region, "Resource")} :
            d = done /\ h = run.region /\ p = Propagated(d, h, "Resource")
      BY <1>1, <1>8, AnswerFacts
    <3>2. p \in [TaskSlots -> Task]
      BY <2>1, <3>1, PropagatedType
    <3>3. \A j \in TaskSlots : Kept(d[j], p[j])
      BY <2>1, <3>1, PropagatedKeeps
    <3> QED BY <2>3, <3>1, <3>2, <3>3
  <2> QED BY <1>8, <2>2, <2>3
<1>10. TaskEnds(i)
  <2>1. Ended(tasks[i], tasks'[i])
    BY <1>6, <1>8, <1>9 DEF Ended, Kept
  <2>2. \A j \in TaskSlots \ {i} : Kept(tasks[j], tasks'[j])
    BY <1>8, <1>9
  <2> QED BY <1>1, <1>3, <2>1, <2>2 DEF TaskEnds
<1> QED BY <1>1, <1>2, <1>4, <1>9, <1>10

\* Where a run goes on when a callback has answered.
LEMMA AnsweredRun ==
  ASSUME ShapeInv, run.pc = "poll", NEW n \in {0, 1}, Answer(n) \/ Stop("Fault")
  PROVE  \E r \in Run : /\ run' = r /\ r.region = run.region /\ r.entered = run.entered
                        /\ r.next >= 1 /\ r.next \in {run.next, run.next + 1}
                        /\ r.busy = run.busy /\ r.quotas = run.quotas /\ r.anyPolled = run.anyPolled
                        /\ r.polls = run.polls /\ r.at = run.at
                        /\ \/ r.pc = "lane" /\ r.status = "None"
                           \/ r.pc = "return" /\ r.status = "Fault"
<1>1. run \in Run /\ run.next \in Nat /\ run.next >= 1 /\ Idle.tid \in Entry /\ run.status = "None"
  BY AnswerFacts, RunFields DEF LanesTypeOK
<1>2. CASE Answer(n)
  <2>1. PICK m, e : m = run.next + n /\ e = Idle.tid
    OBVIOUS
  <2>2. m \in Nat /\ m >= 1 /\ m \in {run.next, run.next + 1} /\ e \in Entry
    BY <1>1, <2>1
  <2>3. PICK r : r = [run EXCEPT !.pc = "lane", !.next = m, !.tid = e]
    OBVIOUS
  <2>4. run' = r
    BY <1>2, <2>1, <2>3 DEF Answer
  <2>5. r \in Run /\ r.next = m /\ r.region = run.region /\ r.entered = run.entered
        /\ r.pc = "lane" /\ r.status = run.status /\ r.at = run.at
        /\ r.busy = run.busy /\ r.quotas = run.quotas /\ r.anyPolled = run.anyPolled
        /\ r.polls = run.polls
    BY <1>1, <2>2, <2>3 DEF Run
  <2> QED BY <1>1, <2>2, <2>4, <2>5
<1>3. CASE Stop("Fault")
  <2>1. PICK r : r = [run EXCEPT !.pc = "return", !.status = "Fault"]
    OBVIOUS
  <2>2. run' = r
    BY <1>3, <2>1 DEF Stop
  <2>3. r \in Run /\ r.next = run.next /\ r.region = run.region /\ r.entered = run.entered
        /\ r.pc = "return" /\ r.status = "Fault" /\ r.at = run.at
        /\ r.busy = run.busy /\ r.quotas = run.quotas /\ r.anyPolled = run.anyPolled
        /\ r.polls = run.polls
    BY <1>1, <2>1 DEF Run, Statuses
  <2> QED BY <1>1, <2>2, <2>3
<1> QED BY <1>2, <1>3

LEMMA AnswerKeeps ==
  ASSUME KeptShape, ParallelOk \/ ParallelError
  PROVE  KeptShape'
<1>1. /\ run.pc = "poll" /\ ShapeInv /\ (Answer(0) \/ Stop("Fault"))
      /\ UNCHANGED <<config, starved, taskCount, obligations, obligationCount, schedulerVars>>
  BY DEF ParallelOk, ParallelError, Answered, KeptShape
<1>2. PICK e \in Entry : e = run.tid
  BY <1>1, AnswerFacts
<1>3. /\ e.task \in TaskSlots /\ LanesTypeOK /\ RunShape /\ run.region.slot \in RegionSlots
      /\ run.at <= 3 /\ run.status = "None"
  BY <1>1, <1>2, AnswerFacts
<1>4. /\ TaskEnds(e.task) /\ tasks' \in [TaskSlots -> Task] /\ lanes' = Removed(lanes, e)
      /\ regions' = Uncount(run.region.slot)
         \/ regions' = [Uncount(run.region.slot) EXCEPT ![run.region.slot].poisoned = TRUE]
  BY <1>1, <1>2, AnswerEnds
<1>5. TypeInv' /\ depth' = 0
  BY <1>1, <1>3, <1>4, EndKeepsTypes
<1>6. PICK old \in [Lanes -> Seq(Entry)] : old = lanes
  BY <1>3 DEF LanesTypeOK
<1>7. PICK ls : ls = Removed(old, e)
  OBVIOUS
<1>8. /\ ls \in [Lanes -> Seq(Entry)] /\ TasksIn(ls) \subseteq TasksIn(old)
      /\ TasksIn(old) \subseteq TasksIn(ls) \cup {e.task}
      /\ \A l \in Lanes : Len(ls[l]) <= Len(old[l])
  BY <1>7, RemovedEntries, RemovedTasks
<1>9. \A l \in Lanes : Len(ls[l]) <= LaneCapacity
  BY <1>3, <1>6, <1>8, LanesShrink
<1>10. PICK r \in Run : /\ run' = r /\ r.region = run.region /\ r.entered = run.entered
                        /\ r.next >= 1 /\ r.at = run.at
                        /\ \/ r.pc = "lane" /\ r.status = "None"
                           \/ r.pc = "return" /\ r.status = "Fault"
  BY <1>1, AnsweredRun
<1>11. IsTerminal(tasks'[e.task].state)
       /\ \A j \in TaskSlots : IsTerminal(tasks[j].state) => IsTerminal(tasks'[j].state)
  BY <1>4 DEF TaskEnds, Ended, Kept
<1>12. \A j \in TasksIn(ls) : j < taskCount
  BY <1>3, <1>6, <1>8 DEF RunShape
<1>13. \A j \in r.entered : ~IsTerminal(tasks'[j].state) /\ j \in TasksIn(lanes) => j \in TasksIn(ls)
  BY <1>6, <1>8, <1>11
<1>14. lanes' = ls
  BY <1>4, <1>6, <1>7
<1> QED BY <1>1, <1>3, <1>5, <1>8, <1>9, <1>10, <1>11, <1>12, <1>13, <1>14, LaneStep

LEMMA PendingKeeps ==
  ASSUME KeptShape, ParallelPending
  PROVE  KeptShape' /\ TasksKept
<1>1. /\ run.pc = "poll" /\ ShapeInv /\ Answer(1)
      /\ UNCHANGED <<regions, lanes, config, starved, taskCount, obligations, obligationCount,
                     schedulerVars>>
  BY DEF ParallelPending, Answered, KeptShape
<1>2. PICK i \in TaskSlots : i = run.tid.task
  BY <1>1, AnswerFacts
<1>3. tasks[i] \in Task /\ LifecycleTypeOK /\ LanesTypeOK /\ RunShape /\ run.at <= 3
  BY <1>1, <1>2, AnswerFacts
<1>4. PICK t : t = Spent(tasks[i])
  OBVIOUS
<1>5. t \in Task /\ Kept(tasks[i], t)
  BY <1>3, <1>4, SpentType, PolledKeeps
<1>6. tasks' = [tasks EXCEPT ![i] = t]
  BY <1>2, <1>4 DEF ParallelPending, Answered
<1>7. tasks' \in [TaskSlots -> Task] /\ TasksKept
  BY <1>1, <1>3, <1>5, <1>6, OneTaskKept DEF LifecycleTypeOK
<1>8. TypeInv' /\ depth' = 0
  BY <1>1, <1>7, TasksOnly DEF ShapeInv, schedulerVars
<1>9. PICK r \in Run : /\ run' = r /\ r.region = run.region /\ r.entered = run.entered
                       /\ r.next >= 1 /\ r.at = run.at
                       /\ \/ r.pc = "lane" /\ r.status = "None"
                          \/ r.pc = "return" /\ r.status = "Fault"
  BY <1>1, AnsweredRun
<1>10. PICK ls \in [Lanes -> Seq(Entry)] : ls = lanes
  BY <1>3 DEF LanesTypeOK
<1>11. /\ \A j \in TasksIn(ls) : j < taskCount
       /\ \A l \in Lanes : Len(ls[l]) <= LaneCapacity
  BY <1>3, <1>10 DEF RunShape, LanesTypeOK
<1>12. \A j \in TaskSlots : IsTerminal(tasks[j].state) => IsTerminal(tasks'[j].state)
  BY <1>7 DEF TasksKept, Kept
<1> QED BY <1>1, <1>3, <1>7, <1>8, <1>9, <1>10, <1>11, <1>12, LaneStep

LEMMA KeptInit == ParallelInit => KeptShape
<1> SUFFICES ASSUME ParallelInit PROVE KeptShape
  OBVIOUS
<1>1. TypeInv /\ depth = 0
  BY TypeInit DEF ParallelInit, Init, SchedulerInit
<1>2. run = Idle /\ run \in Run /\ lanes = Empty /\ starved = [l \in Lanes |-> 0] /\ config = NoConfig
  BY IdleType DEF ParallelInit
<1>3. /\ run.pc = "idle" /\ run.status = "None" /\ run.entered = {} /\ run.next = 1
  BY <1>2 DEF Idle
<1>4. /\ lanes \in [Lanes -> Seq(Entry)] /\ TasksIn(lanes) = {}
      /\ \A l \in Lanes : Len(lanes[l]) <= LaneCapacity
  BY <1>2, LaneAssumption DEF Empty, TasksIn, AllEntries, ToSet
<1>5. LanesTypeOK
  BY <1>2, <1>4, LaneAssumption DEF LanesTypeOK
<1>6. RunShape
  BY <1>3, <1>4 DEF RunShape
<1> QED BY <1>1, <1>3, <1>5, <1>6 DEF KeptShape, ShapeInv, KeepInv

LEMMA KeptStutter ==
  ASSUME KeptShape, UNCHANGED parallelVars
  PROVE  KeptShape'
<1>1. /\ UNCHANGED vars /\ config' = config /\ lanes' = lanes /\ starved' = starved /\ run' = run
  BY DEF parallelVars, laneVars
<1>2. TypeInv' /\ depth' = 0
  BY <1>1, SameTypes DEF KeptShape
<1>3. LanesTypeOK' /\ TasksIn(lanes)' = TasksIn(lanes) /\ taskCount' = taskCount /\ tasks' = tasks
  BY <1>1 DEF KeptShape, ShapeInv, LanesTypeOK, TasksIn, AllEntries, vars, lifecycleVars
<1>4. RunShape' /\ KeepInv'
  BY <1>1, <1>3 DEF KeptShape, ShapeInv, RunShape, KeepInv
<1> QED BY <1>2, <1>3, <1>4 DEF KeptShape, ShapeInv

LEMMA KeptStep == KeptShape /\ [ParallelNext]_parallelVars => KeptShape'
<1> SUFFICES ASSUME KeptShape, [ParallelNext]_parallelVars PROVE KeptShape'
  OBVIOUS
<1>1. CASE KernelOperation
  BY <1>1, KernelKeeps
<1>2. CASE \E c \in Configs \cup {NoConfig} : Configure(c)
  BY <1>2, ConfigureKeeps
<1>3. CASE \E h \in RegionHandles, budget \in 0 .. MaxBudget : ParallelRun(h, budget)
  BY <1>3, ParallelRunKeeps
<1>4. CASE \E i \in TaskSlots, l \in Lanes : LaneAssign(i, l)
  BY <1>4, AssignKeeps
<1>5. CASE \E e \in AllEntries(lanes) : LaneRemove(e)
  BY <1>5, RemoveKeeps
<1>6. CASE ParallelInternal
  BY <1>6, RoundKeeps, PickKeeps, DoneKeeps, BudgetOutKeeps, PruneKeeps, ForceKeeps, PollKeeps,
     RoundEndKeeps, ParallelReturnKeeps DEF ParallelInternal
<1>7. CASE ParallelOk \/ ParallelError
  BY <1>7, AnswerKeeps
<1>8. CASE ParallelPending
  BY <1>8, PendingKeeps
<1>9. CASE UNCHANGED parallelVars
  BY <1>9, KeptStutter
<1> QED BY <1>1, <1>2, <1>3, <1>4, <1>5, <1>6, <1>7, <1>8, <1>9 DEF ParallelNext

LEMMA KeptInvariant == ParallelSpec => []KeptShape
BY KeptInit, KeptStep, PTL DEF ParallelSpec

\* A parallel run loses no task it sorted into lanes on entry, whatever the callbacks do in
\* between; what it reports as OK has completed (parallel.c, asx_parallel_run).
THEOREM NoTaskLost == ParallelSpec => []LanesKeepTasks
<1>1. KeptShape => LanesKeepTasks
  BY DEF KeptShape, KeepInv, LanesKeepTasks, TasksIn
<1> QED BY <1>1, KeptInvariant, PTL

----------------------------------------------------------------------------
(* The counts stay exact *)

\* As long as callbacks assign tasks of the region being run only, all the lanes hold is
\* the region's, so that every completion is counted where it belongs.
OwnInv ==
  /\ ArenaInv
  /\ run.pc # "idle" => \A i \in TasksIn(lanes) : tasks[i].region = run.region
  /\ run.pc = "poll" => tasks[run.tid.task].region = run.region

OwnShape == KeptShape /\ OwnInv

\* What a run that goes on takes over: the region, the tasks of the lanes but for those a
\* callback assigns, and the task being polled.
GoesOn ==
  run'.pc # "idle" =>
    /\ run.pc # "idle" /\ run'.region = run.region
    /\ \A i \in TasksIn(lanes)' :
         i \in TasksIn(lanes) \/ (i \in TaskSlots /\ i < taskCount /\ tasks[i].region = run.region)
    /\ run'.pc = "poll" => \/ run'.tid.task \in TasksIn(lanes)
                           \/ run.pc = "poll" /\ run'.tid = run.tid

LEMMA OwnStep ==
  ASSUME OwnShape, KeptShape', ArenaInv', GoesOn,
         \A i \in TaskSlots : i < taskCount => tasks'[i].region = tasks[i].region
  PROVE  OwnShape'
<1>1. /\ RunShape /\ LanesTypeOK /\ TasksIn(lanes) \subseteq TaskSlots /\ run.tid.task \in TaskSlots
  BY EntriesTyped, RunFields DEF OwnShape, KeptShape, ShapeInv, LanesTypeOK
<1>2. ASSUME run'.pc # "idle", NEW i \in TasksIn(lanes)'
      PROVE  tasks'[i].region = run'.region
  <2>1. run.pc # "idle" /\ run'.region = run.region
    BY <1>2 DEF GoesOn
  <2>2. i \in TaskSlots /\ i < taskCount /\ tasks[i].region = run.region
    BY <1>1, <1>2, <2>1 DEF GoesOn, OwnShape, OwnInv, RunShape
  <2> QED BY <2>1, <2>2
<1>3. ASSUME run'.pc = "poll"
      PROVE  tasks'[run'.tid.task].region = run'.region
  <2>1. run.pc # "idle" /\ run'.region = run.region
    BY <1>3 DEF GoesOn
  <2>2. CASE run'.tid.task \in TasksIn(lanes)
    BY <1>1, <2>1, <2>2 DEF OwnShape, OwnInv, RunShape
  <2>3. CASE run.pc = "poll" /\ run'.tid = run.tid
    BY <1>1, <2>1, <2>3 DEF OwnShape, OwnInv, RunShape
  <2> QED BY <1>3, <2>2, <2>3 DEF GoesOn
<1> QED BY <1>2, <1>3 DEF OwnShape, OwnInv

\* Steps of a run that do not touch the lanes.
LEMMA QuietGoesOn ==
  ASSUME ShapeInv, UNCHANGED lanes,
         ParallelRound \/ LanePick \/ LaneDone \/ LaneBudgetOut \/ RoundEnd \/ ParallelReturn
  PROVE  GoesOn
<1>1. TasksIn(lanes)' = TasksIn(lanes) /\ run \in Run
  BY DEF TasksIn, AllEntries, ShapeInv, LanesTypeOK
<1>2. CASE ParallelReturn
  BY <1>2 DEF ParallelReturn, GoesOn, Idle
<1>3. CASE ParallelRound
  <2>1. PICK q, b, st :
          \/ run' = [run EXCEPT !.pc = "return", !.status = st]
          \/ run' = [run EXCEPT !.pc = "pick", !.quotas = q, !.at = 1, !.next = 1, !.polls = 0,
                                !.anyPolled = FALSE, !.busy = b]
    <3>1. \/ run' = [run EXCEPT !.pc = "return", !.status = "BudgetExhausted"]
          \/ run' = [run EXCEPT !.pc = "return", !.status = "Ok"]
          \/ run' = [run EXCEPT !.pc = "pick", !.quotas = Quotas(run.budget), !.at = 1,
                                !.next = 1, !.polls = 0, !.anyPolled = FALSE, !.busy = Active]
      BY <1>3 DEF ParallelRound, Stop
    <3> QED BY <3>1
  <2>2. run.pc # "idle" /\ run'.region = run.region /\ run'.pc # "poll"
    BY <1>1, <1>3, <2>1 DEF ParallelRound, Run
  <2> QED BY <1>1, <2>2 DEF GoesOn
<1>4. CASE LaneBudgetOut
  BY <1>1, <1>4 DEF LaneBudgetOut, InLane, Stop, GoesOn, Run
<1>5. CASE RoundEnd
  BY <1>1, <1>5 DEF RoundEnd, Stop, GoesOn, Run
<1>6. CASE LanePick \/ LaneDone
  <2>1. run.pc \in {"pick", "lane"}
    BY <1>6 DEF LanePick, LaneDone
  <2>2. PICK n \in Run : n = NextLane /\ n.region = run.region /\ n.pc # "poll"
    BY <2>1, NextLaneFields
  <2>3. \/ run' = n
        \/ run' = [n EXCEPT !.busy = @ \ {CurrentLane}]
        \/ run' = [run EXCEPT !.pc = "lane"]
    BY <1>6, <2>2 DEF LanePick, LaneDone
  <2> QED BY <1>1, <2>1, <2>2, <2>3 DEF GoesOn, Run
<1> QED BY <1>2, <1>3, <1>4, <1>5, <1>6

\* Steps that change no task and no region.
LEMMA OwnQuiet ==
  ASSUME OwnShape, KeptShape', UNCHANGED vars, GoesOn
  PROVE  OwnShape'
<1>1. ArenaInv'
  BY ArenaQuiet, TasksUntouched
     DEF OwnShape, OwnInv, KeptShape, ShapeInv, vars, lifecycleVars
<1> QED BY <1>1, OwnStep DEF vars, lifecycleVars

\* Steps that change tasks, but end none.
LEMMA OwnKept ==
  ASSUME OwnShape, KeptShape', TasksKept, UNCHANGED <<regions, obligations, obligationCount>>, GoesOn
  PROVE  OwnShape'
<1>1. ArenaInv'
  BY ArenaQuiet DEF OwnShape, OwnInv, KeptShape, ShapeInv
<1>2. \A i \in TaskSlots : tasks'[i].region = tasks[i].region
  BY DEF TasksKept, Kept
<1> QED BY <1>1, <1>2, OwnStep

\* Steps that complete one task of the region.
LEMMA OwnEnds ==
  ASSUME OwnShape, KeptShape', NEW i \in TaskSlots, TaskEnds(i), run.pc # "idle",
         tasks[i].region = run.region,
         UNCHANGED <<obligations, obligationCount>>, GoesOn,
         \/ regions' = Uncount(run.region.slot)
         \/ regions' = [Uncount(run.region.slot) EXCEPT ![run.region.slot].poisoned = TRUE]
  PROVE  OwnShape'
<1>1. /\ TypeInv /\ ArenaInv /\ LifecycleTypeOK /\ run.region \in RegionHandles
      /\ run.region.slot \in RegionSlots
  BY DEF OwnShape, OwnInv, KeptShape, ShapeInv, TypeInv, TypeOK, RunShape, RegionHandles
<1> DEFINE counted == Uncount(run.region.slot)
<1>2. counted \in [RegionSlots -> Region]
  BY <1>1, UncountType
<1>3. ASSUME NEW s \in RegionSlots
      PROVE  LET r == regions[s]
                 q == regions'[s]
             IN  /\ q.gen = r.gen /\ q.alive = r.alive /\ q.state = r.state
                 /\ q.taskCount = IF s = run.region.slot /\ r.taskCount > 0
                                  THEN r.taskCount - 1 ELSE r.taskCount
  <2>1. LET r == regions[s]
            q == counted[s]
        IN  /\ q.gen = r.gen /\ q.alive = r.alive /\ q.state = r.state
            /\ q.taskCount = IF s = run.region.slot /\ r.taskCount > 0
                             THEN r.taskCount - 1 ELSE r.taskCount
    BY <1>1, UncountFields
  <2> HIDE DEF counted
  <2>2. LET q == counted[s]
            p == regions'[s]
        IN  p.gen = q.gen /\ p.alive = q.alive /\ p.state = q.state /\ p.taskCount = q.taskCount
    <3>1. counted[s] \in Region
      BY <1>2
    <3>2. regions'[s] = counted[s] \/ regions'[s] = [counted[s] EXCEPT !.poisoned = TRUE]
      BY <1>1, <1>2 DEF counted
    <3> QED BY <3>1, <3>2 DEF Region
  <2> QED BY <2>1, <2>2
<1>4. ArenaInv'
  BY <1>1, <1>3, ArenaEnds
<1>5. \A j \in TaskSlots : tasks'[j].region = tasks[j].region
  BY DEF TaskEnds, Ended, Kept
<1> QED BY <1>4, <1>5, OwnStep

\* An operation of the kernel, on its own or called by a callback.
LEMMA KernelOwn ==
  ASSUME OwnShape, KeptShape', KernelOperation
  PROVE  OwnShape'
<1>1. depth = 0 /\ TypeInv /\ TypeInv' /\ ArenaInv /\ UNCHANGED <<lanes, run>> /\ TasksGrow
  BY KernelGrows DEF OwnShape, OwnInv, KeptShape, ShapeInv, KernelOperation, laneVars
<1>2. Operation
  BY <1>1 DEF KernelOperation, Operation, Callable, RegionOperation
<1>3. CallsInv
  BY <1>1, SchedulerAssumption
     DEF CallsInv, HonestReturn, PolledTaskAlive, DrainNeverTasksLive, StackInv, RoundInv,
         DrainInv, At
<1>4. ArenaInv'
  BY <1>1, <1>2, <1>3, OperationStructure DEF StructureInv
<1>5. \A i \in TaskSlots : i < taskCount => tasks'[i].region = tasks[i].region
  BY <1>1 DEF TasksGrow, Kept
<1>6. GoesOn
  BY <1>1 DEF GoesOn, TasksIn, AllEntries
<1> QED BY <1>4, <1>5, <1>6, OwnStep

\* Between runs, and when one begins with what it sorted.
LEMMA OwnBegins ==
  ASSUME OwnShape, KeptShape',
         \/ \E c \in Configs \cup {NoConfig} : Configure(c)
         \/ \E h \in RegionHandles, budget \in 0 .. MaxBudget : ParallelRun(h, budget)
  PROVE  OwnShape'
<1>1. UNCHANGED vars /\ run.pc = "idle" /\ LifecycleTypeOK
  BY DEF Configure, ParallelRun, OwnShape, KeptShape, ShapeInv, TypeInv, TypeOK
<1>2. ArenaInv'
  BY <1>1, ArenaQuiet, TasksUntouched
     DEF OwnShape, OwnInv, KeptShape, ShapeInv, vars, lifecycleVars
<1>3. CASE \E c \in Configs \cup {NoConfig} : Configure(c)
  BY <1>1, <1>2, <1>3 DEF Configure, OwnShape, OwnInv
<1>4. ASSUME NEW h \in RegionHandles, NEW budget \in 0 .. MaxBudget, ParallelRun(h, budget)
      PROVE  OwnShape'
  <2>1. lanes' = Classified(h) /\ run'.region = h /\ run'.pc = "round"
    <3>1. Idle \in Run
      BY IdleType
    <3> HIDE DEF Idle
    <3> QED BY <1>4, <3>1 DEF ParallelRun, Run
  <2>2. TasksIn(lanes)' = LiveTasks(h)
    <3>1. TasksIn(Classified(h)) = LiveTasks(h)
      BY <1>1, ClassifiedLanes
    <3> QED BY <2>1, <3>1
  <2>3. \A i \in LiveTasks(h) : tasks'[i].region = h
    BY <1>1 DEF LiveTasks, vars, lifecycleVars
  <2> QED BY <1>2, <2>1, <2>2, <2>3 DEF OwnShape, OwnInv
<1> QED BY <1>3, <1>4

\* Lanes that lose entries, or get one of the region.
LEMMA FewerGoesOn ==
  ASSUME TasksIn(lanes)' \subseteq TasksIn(lanes), run.pc # "idle", run'.region = run.region,
         run'.pc = "poll" => run'.tid.task \in TasksIn(lanes)
                             \/ (run.pc = "poll" /\ run'.tid = run.tid)
  PROVE  GoesOn
BY DEF GoesOn

LEMMA RemoveGoesOn ==
  ASSUME ShapeInv, NEW e \in AllEntries(lanes), LaneRemove(e)
  PROVE  GoesOn
<1>1. run.pc = "poll" /\ lanes \in [Lanes -> Seq(Entry)] /\ run \in Run /\ e \in Entry
  BY EntriesTyped DEF LaneRemove, ShapeInv, LanesTypeOK
<1>2. lanes' = Removed(lanes, e) /\ run' = [run EXCEPT !.entered = @ \ {e.task}]
  BY DEF LaneRemove
<1>3. TasksIn(lanes)' \subseteq TasksIn(lanes)
  <2>1. TasksIn(Removed(lanes, e)) \subseteq TasksIn(lanes)
    BY <1>1, RemovedTasks
  <2> QED BY <1>2, <2>1
<1> QED BY <1>1, <1>2, <1>3, FewerGoesOn DEF Run

LEMMA AssignGoesOn ==
  ASSUME ShapeInv, ~ForeignTasks, NEW i \in TaskSlots, NEW l \in Lanes, LaneAssign(i, l)
  PROVE  GoesOn
<1>1. /\ run.pc = "poll" /\ run' = run /\ lanes \in [Lanes -> Seq(Entry)]
      /\ i < taskCount /\ tasks[i].region = run.region
  BY DEF LaneAssign, ShapeInv, LanesTypeOK
<1>2. PICK e \in Entry : e = [task |-> i, mask |-> "Created"] /\ e.task = i
  <2>1. [task |-> i, mask |-> "Created"] \in Entry
    BY DEF Entry, TaskStates
  <2> QED BY <2>1
<1>3. PICK ls : ls = [lanes EXCEPT ![l] = Append(@, e)]
  OBVIOUS
<1>4. lanes' = ls /\ AllEntries(ls) = AllEntries(lanes) \cup {e}
  <2>1. lanes' = ls
    BY <1>2, <1>3 DEF LaneAssign
  <2>2. PICK old \in [Lanes -> Seq(Entry)] : old = lanes
    BY <1>1
  <2>3. ls = [old EXCEPT ![l] = Append(@, e)]
    BY <1>3, <2>2
  <2>4. AllEntries(ls) = AllEntries(old) \cup {e}
    BY <2>3, LaneGrown
  <2> QED BY <2>1, <2>2, <2>4
<1>5. TasksIn(lanes)' = TasksIn(lanes) \cup {i}
  <2>1. TasksIn(ls) = TasksIn(lanes) \cup {i}
    BY <1>2, <1>4 DEF TasksIn
  <2> QED BY <1>4, <2>1
<1> QED BY <1>1, <1>5 DEF GoesOn

LEMMA LanesGoOn ==
  ASSUME ShapeInv, LanePrune \/ LaneForce \/ LanePoll
  PROVE  GoesOn
<1>1. InLane /\ run.pc = "lane" /\ run \in Run /\ lanes \in [Lanes -> Seq(Entry)]
  BY DEF LanePrune, LaneForce, LanePoll, InLane, ShapeInv, LanesTypeOK
<1>2. PICK e \in Entry, i \in TaskSlots, mid \in [Lanes -> Seq(Entry)], g \in Entry :
        /\ e = Current /\ i = e.task /\ i \in TasksIn(lanes)
        /\ mid = Refreshed /\ TasksIn(mid) = TasksIn(lanes)
        /\ g = EntryOf(i) /\ g.task = i
  BY <1>1, CurrentFacts
<1>3. CASE LanePrune
  <2>1. TasksIn(Removed(lanes, e)) \subseteq TasksIn(lanes)
    BY <1>1, <1>2, RemovedTasks
  <2>2. TasksIn(lanes)' \subseteq TasksIn(lanes) /\ run' = run
    BY <1>2, <1>3, <2>1 DEF LanePrune
  <2> QED BY <1>1, <2>2, FewerGoesOn
<1>4. CASE LaneForce
  <2>1. TasksIn(Removed(mid, g)) \subseteq TasksIn(lanes)
    BY <1>1, <1>2, RemovedTasks
  <2>2. TasksIn(lanes)' \subseteq TasksIn(lanes) /\ run' = run
    BY <1>2, <1>4, <2>1 DEF LaneForce
  <2> QED BY <1>1, <2>2, FewerGoesOn
<1>5. CASE LanePoll
  <2>1. lanes' = mid
    BY <1>2, <1>5 DEF LanePoll
  <2>2. TasksIn(lanes)' = TasksIn(lanes)
    BY <1>2, <2>1
  <2>3. run' = [run EXCEPT !.pc = "poll", !.budget = ConsumePoll(@), !.polls = @ + 1,
                           !.tid = g, !.anyPolled = TRUE]
    BY <1>2, <1>5 DEF LanePoll
  <2>4. run'.region = run.region /\ run'.tid = g
    BY <1>1, <2>3 DEF Run
  <2>5. run'.tid.task \in TasksIn(lanes)
    BY <1>2, <2>4
  <2> QED BY <1>1, <2>2, <2>4, <2>5 DEF GoesOn
<1> QED BY <1>3, <1>4, <1>5

LEMMA AnswerGoesOn ==
  ASSUME ShapeInv, ParallelOk \/ ParallelError \/ ParallelPending
  PROVE  GoesOn
<1>1. run.pc = "poll" /\ lanes \in [Lanes -> Seq(Entry)] /\ run.tid \in Entry
  BY RunFields DEF ParallelOk, ParallelError, ParallelPending, Answered, ShapeInv, LanesTypeOK
<1>2. run'.region = run.region /\ run'.pc # "poll"
  <2>1. Answer(0) \/ Answer(1) \/ Stop("Fault")
    BY DEF ParallelOk, ParallelError, ParallelPending
  <2> QED BY <1>1, <2>1, AnsweredRun
<1>3. lanes' = lanes \/ lanes' = Removed(lanes, run.tid)
  BY DEF ParallelOk, ParallelError, ParallelPending, Answered
<1>4. TasksIn(Removed(lanes, run.tid)) \subseteq TasksIn(lanes)
  BY <1>1, RemovedTasks
<1>5. TasksIn(lanes)' \subseteq TasksIn(lanes)
  BY <1>3, <1>4
<1> QED BY <1>1, <1>2, <1>5, FewerGoesOn

LEMMA OwnInit == ParallelInit => OwnShape
<1> SUFFICES ASSUME ParallelInit PROVE OwnShape
  OBVIOUS
<1>1. KeptShape /\ ArenaInv
  BY KeptInit, StructureInit DEF ParallelInit, StructureInv
<1>2. run.pc = "idle"
  BY DEF ParallelInit, Idle
<1> QED BY <1>1, <1>2 DEF OwnShape, OwnInv

LEMMA OwnNext == ~ForeignTasks /\ OwnShape /\ [ParallelNext]_parallelVars => OwnShape'
<1> SUFFICES ASSUME ~ForeignTasks, OwnShape, [ParallelNext]_parallelVars PROVE OwnShape'
  OBVIOUS
<1>1. KeptShape /\ KeptShape' /\ ShapeInv /\ LanesTypeOK /\ RunShape
  BY KeptStep DEF OwnShape, KeptShape, ShapeInv
<1>2. CASE KernelOperation
  BY <1>1, <1>2, KernelOwn
<1>3. CASE \/ \E c \in Configs \cup {NoConfig} : Configure(c)
           \/ \E h \in RegionHandles, budget \in 0 .. MaxBudget : ParallelRun(h, budget)
  BY <1>1, <1>3, OwnBegins
<1>4. CASE \E i \in TaskSlots, l \in Lanes : LaneAssign(i, l)
  BY <1>1, <1>4, AssignGoesOn, OwnQuiet DEF LaneAssign
<1>5. CASE \E e \in AllEntries(lanes) : LaneRemove(e)
  BY <1>1, <1>5, RemoveGoesOn, OwnQuiet DEF LaneRemove
<1>6. CASE ParallelRound \/ LanePick \/ LaneDone \/ LaneBudgetOut \/ RoundEnd \/ ParallelReturn
  <2>1. UNCHANGED vars /\ UNCHANGED lanes
    BY <1>6 DEF ParallelRound, LanePick, LaneDone, LaneBudgetOut, RoundEnd, ParallelReturn
  <2> QED BY <1>1, <1>6, <2>1, QuietGoesOn, OwnQuiet
<1>7. CASE LanePrune
  BY <1>1, <1>7, LanesGoOn, OwnQuiet DEF LanePrune
<1>8. CASE LaneForce
  <2>1. PICK i \in TaskSlots : i = Current.task
    BY <1>1, <1>8, CurrentFacts DEF LaneForce
  <2>2. i \in TasksIn(lanes) /\ run.pc # "idle"
    BY <1>1, <1>8, <2>1, CurrentFacts DEF LaneForce, InLane
  <2>3. tasks[i].region = run.region
    BY <2>2 DEF OwnShape, OwnInv
  <2>4. TaskEnds(i) /\ GoesOn
    BY <1>1, <1>8, <2>1, ForceEnds, LanesGoOn
  <2>5. regions' = Uncount(run.region.slot) /\ UNCHANGED <<obligations, obligationCount>>
    BY <1>8 DEF LaneForce
  <2> QED BY <1>1, <2>2, <2>3, <2>4, <2>5, OwnEnds
<1>9. CASE LanePoll
  <2>1. GoesOn /\ UNCHANGED <<regions, obligations, obligationCount>>
    BY <1>1, <1>9, LanesGoOn DEF LanePoll
  <2>2. TasksKept
    BY <1>1, <1>9, PollKeeps
  <2> QED BY <1>1, <2>1, <2>2, OwnKept
<1>10. CASE ParallelOk \/ ParallelError
  <2>1. PICK i \in TaskSlots : i = run.tid.task
    BY <1>1, RunFields
  <2>2. run.pc = "poll" /\ UNCHANGED <<obligations, obligationCount>>
    BY <1>10 DEF ParallelOk, ParallelError, Answered
  <2>3. tasks[i].region = run.region
    BY <2>1, <2>2 DEF OwnShape, OwnInv
  <2>4. /\ TaskEnds(i) /\ GoesOn
        /\ \/ regions' = Uncount(run.region.slot)
           \/ regions' = [Uncount(run.region.slot) EXCEPT ![run.region.slot].poisoned = TRUE]
    BY <1>1, <1>10, <2>1, AnswerEnds, AnswerGoesOn
  <2> QED BY <1>1, <2>2, <2>3, <2>4, OwnEnds
<1>11. CASE ParallelPending
  <2>1. GoesOn /\ UNCHANGED <<regions, obligations, obligationCount>>
    BY <1>1, <1>11, AnswerGoesOn DEF ParallelPending, Answered
  <2> QED BY <1>1, <1>11, <2>1, PendingKeeps, OwnKept
<1>12. CASE UNCHANGED parallelVars
  <2>1. UNCHANGED vars /\ run' = run /\ lanes' = lanes
    BY <1>12 DEF parallelVars, laneVars
  <2>2. GoesOn
    BY <2>1 DEF GoesOn, TasksIn, AllEntries
  <2> QED BY <1>1, <2>1, <2>2, OwnQuiet
<1> QED BY <1>2, <1>3, <1>4, <1>5, <1>6, <1>7, <1>8, <1>9, <1>10, <1>11, <1>12
        DEF ParallelNext, ParallelInternal

LEMMA OwnInvariant == ASSUME ~ForeignTasks PROVE ParallelSpec => []OwnShape
<1>1. OwnShape /\ [ParallelNext]_parallelVars => OwnShape'
  BY OwnNext
<1> QED BY <1>1, OwnInit, PTL DEF ParallelSpec

\* The second scheduler keeps the task count of every region exact, over the completions on
\* its own paths, as long as callbacks assign tasks of the region being run only; the run
\* ForeignLane shows that the count is lost otherwise (parallel.c, asx_parallel_run).
THEOREM LanesCountExact == ASSUME ~ForeignTasks PROVE ParallelSpec => []LanesConsistent
<1>1. OwnShape => LanesConsistent
  BY DEF OwnShape, OwnInv, KeptShape, ShapeInv, ArenaInv, LanesConsistent
<1> QED BY <1>1, OwnInvariant, PTL

----------------------------------------------------------------------------
(* Round robin serves every lane *)

RoundRobin == config # NoConfig /\ config.fairness = "RoundRobin"

\* During a round of round robin, the lanes that had tasks when it began have the same
\* quota, not 0 once a task was polled; those whose turn is over have not starved.
Turns(r, st) ==
  /\ r.pc \in {"pick", "lane", "poll", "roundEnd"} =>
       /\ \E q \in Nat : /\ \A l \in Lanes : r.quotas[l] \in {0, q}
                         /\ \A l \in r.busy : r.quotas[l] = q
                         /\ r.anyPolled => q > 0
       /\ \A k \in 1 .. 3 : k < r.at /\ LaneOrder[k] \in r.busy /\ r.quotas[LaneOrder[k]] > 0 =>
            st[LaneOrder[k]] = 0
  /\ r.pc = "roundEnd" => r.at = 4
  /\ r.pc \in {"pick", "lane"} /\ r.polls = 0 => r.next = 1
  /\ r.pc = "poll" => r.polls >= 1

TurnsInv == RoundRobinServesAll /\ (RoundRobin => Turns(run, starved))

\* A step within a turn.
LEMMA TurnGoesOn ==
  ASSUME TurnsInv, ShapeInv, UNCHANGED <<config, starved>>,
         NEW r \in Run, run' = r, run.pc \in {"pick", "lane", "poll"}, r.pc \in {"lane", "poll", "return"},
         r.at = run.at, r.quotas = run.quotas, r.busy = run.busy,
         r.anyPolled => run.anyPolled \/ \E l \in Lanes : run.quotas[l] > 0,
         r.pc = "lane" /\ r.polls = 0 => r.next = 1, r.pc = "poll" => r.polls >= 1
  PROVE  TurnsInv'
<1>1. RoundRobinServesAll'
  BY DEF RoundRobinServesAll
<1>2. ASSUME RoundRobin' PROVE Turns(r, starved)
  <2>1. Turns(run, starved)
    BY <1>2 DEF TurnsInv, RoundRobin
  <2>2. PICK q \in Nat : /\ \A l \in Lanes : run.quotas[l] \in {0, q}
                         /\ \A l \in run.busy : run.quotas[l] = q
                         /\ run.anyPolled => q > 0
    BY <2>1 DEF Turns
  <2>3. ASSUME r.anyPolled PROVE q > 0
    <3>1. CASE run.anyPolled
      BY <2>2, <3>1
    <3>2. CASE \E l \in Lanes : run.quotas[l] > 0
      BY <2>2, <3>2
    <3> QED BY <2>3, <3>1, <3>2
  <2>4. \A k \in 1 .. 3 : k < r.at /\ LaneOrder[k] \in r.busy /\ r.quotas[LaneOrder[k]] > 0 =>
          starved[LaneOrder[k]] = 0
    BY <2>1 DEF Turns
  <2> QED BY <2>2, <2>3, <2>4 DEF Turns
<1>3. RoundRobin' => Turns(run, starved)'
  BY <1>2
<1> QED BY <1>1, <1>3 DEF TurnsInv

\* A step that leaves all turns behind.
LEMMA TurnsOver ==
  ASSUME run'.pc \in {"idle", "return"} \/ (run'.pc = "round" /\ run'.busy = {})
  PROVE  TurnsInv'
BY DEF TurnsInv, Turns, RoundRobinServesAll

LEMMA RoundTurns ==
  ASSUME TurnsInv, ShapeInv, ParallelRound
  PROVE  TurnsInv'
<1>1. run.pc = "round" /\ run \in Run /\ UNCHANGED <<config, starved>> /\ LanesTypeOK /\ config # NoConfig
      /\ run.budget \in 0 .. MaxBudget
  BY RunFields DEF ParallelRound, ShapeInv, RunShape, LanesTypeOK
<1>2. CASE run'.pc = "return"
  BY <1>2, TurnsOver
<1>3. CASE run' = [run EXCEPT !.pc = "pick", !.quotas = Quotas(run.budget), !.at = 1,
                              !.next = 1, !.polls = 0, !.anyPolled = FALSE, !.busy = Active]
  <2>1. PICK f, b : f = Quotas(run.budget) /\ b = Active
    OBVIOUS
  <2>2. PICK r : r = [run EXCEPT !.pc = "pick", !.quotas = f, !.at = 1,
                                 !.next = 1, !.polls = 0, !.anyPolled = FALSE, !.busy = b]
    OBVIOUS
  <2>3. run' = r
    BY <1>3, <2>1, <2>2
  <2>4. r.pc = "pick" /\ r.quotas = f /\ r.at = 1 /\ r.next = 1 /\ r.polls = 0
        /\ r.anyPolled = FALSE /\ r.busy = b
    BY <1>1, <2>2 DEF Run
  <2>5. ASSUME RoundRobin PROVE Turns(r, starved)
    <3>1. PICK q \in Nat : (\A l \in Lanes : f[l] \in {0, q}) /\ \A l \in b : f[l] = q
      BY <1>1, <2>1, <2>5, QuotasBounded DEF RoundRobin
    <3> QED BY <2>4, <3>1 DEF Turns
  <2>6. (RoundRobin => Turns(run, starved))'
    BY <1>1, <2>3, <2>5 DEF RoundRobin
  <2> QED BY <2>3, <2>4, <2>6 DEF TurnsInv, RoundRobinServesAll
<1>4. run'.pc = "return"
      \/ run' = [run EXCEPT !.pc = "pick", !.quotas = Quotas(run.budget), !.at = 1,
                            !.next = 1, !.polls = 0, !.anyPolled = FALSE, !.busy = Active]
  <2>1. \A s : [run EXCEPT !.pc = "return", !.status = s].pc = "return"
    BY <1>1 DEF Run
  <2> QED BY <2>1 DEF ParallelRound, Stop
<1> QED BY <1>2, <1>3, <1>4

\* A turn ends: the lane was polled, had nothing to poll, or has no quota.
LEMMA NextTurns ==
  ASSUME TurnsInv, ShapeInv, LanePick \/ LaneDone
  PROVE  TurnsInv'
<1>1. /\ run.pc \in {"pick", "lane"} /\ UNCHANGED config /\ run \in Run /\ LanesTypeOK
      /\ starved \in [Lanes -> 0 .. StarvationCap] /\ run.quotas \in [Lanes -> 0 .. MaxBudget]
      /\ run.polls \in Nat /\ run.next \in Nat
  BY RunFields DEF LanePick, LaneDone, ShapeInv, LanesTypeOK
<1>2. PICK c \in Lanes : c = CurrentLane
  BY <1>1, NextLaneFields
<1>3. PICK n \in Run :
        /\ n = NextLane /\ n.next = 1 /\ n.at = run.at + 1 /\ n.quotas = run.quotas
        /\ n.busy = run.busy /\ n.anyPolled = run.anyPolled
        /\ n.pc = (IF run.at = 3 THEN "roundEnd" ELSE "pick") /\ run.at \in 1 .. 3
  BY <1>1, NextLaneFields
<1>4. CASE LanePick /\ lanes[CurrentLane] # <<>>
  <2>1. PICK r : r = [run EXCEPT !.pc = "lane"]
    OBVIOUS
  <2>2. run' = r /\ UNCHANGED starved /\ run.pc = "pick"
    BY <1>4, <2>1 DEF LanePick
  <2>3. r \in Run /\ r.pc = "lane" /\ r.at = run.at /\ r.quotas = run.quotas /\ r.busy = run.busy
        /\ r.anyPolled = run.anyPolled /\ r.polls = run.polls /\ r.next = run.next
    BY <1>1, <2>1 DEF Run
  <2>4. CASE RoundRobin
    <3>1. run.polls = 0 => run.next = 1
      BY <2>2, <2>4 DEF TurnsInv, Turns
    <3> QED BY <1>1, <2>2, <2>3, <3>1, TurnGoesOn
  <2>5. CASE ~RoundRobin
    BY <1>1, <2>5 DEF TurnsInv, RoundRobin, RoundRobinServesAll
  <2> QED BY <2>4, <2>5
<1>5. CASE LaneDone \/ (LanePick /\ lanes[CurrentLane] = <<>>)
  <2>1. PICK r : r = IF LaneDone THEN n ELSE [n EXCEPT !.busy = @ \ {c}]
    OBVIOUS
  <2>2. PICK st : st = IF LaneDone THEN [starved EXCEPT ![c] = StarvedAfter(@)] ELSE starved
    OBVIOUS
  <2>3. run' = r /\ starved' = st
    <3>1. CASE LaneDone
      BY <1>2, <1>3, <2>1, <2>2, <3>1 DEF LaneDone
    <3>2. CASE ~LaneDone
      BY <1>2, <1>3, <1>5, <2>1, <2>2, <3>2 DEF LanePick
    <3> QED BY <3>1, <3>2
  <2>4. /\ r.next = 1 /\ r.at = run.at + 1 /\ r.quotas = run.quotas /\ r.pc = n.pc
        /\ r.anyPolled = run.anyPolled
        /\ r.busy = IF LaneDone THEN run.busy ELSE run.busy \ {c}
    BY <1>3, <2>1 DEF Run
  <2>5. ASSUME RoundRobin, NEW k \in 1 .. 3, k < r.at, LaneOrder[k] \in r.busy,
               r.quotas[LaneOrder[k]] > 0
        PROVE  st[LaneOrder[k]] = 0
    <3>1. Turns(run, starved) /\ LaneOrder[k] \in run.busy /\ LaneOrder[k] \in Lanes
      BY <2>4, <2>5 DEF TurnsInv, LaneOrder, Lanes
    <3>2. CASE k < run.at
      <4>1. starved[LaneOrder[k]] = 0
        BY <1>1, <2>4, <2>5, <3>1, <3>2 DEF Turns
      <4>2. LaneOrder[k] # c
        BY <1>2, <1>3, <3>2 DEF CurrentLane, LaneOrder
      <4> QED BY <1>1, <2>2, <3>1, <4>1, <4>2
    <3>3. CASE k = run.at
      <4>1. LaneOrder[k] = c
        BY <1>2, <3>3 DEF CurrentLane
      <4>2. LaneDone /\ run.pc = "lane" /\ run.quotas[c] > 0
        BY <2>4, <2>5, <4>1 DEF LaneDone
      <4>3. run.polls = 0 => run.next = 1
        BY <3>1, <4>2 DEF Turns
      <4>4. run.polls = 0 => lanes[c] = <<>>
        <5>1. lanes[c] \in Seq(Entry)
          BY <1>1 DEF LanesTypeOK
        <5>2. run.polls = 0 => 1 > Len(lanes[c])
          BY <1>1, <1>2, <4>2, <4>3 DEF LaneDone
        <5> QED BY <5>1, <5>2
      <4>5. StarvedAfter(starved[c]) = 0
        BY <1>2, <4>4 DEF StarvedAfter
      <4> QED BY <1>1, <2>2, <4>1, <4>2, <4>5
    <3> QED BY <1>3, <2>4, <2>5, <3>2, <3>3
  <2>6. ASSUME RoundRobin PROVE Turns(r, st)
    <3>1. PICK q \in Nat : /\ \A l \in Lanes : run.quotas[l] \in {0, q}
                           /\ \A l \in run.busy : run.quotas[l] = q
                           /\ run.anyPolled => q > 0
      BY <1>1, <2>6 DEF TurnsInv, Turns
    <3>2. \A l \in r.busy : l \in run.busy
      BY <2>4
    <3> QED BY <1>3, <2>4, <2>5, <2>6, <3>1, <3>2 DEF Turns
  <2>7. (RoundRobin => Turns(run, starved))'
    BY <1>1, <2>3, <2>6 DEF RoundRobin
  <2>8. run'.pc # "round"
    BY <1>3, <2>3, <2>4
  <2> QED BY <2>7, <2>8 DEF TurnsInv, RoundRobinServesAll
<1> QED BY <1>4, <1>5

\* A task is polled when its lane has quota left.
LEMMA PollTurns ==
  ASSUME TurnsInv, ShapeInv, LanePoll
  PROVE  TurnsInv'
<1>1. /\ InLane /\ run.pc = "lane" /\ run \in Run /\ UNCHANGED <<config, starved>>
      /\ run.polls \in Nat /\ run.quotas \in [Lanes -> 0 .. MaxBudget]
  BY RunFields DEF LanePoll, InLane, ShapeInv, LanesTypeOK
<1>2. \E l \in Lanes : run.quotas[l] > 0
  <2>1. CurrentLane \in Lanes /\ run.polls < run.quotas[CurrentLane]
    BY <1>1, CurrentFacts DEF InLane
  <2>2. run.quotas[CurrentLane] \in Nat
    BY <1>1, <2>1
  <2> QED BY <1>1, <2>1, <2>2
<1>3. PICK i \in TaskSlots, e \in Entry : i = Current.task /\ e = EntryOf(i)
  BY <1>1, CurrentFacts
<1>4. PICK b \in 0 .. MaxBudget : b = ConsumePoll(run.budget)
  <2>1. run.budget \in 0 .. MaxBudget /\ run.budget > 0
    BY RunFields DEF LanePoll, ShapeInv
  <2> QED BY <2>1, SchedulerAssumption DEF ConsumePoll
<1>5. PICK r : r = [run EXCEPT !.pc = "poll", !.budget = b, !.polls = run.polls + 1,
                               !.tid = e, !.anyPolled = TRUE]
  OBVIOUS
<1>6. run' = r
  BY <1>3, <1>4, <1>5 DEF LanePoll
<1>7. /\ r.pc = "poll" /\ r.at = run.at /\ r.quotas = run.quotas /\ r.busy = run.busy
      /\ r.polls = run.polls + 1
  BY <1>1, <1>5 DEF Run
<1>8. r \in Run
  <2>1. run.polls + 1 \in Nat
    BY <1>1
  <2> QED BY <1>1, <1>4, <1>5, <2>1, Zenon DEF Run
<1>9. r.polls >= 1
  BY <1>1, <1>7
<1> QED BY <1>1, <1>2, <1>6, <1>7, <1>8, <1>9, TurnGoesOn

LEMMA AnswerTurns ==
  ASSUME TurnsInv, ShapeInv, ParallelOk \/ ParallelError \/ ParallelPending
  PROVE  TurnsInv'
<1>1. run.pc = "poll" /\ UNCHANGED <<config, starved>> /\ (Answer(0) \/ Answer(1) \/ Stop("Fault"))
  BY DEF ParallelOk, ParallelError, ParallelPending, Answered
<1>2. PICK r \in Run : /\ run' = r /\ r.busy = run.busy /\ r.quotas = run.quotas
                       /\ r.anyPolled = run.anyPolled /\ r.polls = run.polls /\ r.at = run.at
                       /\ r.pc \in {"lane", "return"}
  BY <1>1, AnsweredRun
<1>3. CASE RoundRobin
  <2>1. run.polls >= 1
    BY <1>1, <1>3 DEF TurnsInv, Turns
  <2> QED BY <1>1, <1>2, <2>1, TurnGoesOn
<1>4. CASE ~RoundRobin
  BY <1>1, <1>4 DEF TurnsInv, RoundRobin, RoundRobinServesAll
<1> QED BY <1>3, <1>4

\* A round that follows another: every lane had its turn, and a quota.
LEMMA RoundEndTurns ==
  ASSUME TurnsInv, ShapeInv, RoundEnd
  PROVE  TurnsInv'
<1>1. /\ run.pc = "roundEnd" /\ run \in Run /\ UNCHANGED <<config, starved>>
      /\ run.busy \subseteq Lanes
  BY RunFields DEF RoundEnd, ShapeInv, LanesTypeOK
<1>2. CASE run'.pc = "return"
  BY <1>2, TurnsOver
<1>3. CASE run.anyPolled /\ run' = [run EXCEPT !.pc = "round"]
  <2>1. run'.pc = "round" /\ run'.busy = run.busy
    BY <1>1, <1>3 DEF Run
  <2>2. ASSUME RoundRobin, NEW l \in run.busy PROVE starved[l] = 0
    <3>1. PICK q \in Nat : q > 0 /\ \A m \in run.busy : run.quotas[m] = q
      BY <1>1, <1>3, <2>2 DEF TurnsInv, Turns
    <3>2. PICK k \in 1 .. 3 : LaneOrder[k] = l
      BY <1>1 DEF Lanes, LaneOrder
    <3>3. run.at = 4 /\ k < run.at /\ LaneOrder[k] \in run.busy /\ run.quotas[LaneOrder[k]] > 0
      BY <1>1, <2>2, <3>1, <3>2 DEF TurnsInv, Turns
    <3> QED BY <1>1, <2>2, <3>2, <3>3 DEF TurnsInv, Turns
  <2>3. RoundRobinServesAll'
    BY <1>1, <2>1, <2>2 DEF RoundRobinServesAll, RoundRobin
  <2>4. (RoundRobin => Turns(run, starved))'
    BY <2>1 DEF Turns
  <2> QED BY <2>3, <2>4 DEF TurnsInv
<1>4. run'.pc = "return" \/ (run.anyPolled /\ run' = [run EXCEPT !.pc = "round"])
  <2>1. \A s : [run EXCEPT !.pc = "return", !.status = s].pc = "return"
    BY <1>1 DEF Run
  <2>2. Stop("Ok") \/ Stop("BudgetExhausted") => run'.pc = "return"
    BY <2>1 DEF Stop
  <2> QED BY <2>2 DEF RoundEnd
<1> QED BY <1>2, <1>3, <1>4

\* Steps that say nothing to the turns: lanes change in the course of a turn only.
LEMMA LanesTurns ==
  ASSUME TurnsInv, ShapeInv, UNCHANGED <<config, starved>>, run.pc \in {"lane", "poll"},
         run' = run \/ \E s : run' = [run EXCEPT !.entered = s]
  PROVE  TurnsInv'
<1>1. run \in Run
  BY DEF ShapeInv, LanesTypeOK
<1>2. /\ run'.pc = run.pc /\ run'.at = run.at /\ run'.quotas = run.quotas /\ run'.busy = run.busy
      /\ run'.anyPolled = run.anyPolled /\ run'.polls = run.polls /\ run'.next = run.next
  BY <1>1 DEF Run
<1>3. Turns(run, starved) => Turns(run, starved)'
  BY <1>2 DEF Turns
<1> QED BY <1>2, <1>3 DEF TurnsInv, RoundRobin, RoundRobinServesAll

LEMMA TurnsNext == KeptShape /\ TurnsInv /\ [ParallelNext]_parallelVars => TurnsInv'
<1> SUFFICES ASSUME KeptShape, TurnsInv, [ParallelNext]_parallelVars PROVE TurnsInv'
  OBVIOUS
<1>1. ShapeInv
  BY DEF KeptShape
<1>2. CASE KernelOperation \/ UNCHANGED parallelVars
  <2>1. UNCHANGED laneVars
    BY <1>2 DEF KernelOperation, parallelVars
  <2>2. config' = config /\ lanes' = lanes /\ starved' = starved /\ run' = run
    BY <2>1 DEF laneVars
  <2> QED BY <2>2 DEF TurnsInv, Turns, RoundRobin, RoundRobinServesAll
<1>3. CASE \/ \E c \in Configs \cup {NoConfig} : Configure(c)
           \/ \E h \in RegionHandles, budget \in 0 .. MaxBudget : ParallelRun(h, budget)
           \/ ParallelReturn
  <2>1. Idle \in Run
    BY IdleType
  <2>2. Idle.busy = {} /\ Idle.pc = "idle"
    BY DEF Idle
  <2> HIDE DEF Idle
  <2>3. run'.pc = "idle" \/ (run'.pc = "round" /\ run'.busy = {})
    BY <1>3, <2>1, <2>2 DEF Configure, ParallelRun, ParallelReturn, Run
  <2> QED BY <2>3, TurnsOver
<1>4. CASE \E i \in TaskSlots, l \in Lanes : LaneAssign(i, l)
  BY <1>1, <1>4, LanesTurns DEF LaneAssign
<1>5. CASE \E e \in AllEntries(lanes) : LaneRemove(e)
  BY <1>1, <1>5, LanesTurns DEF LaneRemove
<1>6. CASE LanePrune \/ LaneForce
  BY <1>1, <1>6, LanesTurns DEF LanePrune, LaneForce, InLane
<1>7. CASE LaneBudgetOut
  <2>1. run'.pc = "return"
    BY <1>1, <1>7 DEF LaneBudgetOut, Stop, ShapeInv, LanesTypeOK, Run
  <2> QED BY <2>1, TurnsOver
<1>8. CASE ParallelRound \/ LanePick \/ LaneDone \/ LanePoll \/ RoundEnd
  BY <1>1, <1>8, RoundTurns, NextTurns, PollTurns, RoundEndTurns
<1>9. CASE ParallelOk \/ ParallelError \/ ParallelPending
  BY <1>1, <1>9, AnswerTurns
<1> QED BY <1>2, <1>3, <1>4, <1>5, <1>6, <1>7, <1>8, <1>9 DEF ParallelNext, ParallelInternal

\* Under round robin, a round that follows another has left no lane unserved that had tasks
\* when the round began, had them at its turn, and still has some: with equal shares, a round
\* in which anything was polled gave every such lane a poll (parallel.h, parallel.c).
THEOREM RoundRobinFair == ParallelSpec => []RoundRobinServesAll
<1>1. ParallelInit => KeptShape /\ TurnsInv
  BY KeptInit DEF ParallelInit, Idle, TurnsInv, Turns, RoundRobinServesAll
<1>2. (KeptShape /\ TurnsInv) /\ [ParallelNext]_parallelVars => (KeptShape /\ TurnsInv)'
  BY KeptStep, TurnsNext
<1>3. KeptShape /\ TurnsInv => RoundRobinServesAll
  BY DEF TurnsInv
<1> QED BY <1>1, <1>2, <1>3, PTL DEF ParallelSpec
====
