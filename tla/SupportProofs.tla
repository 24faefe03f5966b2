---- MODULE SupportProofs ----
(***************************************************************************)
(* Theorems about the supporting components.  Each moves alone while the   *)
(* others stand still, so what holds of every run of a component holds of  *)
(* it among the others: the first lemma of every section says so, and the  *)
(* theorems are about SupportSpec, the specification the run checks.       *)
(***************************************************************************)
EXTENDS MCSupport, ProofLemmas


----------------------------------------------------------------------------
(* The cleanup stack: the two choices its loops make *)

\* Taking off the empty slots on top leaves every function where it was.
LEMMA TrimmedKeeps ==
  ASSUME NEW count \in Nat, NEW fns
  PROVE  /\ Trimmed(fns, count) \in 0 .. count
         /\ \A k \in Trimmed(fns, count) .. count - 1 : fns[k] = NoTicket
<1> DEFINE S == {k \in 0 .. count : k < count /\ fns[k] # NoTicket}
           Good(n) == /\ n > 0 => fns[n - 1] # NoTicket
                      /\ \A k \in n .. count - 1 : fns[k] = NoTicket
<1>1. \E n \in 0 .. count : Good(n)
  <2>1. CASE S = {}
    <3>1. Good(0)
      BY <2>1
    <3> QED
      BY <3>1
  <2>2. CASE S # {}
    <3>1. PICK k \in S : \A j \in S : j <= k
      BY <2>2, MaxExists
    <3>2. k + 1 \in 0 .. count /\ k + 1 - 1 = k
      OBVIOUS
    <3>3. \A j \in k + 1 .. count - 1 : fns[j] = NoTicket
      BY <3>1
    <3>4. Good(k + 1)
      BY <3>2, <3>3
    <3> QED
      BY <3>2, <3>4
  <2> QED
    BY <2>1, <2>2
<1>2. Trimmed(fns, count) = CHOOSE n \in 0 .. count : Good(n)
  BY DEF Trimmed
<1> HIDE DEF Good
<1>3. Trimmed(fns, count) \in 0 .. count /\ Good(Trimmed(fns, count))
  BY <1>1, <1>2
<1> QED
  BY <1>3 DEF Good

\* One step of a drain: no function is left below "from" and the drain is over, or the
\* topmost one below is called.
LEMMA CallBelowCases ==
  ASSUME NEW from \in Nat, NEW fns, StackMax \in Nat, CallBelow(from, fns)
  PROVE  \/ /\ \A k \in StackSlots : k < from => fns[k] = NoTicket
            /\ cursor' = StackMax
            /\ stack' = [stack EXCEPT !.fns = fns, !.count = 0, !.drained = TRUE]
            /\ fate' = fate
         \/ \E k \in StackSlots :
              /\ k < from /\ fns[k] # NoTicket
              /\ \A j \in StackSlots : j < from /\ fns[j] # NoTicket => j <= k
              /\ cursor' = k
              /\ stack' = [stack EXCEPT !.fns = fns]
              /\ fate' = [fate EXCEPT ![fns[k]] = "run"]
<1> DEFINE next == {k \in StackSlots : k < from /\ fns[k] # NoTicket}
           top == CHOOSE k \in next : \A j \in next : j <= k
<1>1. CASE next = {}
  BY <1>1 DEF CallBelow
<1>2. CASE next # {}
  <2>1. next \subseteq 0 .. from
    BY DEF StackSlots
  <2>2. \E k \in next : \A j \in next : j <= k
    BY <1>2, <2>1, MaxExists
  <2>3. top \in next /\ \A j \in next : j <= top
    BY <2>2
  <2>4. /\ cursor' = top
        /\ stack' = [stack EXCEPT !.fns = fns]
        /\ fate' = [fate EXCEPT ![fns[top]] = "run"]
    BY <1>2 DEF CallBelow
  <2> HIDE DEF top
  <2> QED
    BY <2>3, <2>4
<1> QED
  BY <1>1, <1>2

----------------------------------------------------------------------------
(* The cleanup stack: its inductive invariant *)

LEMMA CleanupInitInv == CleanupInit => CleanupInv
<1> SUFFICES ASSUME CleanupInit
             PROVE  CleanupInv
  OBVIOUS
<1> USE CleanupAssumption
<1>1. StackTypeOK
  BY DEF CleanupInit, StackTypeOK, StackSlots, Tickets, NoTicket
<1>2. StackOrdered
  BY DEF CleanupInit, StackOrdered, Occupied, StackSlots, Draining
<1>3. NothingLost
  BY DEF CleanupInit, NothingLost, Draining
<1>4. RanInOrder
  BY DEF CleanupInit, RanInOrder, Draining
<1> QED
  BY <1>1, <1>2, <1>3, <1>4 DEF CleanupInv

\* asx_cleanup_push takes the slot on top.  During a drain that slot is above the cursor
\* or was left empty by pops, and the push is one of the late ones.
LEMMA PushKeeps ==
  ASSUME CleanupInv, NEW t \in Tickets, Push(t)
  PROVE  CleanupInv'
<1> USE CleanupAssumption
<1> DEFINE idx == stack.count
<1>1. StackTypeOK
  BY DEF CleanupInv
<1>2. /\ idx \in StackSlots /\ stack.gens[idx] < CleanupGenMax /\ fate[t] = "none"
      /\ stack.gens[idx] \in 0 .. CleanupGenMax
  BY <1>1 DEF Push, StackTypeOK, StackSlots
<1>3. /\ stack' = [stack EXCEPT !.fns[idx] = t, !.gens[idx] = @ + 1, !.count = @ + 1,
                                !.drained = @ /\ stack.count # 0]
      /\ handles' = [handles EXCEPT ![t] = [slot |-> idx, gen |-> stack.gens[idx] + 1]]
      /\ fate' = [fate EXCEPT ![t] = "pushed"]
      /\ late' = IF Draining THEN late \cup {t} ELSE late
      /\ cursor' = cursor /\ ran' = ran
  BY DEF Push
<1>4. /\ stack'.fns = [stack.fns EXCEPT ![idx] = t]
      /\ stack'.gens = [stack.gens EXCEPT ![idx] = @ + 1]
      /\ stack'.count = idx + 1
      /\ stack'.drained = FALSE
  <2>1. stack.drained => stack.count = 0
    BY DEF CleanupInv, NothingLost
  <2> QED
    BY <1>1, <1>3, <2>1 DEF StackTypeOK
<1>5. StackTypeOK'
  <2>1. stack' \in [fns : [StackSlots -> Tickets \cup {NoTicket}],
                    gens : [StackSlots -> 0 .. CleanupGenMax],
                    count : 0 .. StackMax, drained : BOOLEAN]
    <3>1. stack.gens[idx] + 1 \in 0 .. CleanupGenMax /\ idx + 1 \in 0 .. StackMax
      BY <1>2 DEF StackSlots
    <3> QED
      BY <1>1, <1>2, <1>3, <1>4, <3>1 DEF StackTypeOK
  <2>2. handles' \in [Tickets -> [slot : Nat, gen : Nat]]
    <3>1. [slot |-> idx, gen |-> stack.gens[idx] + 1] \in [slot : Nat, gen : Nat]
      BY <1>2 DEF StackSlots
    <3> QED
      BY <1>1, <1>3, <3>1 DEF StackTypeOK
  <2> QED
    BY <1>1, <1>3, <2>1, <2>2 DEF StackTypeOK
<1>6. \A k \in StackSlots : stack'.fns[k] = IF k = idx THEN t ELSE stack.fns[k]
  BY <1>1, <1>4 DEF StackTypeOK
<1>7. \A k \in StackSlots : Occupied(k)' <=> Occupied(k) \/ k = idx
  <2> SUFFICES ASSUME NEW k \in StackSlots
               PROVE  Occupied(k)' <=> Occupied(k) \/ k = idx
    OBVIOUS
  <2>1. t # NoTicket
    BY DEF Tickets, NoTicket
  <2>2. k \in Nat /\ idx \in Nat
    BY <1>2 DEF StackSlots
  <2>3. Occupied(k)' <=> k < idx + 1 /\ (IF k = idx THEN t ELSE stack.fns[k]) # NoTicket
    BY <1>4, <1>6 DEF Occupied
  <2>4. Occupied(k) <=> k < idx /\ stack.fns[k] # NoTicket
    BY DEF Occupied
  <2> QED
    BY <2>1, <2>2, <2>3, <2>4
<1>8. \A u \in Tickets : fate'[u] = IF u = t THEN "pushed" ELSE fate[u]
  BY <1>1, <1>3 DEF StackTypeOK
<1>9. \A k \in StackSlots : Occupied(k) => /\ k < idx /\ stack.fns[k] \in Tickets
                                          /\ fate[stack.fns[k]] # "none"
  BY <1>1 DEF CleanupInv, StackTypeOK, StackOrdered, Occupied
<1>10. StackOrdered'
  <2>1. \A u, v \in Tickets : fate'[u] = "none" /\ fate'[v] # "none" => v < u
    BY <1>8 DEF Push, Tickets, CleanupInv, StackOrdered
  <2>2. \A j, k \in StackSlots : Occupied(j)' /\ Occupied(k)' /\ j < k =>
          stack'.fns[j] < stack'.fns[k]
    BY <1>2, <1>6, <1>7, <1>9 DEF CleanupInv, StackOrdered, StackSlots
  <2>3. \A k \in StackSlots : Occupied(k)' =>
          fate'[stack'.fns[k]] = "pushed" \/ (k = cursor' /\ fate'[stack'.fns[k]] = "run")
    BY <1>3, <1>6, <1>7, <1>8, <1>9 DEF CleanupInv, StackOrdered
  <2>4. ASSUME Draining', NEW k \in StackSlots, stack'.count <= k, k < cursor'
        PROVE  stack'.fns[k] = NoTicket
    <3>1. stack.count <= k /\ k # idx /\ k < cursor
      BY <1>2, <1>3, <1>4, <2>4 DEF StackSlots
    <3> QED
      BY <1>3, <1>6, <2>4, <3>1 DEF CleanupInv, StackOrdered, Draining
  <2> QED
    BY <2>1, <2>2, <2>3, <2>4 DEF StackOrdered
<1>11. NothingLost'
  <2>1. SUFFICES ASSUME NEW u \in Tickets \ late', fate'[u] = "pushed"
                 PROVE  \E k \in StackSlots : Occupied(k)' /\ k < cursor' /\ stack'.fns[k] = u
    BY <1>4 DEF NothingLost
  <2>2. CASE u = t
    <3>1. cursor = StackMax
      BY <1>1, <1>3, <2>1, <2>2 DEF Draining, StackTypeOK
    <3> QED
      BY <1>2, <1>3, <1>6, <1>7, <2>2, <3>1 DEF StackSlots
  <2>3. CASE u # t
    <3>1. u \in Tickets \ late /\ fate[u] = "pushed"
      BY <1>3, <1>8, <2>1, <2>3
    <3>2. PICK k \in StackSlots : Occupied(k) /\ k < cursor /\ stack.fns[k] = u
      BY <3>1 DEF CleanupInv, NothingLost
    <3>3. k # idx
      BY <1>2, <1>9, <3>2 DEF StackSlots
    <3>4. Occupied(k)' /\ k < cursor' /\ stack'.fns[k] = u
      BY <1>3, <1>6, <1>7, <3>2, <3>3
    <3> QED
      BY <3>4
  <2> QED
    BY <2>2, <2>3
<1>12. RanInOrder'
  <2>1. \A m \in DOMAIN ran : ran[m] \in Tickets /\ ran[m] # t /\ fate[ran[m]] = "run"
    BY <1>1, <1>2 DEF CleanupInv, RanInOrder, StackTypeOK
  <2>2. late \subseteq late'
    BY <1>3
  <2>3. \A m \in DOMAIN ran : fate'[ran[m]] = "run"
    BY <1>8, <2>1
  <2>4. \A m, n \in DOMAIN ran : m < n /\ {ran[m], ran[n]} \cap late' = {} => ran[m] > ran[n]
    BY <2>2 DEF CleanupInv, RanInOrder
  <2>5. ASSUME Draining', NEW m \in DOMAIN ran, NEW k \in StackSlots,
               Occupied(k)', k < cursor', {ran[m], stack'.fns[k]} \cap late' = {}
        PROVE  stack'.fns[k] < ran[m]
    <3>1. k # idx
      BY <1>3, <1>6, <2>5 DEF Draining
    <3> QED
      BY <1>3, <1>6, <1>7, <2>2, <2>5, <3>1 DEF CleanupInv, RanInOrder, Draining
  <2> QED
    BY <1>3, <2>3, <2>4, <2>5 DEF CleanupInv, RanInOrder
<1> QED
  BY <1>5, <1>10, <1>11, <1>12 DEF CleanupInv

\* asx_cleanup_pop empties the slot of its handle, whoever was pushed there, and takes the
\* empty slots off the top; it changes the place of no other function.
LEMMA PopKeeps ==
  ASSUME CleanupInv, NEW t \in Tickets, Pop(t)
  PROVE  CleanupInv'
<1> USE CleanupAssumption
<1> DEFINE s == handles[t].slot
           out == stack.fns[s]
           fns == [stack.fns EXCEPT ![s] = NoTicket]
           left == Trimmed(fns, stack.count)
<1>1. StackTypeOK
  BY DEF CleanupInv
<1>2. /\ s < stack.count /\ out # NoTicket
      /\ stack' = [stack EXCEPT !.fns = fns, !.count = left]
      /\ fate' = [fate EXCEPT ![out] = IF @ = "run" THEN @ ELSE "popped"]
      /\ cursor' = cursor /\ handles' = handles /\ late' = late /\ ran' = ran
  BY DEF Pop, Poppable
<1>3. s \in StackSlots /\ out \in Tickets /\ Occupied(s)
  <2>1. s \in Nat /\ stack.count \in 0 .. StackMax
    BY <1>1 DEF StackTypeOK
  <2>2. s \in StackSlots
    BY <1>2, <2>1 DEF StackSlots
  <2> QED
    BY <1>1, <1>2, <2>2 DEF StackTypeOK, Occupied
<1>4. fns \in [StackSlots -> Tickets \cup {NoTicket}]
  BY <1>1 DEF StackTypeOK
<1>5. left \in 0 .. stack.count /\ \A k \in left .. stack.count - 1 : fns[k] = NoTicket
  <2>1. stack.count \in Nat
    BY <1>1 DEF StackTypeOK
  <2> QED
    BY <2>1, TrimmedKeeps
<1> HIDE DEF left
<1>6. /\ stack'.fns = fns /\ stack'.gens = stack.gens
      /\ stack'.count = left /\ stack'.drained = stack.drained
  BY <1>1, <1>2 DEF StackTypeOK
<1>7. \A k \in StackSlots : stack'.fns[k] = IF k = s THEN NoTicket ELSE stack.fns[k]
  BY <1>1, <1>6 DEF StackTypeOK
<1>8. \A k \in StackSlots : Occupied(k)' <=> Occupied(k) /\ k # s
  <2> SUFFICES ASSUME NEW k \in StackSlots
               PROVE  Occupied(k)' <=> Occupied(k) /\ k # s
    OBVIOUS
  <2>1. k \in Nat /\ left \in Nat /\ stack.count \in Nat /\ left <= stack.count
    BY <1>1, <1>5 DEF StackSlots, StackTypeOK
  <2>2. Occupied(k)' <=> k < left /\ fns[k] # NoTicket
    BY <1>6 DEF Occupied
  <2>3. left <= k /\ k < stack.count => fns[k] = NoTicket
    BY <1>5, <2>1
  <2>4. Occupied(k) <=> k < stack.count /\ stack.fns[k] # NoTicket
    BY DEF Occupied
  <2>5. fns[k] = IF k = s THEN NoTicket ELSE stack.fns[k]
    BY <1>6, <1>7
  <2> HIDE DEF fns
  <2> QED
    BY <2>1, <2>2, <2>3, <2>4, <2>5
<1>9. \A u \in Tickets : /\ fate'[u] # fate[u] => u = out /\ fate'[u] = "popped"
                         /\ u = out => fate'[u] # "pushed" /\ fate'[u] # "none"
                         /\ fate[u] = "run" => fate'[u] = "run"
  BY <1>1, <1>2 DEF StackTypeOK
<1>10. \A k \in StackSlots : Occupied(k) => /\ stack.fns[k] \in Tickets
                                           /\ fate[stack.fns[k]] # "none"
                                           /\ (k # s => stack.fns[k] # out)
  <2> SUFFICES ASSUME NEW k \in StackSlots, Occupied(k)
               PROVE  /\ stack.fns[k] \in Tickets /\ fate[stack.fns[k]] # "none"
                      /\ (k # s => stack.fns[k] # out)
    OBVIOUS
  <2>1. stack.fns[k] \in Tickets
    BY <1>1 DEF StackTypeOK, Occupied
  <2>2. fate[stack.fns[k]] # "none"
    BY DEF CleanupInv, StackOrdered
  <2>3. /\ k < s => stack.fns[k] < out
        /\ s < k => out < stack.fns[k]
    BY <1>3 DEF CleanupInv, StackOrdered
  <2> QED
    BY <1>3, <2>1, <2>2, <2>3 DEF StackSlots, Tickets
<1>11. StackTypeOK'
  <2>1. stack' \in [fns : [StackSlots -> Tickets \cup {NoTicket}],
                    gens : [StackSlots -> 0 .. CleanupGenMax],
                    count : 0 .. StackMax, drained : BOOLEAN]
    <3>1. left \in 0 .. StackMax
      BY <1>1, <1>5 DEF StackTypeOK
    <3> HIDE DEF fns
    <3> QED
      BY <1>1, <1>2, <1>4, <3>1 DEF StackTypeOK
  <2> QED
    BY <1>1, <1>2, <2>1 DEF StackTypeOK
<1>12. StackOrdered'
  <2>1. \A u, v \in Tickets : fate'[u] = "none" /\ fate'[v] # "none" => v < u
    <3>1. fate[out] # "none"
      BY <1>3 DEF CleanupInv, StackOrdered
    <3>2. \A u \in Tickets : fate'[u] = "none" <=> fate[u] = "none"
      BY <1>9, <3>1
    <3> QED
      BY <3>2 DEF CleanupInv, StackOrdered
  <2>2. \A j, k \in StackSlots : Occupied(j)' /\ Occupied(k)' /\ j < k =>
          stack'.fns[j] < stack'.fns[k]
    BY <1>7, <1>8 DEF CleanupInv, StackOrdered
  <2>3. ASSUME NEW k \in StackSlots, Occupied(k)'
        PROVE  fate'[stack'.fns[k]] = "pushed" \/ (k = cursor' /\ fate'[stack'.fns[k]] = "run")
    <3>1. Occupied(k) /\ k # s /\ stack'.fns[k] = stack.fns[k]
      BY <1>7, <1>8, <2>3
    <3>2. stack.fns[k] \in Tickets /\ stack.fns[k] # out
      BY <1>10, <3>1
    <3>3. fate'[stack.fns[k]] = fate[stack.fns[k]]
      BY <1>9, <3>2
    <3>4. fate[stack.fns[k]] = "pushed" \/ (k = cursor /\ fate[stack.fns[k]] = "run")
      BY <3>1 DEF CleanupInv, StackOrdered
    <3> QED
      BY <1>2, <3>1, <3>3, <3>4
  <2>4. ASSUME Draining', NEW k \in StackSlots, stack'.count <= k, k < cursor'
        PROVE  stack'.fns[k] = NoTicket
    <3>1. CASE k < stack.count
      <4>1. k \in left .. stack.count - 1
        BY <1>1, <1>5, <1>6, <2>4, <3>1 DEF StackSlots, StackTypeOK
      <4> QED
        BY <1>5, <1>6, <4>1
    <3>2. CASE stack.count <= k
      BY <1>2, <1>7, <2>4, <3>2 DEF CleanupInv, StackOrdered, Draining
    <3> QED
      BY <1>1, <3>1, <3>2 DEF StackSlots, StackTypeOK
  <2> QED
    BY <2>1, <2>2, <2>3, <2>4 DEF StackOrdered
<1>13. NothingLost'
  <2>1. ~ stack.drained
    BY <1>1, <1>2, <1>3 DEF CleanupInv, NothingLost, StackTypeOK, StackSlots
  <2>2. ASSUME NEW u \in Tickets \ late', fate'[u] = "pushed"
        PROVE  \E k \in StackSlots : Occupied(k)' /\ k < cursor' /\ stack'.fns[k] = u
    <3>1. u \in Tickets \ late /\ fate[u] = "pushed" /\ u # out
      BY <1>2, <1>9, <2>2
    <3>2. PICK k \in StackSlots : Occupied(k) /\ k < cursor /\ stack.fns[k] = u
      BY <3>1 DEF CleanupInv, NothingLost
    <3>3. Occupied(k)' /\ k < cursor' /\ stack'.fns[k] = u
      BY <1>2, <1>7, <1>8, <3>1, <3>2
    <3> QED
      BY <3>3
  <2> QED
    BY <1>6, <2>1, <2>2 DEF NothingLost
<1>14. RanInOrder'
  <2>1. \A m \in DOMAIN ran : ran[m] \in Tickets /\ fate'[ran[m]] = "run"
    BY <1>1, <1>9 DEF CleanupInv, RanInOrder, StackTypeOK
  <2>2. ASSUME Draining', NEW m \in DOMAIN ran, NEW k \in StackSlots,
               Occupied(k)', k < cursor', {ran[m], stack'.fns[k]} \cap late' = {}
        PROVE  stack'.fns[k] < ran[m]
    BY <1>2, <1>7, <1>8, <2>2 DEF CleanupInv, RanInOrder, Draining
  <2> QED
    BY <1>2, <2>1, <2>2 DEF CleanupInv, RanInOrder
<1> QED
  BY <1>11, <1>12, <1>13, <1>14 DEF CleanupInv

\* asx_cleanup_drain up to its first call: the topmost function is marked as run.
LEMMA DrainStackKeeps ==
  ASSUME CleanupInv, DrainStack
  PROVE  CleanupInv'
<1> USE CleanupAssumption
<1>1. StackTypeOK
  BY DEF CleanupInv
<1>2. /\ cursor = StackMax /\ stack.drained = FALSE
      /\ handles' = handles /\ late' = late
      /\ ran' = IF cursor' < StackMax THEN <<stack.fns[cursor']>> ELSE <<>>
  BY <1>1 DEF DrainStack, Draining, StackTypeOK
<1>3. stack.count \in 0 .. StackMax
  BY <1>1 DEF StackTypeOK
<1>4. CASE /\ \A k \in StackSlots : k < stack.count => stack.fns[k] = NoTicket
           /\ cursor' = StackMax
           /\ stack' = [stack EXCEPT !.fns = stack.fns, !.count = 0, !.drained = TRUE]
           /\ fate' = fate
  <2>1. ran' = <<>>
    BY <1>2, <1>4
  <2>2. /\ stack'.fns = stack.fns /\ stack'.gens = stack.gens
        /\ stack'.count = 0 /\ stack'.drained = TRUE
    BY <1>1, <1>4 DEF StackTypeOK
  <2>3. \A k \in StackSlots : ~ Occupied(k) /\ ~ Occupied(k)'
    BY <1>4, <2>2 DEF Occupied, StackSlots
  <2>4. StackTypeOK'
    <3>1. stack' \in [fns : [StackSlots -> Tickets \cup {NoTicket}],
                      gens : [StackSlots -> 0 .. CleanupGenMax],
                      count : 0 .. StackMax, drained : BOOLEAN]
      <4>1. 0 \in 0 .. StackMax
        OBVIOUS
      <4> QED
        BY <1>1, <1>4, <4>1 DEF StackTypeOK
    <3>2. ran' \in Seq(Tickets) /\ cursor' \in 0 .. StackMax
      BY <1>4, <2>1
    <3> QED
      BY <1>1, <1>2, <1>4, <3>1, <3>2 DEF StackTypeOK
  <2>5. StackOrdered'
    BY <1>4, <2>3 DEF CleanupInv, StackOrdered, Draining
  <2>6. NothingLost'
    BY <1>2, <1>4, <2>2, <2>3 DEF CleanupInv, NothingLost, Draining
  <2>7. RanInOrder'
    BY <1>4, <2>1 DEF RanInOrder, Draining
  <2> QED
    BY <2>4, <2>5, <2>6, <2>7 DEF CleanupInv
<1>5. ASSUME NEW k \in StackSlots, k < stack.count, stack.fns[k] # NoTicket,
             \A j \in StackSlots : j < stack.count /\ stack.fns[j] # NoTicket => j <= k,
             cursor' = k, stack' = [stack EXCEPT !.fns = stack.fns],
             fate' = [fate EXCEPT ![stack.fns[k]] = "run"]
      PROVE  CleanupInv'
  <2> DEFINE t == stack.fns[k]
  <2>1. stack' = stack
    BY <1>1, <1>5 DEF StackTypeOK
  <2>2. t \in Tickets /\ Occupied(k) /\ k < StackMax /\ k \in Nat
    BY <1>1, <1>5 DEF StackTypeOK, Occupied, StackSlots
  <2>3. ran' = <<t>>
    BY <1>2, <1>5, <2>2
  <2>4. \A j \in StackSlots : (Occupied(j)' <=> Occupied(j)) /\ (Occupied(j) => j <= k)
    BY <1>5, <2>1 DEF Occupied
  <2>5. \A u \in Tickets : fate'[u] = IF u = t THEN "run" ELSE fate[u]
    BY <1>1, <1>5 DEF StackTypeOK
  <2>6. fate[t] = "pushed"
    BY <1>2, <2>2 DEF CleanupInv, StackOrdered
  <2>7. \A j \in StackSlots : Occupied(j) => /\ stack.fns[j] \in Tickets
                                            /\ fate[stack.fns[j]] = "pushed"
                                            /\ (j # k => stack.fns[j] < t)
    <3> SUFFICES ASSUME NEW j \in StackSlots, Occupied(j)
                 PROVE  /\ stack.fns[j] \in Tickets /\ fate[stack.fns[j]] = "pushed"
                        /\ (j # k => stack.fns[j] < t)
      OBVIOUS
    <3>1. stack.fns[j] \in Tickets
      BY <1>1 DEF StackTypeOK, Occupied
    <3>2. j # cursor
      BY <1>2 DEF StackSlots
    <3>3. fate[stack.fns[j]] = "pushed"
      BY <3>2 DEF CleanupInv, StackOrdered
    <3>4. j < k => stack.fns[j] < t
      BY <2>2 DEF CleanupInv, StackOrdered
    <3>5. j <= k
      BY <2>4
    <3> QED
      BY <3>1, <3>3, <3>4, <3>5 DEF StackSlots
  <2> HIDE DEF t
  <2>8. StackTypeOK'
    <3>1. ran' \in Seq(Tickets)
      BY <2>2, <2>3
    <3>2. fate' \in [Tickets -> {"none", "pushed", "popped", "run"}]
      BY <1>1, <1>5 DEF StackTypeOK
    <3>3. cursor' \in 0 .. StackMax
      BY <1>5, <2>2
    <3> QED
      BY <1>1, <1>2, <2>1, <3>1, <3>2, <3>3, Zenon DEF StackTypeOK
  <2>9. StackOrdered'
    <3>1. \A u, v \in Tickets : fate'[u] = "none" /\ fate'[v] # "none" => v < u
      BY <2>2, <2>5, <2>6 DEF CleanupInv, StackOrdered
    <3>2. \A i, j \in StackSlots : Occupied(i)' /\ Occupied(j)' /\ i < j =>
            stack'.fns[i] < stack'.fns[j]
      BY <2>1, <2>4 DEF CleanupInv, StackOrdered
    <3>3. ASSUME NEW j \in StackSlots, Occupied(j)'
          PROVE  fate'[stack'.fns[j]] = "pushed" \/ (j = cursor' /\ fate'[stack'.fns[j]] = "run")
      <4>1. Occupied(j) /\ stack'.fns[j] = stack.fns[j]
        BY <2>1, <2>4, <3>3
      <4>2. stack.fns[j] \in Tickets /\ fate[stack.fns[j]] = "pushed"
        BY <2>7, <4>1
      <4>3. stack.fns[j] = t => j = k
        BY <2>2, <2>7, <4>1 DEF Tickets
      <4> QED
        BY <1>5, <2>5, <4>1, <4>2, <4>3
    <3>4. \A j \in StackSlots : ~ (stack'.count <= j /\ j < cursor')
      BY <1>3, <1>5, <2>1 DEF StackSlots
    <3> QED
      BY <3>1, <3>2, <3>3, <3>4 DEF StackOrdered
  <2>10. NothingLost'
    <3>1. ASSUME NEW u \in Tickets \ late', fate'[u] = "pushed"
          PROVE  \E j \in StackSlots : Occupied(j)' /\ j < cursor' /\ stack'.fns[j] = u
      <4>1. u \in Tickets \ late /\ fate[u] = "pushed" /\ u # t
        BY <1>2, <2>5, <3>1
      <4>2. PICK j \in StackSlots : Occupied(j) /\ stack.fns[j] = u
        BY <4>1 DEF CleanupInv, NothingLost
      <4>3. Occupied(j)' /\ j < cursor' /\ stack'.fns[j] = u
        BY <1>5, <2>1, <2>4, <4>1, <4>2 DEF t, StackSlots
      <4> QED
        BY <4>3
    <3> QED
      BY <1>2, <2>1, <3>1 DEF NothingLost
  <2>11. RanInOrder'
    <3>1. DOMAIN ran' = {1} /\ ran'[1] = t
      BY <2>3
    <3>2. fate'[t] = "run"
      BY <2>2, <2>5
    <3>3. \A j \in StackSlots : Occupied(j)' /\ j < cursor' => stack'.fns[j] < t
      BY <1>5, <2>1, <2>4, <2>7 DEF StackSlots
    <3> QED
      BY <3>1, <3>2, <3>3 DEF RanInOrder
  <2> QED
    BY <2>8, <2>9, <2>10, <2>11 DEF CleanupInv
<1>6. CallBelow(stack.count, stack.fns) /\ stack.count \in Nat
  BY <1>3 DEF DrainStack
<1> QED
  BY <1>4, <1>5, <1>6, CallBelowCases

\* A call returned: its slot is emptied and the topmost function below it is called, or
\* the drain ends with the stack empty.
LEMMA CallReturnsKeeps ==
  ASSUME CleanupInv, CallReturns
  PROVE  CleanupInv'
<1> USE CleanupAssumption
<1> DEFINE fns == [stack.fns EXCEPT ![cursor] = NoTicket]
<1>1. StackTypeOK
  BY DEF CleanupInv
<1>2. /\ Draining /\ cursor \in StackSlots /\ cursor \in Nat /\ stack.drained = FALSE
      /\ handles' = handles /\ late' = late
      /\ ran' = IF cursor' < StackMax THEN Append(ran, stack.fns[cursor']) ELSE ran
  BY <1>1 DEF CallReturns, Draining, StackTypeOK, StackSlots, CleanupInv, NothingLost
<1>3. fns \in [StackSlots -> Tickets \cup {NoTicket}]
  BY <1>1 DEF StackTypeOK
<1>4. \A k \in StackSlots : fns[k] = IF k = cursor THEN NoTicket ELSE stack.fns[k]
  BY <1>1 DEF StackTypeOK
<1>5. \A k \in StackSlots : k < cursor /\ fns[k] # NoTicket => Occupied(k) /\ fns[k] = stack.fns[k]
  <2> SUFFICES ASSUME NEW k \in StackSlots, k < cursor, fns[k] # NoTicket
               PROVE  Occupied(k) /\ fns[k] = stack.fns[k]
    OBVIOUS
  <2>1. fns[k] = stack.fns[k]
    BY <1>2, <1>4 DEF StackSlots
  <2>2. ~ (stack.count <= k)
    BY <1>2, <2>1 DEF CleanupInv, StackOrdered
  <2>3. k < stack.count
    BY <1>1, <2>2 DEF StackTypeOK, StackSlots
  <2> QED
    BY <2>1, <2>3 DEF Occupied
<1>6. CallBelow(cursor, fns)
  BY DEF CallReturns
<1> HIDE DEF fns
<1>7. CASE /\ \A k \in StackSlots : k < cursor => fns[k] = NoTicket
           /\ cursor' = StackMax
           /\ stack' = [stack EXCEPT !.fns = fns, !.count = 0, !.drained = TRUE]
           /\ fate' = fate
  <2>1. ran' = ran
    BY <1>2, <1>7
  <2>2. /\ stack'.fns = fns /\ stack'.count = 0 /\ stack'.drained = TRUE
    BY <1>1, <1>7 DEF StackTypeOK
  <2>3. \A k \in StackSlots : ~ Occupied(k)'
    BY <2>2 DEF Occupied, StackSlots
  <2>4. \A k \in StackSlots : Occupied(k) => ~ (k < cursor)
    BY <1>2, <1>4, <1>7 DEF Occupied, StackSlots
  <2>5. StackTypeOK'
    <3>1. stack' \in [fns : [StackSlots -> Tickets \cup {NoTicket}],
                      gens : [StackSlots -> 0 .. CleanupGenMax],
                      count : 0 .. StackMax, drained : BOOLEAN]
      <4>1. 0 \in 0 .. StackMax
        OBVIOUS
      <4> QED
        BY <1>1, <1>3, <1>7, <4>1 DEF StackTypeOK
    <3>2. cursor' \in 0 .. StackMax
      BY <1>7
    <3> QED
      BY <1>1, <1>2, <1>7, <2>1, <3>1, <3>2 DEF StackTypeOK
  <2>6. StackOrdered'
    BY <1>7, <2>3 DEF CleanupInv, StackOrdered, Draining
  <2>7. NothingLost'
    BY <1>2, <1>7, <2>2, <2>4 DEF CleanupInv, NothingLost, Draining
  <2>8. RanInOrder'
    BY <1>2, <1>7, <2>1 DEF CleanupInv, RanInOrder, Draining
  <2> QED
    BY <2>5, <2>6, <2>7, <2>8 DEF CleanupInv
<1>8. ASSUME NEW k \in StackSlots, k < cursor, fns[k] # NoTicket,
             \A j \in StackSlots : j < cursor /\ fns[j] # NoTicket => j <= k,
             cursor' = k, stack' = [stack EXCEPT !.fns = fns],
             fate' = [fate EXCEPT ![fns[k]] = "run"]
      PROVE  CleanupInv'
  <2> DEFINE t == stack.fns[k]
  <2>1. Occupied(k) /\ fns[k] = t /\ t \in Tickets /\ k < StackMax /\ k \in Nat
    BY <1>1, <1>3, <1>5, <1>8 DEF StackSlots
  <2>2. /\ stack'.fns = fns /\ stack'.gens = stack.gens
        /\ stack'.count = stack.count /\ stack'.drained = FALSE
    BY <1>1, <1>2, <1>8 DEF StackTypeOK
  <2>3. ran' = Append(ran, t)
    BY <1>2, <1>4, <1>8, <2>1
  <2>4. \A j \in StackSlots : Occupied(j)' <=> Occupied(j) /\ j # cursor
    BY <1>4, <2>2 DEF Occupied
  <2>5. \A j \in StackSlots : Occupied(j) /\ j < cursor => j <= k
    BY <1>2, <1>4, <1>8 DEF Occupied, StackSlots
  <2>6. \A u \in Tickets : fate'[u] = IF u = t THEN "run" ELSE fate[u]
    BY <1>1, <1>8, <2>1 DEF StackTypeOK
  <2>7. \A j \in StackSlots : Occupied(j) /\ j # cursor =>
                /\ stack.fns[j] \in Tickets /\ fate[stack.fns[j]] = "pushed"
                /\ (j # k => stack.fns[j] # t) /\ (j < k => stack.fns[j] < t)
    <3> SUFFICES ASSUME NEW j \in StackSlots, Occupied(j), j # cursor
                 PROVE  /\ stack.fns[j] \in Tickets /\ fate[stack.fns[j]] = "pushed"
                        /\ (j # k => stack.fns[j] # t) /\ (j < k => stack.fns[j] < t)
      OBVIOUS
    <3>1. stack.fns[j] \in Tickets
      BY <1>1 DEF StackTypeOK, Occupied
    <3>2. fate[stack.fns[j]] = "pushed"
      BY DEF CleanupInv, StackOrdered
    <3>3. (j < k => stack.fns[j] < t) /\ (k < j => t < stack.fns[j])
      BY <2>1 DEF CleanupInv, StackOrdered
    <3> HIDE DEF t
    <3> QED
      BY <2>1, <3>1, <3>2, <3>3 DEF StackSlots, Tickets
  <2>8. fate[t] = "pushed"
    BY <1>2, <1>8, <2>1, <2>7 DEF StackSlots
  <2> HIDE DEF t
  <2>9. StackTypeOK'
    <3>1. stack' \in [fns : [StackSlots -> Tickets \cup {NoTicket}],
                      gens : [StackSlots -> 0 .. CleanupGenMax],
                      count : 0 .. StackMax, drained : BOOLEAN]
      BY <1>1, <1>3, <1>8 DEF StackTypeOK
    <3>2. ran' \in Seq(Tickets)
      BY <1>1, <2>1, <2>3 DEF StackTypeOK
    <3>3. fate' \in [Tickets -> {"none", "pushed", "popped", "run"}]
      BY <1>1, <1>8 DEF StackTypeOK
    <3>4. cursor' \in 0 .. StackMax
      BY <1>8, <2>1
    <3> QED
      BY <1>1, <1>2, <3>1, <3>2, <3>3, <3>4, Zenon DEF StackTypeOK
  <2>10. StackOrdered'
    <3>1. \A u, v \in Tickets : fate'[u] = "none" /\ fate'[v] # "none" => v < u
      BY <2>1, <2>6, <2>8 DEF CleanupInv, StackOrdered
    <3>2. \A i, j \in StackSlots : Occupied(i)' /\ Occupied(j)' /\ i < j =>
            stack'.fns[i] < stack'.fns[j]
      BY <1>4, <2>2, <2>4 DEF CleanupInv, StackOrdered
    <3>3. ASSUME NEW j \in StackSlots, Occupied(j)'
          PROVE  fate'[stack'.fns[j]] = "pushed" \/ (j = cursor' /\ fate'[stack'.fns[j]] = "run")
      <4>1. Occupied(j) /\ j # cursor /\ stack'.fns[j] = stack.fns[j]
        BY <1>4, <2>2, <2>4, <3>3
      <4>2. stack.fns[j] \in Tickets /\ fate[stack.fns[j]] = "pushed" /\ (j # k => stack.fns[j] # t)
        BY <2>7, <4>1
      <4> QED
        BY <1>8, <2>6, <4>1, <4>2
    <3>4. ASSUME NEW j \in StackSlots, stack'.count <= j, j < cursor'
          PROVE  stack'.fns[j] = NoTicket
      <4>1. j < cursor /\ j # cursor /\ stack.count <= j
        BY <1>2, <1>8, <2>2, <3>4 DEF StackSlots
      <4> QED
        BY <1>2, <1>4, <2>2, <4>1 DEF CleanupInv, StackOrdered
    <3> QED
      BY <3>1, <3>2, <3>3, <3>4 DEF StackOrdered
  <2>11. NothingLost'
    <3>1. ASSUME NEW u \in Tickets \ late', fate'[u] = "pushed"
          PROVE  \E j \in StackSlots : Occupied(j)' /\ j < cursor' /\ stack'.fns[j] = u
      <4>1. u \in Tickets \ late /\ fate[u] = "pushed" /\ u # t
        BY <1>2, <2>6, <3>1
      <4>2. PICK j \in StackSlots : Occupied(j) /\ j < cursor /\ stack.fns[j] = u
        BY <4>1 DEF CleanupInv, NothingLost
      <4>3. j # cursor /\ j # k /\ j < k
        BY <1>2, <2>1, <2>5, <4>1, <4>2 DEF t, StackSlots
      <4>4. Occupied(j)' /\ j < cursor' /\ stack'.fns[j] = u
        BY <1>4, <1>8, <2>2, <2>4, <4>2, <4>3
      <4> QED
        BY <4>4
    <3> QED
      BY <2>2, <3>1 DEF NothingLost
  <2>12. RanInOrder'
    <3> DEFINE n == Len(ran) + 1
    <3>1. ran \in Seq(Tickets) /\ n \in Nat
      BY <1>1 DEF StackTypeOK
    <3>2. /\ DOMAIN ran' = DOMAIN ran \cup {n} /\ ran'[n] = t
          /\ \A m \in DOMAIN ran : ran'[m] = ran[m] /\ ran[m] \in Tickets /\ m < n /\ m \in Nat
      BY <2>1, <2>3, <3>1
    <3> HIDE DEF n
    <3>3. \A m \in DOMAIN ran : fate[ran[m]] = "run" /\ ran[m] # t
      BY <2>8 DEF CleanupInv, RanInOrder
    <3>4. ASSUME NEW m \in DOMAIN ran, {ran[m], t} \cap late = {}
          PROVE  t < ran[m]
      BY <1>2, <1>8, <2>1, <3>4 DEF CleanupInv, RanInOrder, t
    <3>5. \A m \in DOMAIN ran' : fate'[ran'[m]] = "run"
      BY <2>1, <2>6, <3>2, <3>3
    <3>6. \A i, m \in DOMAIN ran' : i < m => ran'[i] # ran'[m]
      BY <3>1, <3>2, <3>3 DEF CleanupInv, RanInOrder
    <3>7. \A i, m \in DOMAIN ran' : i < m /\ {ran'[i], ran'[m]} \cap late' = {} => ran'[i] > ran'[m]
      <4> SUFFICES ASSUME NEW i \in DOMAIN ran', NEW m \in DOMAIN ran', i < m,
                          {ran'[i], ran'[m]} \cap late' = {}
                   PROVE  ran'[i] > ran'[m]
        OBVIOUS
      <4>1. i \in DOMAIN ran
        BY <3>1, <3>2
      <4>2. CASE m = n
        BY <1>2, <2>1, <3>2, <3>4, <4>1, <4>2 DEF Tickets
      <4>3. CASE m \in DOMAIN ran
        BY <1>2, <3>2, <4>1, <4>3 DEF CleanupInv, RanInOrder
      <4> QED
        BY <3>2, <4>2, <4>3
    <3>8. ASSUME NEW m \in DOMAIN ran', NEW j \in StackSlots, Occupied(j)', j < cursor',
                 {ran'[m], stack'.fns[j]} \cap late' = {}
          PROVE  stack'.fns[j] < ran'[m]
      <4>1. Occupied(j) /\ j # cursor /\ j < k /\ j < cursor /\ stack'.fns[j] = stack.fns[j]
        BY <1>2, <1>4, <1>8, <2>2, <2>4, <3>8 DEF StackSlots
      <4>2. CASE m = n
        BY <2>7, <3>2, <4>1, <4>2
      <4>3. CASE m \in DOMAIN ran
        BY <1>2, <3>2, <3>8, <4>1, <4>3 DEF CleanupInv, RanInOrder
      <4> QED
        BY <3>2, <4>2, <4>3
    <3> QED
      BY <3>5, <3>6, <3>7, <3>8 DEF RanInOrder
  <2> QED
    BY <2>9, <2>10, <2>11, <2>12 DEF CleanupInv
<1> QED
  BY <1>2, <1>6, <1>7, <1>8, CallBelowCases

LEMMA CleanupStutter == CleanupInv /\ UNCHANGED cleanupVars => CleanupInv'
  BY DEF CleanupInv, StackTypeOK, StackOrdered, NothingLost, RanInOrder, Occupied, Draining,
         cleanupVars

LEMMA CleanupInvariant == CleanupSpec => []CleanupInv
<1>1. CleanupInv /\ [CleanupNext]_cleanupVars => CleanupInv'
  BY PushKeeps, PopKeeps, DrainStackKeeps, CallReturnsKeeps, CleanupStutter DEF CleanupNext
<1> QED
  BY <1>1, CleanupInitInv, PTL DEF CleanupSpec

LEMMA CleanupRunsAlone == SupportSpec => CleanupSpec
<1>1. SupportInit => CleanupInit
  BY DEF SupportInit
<1>2. [SupportNext]_SupportVars => [CleanupNext]_cleanupVars
  BY DEF SupportNext, SupportVars, Rest
<1> QED
  BY <1>1, <1>2, PTL DEF SupportSpec, CleanupSpec

\* A drain calls no cleanup function twice, calls them the last pushed first, and leaves
\* out none that was pushed before it and not popped, whatever the functions push and pop
\* while it runs: for stacks of every capacity and any number of pushes.
THEOREM DrainHonest == SupportSpec => []DrainRunsEach
<1>1. CleanupInv => DrainRunsEach
  <2> SUFFICES ASSUME CleanupInv
               PROVE  DrainRunsEach
    OBVIOUS
  <2>1. ASSUME stack.drained, NEW t \in Tickets, fate[t] = "pushed"
        PROVE  t \in late
    BY <2>1 DEF CleanupInv, NothingLost, Occupied, StackSlots
  <2> QED
    BY <2>1 DEF CleanupInv, RanInOrder, DrainRunsEach
<1> QED
  BY <1>1, CleanupRunsAlone, CleanupInvariant, PTL

----------------------------------------------------------------------------
(* One component moves, the others stand still: what holds of every run of *)
(* a component alone holds of it among the others.                         *)

LEMMA GhostRunsAlone == SupportSpec => GhostSpec
<1>1. SupportInit => GhostInit
  BY DEF SupportInit
<1>2. [SupportNext]_SupportVars => [GhostNext]_ghostVars
  BY DEF SupportNext, SupportVars, Rest, GhostNext
<1> QED
  BY <1>1, <1>2, PTL DEF SupportSpec, GhostSpec

LEMMA ConfigRunsAlone == SupportSpec => ConfigSpec
<1>1. SupportInit => ConfigInit
  BY DEF SupportInit
<1>2. [SupportNext]_SupportVars => [ConfigNext]_configVars
  BY DEF SupportNext, SupportVars, Rest
<1> QED
  BY <1>1, <1>2, PTL DEF SupportSpec, ConfigSpec

----------------------------------------------------------------------------
(* Borrows *)

Borrow == [shared : Nat, exclusive : BOOLEAN]

BorrowCell ==
  [occupied : BOOLEAN, entity : Entities \cup {NoEntity}, shared : Nat, exclusive : BOOLEAN]
BorrowIn(cell) == [shared |-> cell.shared, exclusive |-> cell.exclusive]

\* An entity has one slot at most; what it holds is what its borrowers were granted, which
\* is nothing without a slot, and never a shared borrow beside an exclusive one.
BorrowsInv ==
  /\ granted \in [Entities -> Borrow]
  /\ borrows \in [BorrowSlots -> BorrowCell]
  /\ \A k \in BorrowSlots :
       borrows[k].occupied =>
         borrows[k].entity \in Entities /\ BorrowIn(borrows[k]) = granted[borrows[k].entity]
  /\ \A j, k \in BorrowSlots :
       borrows[j].occupied /\ borrows[k].occupied /\ borrows[j].entity = borrows[k].entity => j = k
  /\ \A e \in Entities : BorrowFound(e) = {} => granted[e] = NoBorrow
  /\ BorrowsExclusive

NothingBorrowed == borrows = EmptyTable /\ granted = [e \in Entities |-> NoBorrow]

LEMMA NoBorrowKeeps == NothingBorrowed => BorrowsInv
<1> SUFFICES ASSUME borrows = EmptyTable, granted = [e \in Entities |-> NoBorrow]
             PROVE  BorrowsInv
  BY DEF NothingBorrowed
<1>1. NoBorrow \in Borrow /\ ~NoBorrow.exclusive
  BY DEF NoBorrow, Borrow
<1>2. borrows \in [BorrowSlots -> BorrowCell] /\ \A k \in BorrowSlots : ~borrows[k].occupied
  BY DEF EmptyTable, BorrowCell
<1>3. granted \in [Entities -> Borrow] /\ \A e \in Entities : granted[e] = NoBorrow
  BY <1>1
<1> QED
  BY <1>1, <1>2, <1>3 DEF BorrowsInv, BorrowsExclusive

LEMMA GhostResetBorrows == GhostReset => BorrowsInv'
<1>1. GhostReset => NothingBorrowed'
  BY DEF GhostReset, NothingBorrowed, EmptyTable
<1> QED
  BY <1>1, NoBorrowKeeps, PTL

LEMMA BorrowsUnchanged == BorrowsInv /\ UNCHANGED <<borrows, granted>> => BorrowsInv'
BY DEF BorrowsInv, BorrowFound, BorrowsExclusive

\* The first of some slots is one of them.
LEMMA FirstIsIn ==
  ASSUME NEW S \in SUBSET BorrowSlots, S # {}
  PROVE  First(S) \in S
<1>1. S \subseteq Nat
  BY GhostAssumption DEF BorrowSlots
<1>2. \E k \in S : \A j \in S : k <= j
  BY <1>1, MinExists
<1> QED
  BY <1>2 DEF First

\* The slot a borrow uses is the entity's only one, or free; the entry stands for what
\* was granted.
LEMMA BorrowEntryFacts ==
  ASSUME BorrowsInv, NEW e \in Entities, Borrowable(e)
  PROVE  /\ BorrowSlot(e) \in BorrowSlots /\ BorrowFound(e) \subseteq {BorrowSlot(e)}
         /\ borrows[BorrowSlot(e)].occupied => borrows[BorrowSlot(e)].entity = e
         /\ BorrowEntry(e) \in BorrowCell /\ BorrowEntry(e).occupied /\ BorrowEntry(e).entity = e
         /\ BorrowIn(BorrowEntry(e)) = granted[e]
<1>1. BorrowFound(e) \in SUBSET BorrowSlots /\ BorrowFree \in SUBSET BorrowSlots
  BY DEF BorrowFound, BorrowFree
<1>2. CASE BorrowFound(e) # {}
  <2>1. BorrowSlot(e) \in BorrowFound(e) /\ BorrowEntry(e) = borrows[BorrowSlot(e)]
    BY <1>1, <1>2, FirstIsIn DEF BorrowSlot, BorrowEntry
  <2> QED
    BY <2>1 DEF BorrowsInv, BorrowFound
<1>3. CASE BorrowFound(e) = {}
  <2>1. BorrowSlot(e) \in BorrowFree
    BY <1>1, <1>3, FirstIsIn DEF BorrowSlot, Borrowable
  <2>2. BorrowEntry(e) = [occupied |-> TRUE, entity |-> e, shared |-> 0, exclusive |-> FALSE]
    BY <1>3 DEF BorrowEntry
  <2>3. granted[e] = NoBorrow
    BY <1>3 DEF BorrowsInv
  <2> QED
    BY <1>3, <2>1, <2>2, <2>3 DEF BorrowFree, BorrowCell, BorrowIn, NoBorrow
<1> QED
  BY <1>2, <1>3

\* One entity's borrow changes, in its slot and in its callers' hands alike.
LEMMA BorrowChanges ==
  ASSUME BorrowsInv, NEW e \in Entities, Borrowable(e),
         NEW cell \in BorrowCell, cell.entity = e, cell.occupied \/ BorrowIn(cell) = NoBorrow,
         cell.exclusive => cell.shared = 0,
         borrows' = [borrows EXCEPT ![BorrowSlot(e)] = cell],
         granted' = [granted EXCEPT ![e] = BorrowIn(cell)]
  PROVE  BorrowsInv'
<1> DEFINE k == BorrowSlot(e)
           b == BorrowIn(cell)
<1>1. /\ k \in BorrowSlots /\ BorrowFound(e) \subseteq {k}
      /\ borrows[k].occupied => borrows[k].entity = e
  BY BorrowEntryFacts
<1>2. b \in Borrow /\ (b.exclusive => b.shared = 0)
  BY DEF BorrowIn, Borrow, BorrowCell
<1> HIDE DEF b, k
<1>3. granted' \in [Entities -> Borrow] /\ borrows' \in [BorrowSlots -> BorrowCell]
  BY <1>1, <1>2 DEF BorrowsInv, k, b
<1>4. borrows'[k] = cell /\ \A j \in BorrowSlots \ {k} : borrows'[j] = borrows[j]
  BY <1>1 DEF BorrowsInv, k
<1>5. granted'[e] = b /\ \A x \in Entities \ {e} : granted'[x] = granted[x]
  BY DEF BorrowsInv, b
<1>6. \A j \in BorrowSlots \ {k} : borrows[j].occupied => borrows[j].entity # e
  BY <1>1 DEF BorrowFound
<1>7. \A j \in BorrowSlots :
        borrows'[j].occupied =>
          borrows'[j].entity \in Entities /\ BorrowIn(borrows'[j]) = granted'[borrows'[j].entity]
  BY <1>4, <1>5, <1>6 DEF BorrowsInv, b
<1>8. \A i, j \in BorrowSlots :
        borrows'[i].occupied /\ borrows'[j].occupied /\ borrows'[i].entity = borrows'[j].entity
          => i = j
  BY <1>4, <1>6 DEF BorrowsInv
<1>9. ASSUME NEW x \in Entities, BorrowFound(x)' = {}
      PROVE  granted'[x] = NoBorrow
  <2>1. CASE x = e
    BY <1>1, <1>4, <1>5, <1>9, <2>1 DEF BorrowFound, b
  <2>2. CASE x # e
    <3>1. BorrowFound(x) = {}
      BY <1>1, <1>4, <1>9, <2>2 DEF BorrowFound
    <3> QED
      BY <1>5, <2>2, <3>1 DEF BorrowsInv
  <2> QED
    BY <2>1, <2>2
<1>10. BorrowsExclusive'
  BY <1>2, <1>5 DEF BorrowsInv, BorrowsExclusive
<1> QED
  BY <1>3, <1>7, <1>8, <1>9, <1>10 DEF BorrowsInv

\* A cell with one of its fields changed.
LEMMA CellShared ==
  ASSUME NEW r \in BorrowCell, NEW n \in Nat, NEW c, c = [r EXCEPT !.shared = n]
  PROVE  /\ c \in BorrowCell /\ c.shared = n /\ c.exclusive = r.exclusive
         /\ c.entity = r.entity /\ c.occupied = r.occupied
BY Zenon DEF BorrowCell

LEMMA CellExclusive ==
  ASSUME NEW r \in BorrowCell, NEW x \in BOOLEAN, NEW c, c = [r EXCEPT !.exclusive = x]
  PROVE  /\ c \in BorrowCell /\ c.shared = r.shared /\ c.exclusive = x
         /\ c.entity = r.entity /\ c.occupied = r.occupied
BY Zenon DEF BorrowCell

LEMMA CellMarked ==
  ASSUME NEW r \in BorrowCell, NEW x \in BOOLEAN, NEW c, c = [r EXCEPT !.occupied = x]
  PROVE  /\ c \in BorrowCell /\ c.shared = r.shared /\ c.exclusive = r.exclusive
         /\ c.entity = r.entity /\ c.occupied = x
BY Zenon DEF BorrowCell

LEMMA BorrowSharedKeeps ==
  ASSUME BorrowsInv, NEW e \in Entities, BorrowShared(e)
  PROVE  BorrowsInv'
<1> DEFINE r == BorrowEntry(e)
<1>1. r \in BorrowCell /\ r.occupied /\ r.entity = e /\ BorrowIn(r) = granted[e]
  BY BorrowEntryFacts DEF BorrowShared
<1>2. CASE r.exclusive
  BY <1>2, BorrowsUnchanged DEF BorrowShared
<1>3. CASE ~r.exclusive
  <2> DEFINE n == r.shared + 1
             cell == [r EXCEPT !.shared = n]
  <2>1. n \in Nat
    BY <1>1 DEF BorrowCell
  <2>2. /\ cell \in BorrowCell /\ cell.entity = e /\ cell.occupied
        /\ cell.shared = n /\ cell.exclusive = r.exclusive
    BY <1>1, <2>1, CellShared
  <2>3. borrows' = [borrows EXCEPT ![BorrowSlot(e)] = cell]
    BY <1>3 DEF BorrowShared
  <2>4. granted[e].shared = r.shared /\ granted[e].exclusive = r.exclusive
    BY <1>1 DEF BorrowIn
  <2>5. [granted[e] EXCEPT !.shared = n] = BorrowIn(cell)
    BY <1>1, <2>2, <2>4 DEF BorrowIn
  <2>6. granted' = [granted EXCEPT ![e] = BorrowIn(cell)]
    BY <1>3, <2>4, <2>5 DEF BorrowShared
  <2> HIDE DEF cell
  <2> QED
    BY <1>3, <2>2, <2>3, <2>6, BorrowChanges DEF BorrowShared
<1> QED
  BY <1>2, <1>3

LEMMA BorrowExclusiveKeeps ==
  ASSUME BorrowsInv, NEW e \in Entities, BorrowExclusive(e)
  PROVE  BorrowsInv'
<1> DEFINE r == BorrowEntry(e)
<1>1. r \in BorrowCell /\ r.occupied /\ r.entity = e /\ BorrowIn(r) = granted[e]
  BY BorrowEntryFacts DEF BorrowExclusive
<1>2. CASE r.exclusive \/ r.shared > 0
  BY <1>2, BorrowsUnchanged DEF BorrowExclusive
<1>3. CASE ~(r.exclusive \/ r.shared > 0)
  <2> DEFINE cell == [r EXCEPT !.exclusive = TRUE]
  <2>1. /\ cell \in BorrowCell /\ cell.entity = e /\ cell.occupied
        /\ cell.shared = r.shared /\ cell.exclusive = TRUE
    <3>0. PICK b : b = r
      OBVIOUS
    <3>1. PICK t : t = TRUE /\ t \in BOOLEAN
      OBVIOUS
    <3>2. PICK q : q = [b EXCEPT !.exclusive = t]
      OBVIOUS
    <3>3. b \in BorrowCell /\ t \in BOOLEAN
      BY <1>1, <3>0, <3>1
    <3>4. /\ q \in BorrowCell /\ q.shared = b.shared /\ q.exclusive = t
          /\ q.entity = b.entity /\ q.occupied = b.occupied
      BY <3>2, <3>3, CellExclusive, Zenon
    <3>5. cell = q
      BY <3>0, <3>1, <3>2, Zenon
    <3> HIDE DEF cell, r
    <3> QED
      BY <1>1, <3>0, <3>1, <3>4, <3>5, Zenon
  <2>2. cell.shared = 0
    BY <1>1, <1>3, <2>1 DEF BorrowCell
  <2>3. borrows' = [borrows EXCEPT ![BorrowSlot(e)] = cell]
    BY <1>3 DEF BorrowExclusive
  <2>4. [granted[e] EXCEPT !.exclusive = TRUE] = BorrowIn(cell)
    <3>1. PICK t, n : t = TRUE /\ n = r.shared
      BY Zenon
    <3>2. granted[e] = [shared |-> n, exclusive |-> r.exclusive]
      BY <1>1, <3>1, Zenon DEF BorrowIn
    <3>3. [granted[e] EXCEPT !.exclusive = t] = [shared |-> n, exclusive |-> t]
      BY <3>2
    <3> QED
      BY <2>1, <3>1, <3>3, Zenon DEF BorrowIn
  <2>5. granted' = [granted EXCEPT ![e] = BorrowIn(cell)]
    BY <1>3, <2>4 DEF BorrowExclusive
  <2> HIDE DEF cell
  <2> QED
    BY <2>1, <2>2, <2>3, <2>5, BorrowChanges DEF BorrowExclusive
<1> QED
  BY <1>2, <1>3

\* What a release leaves of a cell and of its borrow.
LEMMA WeakenedFacts ==
  ASSUME NEW r \in BorrowCell, r.exclusive => r.shared = 0
  PROVE  /\ Weakened(r) \in BorrowCell /\ Weakened(r).entity = r.entity
         /\ ~Weakened(r).exclusive /\ Weakened(r).shared \in Nat
         /\ Weakened(BorrowIn(r)) = BorrowIn(Weakened(r))
<1>1. r.shared \in Nat /\ r.exclusive \in BOOLEAN
  BY DEF BorrowCell
<1>2. CASE r.exclusive
  <2>1. Weakened(r) = [r EXCEPT !.exclusive = FALSE]
    BY <1>2 DEF Weakened
  <2>2. /\ Weakened(r) \in BorrowCell /\ Weakened(r).entity = r.entity
        /\ Weakened(r).exclusive = FALSE /\ Weakened(r).shared = r.shared
    BY <2>1, FALSE \in BOOLEAN, CellExclusive, Zenon
  <2>3. Weakened(BorrowIn(r)) = [shared |-> r.shared, exclusive |-> FALSE]
    BY <1>2 DEF Weakened, BorrowIn
  <2> QED
    BY <1>1, <2>2, <2>3 DEF BorrowIn
<1>3. CASE ~r.exclusive /\ r.shared > 0
  <2>1. Weakened(r) = [r EXCEPT !.shared = r.shared - 1] /\ r.shared - 1 \in Nat
    BY <1>1, <1>3 DEF Weakened
  <2>2. /\ Weakened(r) \in BorrowCell /\ Weakened(r).entity = r.entity
        /\ Weakened(r).exclusive = r.exclusive /\ Weakened(r).shared = r.shared - 1
    BY <2>1, CellShared
  <2>3. Weakened(BorrowIn(r)) = [shared |-> r.shared - 1, exclusive |-> r.exclusive]
    BY <1>3 DEF Weakened, BorrowIn
  <2> QED
    BY <1>3, <2>1, <2>2, <2>3 DEF BorrowIn
<1>4. CASE ~r.exclusive /\ ~(r.shared > 0)
  <2>1. Weakened(r) = r /\ Weakened(BorrowIn(r)) = BorrowIn(r)
    BY <1>4 DEF Weakened, BorrowIn
  <2> QED
    BY <1>1, <1>4, <2>1
<1> QED
  BY <1>2, <1>3, <1>4

LEMMA BorrowReleaseKeeps ==
  ASSUME BorrowsInv, NEW e \in Entities, BorrowRelease(e)
  PROVE  BorrowsInv'
<1> DEFINE r == BorrowEntry(e)
           b == Weakened(r)
           mark == b.exclusive \/ b.shared > 0
           cell == [b EXCEPT !.occupied = mark]
<1>1. Borrowable(e)
  BY DEF BorrowRelease, Borrowable
<1>2. r \in BorrowCell /\ r.entity = e /\ BorrowIn(r) = granted[e]
  BY <1>1, BorrowEntryFacts
<1>3. r.exclusive => r.shared = 0
  BY <1>2 DEF BorrowsInv, BorrowsExclusive, BorrowIn
<1>4. /\ b \in BorrowCell /\ b.entity = e /\ ~b.exclusive /\ b.shared \in Nat
      /\ Weakened(BorrowIn(r)) = BorrowIn(b)
  BY <1>2, <1>3, WeakenedFacts
<1> HIDE DEF b, r
<1>5. mark \in BOOLEAN
  OBVIOUS
<1> HIDE DEF mark
<1>6. /\ cell \in BorrowCell /\ cell.entity = e /\ cell.occupied = mark
      /\ cell.shared = b.shared /\ cell.exclusive = b.exclusive
  BY <1>4, <1>5, CellMarked, Zenon
<1>7. BorrowIn(cell) = BorrowIn(b)
  BY <1>6 DEF BorrowIn
<1>8. cell.occupied \/ BorrowIn(cell) = NoBorrow
  <2>1. CASE b.shared > 0
    BY <1>6, <2>1, Zenon DEF mark
  <2>2. CASE ~(b.shared > 0)
    <3>1. b.shared = 0 /\ b.exclusive = FALSE
      <4>1. b.shared = 0
        BY <1>4, <2>2
      <4>2. b.exclusive \in BOOLEAN
        BY <1>4, Zenon DEF BorrowCell
      <4> QED
        BY <1>4, <4>1, <4>2, Zenon
    <3> QED
      BY <1>7, <3>1, Zenon DEF BorrowIn, NoBorrow
  <2> QED
    BY <2>1, <2>2
<1>9. borrows' = [borrows EXCEPT ![BorrowSlot(e)] = cell]
  BY DEF BorrowRelease, b, r, mark
<1>10. granted' = [granted EXCEPT ![e] = BorrowIn(cell)]
  BY <1>2, <1>4, <1>7 DEF BorrowRelease
<1> HIDE DEF cell
<1> QED
  BY <1>1, <1>4, <1>6, <1>8, <1>9, <1>10, BorrowChanges

LEMMA BorrowReleaseAllKeeps ==
  ASSUME BorrowsInv, NEW e \in Entities, BorrowReleaseAll(e)
  PROVE  BorrowsInv'
<1> DEFINE r == BorrowEntry(e)
           cell == [r EXCEPT !.shared = 0, !.exclusive = FALSE, !.occupied = FALSE]
<1>1. Borrowable(e) /\ r = borrows[BorrowSlot(e)]
  BY DEF BorrowReleaseAll, Borrowable, BorrowEntry
<1>2. r \in BorrowCell /\ r.entity = e /\ BorrowSlot(e) \in BorrowSlots
  BY <1>1, BorrowEntryFacts
<1>3. borrows' = [borrows EXCEPT ![BorrowSlot(e)] = cell]
  BY <1>1, <1>2 DEF BorrowReleaseAll, BorrowsInv
<1> HIDE DEF r
<1>4. /\ cell \in BorrowCell /\ cell.entity = e
      /\ cell.shared = 0 /\ cell.exclusive = FALSE
  BY <1>2, Zenon DEF BorrowCell
<1>5. BorrowIn(cell) = NoBorrow
  BY <1>4 DEF BorrowIn, NoBorrow
<1>6. granted' = [granted EXCEPT ![e] = BorrowIn(cell)]
  BY <1>5 DEF BorrowReleaseAll
<1> HIDE DEF cell
<1> QED
  BY <1>1, <1>3, <1>4, <1>5, <1>6, BorrowChanges

LEMMA BorrowsStep == BorrowsInv /\ [GhostNext]_ghostVars => BorrowsInv'
<1> SUFFICES ASSUME BorrowsInv, [GhostNext]_ghostVars
             PROVE  BorrowsInv'
  OBVIOUS
<1>1. CASE GhostReset
  BY <1>1, GhostResetBorrows
<1>2. ASSUME NEW e \in Entities, NEW p \in Protocols, IllegalTransition(p, e)
      PROVE  BorrowsInv'
  BY <1>2, BorrowsUnchanged DEF IllegalTransition
<1>3. ASSUME NEW e \in Entities,
             ObligationReserved(e) \/ ObligationResolved(e) \/ DeterminismRecord(e)
      PROVE  BorrowsInv'
  BY <1>3, BorrowsUnchanged DEF ObligationReserved, ObligationResolved, DeterminismRecord
<1>4. CASE CheckLeaks \/ DeterminismSeal \/ DeterminismReset \/ DeterminismCheck
  BY <1>4, BorrowsUnchanged DEF CheckLeaks, DeterminismSeal, DeterminismReset, DeterminismCheck
<1>5. CASE UNCHANGED ghostVars
  BY <1>5, BorrowsUnchanged DEF ghostVars
<1> QED
  BY <1>1, <1>2, <1>3, <1>4, <1>5, BorrowSharedKeeps, BorrowExclusiveKeeps, BorrowReleaseKeeps,
     BorrowReleaseAllKeeps DEF GhostNext, MonitorNext, BorrowNext

LEMMA BorrowsKept == GhostSpec => []BorrowsExclusive
<1>1. GhostInit => BorrowsInv
  BY NoBorrowKeeps DEF GhostInit, NothingBorrowed
<1>2. BorrowsInv => BorrowsExclusive
  BY DEF BorrowsInv
<1> QED
  BY <1>1, <1>2, BorrowsStep, PTL DEF GhostSpec

----------------------------------------------------------------------------
(* Reloads *)

\* A reload is accepted only if every field that differs may be reloaded.
LEMMA AcceptedReload ==
  ASSUME NEW c, ValidateReload(c) = "Ok"
  PROVE  /\ config.loaded
         /\ \A k \in ConfigFields : FieldClass(k) # "Reloadable" => config.active[k] = c[k]
<1> DEFINE offending == {n \in DOMAIN FieldTable :
                           /\ config.active[FieldTable[n]] # c[FieldTable[n]]
                           /\ Refusal(FieldClass(FieldTable[n])) # "Ok"}
<1>1. config.loaded
  BY DEF ValidateReload
<1>2. offending = {}
  <2> SUFFICES ASSUME offending # {}
               PROVE  FALSE
    OBVIOUS
  <2>1. offending \subseteq Nat
    BY DEF FieldTable
  <2>2. PICK m \in offending : \A n \in offending : ~(<<n, m>> \in OpToRel(<, Nat))
    BY <2>1, NatLessThanWellFounded, WFMin
  <2>3. \A n \in offending : m <= n
    <3> SUFFICES ASSUME NEW n \in offending, n < m
                 PROVE  FALSE
      BY <2>1
    <3>1. n \in Nat /\ m \in Nat
      BY <2>1
    <3>2. <<n, m>> \in OpToRel(<, Nat)
      BY <3>1 DEF OpToRel
    <3> QED
      BY <2>2, <3>2
  <2>4. Min(offending) \in offending
    BY <2>3 DEF Min
  <2>5. Refusal(FieldClass(FieldTable[Min(offending)])) = "Ok"
    BY <1>1 DEF ValidateReload
  <2> QED
    BY <2>4, <2>5
<1>3. ASSUME NEW k \in ConfigFields, FieldClass(k) # "Reloadable"
      PROVE  config.active[k] = c[k]
  <2>1. PICK n \in DOMAIN FieldTable : FieldTable[n] = k
    BY DEF ConfigFields, Range
  <2>2. FieldClass(k) \in {"FrozenCompile", "FrozenInit", "RestartRequired"}
    BY <1>3 DEF FieldClass
  <2>3. Refusal(FieldClass(k)) # "Ok"
    BY <2>2 DEF Refusal
  <2> QED
    BY <1>2, <2>1, <2>3
<1> QED
  BY <1>1, <1>3

\* The active configuration, once there is one, is a record with both fields.
ConfigInv ==
  /\ config = NotLoaded \/ config = [loaded |-> TRUE, active |-> config.active]
  /\ FrozenSinceLoad

LEMMA ConfigInitInv == ConfigInit => ConfigInv
BY DEF ConfigInit, ConfigInv, FrozenSinceLoad, NotLoaded

LEMMA ConfigStep == ConfigInv /\ [ConfigNext]_configVars => ConfigInv'
<1> SUFFICES ASSUME ConfigInv, [ConfigNext]_configVars
             PROVE  ConfigInv'
  OBVIOUS
<1>1. ASSUME NEW c, ConfigLoad(c)
      PROVE  ConfigInv'
  <2>1. config' = [loaded |-> TRUE, active |-> c] /\ firstLoad' = config'
    BY <1>1 DEF ConfigLoad
  <2> QED
    BY <2>1 DEF ConfigInv, FrozenSinceLoad
<1>2. ASSUME NEW c, ReloadConfig(c)
      PROVE  ConfigInv'
  <2>1. /\ config.loaded
        /\ \A k \in ConfigFields : FieldClass(k) # "Reloadable" => config.active[k] = c[k]
    BY <1>2, AcceptedReload DEF ReloadConfig
  <2>2. PICK a : config = [loaded |-> TRUE, active |-> a]
    BY <2>1 DEF ConfigInv, NotLoaded
  <2>3. config' = [loaded |-> TRUE, active |-> c]
    <3>1. config' = [config EXCEPT !.active = c]
      BY <1>2 DEF ReloadConfig
    <3> QED
      BY <2>2, <3>1
  <2>4. FrozenSinceLoad'
    BY <1>2, <2>1, <2>3 DEF ReloadConfig, ConfigInv, FrozenSinceLoad
  <2> QED
    BY <2>3, <2>4 DEF ConfigInv
<1>3. CASE UNCHANGED configVars
  BY <1>3 DEF ConfigInv, FrozenSinceLoad, configVars
<1> QED
  BY <1>1, <1>2, <1>3 DEF ConfigNext

LEMMA ConfigKept == ConfigSpec => []FrozenSinceLoad
<1>1. ConfigInv => FrozenSinceLoad
  BY DEF ConfigInv
<1> QED
  BY <1>1, ConfigInitInv, ConfigStep, PTL DEF ConfigSpec
----------------------------------------------------------------------------
(* Budgets *)

Quota == [deadline : Nat, polls : Nat, cost : 0 .. Unlimited, priority : Nat]
Least(a, b) == IF a <= b THEN a ELSE b
Sooner(a, b) == IF a = 0 THEN b ELSE IF b = 0 THEN a ELSE Least(a, b)

LEMMA MinOfTwo ==
  ASSUME NEW a \in Int, NEW b \in Int
  PROVE  Min({a, b}) = Least(a, b)
BY DEF Min, Least

LEMMA MeetFacts ==
  ASSUME NEW a \in Quota, NEW b \in Quota
  PROVE  /\ Meet(a, b) \in Quota
         /\ Meet(a, b).deadline = Sooner(a.deadline, b.deadline)
         /\ Meet(a, b).polls = Least(a.polls, b.polls)
         /\ Meet(a, b).cost = Least(a.cost, b.cost)
<1>1. /\ a.deadline \in Nat /\ a.polls \in Nat /\ a.cost \in 0 .. Unlimited /\ a.priority \in Nat
      /\ b.deadline \in Nat /\ b.polls \in Nat /\ b.cost \in 0 .. Unlimited /\ b.priority \in Nat
      /\ Unlimited \in Nat
  BY BudgetAssumption DEF Quota
<1>2. EarlierDeadline(a.deadline, b.deadline) = Sooner(a.deadline, b.deadline)
  BY <1>1, MinOfTwo DEF EarlierDeadline, Sooner
<1>3. /\ Min({a.polls, b.polls}) = Least(a.polls, b.polls)
      /\ Min({a.cost, b.cost}) = Least(a.cost, b.cost)
      /\ Min({a.priority, b.priority}) = Least(a.priority, b.priority)
  BY <1>1, MinOfTwo
<1>4. Meet(a, b) = [deadline |-> Sooner(a.deadline, b.deadline), polls |-> Least(a.polls, b.polls),
                    cost |-> Least(a.cost, b.cost), priority |-> Least(a.priority, b.priority)]
  BY <1>2, <1>3 DEF Meet
<1>5. /\ Sooner(a.deadline, b.deadline) \in Nat /\ Least(a.polls, b.polls) \in Nat
      /\ Least(a.cost, b.cost) \in 0 .. Unlimited /\ Least(a.priority, b.priority) \in Nat
  BY <1>1 DEF Sooner, Least
<1> QED
  BY <1>4, <1>5 DEF Quota

LEMMA GrantsAreQuotas == AllGrants \subseteq Quota
<1>1. PollMax \in Nat /\ Unlimited \in Nat
  BY BudgetAssumption
<1>2. Grants \subseteq Quota
  <2> SUFFICES ASSUME NEW g \in Grants
               PROVE  g \in Quota
    OBVIOUS
  <2>1. g \in [deadline : Nat, polls : 0 .. PollMax, cost : 0 .. Unlimited, priority : 0 .. 255]
    BY BudgetAssumption
  <2> QED
    BY <1>1, <2>1 DEF Quota
<1>3. InfiniteBudget \in Quota /\ ZeroBudget \in Quota
  BY <1>1 DEF InfiniteBudget, ZeroBudget, Quota
<1>4. FromPolls(1) \in Quota
  BY <1>3 DEF FromPolls, Quota
<1> QED
  BY <1>2, <1>3, <1>4 DEF AllGrants

\* What is left and what was allowed make up the least of what both budgets give; an unlimited
\* quota is left unlimited, and the deadline is the sooner of the two.
BudgetInv ==
  /\ grants \in Quota \X Quota /\ budget \in Quota
  /\ polled \in Nat /\ spent \in Nat /\ clock \in Nat
  /\ polled + budget.polls = Least(grants[1].polls, grants[2].polls)
  /\ Least(grants[1].cost, grants[2].cost) = Unlimited => budget.cost = Unlimited
  /\ Least(grants[1].cost, grants[2].cost) # Unlimited =>
       /\ spent + budget.cost = Least(grants[1].cost, grants[2].cost)
       /\ budget.cost # Unlimited
  /\ budget.deadline = Sooner(grants[1].deadline, grants[2].deadline)

LEMMA BudgetInitInv == BudgetInit => BudgetInv
<1> SUFFICES ASSUME BudgetInit
             PROVE  BudgetInv
  OBVIOUS
<1>1. PICK a \in Quota, b \in Quota : grants = <<a, b>>
  BY GrantsAreQuotas DEF BudgetInit
<1>2. budget = Meet(a, b) /\ polled = 0 /\ spent = 0 /\ clock = 0
  BY <1>1 DEF BudgetInit
<1>3. grants[1] = a /\ grants[2] = b /\ grants \in Quota \X Quota
  BY <1>1
<1>4. /\ budget \in Quota /\ budget.deadline = Sooner(a.deadline, b.deadline)
      /\ budget.polls = Least(a.polls, b.polls) /\ budget.cost = Least(a.cost, b.cost)
  BY <1>2, MeetFacts
<1>5. budget.polls \in Nat /\ budget.cost \in Nat
  BY <1>4 DEF Quota
<1> QED
  BY <1>2, <1>3, <1>4, <1>5 DEF BudgetInv

LEMMA BudgetStep == BudgetInv /\ [BudgetNext]_budgetVars => BudgetInv'
<1> SUFFICES ASSUME BudgetInv, [BudgetNext]_budgetVars
             PROVE  BudgetInv'
  OBVIOUS
<1>1. PICK a \in Quota, b \in Quota : grants = <<a, b>>
  BY DEF BudgetInv
<1>2. /\ a.polls \in Nat /\ b.polls \in Nat /\ budget.polls \in Nat /\ budget.deadline \in Nat
      /\ a.cost \in 0 .. Unlimited /\ b.cost \in 0 .. Unlimited /\ budget.cost \in 0 .. Unlimited
      /\ a.deadline \in Nat /\ b.deadline \in Nat /\ Unlimited \in Nat
      /\ budget \in Quota /\ polled \in Nat /\ spent \in Nat /\ clock \in Nat
  BY BudgetAssumption DEF BudgetInv, Quota
<1>3. /\ polled + budget.polls = Least(a.polls, b.polls)
      /\ Least(a.cost, b.cost) = Unlimited => budget.cost = Unlimited
      /\ Least(a.cost, b.cost) # Unlimited =>
           spent + budget.cost = Least(a.cost, b.cost) /\ budget.cost # Unlimited
      /\ budget.deadline = Sooner(a.deadline, b.deadline)
  BY <1>1 DEF BudgetInv
<1>4. CASE ConsumePoll
  <2>1. /\ budget' \in Quota /\ budget'.polls = budget.polls - 1 /\ budget'.cost = budget.cost
        /\ budget'.deadline = budget.deadline
    <3>1. budget.polls - 1 \in Nat
      BY <1>2, <1>4 DEF ConsumePoll
    <3>2. budget' = [budget EXCEPT !.polls = budget.polls - 1]
      BY <1>4 DEF ConsumePoll
    <3> QED
      BY <1>2, <3>1, <3>2 DEF Quota
  <2>2. grants' = grants /\ spent' = spent /\ clock' = clock /\ polled' = polled + 1
    BY <1>4 DEF ConsumePoll
  <2> QED
    BY <1>1, <1>2, <1>3, <2>1, <2>2 DEF BudgetInv
<1>5. ASSUME NEW c \in Costs, ConsumeCost(c)
      PROVE  BudgetInv'
  <2> DEFINE left == IF budget.cost = Unlimited THEN budget.cost ELSE budget.cost - c
  <2>1. c \in Nat /\ (budget.cost = Unlimited \/ c <= budget.cost)
    BY <1>5, BudgetAssumption DEF ConsumeCost
  <2>2. left \in 0 .. Unlimited
    BY <1>2, <2>1
  <2>3. /\ budget' \in Quota /\ budget'.polls = budget.polls /\ budget'.cost = left
        /\ budget'.deadline = budget.deadline
    <3>1. budget' = [budget EXCEPT !.cost = left]
      BY <1>5 DEF ConsumeCost
    <3> QED
      BY <1>2, <2>2, <3>1 DEF Quota
  <2>4. grants' = grants /\ polled' = polled /\ clock' = clock /\ spent' = spent + c
    BY <1>5 DEF ConsumeCost
  <2> QED
    BY <1>1, <1>2, <1>3, <2>1, <2>3, <2>4 DEF BudgetInv, Least
<1>6. ASSUME NEW g \in AllGrants, Narrow(g)
      PROVE  BudgetInv'
  <2>1. g \in Quota
    BY GrantsAreQuotas
  <2>2. g.deadline \in Nat /\ g.polls \in Nat /\ g.cost \in 0 .. Unlimited
    BY <2>1 DEF Quota
  <2>3. grants' = <<a, Meet(b, g)>> /\ budget' = Meet(budget, g)
    BY <1>1, <1>6 DEF Narrow
  <2>4. polled = 0 /\ spent = 0 /\ UNCHANGED <<polled, spent, clock>>
    BY <1>6 DEF Narrow
  <2>5. /\ Meet(b, g) \in Quota /\ Meet(b, g).deadline = Sooner(b.deadline, g.deadline)
        /\ Meet(b, g).polls = Least(b.polls, g.polls) /\ Meet(b, g).cost = Least(b.cost, g.cost)
    BY <2>1, MeetFacts
  <2>6. /\ budget' \in Quota /\ budget'.deadline = Sooner(budget.deadline, g.deadline)
        /\ budget'.polls = Least(budget.polls, g.polls) /\ budget'.cost = Least(budget.cost, g.cost)
    BY <1>2, <2>1, <2>3, MeetFacts
  <2>7. grants'[1] = a /\ grants'[2] = Meet(b, g) /\ grants' \in Quota \X Quota
    BY <2>3, <2>5
  <2>8. budget'.polls = Least(a.polls, Least(b.polls, g.polls))
    BY <1>2, <1>3, <2>2, <2>4, <2>6 DEF Least
  <2>9. budget'.cost = Least(a.cost, Least(b.cost, g.cost))
    BY <1>2, <1>3, <2>2, <2>4, <2>6 DEF Least
  <2>10. budget'.deadline = Sooner(a.deadline, Sooner(b.deadline, g.deadline))
    BY <1>2, <1>3, <2>2, <2>6 DEF Sooner, Least
  <2> HIDE DEF Least, Sooner
  <2>11. budget'.polls \in Nat /\ budget'.cost \in Nat
    BY <2>6, BudgetAssumption DEF Quota
  <2> QED
    BY <1>2, <2>4, <2>5, <2>6, <2>7, <2>8, <2>9, <2>10, <2>11 DEF BudgetInv
<1>7. CASE ClockTick
  BY <1>1, <1>2, <1>7 DEF ClockTick, BudgetInv
<1>8. CASE UNCHANGED budgetVars
  BY <1>8 DEF budgetVars, BudgetInv
<1> QED
  BY <1>4, <1>5, <1>6, <1>7, <1>8 DEF BudgetNext

LEMMA BudgetInvMeans == BudgetInv => BudgetWithinEach
<1> SUFFICES ASSUME BudgetInv, NEW n \in 1 .. 2
             PROVE  /\ polled <= grants[n].polls
                    /\ grants[n].cost # Unlimited => spent <= grants[n].cost
                    /\ PastDeadline(grants[n], clock) => PastDeadline(budget, clock)
                    /\ (polled = grants[n].polls \/ (grants[n].cost # Unlimited /\ spent = grants[n].cost))
                         => Exhausted(budget)
  BY DEF BudgetWithinEach
<1>1. PICK a \in Quota, b \in Quota : grants = <<a, b>>
  BY DEF BudgetInv
<1>2. /\ a.polls \in Nat /\ b.polls \in Nat /\ budget.polls \in Nat /\ budget.deadline \in Nat
      /\ a.cost \in 0 .. Unlimited /\ b.cost \in 0 .. Unlimited /\ budget.cost \in 0 .. Unlimited
      /\ a.deadline \in Nat /\ b.deadline \in Nat /\ Unlimited \in Nat
      /\ polled \in Nat /\ spent \in Nat /\ clock \in Nat
  BY BudgetAssumption DEF BudgetInv, Quota
<1>3. /\ polled + budget.polls = Least(a.polls, b.polls)
      /\ Least(a.cost, b.cost) = Unlimited => budget.cost = Unlimited
      /\ Least(a.cost, b.cost) # Unlimited =>
           spent + budget.cost = Least(a.cost, b.cost) /\ budget.cost # Unlimited
      /\ budget.deadline = Sooner(a.deadline, b.deadline)
  BY <1>1 DEF BudgetInv
<1>4. grants[n] \in {a, b}
  BY <1>1
<1>5. PastDeadline(grants[n], clock) => PastDeadline(budget, clock)
  BY <1>2, <1>3, <1>4 DEF PastDeadline, Sooner, Least
<1>6. polled <= grants[n].polls /\ (polled = grants[n].polls => Exhausted(budget))
  BY <1>2, <1>3, <1>4 DEF Exhausted, Least
<1>7. grants[n].cost # Unlimited =>
        spent <= grants[n].cost /\ (spent = grants[n].cost => Exhausted(budget))
  BY <1>2, <1>3, <1>4 DEF Exhausted, Least
<1> QED
  BY <1>5, <1>6, <1>7

LEMMA BudgetKept == BudgetSpec => []BudgetWithinEach
BY BudgetInitInv, BudgetStep, BudgetInvMeans, PTL DEF BudgetSpec

LEMMA BudgetRunsAlone == SupportSpec => BudgetSpec
<1>1. SupportInit => BudgetInit
  BY DEF SupportInit
<1>2. [SupportNext]_SupportVars => [BudgetNext]_budgetVars
  BY DEF SupportNext, SupportVars, Rest
<1> QED
  BY <1>1, <1>2, PTL DEF SupportSpec, BudgetSpec

\* GrantsKept: what a caller was granted stays as it was granted - a borrow of an entity
\* excludes the others, work under two budgets keeps within both, and no series of reloads
\* moves a frozen setting (ghost.c, budget.c, config_reload.c).
THEOREM GrantsStayKept == SupportSpec => []GrantsKept
<1>1. BorrowsExclusive /\ BudgetWithinEach /\ FrozenSinceLoad => GrantsKept
  BY DEF GrantsKept
<1> QED
  BY <1>1, GhostRunsAlone, BorrowsKept, BudgetRunsAlone, BudgetKept, ConfigRunsAlone, ConfigKept, PTL

----------------------------------------------------------------------------
(* Traces *)

LEMMA TraceRunsAlone == SupportSpec => TraceSpec
<1>1. SupportInit => TraceInit
  BY DEF SupportInit
<1>2. [SupportNext]_SupportVars => [TraceNext]_traceVars
  BY DEF SupportNext, SupportVars, Rest
<1> QED
  BY <1>1, <1>2, PTL DEF SupportSpec, TraceSpec

Runs == Seq(TraceKinds \X Subjects)
RetainedLength(run) == IF Len(run) <= TraceMax THEN Len(run) ELSE TraceMax
EventOf(run, n) == [seq |-> n - 1, kind |-> run[n][1], subject |-> run[n][2]]

\* What a trace keeps of a run.
Retained(run) == [n \in 1 .. RetainedLength(run) |-> EventOf(run, n)]

LEMMA RetainedFacts ==
  ASSUME NEW run \in Runs
  PROVE  /\ Len(run) \in Nat /\ RetainedLength(run) \in Nat
         /\ Len(Retained(run)) = RetainedLength(run)
         /\ DOMAIN Retained(run) = 1 .. RetainedLength(run)
         /\ \A n \in 1 .. RetainedLength(run) : Retained(run)[n] = EventOf(run, n)
<1>1. Len(run) \in Nat /\ RetainedLength(run) \in Nat
  BY TraceAssumption DEF Runs, RetainedLength
<1> QED
  BY <1>1 DEF Retained

LEMMA RetainedAppend ==
  ASSUME NEW run \in Runs, NEW kind \in TraceKinds, NEW subj \in Subjects
  PROVE  /\ Append(run, <<kind, subj>>) \in Runs
         /\ Retained(Append(run, <<kind, subj>>)) =
              IF Len(run) < TraceMax
              THEN Append(Retained(run), [seq |-> Len(run), kind |-> kind, subject |-> subj])
              ELSE Retained(run)
<1> DEFINE longer == Append(run, <<kind, subj>>)
<1>1. /\ longer \in Runs /\ Len(longer) = Len(run) + 1 /\ longer[Len(run) + 1] = <<kind, subj>>
      /\ \A n \in 1 .. Len(run) : longer[n] = run[n]
  BY DEF Runs
<1>2. TraceMax \in Nat /\ Len(run) \in Nat
  BY TraceAssumption DEF Runs
<1> HIDE DEF longer
<1>3. \A n \in 1 .. RetainedLength(run) : EventOf(longer, n) = EventOf(run, n)
  BY <1>1, <1>2 DEF EventOf, RetainedLength
<1>4. CASE Len(run) < TraceMax
  <2> DEFINE e == [seq |-> Len(run), kind |-> kind, subject |-> subj]
  <2>1. RetainedLength(longer) = Len(run) + 1 /\ RetainedLength(run) = Len(run)
    BY <1>1, <1>2, <1>4 DEF RetainedLength
  <2>2. EventOf(longer, Len(run) + 1) = e
    BY <1>1, <1>2 DEF EventOf
  <2> HIDE DEF e
  <2>3. Append(Retained(run), e) = [n \in 1 .. Len(run) + 1 |-> IF n = Len(run) + 1 THEN e ELSE Retained(run)[n]]
    BY <1>2, <2>1, RetainedFacts DEF Retained
  <2>4. \A n \in 1 .. Len(run) + 1 :
          EventOf(longer, n) = IF n = Len(run) + 1 THEN e ELSE Retained(run)[n]
    BY <1>2, <1>3, <2>1, <2>2, RetainedFacts
  <2>5. Retained(longer) = Append(Retained(run), e)
    BY <2>1, <2>3, <2>4 DEF Retained
  <2> QED
    BY <1>1, <1>4, <2>5 DEF longer, e
<1>5. CASE ~(Len(run) < TraceMax)
  <2>1. RetainedLength(longer) = TraceMax /\ RetainedLength(run) = TraceMax
    BY <1>1, <1>2, <1>5 DEF RetainedLength
  <2>2. Retained(longer) = Retained(run)
    BY <1>3, <2>1 DEF Retained
  <2> QED
    BY <1>1, <1>5, <2>2 DEF longer
<1> QED
  BY <1>4, <1>5

\* What fits a trace is told by what the trace keeps of it.
LEMMA RetainedTells ==
  ASSUME NEW r \in Runs, NEW s \in Runs, Len(r) = Len(s), Fits(r), Retained(r) = Retained(s)
  PROVE  r = s
<1>1. Len(r) \in Nat /\ Len(s) \in Nat /\ RetainedLength(r) = Len(r) /\ RetainedLength(s) = Len(s)
  BY DEF Runs, Fits, RetainedLength
<1>2. ASSUME NEW n \in 1 .. Len(r)
      PROVE  r[n] = s[n]
  <2>1. EventOf(r, n) = EventOf(s, n)
    <3>1. Retained(r)[n] = EventOf(r, n) /\ Retained(s)[n] = EventOf(s, n)
      BY <1>1, RetainedFacts
    <3> QED
      BY <3>1
  <2>2. r[n][1] = s[n][1] /\ r[n][2] = s[n][2]
    BY <2>1 DEF EventOf
  <2>3. r[n] \in TraceKinds \X Subjects /\ s[n] \in TraceKinds \X Subjects
    BY <1>1 DEF Runs
  <2> QED
    BY <2>2, <2>3
<1> QED
  BY <1>1, <1>2 DEF Runs

\* The trace, the reference and the digest of the file are what a trace keeps of the run they
\* stand for, whatever storage did to the events in the file.
TraceInv ==
  /\ runLog \in Runs
  /\ trace = [events |-> Retained(runLog), count |-> Len(runLog)]
  /\ reference.loaded => reference.origin \in Runs /\ reference.events = Retained(reference.origin)
  /\ file = [header |-> file.header, count |-> file.count, events |-> file.events,
             digest |-> file.digest, origin |-> file.origin]
  /\ file.header => file.origin \in Runs /\ file.digest = Retained(file.origin)

\* The verdict on a reference whose run fits the trace.
LEMMA VerdictExact ==
  ASSUME TraceInv, NEW ref, ref.loaded, NEW origin \in Runs, ref.events = Retained(origin),
         Fits(origin)
  PROVE  Verdict(ref) = "Match" <=> runLog = origin
<1>1. runLog \in Runs /\ trace.count = Len(runLog) /\ trace.events = Retained(runLog)
  BY DEF TraceInv
<1>2. Len(ref.events) = Len(origin)
  BY RetainedFacts DEF Fits, RetainedLength
<1>3. Verdict(ref) = "Match" =>
        trace.count = Len(ref.events) /\ trace.events = ref.events
  BY DEF Verdict
<1>4. Verdict(ref) = "Match" => runLog = origin
  <2> SUFFICES ASSUME Verdict(ref) = "Match"
               PROVE  runLog = origin
    OBVIOUS
  <2>1. Len(origin) = Len(runLog) /\ Retained(origin) = Retained(runLog)
    BY <1>1, <1>2, <1>3
  <2> QED
    BY <1>1, <2>1, RetainedTells
<1>5. runLog = origin => Verdict(ref) = "Match"
  BY <1>1, <1>2 DEF Verdict, SameEvent
<1> QED
  BY <1>4, <1>5

LEMMA TraceInitInv == TraceInit => TraceInv
<1> SUFFICES ASSUME TraceInit
             PROVE  TraceInv
  OBVIOUS
<1>1. runLog = <<>> /\ <<>> \in Runs
  BY DEF TraceInit, Runs
<1>2. RetainedLength(<<>>) = 0
  BY TraceAssumption DEF RetainedLength
<1>3. Retained(<<>>) = <<>>
  BY <1>2 DEF Retained
<1> QED
  BY <1>1, <1>3 DEF TraceInit, TraceInv, NoReference, NoFile

LEMMA TraceStep == TraceInv /\ [TraceNext]_traceVars => TraceInv'
<1> SUFFICES ASSUME TraceInv, [TraceNext]_traceVars
             PROVE  TraceInv'
  OBVIOUS
<1>1. runLog \in Runs /\ trace = [events |-> Retained(runLog), count |-> Len(runLog)]
  BY DEF TraceInv
<1>2. Retained(<<>>) = <<>> /\ <<>> \in Runs
  <2>1. RetainedLength(<<>>) = 0
    BY TraceAssumption DEF RetainedLength
  <2> QED
    BY <2>1 DEF Retained, Runs
<1>3. ASSUME NEW k \in TraceKinds, NEW x \in Subjects, TraceEmit(k, x)
      PROVE  TraceInv'
  <2>1. runLog' = Append(runLog, <<k, x>>) /\ UNCHANGED <<reference, tier, file>>
    BY <1>3 DEF TraceEmit
  <2>2. runLog' \in Runs
    BY <1>1, <2>1, RetainedAppend
  <2>3. Retained(runLog') = Emitted(k, x).events
    BY <1>1, <2>1, RetainedAppend DEF Emitted
  <2>4. Len(runLog') = Emitted(k, x).count
    BY <1>1, <2>1 DEF Emitted, Runs
  <2>5. trace' = [events |-> Retained(runLog'), count |-> Len(runLog')]
    BY <1>3, <2>3, <2>4 DEF TraceEmit, Emitted
  <2> QED
    BY <2>1, <2>2, <2>5 DEF TraceInv
<1>4. CASE TraceReset
  BY <1>2, <1>4 DEF TraceReset, TraceInv
<1>5. CASE LoadReference
  BY <1>1, <1>5 DEF LoadReference, TraceInv
<1>6. CASE ClearReference \/ ContinuityCheck
  BY <1>6 DEF ClearReference, ContinuityCheck, TraceInv, NoReference
<1>7. CASE ExportBinary
  BY <1>1, <1>7 DEF ExportBinary, TraceInv
<1>8. CASE ImportBinary
  <2>1. reference' = Imported(file) /\ UNCHANGED <<trace, tier, file, runLog>>
    BY <1>8 DEF ImportBinary
  <2>2. CASE Importable(file)
    <3>1. /\ file.header /\ SubSeq(file.events, 1, file.count) = file.digest
          /\ reference' = [loaded |-> TRUE, events |-> SubSeq(file.events, 1, file.count),
                           origin |-> file.origin]
      BY <2>1, <2>2 DEF Importable, Imported, DigestOf
    <3> QED
      BY <2>1, <3>1 DEF TraceInv
  <2>3. CASE ~Importable(file)
    BY <2>1, <2>3 DEF Imported, TraceInv, NoReference
  <2> QED
    BY <2>2, <2>3
<1>9. ASSUME UNCHANGED <<trace, reference, tier, runLog>>,
             NEW h, NEW c, NEW e, h => file.header,
             file' = [header |-> h, count |-> c, events |-> e, digest |-> file.digest, origin |-> file.origin]
      PROVE  TraceInv'
  BY <1>9 DEF TraceInv
<1>10. PICK h, c, e, d, o : file = [header |-> h, count |-> c, events |-> e, digest |-> d, origin |-> o]
  BY DEF TraceInv
<1>11. file.header = h /\ file.count = c /\ file.events = e /\ file.digest = d /\ file.origin = o
  BY <1>10
<1>12. CASE FileCut
  <2> DEFINE cut == SubSeq(e, 1, Len(e) - 1)
  <2>1. file' = [file EXCEPT !.events = cut] /\ UNCHANGED <<trace, reference, tier, runLog>>
    BY <1>11, <1>12 DEF FileCut
  <2> HIDE DEF cut
  <2>2. file' = [header |-> h, count |-> c, events |-> cut, digest |-> d, origin |-> o]
    BY <1>10, <2>1
  <2>3. file' = [header |-> file.header, count |-> c, events |-> cut, digest |-> file.digest,
                 origin |-> file.origin]
    BY <1>11, <2>2
  <2>4. UNCHANGED <<trace, reference, tier, runLog>>
    BY <1>12 DEF FileCut
  <2> QED
    BY <1>9, <2>3, <2>4
<1>13. CASE HeaderLost
  <2>1. file' = [file EXCEPT !.header = FALSE] /\ UNCHANGED <<trace, reference, tier, runLog>>
    BY <1>13 DEF HeaderLost
  <2>2. file' = [header |-> FALSE, count |-> c, events |-> e, digest |-> d, origin |-> o]
    BY <1>10, <2>1
  <2> QED
    BY <1>9, <1>11, <2>1, <2>2
<1>14. CASE CountChanged
  <2>1. PICK n \in 0 .. TraceMax : file' = [file EXCEPT !.count = n]
    BY <1>14 DEF CountChanged
  <2>2. file' = [header |-> h, count |-> n, events |-> e, digest |-> d, origin |-> o]
    BY <1>10, <2>1
  <2>3. file' = [header |-> file.header, count |-> n, events |-> e, digest |-> file.digest,
                 origin |-> file.origin]
    BY <1>11, <2>2
  <2>4. UNCHANGED <<trace, reference, tier, runLog>>
    BY <1>14 DEF CountChanged
  <2> QED
    BY <1>9, <2>3, <2>4
<1>15. CASE EventChanged
  <2>1. PICK n \in DOMAIN file.events, k \in TraceKinds, x \in Subjects :
          file' = [file EXCEPT !.events[n].kind = k, !.events[n].subject = x]
    BY <1>15 DEF EventChanged
  <2>2. PICK z : file' = [header |-> h, count |-> c, events |-> z, digest |-> d, origin |-> o]
    BY <1>10, <2>1
  <2>3. file' = [header |-> file.header, count |-> c, events |-> z, digest |-> file.digest,
                 origin |-> file.origin]
    BY <1>11, <2>2
  <2>4. UNCHANGED <<trace, reference, tier, runLog>>
    BY <1>15 DEF EventChanged
  <2> QED
    BY <1>9, <2>3, <2>4
<1>16. CASE UNCHANGED traceVars
  BY <1>16 DEF traceVars, TraceInv
<1>17. ASSUME NEW t \in Tiers, SetTier(t)
       PROVE  TraceInv'
  BY <1>17 DEF SetTier, TraceInv
<1> QED
  BY <1>3, <1>4, <1>5, <1>6, <1>7, <1>8, <1>12, <1>13, <1>14, <1>15, <1>16, <1>17
     DEF TraceNext, TelemetryEmit

LEMMA TraceInvMeans == TraceInv => ReplayVerdictExact
<1> SUFFICES ASSUME TraceInv
             PROVE  ReplayVerdictExact
  OBVIOUS
<1>1. ASSUME reference.loaded, Fits(reference.origin)
      PROVE  Verdict(reference) = "Match" <=> runLog = reference.origin
  BY <1>1, VerdictExact DEF TraceInv
<1>2. ASSUME Continuity, Fits(file.origin)
      PROVE  runLog = file.origin
  <2> DEFINE ref == Imported(file)
  <2>1. Importable(file) /\ Verdict(ref) = "Match"
    BY <1>2 DEF Continuity
  <2>2. file.header /\ SubSeq(file.events, 1, file.count) = file.digest
    BY <2>1 DEF Importable, DigestOf
  <2>3. ref.loaded /\ ref.events = file.digest
    BY <2>1, <2>2 DEF Imported
  <2>4. file.origin \in Runs /\ file.digest = Retained(file.origin)
    BY <2>2 DEF TraceInv
  <2> HIDE DEF ref
  <2> QED
    BY <1>2, <2>1, <2>3, <2>4, VerdictExact
<1> QED
  BY <1>1, <1>2 DEF ReplayVerdictExact

\* ReplayVerdictExact: whatever is emitted, exported, damaged in storage and imported, a run
\* matches a reference that fits the trace only by emitting the same events (trace.c).
THEOREM ReplayVerdictHolds == SupportSpec => []ReplayVerdictExact
BY TraceRunsAlone, TraceInitInv, TraceStep, TraceInvMeans, PTL DEF TraceSpec

----------------------------------------------------------------------------
(* Affinity *)

LEMMA AffinityRunsAlone == SupportSpec => AffinitySpec
<1>1. SupportInit => AffinityInit
  BY DEF SupportInit
<1>2. [SupportNext]_SupportVars => [AffinityNext]_affinityVars
  BY DEF SupportNext, SupportVars, Rest
<1> QED
  BY <1>1, <1>2, PTL DEF SupportSpec, AffinitySpec

\* The count is that of the entries.
AffinityInv == IsFiniteSet(DOMAIN bound) /\ trackedCount = Cardinality(DOMAIN bound)

LEMMA AffinityStep ==
  ASSUME AffinityInv, AffinityNext
  PROVE  /\ AffinityInv'
         /\ \A e \in DOMAIN bound \cap DOMAIN bound' : bound'[e] # bound[e] => Accessible(e)
<1>1. Cardinality(DOMAIN bound) \in Nat
  BY FS_CardinalityType DEF AffinityInv
<1>2. CASE AffinityReset
  <2>1. DOMAIN bound' = {} /\ trackedCount' = 0
    BY <1>2 DEF AffinityReset
  <2> QED
    BY <2>1, FS_EmptySet DEF AffinityInv
<1>3. ASSUME NEW d \in AllDomains, SetDomain(d)
      PROVE  /\ AffinityInv'
             /\ \A e \in DOMAIN bound \cap DOMAIN bound' : bound'[e] # bound[e] => Accessible(e)
  BY <1>3 DEF SetDomain, AffinityInv
<1>4. ASSUME NEW x \in Tracked, NEW d \in AllDomains, Bind(x, d)
      PROVE  /\ AffinityInv'
             /\ \A e \in DOMAIN bound \cap DOMAIN bound' : bound'[e] # bound[e] => Accessible(e)
  <2>1. /\ DOMAIN bound' = DOMAIN bound \cup {x} /\ bound'[x] = d
        /\ \A e \in DOMAIN bound \ {x} : bound'[e] = bound[e]
    BY <1>4 DEF Bind, With
  <2>2. AffinityInv'
    BY <1>1, <1>4, <2>1, FS_AddElement DEF Bind, Bound, AffinityInv
  <2>3. x \in DOMAIN bound => bound[x] \in {d, AnyDomain}
    BY <1>4 DEF Bind, Bindable, Bound
  <2>4. ASSUME NEW e \in DOMAIN bound, bound'[e] # bound[e]
        PROVE  Accessible(e)
    BY <2>1, <2>3, <2>4 DEF Accessible
  <2> QED
    BY <2>2, <2>4
<1>5. ASSUME NEW x \in Tracked, NEW d \in AllDomains, Transfer(x, d)
      PROVE  /\ AffinityInv'
             /\ \A e \in DOMAIN bound \cap DOMAIN bound' : bound'[e] # bound[e] => Accessible(e)
  <2>1. /\ DOMAIN bound' = DOMAIN bound /\ trackedCount' = trackedCount
        /\ \A e \in DOMAIN bound \ {x} : bound'[e] = bound[e]
    BY <1>5 DEF Transfer, With, Bound
  <2>2. Accessible(x)
    BY <1>5 DEF Transfer
  <2> QED
    BY <2>1, <2>2 DEF AffinityInv
<1>6. ASSUME NEW x \in Tracked, Unbind(x)
      PROVE  /\ AffinityInv'
             /\ \A e \in DOMAIN bound \cap DOMAIN bound' : bound'[e] # bound[e] => Accessible(e)
  <2>1. /\ x \in DOMAIN bound /\ DOMAIN bound' = DOMAIN bound \ {x}
        /\ \A e \in DOMAIN bound' : bound'[e] = bound[e]
    BY <1>6 DEF Unbind, Without, Bound
  <2>2. /\ IsFiniteSet(DOMAIN bound')
        /\ Cardinality(DOMAIN bound') = Cardinality(DOMAIN bound) - 1
    BY <2>1, FS_RemoveElement DEF AffinityInv
  <2>3. Cardinality(DOMAIN bound) # 0
    BY <2>1, FS_EmptySet DEF AffinityInv
  <2>4. trackedCount' = Cardinality(DOMAIN bound')
    BY <1>1, <1>6, <2>2, <2>3 DEF Unbind, AffinityInv
  <2> QED
    BY <2>1, <2>2, <2>4 DEF AffinityInv
<1> QED
  BY <1>2, <1>3, <1>4, <1>5, <1>6 DEF AffinityNext

LEMMA AffinityHolds == AffinitySpec => AffinityKept
<1> DEFINE Kept ==
      /\ \A e \in DOMAIN bound \cap DOMAIN bound' : bound'[e] # bound[e] => Accessible(e)
      /\ trackedCount' = Cardinality(DOMAIN bound')
<1>1. AffinityInit => AffinityInv
  BY FS_EmptySet DEF AffinityInit, AffinityInv
<1>2. AffinityInv /\ [AffinityNext]_affinityVars => AffinityInv' /\ [Kept]_affinityVars
  <2>1. AffinityInv /\ UNCHANGED affinityVars => AffinityInv'
    BY DEF AffinityInv, affinityVars
  <2> QED
    BY <2>1, AffinityStep DEF AffinityInv
<1> HIDE DEF Kept
<1>3. AffinitySpec => [][Kept]_affinityVars
  BY <1>1, <1>2, PTL DEF AffinitySpec
<1> QED
  BY <1>3 DEF Kept, AffinityKept

----------------------------------------------------------------------------
(* The seal *)

LEMMA SealStep ==
  ASSUME blocks \in Nat, [SupportNext]_SupportVars
  PROVE  blocks' \in Nat /\ (hooks.sealed => blocks' <= blocks)
<1>1. CASE HooksNext
  BY <1>1 DEF HooksNext, SetHooks, SealAllocator, FaultInject, FaultClear, RuntimeAlloc, RuntimeRealloc,
     RuntimeFree, RuntimeNowNs, RuntimeRandom, RuntimeReactorWait, ReadingsReset
<1>2. HooksNext \/ UNCHANGED blocks
  BY DEF SupportNext, SupportVars, Rest, hooksVars
<1> QED
  BY <1>1, <1>2

LEMMA SealHolds == SupportSpec => SealedAllocatesNothing
<1>1. SupportInit => blocks \in Nat
  BY DEF SupportInit, HooksInit
<1>2. blocks \in Nat /\ [SupportNext]_SupportVars
        => (blocks \in Nat)' /\ [hooks.sealed => blocks' <= blocks]_hooksVars
  BY SealStep
<1> QED
  BY <1>1, <1>2, PTL DEF SupportSpec, SealedAllocatesNothing

----------------------------------------------------------------------------
(* The circuit breaker *)

LEMMA BreakerRunsAlone == SupportSpec => BreakerSpec
<1>1. SupportInit => BreakerInit
  BY DEF SupportInit
<1>2. [SupportNext]_SupportVars => [BreakerNext]_breakerVars
  BY DEF SupportNext, SupportVars, Rest
<1> QED
  BY <1>1, <1>2, PTL DEF SupportSpec, BreakerSpec

\* Counting over one signal more.
LEMMA CountAppend ==
  ASSUME NEW S, NEW log \in Seq(S), NEW s \in S, NEW kind,
         NEW m \in Nat \ {0}, m <= Len(log) + 1
  PROVE  /\ CountIn(log, m, Len(log), kind) \in Nat
         /\ CountIn(Append(log, s), m, Len(log) + 1, kind) =
              IF s = kind THEN CountIn(log, m, Len(log), kind) + 1 ELSE CountIn(log, m, Len(log), kind)
         /\ NoneIn(Append(log, s), m, Len(log) + 1, kind) <=>
              NoneIn(log, m, Len(log), kind) /\ s # kind
<1> DEFINE longer == Append(log, s)
           old == {k \in m .. Len(log) : log[k] = kind}
           new == {k \in m .. Len(log) + 1 : longer[k] = kind}
<1>1. /\ Len(log) \in Nat /\ longer[Len(log) + 1] = s
      /\ \A k \in m .. Len(log) : longer[k] = log[k]
  <2>1. Len(log) \in Nat
    OBVIOUS
  <2>2. longer[Len(log) + 1] = s /\ \A k \in 1 .. Len(log) : longer[k] = log[k]
    BY <2>1, AppendProperties
  <2>3. \A k \in m .. Len(log) : k \in 1 .. Len(log)
    BY <2>1
  <2> HIDE DEF longer
  <2> QED
    BY <2>1, <2>2, <2>3
<1> HIDE DEF longer
<1>7. \A k : k \in m .. Len(log) + 1 <=> k \in m .. Len(log) \/ k = Len(log) + 1
  BY <1>1
<1>2. IsFiniteSet(old) /\ Cardinality(old) \in Nat
  <2>1. IsFiniteSet(m .. Len(log)) /\ old \subseteq m .. Len(log)
    BY <1>1, FS_Interval
  <2> QED
    BY <2>1, FS_Subset, FS_CardinalityType
<1>3. new = IF s = kind THEN old \cup {Len(log) + 1} ELSE old
  BY <1>1, <1>7
<1>4. Len(log) + 1 \notin old
  BY <1>1
<1>5. Cardinality(new) = IF s = kind THEN Cardinality(old) + 1 ELSE Cardinality(old)
  BY <1>2, <1>3, <1>4, FS_AddElement
<1>6. NoneIn(longer, m, Len(log) + 1, kind) <=> NoneIn(log, m, Len(log), kind) /\ s # kind
  BY <1>1, <1>7 DEF NoneIn
<1> QED
  BY <1>2, <1>5, <1>6 DEF CountIn, longer

\* Counting up to a signal that is there already.
LEMMA CountBefore ==
  ASSUME NEW S, NEW log \in Seq(S), NEW s \in S, NEW kind, NEW m \in Nat \ {0}, NEW n \in Nat, n <= Len(log)
  PROVE  CountIn(Append(log, s), m, n, kind) = CountIn(log, m, n, kind)
<1>1. \A k \in m .. n : k \in 1 .. Len(log)
  OBVIOUS
<1>2. \A k \in m .. n : Append(log, s)[k] = log[k]
  BY <1>1, AppendProperties
<1> QED
  BY <1>2 DEF CountIn

SignalKinds == {"success", "failure", "tick"}
Breakers ==
  [state : {"Closed", "Open", "HalfOpen"}, failures : Nat, successes : Nat, sinceTrip : Nat,
   trips : Nat, recoveries : Nat]

\* The counters stand for signals: failures since the last success, ticks since a failure
\* opened the breaker, successes since those ticks let it probe.
FailingSince(b, log) ==
  \E n \in 1 .. Len(log) + 1 :
    NoneIn(log, n, Len(log), "success") /\ CountIn(log, n, Len(log), "failure") >= b.failures
CoolingSince(b, log) ==
  \E m \in 1 .. Len(log) :
    log[m] = "failure" /\ CountIn(log, m, Len(log), "tick") >= b.sinceTrip
ProbingSince(b, log) ==
  \E n \in 1 .. Len(log) + 1 :
    /\ NoneIn(log, n, Len(log), "failure") /\ CountIn(log, n, Len(log), "success") >= b.successes
    /\ \E m \in 1 .. n - 1 :
         log[m] = "failure" /\ CountIn(log, m, n - 1, "tick") >= CooldownEvents

BreakerInv ==
  /\ breaker \in Breakers /\ signals \in Seq(SignalKinds)
  /\ breaker.state = "Closed" => FailingSince(breaker, signals)
  /\ breaker.state = "Open" => CoolingSince(breaker, signals)
  /\ breaker.state = "HalfOpen" => ProbingSince(breaker, signals)

\* A count of nothing, for whatever was signalled.
LEMMA FreshCount ==
  ASSUME NEW b, b.failures = 0, NEW log \in Seq(SignalKinds)
  PROVE  FailingSince(b, log)
<1>1. Len(log) \in Nat
  OBVIOUS
<1>2. CountIn(log, Len(log) + 1, Len(log), "failure") = 0
  <2>1. {k \in Len(log) + 1 .. Len(log) : log[k] = "failure"} = {}
    BY <1>1
  <2> QED
    BY <2>1, FS_EmptySet DEF CountIn
<1>3. NoneIn(log, Len(log) + 1, Len(log), "success")
  BY <1>1 DEF NoneIn
<1> QED
  BY <1>1, <1>2, <1>3 DEF FailingSince

\* What each signal adds.
LEMMA FailingGoesOn ==
  ASSUME NEW log \in Seq(SignalKinds), NEW s \in {"failure", "tick"}, NEW b \in Breakers, NEW c \in Breakers,
         FailingSince(b, log), c.failures = IF s = "failure" THEN b.failures + 1 ELSE b.failures
  PROVE  /\ FailingSince(c, Append(log, s))
         /\ s = "failure" /\ c.failures >= FailureThreshold => OpensOn(Append(log, s))
<1>1. PICK n \in 1 .. Len(log) + 1 :
        NoneIn(log, n, Len(log), "success") /\ CountIn(log, n, Len(log), "failure") >= b.failures
  BY DEF FailingSince
<1>2. Len(log) \in Nat /\ s \in SignalKinds /\ n \in Nat \ {0} /\ n <= Len(log) + 1
  BY DEF SignalKinds
<1> DEFINE longer == Append(log, s)
<1>3. longer \in Seq(SignalKinds) /\ Len(longer) = Len(log) + 1
  BY <1>2, AppendProperties
<1>4. NoneIn(longer, n, Len(log) + 1, "success")
  BY <1>1, <1>2, CountAppend
<1>5. /\ CountIn(log, n, Len(log), "failure") \in Nat
      /\ CountIn(longer, n, Len(log) + 1, "failure") =
           IF s = "failure" THEN CountIn(log, n, Len(log), "failure") + 1
           ELSE CountIn(log, n, Len(log), "failure")
  BY <1>2, CountAppend
<1>6. b.failures \in Nat /\ c.failures \in Nat
  BY DEF Breakers
<1>7. CountIn(longer, n, Len(log) + 1, "failure") >= c.failures
  BY <1>1, <1>5, <1>6
<1> HIDE DEF longer
<1>8. FailingSince(c, longer)
  BY <1>2, <1>3, <1>4, <1>7 DEF FailingSince
<1>9. c.failures >= FailureThreshold => CountIn(longer, n, Len(longer), "failure") >= FailureThreshold
  <2>1. CountIn(longer, n, Len(log) + 1, "failure") \in Nat
    BY <1>5
  <2> QED
    BY <1>3, <1>6, <1>7, <2>1, BreakerAssumption
<1>10. c.failures >= FailureThreshold => OpensOn(longer)
  BY <1>2, <1>3, <1>4, <1>9 DEF OpensOn
<1> QED
  BY <1>8, <1>10 DEF longer

LEMMA CoolingGoesOn ==
  ASSUME NEW log \in Seq(SignalKinds), NEW s \in SignalKinds, NEW b \in Breakers, NEW c \in Breakers,
         CoolingSince(b, log), c.sinceTrip = IF s = "tick" THEN b.sinceTrip + 1 ELSE b.sinceTrip
  PROVE  /\ CoolingSince(c, Append(log, s))
         /\ c.sinceTrip >= CooldownEvents /\ c.successes = 0 => ProbingSince(c, Append(log, s))
<1>1. PICK m \in 1 .. Len(log) :
        log[m] = "failure" /\ CountIn(log, m, Len(log), "tick") >= b.sinceTrip
  BY DEF CoolingSince
<1>2. Len(log) \in Nat /\ m \in Nat \ {0} /\ m <= Len(log) + 1
  OBVIOUS
<1> DEFINE longer == Append(log, s)
<1>3. longer \in Seq(SignalKinds) /\ Len(longer) = Len(log) + 1 /\ longer[m] = "failure"
  BY <1>1, <1>2, AppendProperties
<1>4. /\ CountIn(log, m, Len(log), "tick") \in Nat
      /\ CountIn(longer, m, Len(log) + 1, "tick") =
           IF s = "tick" THEN CountIn(log, m, Len(log), "tick") + 1 ELSE CountIn(log, m, Len(log), "tick")
  BY <1>2, CountAppend
<1>5. b.sinceTrip \in Nat /\ c.sinceTrip \in Nat
  BY DEF Breakers
<1>6. CountIn(longer, m, Len(log) + 1, "tick") >= c.sinceTrip
  BY <1>1, <1>4, <1>5
<1> HIDE DEF longer
<1>7. CoolingSince(c, longer)
  BY <1>2, <1>3, <1>6 DEF CoolingSince
<1>8. ASSUME c.sinceTrip >= CooldownEvents, c.successes = 0
      PROVE  ProbingSince(c, longer)
  <2> DEFINE n == Len(longer) + 1
  <2>1. n \in 1 .. Len(longer) + 1 /\ m \in 1 .. n - 1 /\ n - 1 = Len(log) + 1
    BY <1>2, <1>3
  <2>2. CountIn(longer, m, n - 1, "tick") >= CooldownEvents
    <3>1. CountIn(longer, m, Len(log) + 1, "tick") \in Nat
      BY <1>4
    <3>2. CooldownEvents \in Nat
      BY BreakerAssumption
    <3>3. CountIn(longer, m, Len(log) + 1, "tick") >= CooldownEvents
      BY <1>5, <1>6, <1>8, <3>1, <3>2
    <3> HIDE DEF n
    <3> QED
      BY <2>1, <3>3
  <2>3. NoneIn(longer, n, Len(longer), "failure")
    BY <1>2, <1>3 DEF NoneIn
  <2>4. CountIn(longer, n, Len(longer), "success") = 0
    <3>1. {k \in n .. Len(longer) : longer[k] = "success"} = {}
      BY <1>2, <1>3
    <3> QED
      BY <3>1, FS_EmptySet DEF CountIn
  <2> HIDE DEF n
  <2> QED
    BY <1>3, <1>8, <2>1, <2>2, <2>3, <2>4 DEF ProbingSince
<1> QED
  BY <1>7, <1>8 DEF longer

LEMMA ProbingGoesOn ==
  ASSUME NEW log \in Seq(SignalKinds), NEW s \in {"success", "tick"}, NEW b \in Breakers, NEW c \in Breakers,
         ProbingSince(b, log), c.successes = IF s = "success" THEN b.successes + 1 ELSE b.successes
  PROVE  /\ ProbingSince(c, Append(log, s))
         /\ s = "success" /\ c.successes >= RecoveryProbes => CloseOn(Append(log, s))
<1>1. PICK n \in 1 .. Len(log) + 1 :
        /\ NoneIn(log, n, Len(log), "failure") /\ CountIn(log, n, Len(log), "success") >= b.successes
        /\ \E m \in 1 .. n - 1 :
             log[m] = "failure" /\ CountIn(log, m, n - 1, "tick") >= CooldownEvents
  BY DEF ProbingSince
<1>2. PICK m \in 1 .. n - 1 : log[m] = "failure" /\ CountIn(log, m, n - 1, "tick") >= CooldownEvents
  BY <1>1
<1>3. /\ Len(log) \in Nat /\ s \in SignalKinds /\ n \in Nat \ {0} /\ n <= Len(log) + 1
      /\ m \in Nat \ {0} /\ n - 1 \in Nat /\ n - 1 <= Len(log) /\ m \in 1 .. Len(log)
  BY DEF SignalKinds
<1> DEFINE longer == Append(log, s)
<1>4. longer \in Seq(SignalKinds) /\ Len(longer) = Len(log) + 1 /\ longer[m] = "failure"
  BY <1>2, <1>3, AppendProperties
<1>5. NoneIn(longer, n, Len(log) + 1, "failure")
  BY <1>1, <1>3, CountAppend
<1>6. /\ CountIn(log, n, Len(log), "success") \in Nat
      /\ CountIn(longer, n, Len(log) + 1, "success") =
           IF s = "success" THEN CountIn(log, n, Len(log), "success") + 1
           ELSE CountIn(log, n, Len(log), "success")
  BY <1>3, CountAppend
<1>7. CountIn(longer, m, n - 1, "tick") >= CooldownEvents
  BY <1>2, <1>3, CountBefore
<1>8. b.successes \in Nat /\ c.successes \in Nat
  BY DEF Breakers
<1>9. CountIn(longer, n, Len(log) + 1, "success") >= c.successes
  BY <1>1, <1>6, <1>8
<1> HIDE DEF longer
<1>10. ProbingSince(c, longer)
  BY <1>3, <1>4, <1>5, <1>7, <1>9 DEF ProbingSince
<1>11. c.successes >= RecoveryProbes => CountIn(longer, n, Len(longer), "success") >= RecoveryProbes
  <2>1. CountIn(longer, n, Len(log) + 1, "success") \in Nat
    BY <1>6
  <2> QED
    BY <1>4, <1>8, <1>9, <2>1, BreakerAssumption
<1>12. c.successes >= RecoveryProbes => CloseOn(longer)
  BY <1>3, <1>4, <1>5, <1>7, <1>11 DEF CloseOn
<1> QED
  BY <1>10, <1>12 DEF longer

\* The breaker has just been opened by the failure signalled last.
LEMMA CoolingBegins ==
  ASSUME NEW log \in Seq(SignalKinds), NEW c, c.sinceTrip = 0
  PROVE  CoolingSince(c, Append(log, "failure"))
<1> DEFINE longer == Append(log, "failure")
           m == Len(log) + 1
<1>1. Len(log) \in Nat /\ m \in Nat \ {0} /\ "failure" \in SignalKinds
  BY DEF SignalKinds
<1>2. Len(longer) = m /\ longer[m] = "failure"
  BY <1>1, AppendProperties
<1>3. CountIn(longer, m, m, "tick") \in Nat
  <2>1. /\ CountIn(log, m, Len(log), "tick") \in Nat
        /\ CountIn(longer, m, Len(log) + 1, "tick") =
             IF "failure" = "tick" THEN CountIn(log, m, Len(log), "tick") + 1
             ELSE CountIn(log, m, Len(log), "tick")
    BY <1>1, CountAppend
  <2> QED
    BY <2>1
<1> HIDE DEF longer, m
<1>4. CoolingSince(c, longer)
  BY <1>1, <1>2, <1>3 DEF CoolingSince
<1> QED
  BY <1>4 DEF longer

\* A breaker with one of its counters one higher.
LEMMA OneField ==
  ASSUME NEW b \in Breakers
  PROVE  /\ [b EXCEPT !.failures = b.failures + 1] \in Breakers
         /\ [b EXCEPT !.failures = b.failures + 1].failures = b.failures + 1
         /\ [b EXCEPT !.failures = b.failures + 1].state = b.state
         /\ [b EXCEPT !.sinceTrip = b.sinceTrip + 1] \in Breakers
         /\ [b EXCEPT !.sinceTrip = b.sinceTrip + 1].sinceTrip = b.sinceTrip + 1
         /\ [b EXCEPT !.sinceTrip = b.sinceTrip + 1].state = b.state
<1>1. b.failures + 1 \in Nat /\ b.sinceTrip + 1 \in Nat
  BY DEF Breakers
<1>2. [b EXCEPT !.failures = b.failures + 1] \in Breakers
  BY <1>1, Zenon DEF Breakers
<1>3. /\ [b EXCEPT !.failures = b.failures + 1].failures = b.failures + 1
      /\ [b EXCEPT !.failures = b.failures + 1].state = b.state
  BY Zenon DEF Breakers
<1>4. [b EXCEPT !.sinceTrip = b.sinceTrip + 1] \in Breakers
  BY <1>1, Zenon DEF Breakers
<1>5. /\ [b EXCEPT !.sinceTrip = b.sinceTrip + 1].sinceTrip = b.sinceTrip + 1
      /\ [b EXCEPT !.sinceTrip = b.sinceTrip + 1].state = b.state
  BY Zenon DEF Breakers
<1> QED
  BY <1>2, <1>3, <1>4, <1>5

LEMMA TrippedFacts ==
  ASSUME NEW b \in Breakers
  PROVE  Tripped(b) \in Breakers /\ Tripped(b).state = "Open" /\ Tripped(b).sinceTrip = 0
<1>1. b.trips + 1 \in Nat
  BY DEF Breakers
<1>2. Tripped(b) \in Breakers
  <2>1. "Open" \in {"Closed", "Open", "HalfOpen"} /\ 0 \in Nat
    OBVIOUS
  <2> QED
    BY <1>1, <2>1, Zenon DEF Tripped, Breakers
<1>3. Tripped(b).state = "Open" /\ Tripped(b).sinceTrip = 0
  BY Zenon DEF Tripped, Breakers
<1> QED
  BY <1>2, <1>3

LEMMA SuccessKeeps ==
  ASSUME BreakerInv, RecordSuccess
  PROVE  BreakerInv' /\ (breaker.state # "Closed" /\ breaker'.state = "Closed" => CloseOn(signals'))
         /\ (breaker.state = "Closed" => breaker'.state = "Closed")
         /\ (breaker.state = "Open" => breaker'.state = "Open")
<1>1. /\ signals' = Append(signals, "success") /\ "success" \in SignalKinds /\ signals \in Seq(SignalKinds)
      /\ breaker \in Breakers
  BY DEF RecordSuccess, Signal, SignalKinds, BreakerInv
<1>2. signals' \in Seq(SignalKinds)
  BY <1>1, AppendProperties
<1>3. CASE breaker.state = "Closed"
  <2>1. breaker' = [breaker EXCEPT !.failures = 0]
    BY <1>3 DEF RecordSuccess
  <2>2. breaker' \in Breakers /\ breaker'.failures = 0 /\ breaker'.state = "Closed"
    BY <1>1, <1>3, <2>1 DEF Breakers
  <2>3. FailingSince(breaker', signals')
    BY <1>2, <2>2, FreshCount
  <2> QED
    BY <1>2, <1>3, <2>2, <2>3 DEF BreakerInv
<1>4. CASE breaker.state = "Open"
  <2>1. breaker' = breaker
    BY <1>4 DEF RecordSuccess
  <2>2. CoolingSince(breaker, signals)
    BY <1>4 DEF BreakerInv
  <2>3. CoolingSince(breaker, signals')
    <3>1. breaker.sinceTrip = IF "success" = "tick" THEN breaker.sinceTrip + 1 ELSE breaker.sinceTrip
      OBVIOUS
    <3> QED
      BY <1>1, <2>2, <3>1, CoolingGoesOn
  <2> QED
    BY <1>1, <1>2, <1>4, <2>1, <2>3 DEF BreakerInv
<1>5. CASE breaker.state = "HalfOpen"
  <2> DEFINE probed == [breaker EXCEPT !.successes = breaker.successes + 1]
  <2>1. /\ probed \in Breakers /\ probed.successes = breaker.successes + 1 /\ probed.state = "HalfOpen"
    BY <1>1, <1>5 DEF Breakers
  <2>2. breaker' = IF probed.successes >= RecoveryProbes
                   THEN [probed EXCEPT !.state = "Closed", !.failures = 0, !.successes = 0,
                                       !.recoveries = @ + 1]
                   ELSE probed
    BY <1>5 DEF RecordSuccess
  <2>3. /\ ProbingSince(probed, signals')
        /\ probed.successes >= RecoveryProbes => CloseOn(signals')
    <3>1. ProbingSince(breaker, signals)
      BY <1>5 DEF BreakerInv
    <3>2. probed.successes = IF "success" = "success" THEN breaker.successes + 1 ELSE breaker.successes
      BY <2>1
    <3> HIDE DEF probed
    <3> QED
      BY <1>1, <2>1, <3>1, <3>2, ProbingGoesOn
  <2> HIDE DEF probed
  <2>4. CASE probed.successes >= RecoveryProbes
    <3>1. probed.recoveries + 1 \in Nat
      BY <2>1 DEF Breakers
    <3>2. breaker' = [state |-> "Closed", failures |-> 0, successes |-> 0, sinceTrip |-> probed.sinceTrip,
                      trips |-> probed.trips, recoveries |-> probed.recoveries + 1]
      BY <2>1, <2>2, <2>4 DEF Breakers
    <3>3. breaker' \in Breakers /\ breaker'.failures = 0 /\ breaker'.state = "Closed"
      BY <2>1, <3>1, <3>2 DEF Breakers
    <3>4. FailingSince(breaker', signals')
      BY <1>2, <3>3, FreshCount
    <3> QED
      BY <1>2, <1>5, <2>3, <2>4, <3>3, <3>4 DEF BreakerInv
  <2>5. CASE ~(probed.successes >= RecoveryProbes)
    BY <1>2, <1>5, <2>1, <2>2, <2>3, <2>5 DEF BreakerInv
  <2> QED
    BY <2>4, <2>5
<1> QED
  BY <1>1, <1>3, <1>4, <1>5 DEF Breakers

LEMMA FailureKeeps ==
  ASSUME BreakerInv, RecordFailure
  PROVE  BreakerInv' /\ (breaker.state = "Closed" /\ breaker'.state = "Open" => OpensOn(signals'))
         /\ (breaker.state # "Closed" => breaker'.state = "Open")
<1>1. /\ signals' = Append(signals, "failure") /\ "failure" \in SignalKinds /\ signals \in Seq(SignalKinds)
      /\ breaker \in Breakers
  BY DEF RecordFailure, Signal, SignalKinds, BreakerInv
<1>2. signals' \in Seq(SignalKinds)
  BY <1>1, AppendProperties
<1>3. CASE breaker.state = "Closed"
  <2> DEFINE failed == [breaker EXCEPT !.failures = breaker.failures + 1]
  <2>1. /\ failed \in Breakers /\ failed.failures = breaker.failures + 1 /\ failed.state = "Closed"
    BY <1>1, <1>3, OneField
  <2>2. breaker' = IF failed.failures >= FailureThreshold THEN Tripped(failed) ELSE failed
    BY <1>3 DEF RecordFailure
  <2>3. /\ FailingSince(failed, signals')
        /\ failed.failures >= FailureThreshold => OpensOn(signals')
    <3>1. FailingSince(breaker, signals)
      BY <1>3 DEF BreakerInv
    <3>2. failed.failures = IF "failure" = "failure" THEN breaker.failures + 1 ELSE breaker.failures
      BY <2>1
    <3> HIDE DEF failed
    <3> QED
      BY <1>1, <2>1, <3>1, <3>2, FailingGoesOn
  <2> HIDE DEF failed
  <2>4. CASE failed.failures >= FailureThreshold
    <3>1. breaker' \in Breakers /\ breaker'.state = "Open" /\ breaker'.sinceTrip = 0
      BY <2>1, <2>2, <2>4, TrippedFacts
    <3>2. CoolingSince(breaker', signals')
      BY <1>1, <3>1, CoolingBegins
    <3> QED
      BY <1>2, <1>3, <2>3, <2>4, <3>1, <3>2 DEF BreakerInv
  <2>5. CASE ~(failed.failures >= FailureThreshold)
    BY <1>2, <1>3, <2>1, <2>2, <2>3, <2>5 DEF BreakerInv
  <2> QED
    BY <2>4, <2>5
<1>4. CASE breaker.state = "Open"
  <2>1. breaker' = breaker
    BY <1>4 DEF RecordFailure
  <2>2. CoolingSince(breaker, signals)
    BY <1>4 DEF BreakerInv
  <2>3. CoolingSince(breaker, signals')
    <3>1. breaker.sinceTrip = IF "failure" = "tick" THEN breaker.sinceTrip + 1 ELSE breaker.sinceTrip
      OBVIOUS
    <3> QED
      BY <1>1, <2>2, <3>1, CoolingGoesOn
  <2> QED
    BY <1>1, <1>2, <1>4, <2>1, <2>3 DEF BreakerInv
<1>5. CASE breaker.state = "HalfOpen"
  <2>1. breaker' = [Tripped(breaker) EXCEPT !.successes = 0]
    BY <1>5 DEF RecordFailure
  <2>2. breaker' \in Breakers /\ breaker'.state = "Open" /\ breaker'.sinceTrip = 0
    BY <1>1, <2>1, TrippedFacts DEF Breakers
  <2>3. CoolingSince(breaker', signals')
    BY <1>1, <2>2, CoolingBegins
  <2> QED
    BY <1>2, <1>5, <2>2, <2>3 DEF BreakerInv
<1> QED
  BY <1>1, <1>3, <1>4, <1>5 DEF Breakers

LEMMA TickKeeps ==
  ASSUME BreakerInv, BreakerTick
  PROVE  BreakerInv' /\ signals'[Len(signals')] = "tick"
         /\ (breaker.state = "Closed" => breaker'.state = "Closed")
         /\ (breaker.state # "Closed" => breaker'.state # "Closed")
<1>1. /\ signals' = Append(signals, "tick") /\ "tick" \in SignalKinds /\ signals \in Seq(SignalKinds)
      /\ breaker \in Breakers
  BY DEF BreakerTick, Signal, SignalKinds, BreakerInv
<1>2. signals' \in Seq(SignalKinds) /\ signals'[Len(signals')] = "tick"
  BY <1>1, AppendProperties
<1>3. CASE breaker.state = "Open"
  <2> DEFINE cooled == [breaker EXCEPT !.sinceTrip = breaker.sinceTrip + 1]
             half == [cooled EXCEPT !.state = "HalfOpen", !.successes = 0]
  <2>1. /\ cooled \in Breakers /\ cooled.sinceTrip = breaker.sinceTrip + 1 /\ cooled.state = "Open"
    BY <1>1, <1>3, OneField
  <2>2. breaker' = IF cooled.sinceTrip >= CooldownEvents THEN half ELSE cooled
    BY <1>3 DEF BreakerTick
  <2>3. CoolingSince(breaker, signals)
    BY <1>3 DEF BreakerInv
  <2>4. CASE cooled.sinceTrip >= CooldownEvents
    <3>1. /\ half \in Breakers /\ half.state = "HalfOpen" /\ half.successes = 0
          /\ half.sinceTrip = cooled.sinceTrip
      <4> HIDE DEF cooled
      <4> QED
        BY <2>1 DEF Breakers
    <3>2. half.sinceTrip = IF "tick" = "tick" THEN breaker.sinceTrip + 1 ELSE breaker.sinceTrip
      BY <2>1, <3>1
    <3>3. half.sinceTrip >= CooldownEvents
      BY <2>4, <3>1
    <3> HIDE DEF half, cooled
    <3>4. ProbingSince(half, signals')
      BY <1>1, <2>3, <3>1, <3>2, <3>3, CoolingGoesOn
    <3> QED
      BY <1>2, <1>3, <2>2, <2>4, <3>1, <3>4 DEF BreakerInv
  <2>5. CASE ~(cooled.sinceTrip >= CooldownEvents)
    <3>1. cooled.sinceTrip = IF "tick" = "tick" THEN breaker.sinceTrip + 1 ELSE breaker.sinceTrip
      BY <2>1
    <3> HIDE DEF half, cooled
    <3>2. CoolingSince(cooled, signals')
      BY <1>1, <2>1, <2>3, <3>1, CoolingGoesOn
    <3> QED
      BY <1>2, <1>3, <2>1, <2>2, <2>5, <3>2 DEF BreakerInv
  <2> QED
    BY <2>4, <2>5
<1>4. CASE breaker.state = "Closed"
  <2>1. breaker' = breaker
    BY <1>4 DEF BreakerTick
  <2>2. FailingSince(breaker, signals)
    BY <1>4 DEF BreakerInv
  <2>3. FailingSince(breaker, signals')
    <3>1. breaker.failures = IF "tick" = "failure" THEN breaker.failures + 1 ELSE breaker.failures
      OBVIOUS
    <3> QED
      BY <1>1, <2>2, <3>1, FailingGoesOn
  <2> QED
    BY <1>1, <1>2, <1>4, <2>1, <2>3 DEF BreakerInv
<1>5. CASE breaker.state = "HalfOpen"
  <2>1. breaker' = breaker
    BY <1>5 DEF BreakerTick
  <2>2. ProbingSince(breaker, signals)
    BY <1>5 DEF BreakerInv
  <2>3. ProbingSince(breaker, signals')
    <3>1. breaker.successes = IF "tick" = "success" THEN breaker.successes + 1 ELSE breaker.successes
      OBVIOUS
    <3> QED
      BY <1>1, <2>2, <3>1, ProbingGoesOn
  <2> QED
    BY <1>1, <1>2, <1>5, <2>1, <2>3 DEF BreakerInv
<1> QED
  BY <1>1, <1>3, <1>4, <1>5 DEF Breakers

LEMMA BreakerHolds == BreakerSpec => BreakerJustified
<1> DEFINE Justified ==
      /\ breaker.state = "Closed" /\ breaker'.state = "Open" => OpensOn(signals')
      /\ breaker.state # "Closed" /\ breaker'.state = "Closed" => CloseOn(signals')
      /\ ~BreakerAllows /\ BreakerAllows' => signals'[Len(signals')] = "tick"
<1>1. BreakerInit => BreakerInv
  <2> SUFFICES ASSUME BreakerInit
               PROVE  BreakerInv
    OBVIOUS
  <2>1. breaker \in Breakers /\ breaker.failures = 0 /\ breaker.state = "Closed" /\ signals = <<>>
    BY DEF BreakerInit, ClosedBreaker, Breakers
  <2>2. signals \in Seq(SignalKinds)
    BY <2>1
  <2> QED
    BY <2>1, <2>2, FreshCount DEF BreakerInv
<1>2. BreakerInv /\ [BreakerNext]_breakerVars => BreakerInv' /\ [Justified]_breakerVars
  <2> SUFFICES ASSUME BreakerInv, [BreakerNext]_breakerVars
               PROVE  BreakerInv' /\ [Justified]_breakerVars
    OBVIOUS
  <2>0. breaker.state \in {"Closed", "Open", "HalfOpen"}
    BY DEF BreakerInv, Breakers
  <2>1. CASE RecordSuccess
    BY <2>0, <2>1, SuccessKeeps DEF BreakerAllows
  <2>2. CASE RecordFailure
    BY <2>0, <2>2, FailureKeeps DEF BreakerAllows
  <2>3. CASE BreakerTick
    BY <2>0, <2>3, TickKeeps DEF BreakerAllows
  <2>4. CASE UNCHANGED breakerVars
    BY <2>4 DEF breakerVars, BreakerInv
  <2> QED
    BY <2>1, <2>2, <2>3, <2>4 DEF BreakerNext
<1> HIDE DEF Justified
<1>3. BreakerSpec => [][Justified]_breakerVars
  BY <1>1, <1>2, PTL DEF BreakerSpec
<1> QED
  BY <1>3 DEF Justified, BreakerJustified

----------------------------------------------------------------------------
(* Virtual time *)

LEMMA ClockRunsAlone == SupportSpec => ClockSpec
<1>1. SupportInit => ClockInit
  BY DEF SupportInit
<1>2. [SupportNext]_SupportVars => [ClockNext]_clockVars
  BY DEF SupportNext, SupportVars, Rest
<1> QED
  BY <1>1, <1>2, PTL DEF SupportSpec, ClockSpec

Moments == [time : 0 .. ClockMax, stall : Nat]

ClockTypeOK ==
  /\ anomalies \in Seq(Anomaly) /\ clockTime \in 0 .. ClockMax /\ stall \in Nat
  /\ queries \in 0 .. QueryMax /\ readings \in Seq(0 .. ClockMax) /\ recording \in BOOLEAN

LEMMA ApplyType ==
  ASSUME NEW s \in Moments, NEW a \in Anomaly
  PROVE  /\ Apply(s, a) \in Moments
         /\ (a.kind = "jitter" /\ a.param < 0) \/ Apply(s, a).time >= s.time
<1>1. s.time \in 0 .. ClockMax /\ ClockMax \in Nat
  BY ClockAssumption DEF Moments
<1>2. ASSUME NEW d \in Nat
      PROVE  /\ SaturatingAdd(s.time, d) \in 0 .. ClockMax /\ SaturatingAdd(s.time, d) >= s.time
             /\ SaturatingSub(s.time, d) \in 0 .. ClockMax
  BY <1>1 DEF SaturatingAdd, SaturatingSub
<1>3. ASSUME NEW t \in 0 .. ClockMax
      PROVE  [s EXCEPT !.time = t] \in Moments /\ [s EXCEPT !.time = t].time = t
  BY DEF Moments
<1>4. CASE a \in [kind : {"jitter"}, trigger : 0 .. QueryMax, param : Offsets]
  <2>1. a.kind = "jitter" /\ a.param \in Int
    BY <1>4, ClockAssumption
  <2>2. CASE a.param >= 0
    <3>1. Apply(s, a) = [s EXCEPT !.time = SaturatingAdd(s.time, a.param)]
      BY <2>1, <2>2 DEF Apply
    <3> QED
      BY <2>1, <2>2, <3>1, <1>2, <1>3
  <2>3. CASE a.param < 0
    <3>1. Apply(s, a) = [s EXCEPT !.time = SaturatingSub(s.time, -a.param)]
      BY <2>1, <2>3 DEF Apply
    <3> QED
      BY <2>1, <2>3, <3>1, <1>2, <1>3
  <2> QED
    BY <2>1, <2>2, <2>3
<1>5. CASE a \in [kind : {"stall"}, trigger : 0 .. QueryMax, param : Holds]
  <2>1. a.kind = "stall" /\ a.param \in Nat
    BY <1>5, ClockAssumption
  <2>2. Apply(s, a) = [s EXCEPT !.stall = a.param]
    BY <2>1 DEF Apply
  <2> QED
    BY <1>1, <2>1, <2>2 DEF Moments
<1>6. CASE a \in [kind : {"jump"}, trigger : 0 .. QueryMax, param : Leaps]
  <2>1. a.kind = "jump" /\ a.param \in Nat
    <3>1. a.kind = "jump" /\ a.param \in Leaps
      BY <1>6
    <3>2. ClockMax \in Nat /\ Leaps \subseteq 0 .. ClockMax
      BY ClockAssumption
    <3>3. a.param \in 0 .. ClockMax
      BY <3>1, <3>2
    <3> QED
      BY <3>1, <3>2, <3>3
  <2>2. Apply(s, a) = [s EXCEPT !.time = SaturatingAdd(s.time, a.param)]
    BY <2>1 DEF Apply
  <2> QED
    BY <2>1, <2>2, <1>2, <1>3
<1> QED
  BY <1>4, <1>5, <1>6 DEF Anomaly

LEMMA PlayedUnfolds ==
  ASSUME ClockTypeOK
  PROVE  /\ Played \in [0 .. Len(anomalies) -> Moments]
         /\ Played[0] = [time |-> IF queries > 0 THEN SaturatingAdd(clockTime, Tick) ELSE clockTime, stall |-> 0]
         /\ \A n \in 1 .. Len(anomalies) :
              Played[n] = IF anomalies[n].trigger = queries THEN Apply(Played[n - 1], anomalies[n])
                          ELSE Played[n - 1]
<1> DEFINE m == Len(anomalies)
           start == [time |-> IF queries > 0 THEN SaturatingAdd(clockTime, Tick) ELSE clockTime, stall |-> 0]
           step == [p \in (1 .. m) \X Moments |->
                      IF anomalies[p[1]].trigger = queries THEN Apply(p[2], anomalies[p[1]]) ELSE p[2]]
<1>1. m \in Nat /\ \A n \in 1 .. m : anomalies[n] \in Anomaly
  BY DEF ClockTypeOK
<1>2. start \in Moments
  <2>1. clockTime \in 0 .. ClockMax /\ ClockMax \in Nat /\ Tick \in 0 .. ClockMax
    BY ClockAssumption DEF ClockTypeOK
  <2>2. SaturatingAdd(clockTime, Tick) \in 0 .. ClockMax
    BY <2>1 DEF SaturatingAdd
  <2> QED
    BY <2>1, <2>2 DEF Moments
<1>3. step \in [(1 .. m) \X Moments -> Moments]
  <2> SUFFICES ASSUME NEW n \in 1 .. m, NEW s \in Moments
               PROVE  (IF anomalies[n].trigger = queries THEN Apply(s, anomalies[n]) ELSE s) \in Moments
    OBVIOUS
  <2> QED
    BY <1>1, ApplyType
<1>4. PICK f \in [0 .. m -> Moments] : f[0] = start /\ \A n \in 1 .. m : f[n] = step[<<n, f[n - 1]>>]
  <2> HIDE DEF m, start, step
  <2>1. step \in Stepping(m, Moments) /\ m \in Nat
    BY <1>1, <1>3 DEF Stepping
  <2>2. \E f : Recurs(f, m, Moments, start, step)
    BY <1>2, <2>1, RecursionExists
  <2> QED
    BY <2>2 DEF Recurs
<1> DEFINE Body(g) == [n \in 0 .. m |->
             IF n = 0 THEN start
             ELSE IF anomalies[n].trigger = queries THEN Apply(g[n - 1], anomalies[n]) ELSE g[n - 1]]
<1>5. \A n \in 1 .. m : f[n] = IF anomalies[n].trigger = queries THEN Apply(f[n - 1], anomalies[n]) ELSE f[n - 1]
  <2> SUFFICES ASSUME NEW n \in 1 .. m
               PROVE  f[n] = IF anomalies[n].trigger = queries THEN Apply(f[n - 1], anomalies[n]) ELSE f[n - 1]
    OBVIOUS
  <2>1. n - 1 \in 0 .. m
    BY <1>1
  <2> QED
    BY <1>4, <2>1
<1>6. f = Body(f)
  <2> HIDE DEF start, step, m
  <2> QED
    BY <1>4, <1>5
<1>7. Played = CHOOSE g : g = Body(g)
  BY DEF Played
<1>8. Played = Body(Played)
  <2> HIDE DEF Body
  <2> QED
    BY <1>6, <1>7
<1> HIDE DEF start
<1>9. /\ DOMAIN Played = 0 .. m
      /\ Played[0] = start
      /\ \A n \in 1 .. m : Played[n] = IF anomalies[n].trigger = queries THEN Apply(Played[n - 1], anomalies[n])
                                       ELSE Played[n - 1]
      /\ Played = [n \in 0 .. m |-> Played[n]]
  <2> DEFINE P == Played
  <2>1. P = Body(P)
    BY <1>8
  <2> HIDE DEF P
  <2>2. 0 \in 0 .. m /\ \A n \in 1 .. m : n \in 0 .. m /\ n # 0
    BY <1>1
  <2>3. /\ DOMAIN P = 0 .. m
        /\ P[0] = start
        /\ \A n \in 1 .. m : P[n] = IF anomalies[n].trigger = queries THEN Apply(P[n - 1], anomalies[n])
                                       ELSE P[n - 1]
        /\ P = [n \in 0 .. m |-> P[n]]
    BY <2>1, <2>2
  <2> QED
    BY <2>3 DEF P
<1>10. \A n \in 0 .. m : Played[n] \in Moments
  <2> DEFINE Good == {n \in 0 .. m : Played[n] \in Moments}
  <2>1. 0 \in Good
    BY <1>1, <1>2, <1>9
  <2>2. ASSUME NEW n \in 1 .. m, n - 1 \in Good
        PROVE  n \in Good
    <3>1. Played[n - 1] \in Moments /\ anomalies[n] \in Anomaly /\ n \in 0 .. m
      BY <1>1, <2>2
    <3>2. Apply(Played[n - 1], anomalies[n]) \in Moments
      BY <3>1, ApplyType
    <3> QED
      BY <1>9, <3>1, <3>2
  <2>3. 0 .. m \subseteq Good
    <3> HIDE DEF Good, m
    <3> QED
      BY <1>1, <2>1, <2>2, InductionUpTo
  <2> QED
    BY <2>3
<1>11. Played \in [0 .. m -> Moments]
  BY <1>9, <1>10
<1> QED
  BY <1>9, <1>11 DEF start

LEMMA ReadingType ==
  ASSUME ClockTypeOK
  PROVE  Reading \in Moments
<1>1. CASE stall > 0
  <2>1. stall - 1 \in Nat /\ clockTime \in 0 .. ClockMax
    BY <1>1 DEF ClockTypeOK
  <2>2. Reading = [time |-> clockTime, stall |-> stall - 1]
    BY <1>1 DEF Reading
  <2> QED
    BY <2>1, <2>2 DEF Moments
<1>2. CASE ~(stall > 0)
  <2>1. Reading = Played[Len(anomalies)]
    BY <1>2 DEF Reading
  <2>2. Len(anomalies) \in 0 .. Len(anomalies)
    BY DEF ClockTypeOK
  <2>3. Played \in [0 .. Len(anomalies) -> Moments]
    BY PlayedUnfolds
  <2> QED
    BY <2>1, <2>2, <2>3
<1> QED
  BY <1>1, <1>2

LEMMA ClockTyped == ClockSpec => []ClockTypeOK
<1>1. ClockInit => ClockTypeOK
  BY ClockAssumption DEF ClockInit, ClockTypeOK
<1>2. ClockTypeOK /\ [ClockNext]_clockVars => ClockTypeOK'
  <2> SUFFICES ASSUME ClockTypeOK, [ClockNext]_clockVars
               PROVE  ClockTypeOK'
    OBVIOUS
  <2>1. CASE ClockReset
    BY <2>1, ClockAssumption DEF ClockReset, ClockTypeOK
  <2>2. ASSUME NEW a \in Anomaly, AddAnomaly(a)
        PROVE  ClockTypeOK'
    <3>1. Append(anomalies, a) \in Seq(Anomaly)
      BY AppendProperties DEF ClockTypeOK
    <3> QED
      BY <2>2, <3>1 DEF AddAnomaly, ClockTypeOK
  <2>3. CASE NowNs
    <3>1. Reading.time \in 0 .. ClockMax /\ Reading.stall \in Nat
      BY ReadingType DEF Moments
    <3>2. Append(readings, Reading.time) \in Seq(0 .. ClockMax)
      BY <3>1, AppendProperties DEF ClockTypeOK
    <3>3. readings' \in Seq(0 .. ClockMax)
      BY <2>3, <3>2 DEF NowNs, ClockTypeOK
    <3>4. queries' \in 0 .. QueryMax
      BY <2>3, ClockAssumption DEF NowNs, ClockTypeOK
    <3> QED
      BY <2>3, <3>1, <3>3, <3>4 DEF NowNs, ClockTypeOK
  <2>4. CASE UNCHANGED clockVars
    BY <2>4 DEF clockVars, ClockTypeOK
  <2> QED
    BY <2>1, <2>2, <2>3, <2>4 DEF ClockNext
<1> QED
  BY <1>1, <1>2, PTL DEF ClockSpec

\* An anomaly due at this query that takes time back.
TakesBack(n) == anomalies[n].kind = "jitter" /\ anomalies[n].param < 0 /\ anomalies[n].trigger = queries

LEMMA OnlyJitterTakesBack ==
  ASSUME ClockTypeOK, \A n \in DOMAIN anomalies : ~TakesBack(n)
  PROVE  Reading.time >= clockTime
<1> DEFINE m == Len(anomalies)
           Good == {n \in 0 .. m : Played[n].time >= clockTime}
<1>1. /\ m \in Nat /\ DOMAIN anomalies = 1 .. m /\ \A n \in 1 .. m : anomalies[n] \in Anomaly
      /\ clockTime \in 0 .. ClockMax /\ ClockMax \in Nat /\ Tick \in 0 .. ClockMax
  BY ClockAssumption DEF ClockTypeOK
<1>2. \A n \in 0 .. m : Played[n] \in Moments
  BY PlayedUnfolds
<1>3. Played[0].time >= clockTime
  <2>1. SaturatingAdd(clockTime, Tick) >= clockTime
    BY <1>1 DEF SaturatingAdd
  <2>2. Played[0].time = IF queries > 0 THEN SaturatingAdd(clockTime, Tick) ELSE clockTime
    BY PlayedUnfolds
  <2> QED
    BY <1>1, <2>1, <2>2
<1>4. 0 \in Good
  BY <1>1, <1>3
<1>5. ASSUME NEW n \in 1 .. m, n - 1 \in Good
      PROVE  n \in Good
  <2>1. /\ Played[n - 1] \in Moments /\ anomalies[n] \in Anomaly /\ n \in DOMAIN anomalies
        /\ Played[n] \in Moments /\ n \in 0 .. m
        /\ Played[n - 1].time >= clockTime
    BY <1>1, <1>2, <1>5
  <2>2. Played[n] = IF anomalies[n].trigger = queries THEN Apply(Played[n - 1], anomalies[n])
                    ELSE Played[n - 1]
    BY PlayedUnfolds
  <2>3. CASE anomalies[n].trigger = queries
    <3>1. ~(anomalies[n].kind = "jitter" /\ anomalies[n].param < 0)
      BY <2>1, <2>3 DEF TakesBack
    <3>2. Apply(Played[n - 1], anomalies[n]).time >= Played[n - 1].time
      BY <2>1, <3>1, ApplyType
    <3>3. Played[n].time >= Played[n - 1].time
      BY <2>2, <2>3, <3>2
    <3>4. Played[n].time \in Nat /\ Played[n - 1].time \in Nat /\ clockTime \in Nat
      BY <1>1, <2>1 DEF Moments
    <3>5. Played[n].time >= clockTime
      BY <2>1, <3>3, <3>4
    <3> QED
      BY <2>1, <3>5
  <2>4. CASE anomalies[n].trigger # queries
    BY <2>1, <2>2, <2>4
  <2> QED
    BY <2>3, <2>4
<1>6. 0 .. m \subseteq Good
  <2>1. m \in Nat
    BY <1>1
  <2> HIDE DEF Good, m
  <2> QED
    BY <2>1, <1>4, <1>5, InductionUpTo
<1>7. m \in 0 .. m
  BY <1>1
<1>8. Played[m].time >= clockTime
  BY <1>6, <1>7
<1> QED
  <2>1. CASE stall > 0
    BY <1>1, <2>1 DEF Reading
  <2>2. CASE ~(stall > 0)
    BY <1>8, <2>2 DEF Reading
  <2> QED
    BY <2>1, <2>2

LEMMA BackwardsHolds == ClockSpec => BackwardsOnlyByJitter
<1> DEFINE Guarded == clockTime' < clockTime =>
                        \/ queries' = 0
                        \/ \E n \in DOMAIN anomalies :
                             anomalies[n].kind = "jitter" /\ anomalies[n].param < 0
                               /\ anomalies[n].trigger = queries
<1>1. ClockTypeOK /\ [ClockNext]_clockVars => [Guarded]_clockVars
  <2> SUFFICES ASSUME ClockTypeOK, ClockNext, clockTime' < clockTime, queries' # 0
               PROVE  \E n \in DOMAIN anomalies :
                        anomalies[n].kind = "jitter" /\ anomalies[n].param < 0
                          /\ anomalies[n].trigger = queries
    OBVIOUS
  <2>1. clockTime \in Nat
    BY ClockAssumption DEF ClockTypeOK
  <2>2. NowNs
    BY <2>1 DEF ClockNext, ClockReset, AddAnomaly
  <2>3. ~(Reading.time >= clockTime)
    <3>1. clockTime' = Reading.time /\ Reading.time \in Nat
      BY <2>2, ReadingType, ClockAssumption DEF NowNs, Moments
    <3> QED
      BY <2>1, <3>1
  <2>4. \E n \in DOMAIN anomalies : TakesBack(n)
    BY <2>3, OnlyJitterTakesBack
  <2> QED
    BY <2>4 DEF TakesBack
<1> QED
  BY <1>1, ClockTyped, PTL DEF ClockSpec, BackwardsOnlyByJitter

----------------------------------------------------------------------------
(* Replayed readings of virtual time *)

\* The reading of a query that finds this time and this stall.
ReadingAt(now, hold, query) ==
  LET Played0[n \in 0 .. Len(anomalies)] ==
        IF n = 0 THEN [time |-> IF query > 0 THEN SaturatingAdd(now, Tick) ELSE now, stall |-> 0]
        ELSE IF anomalies[n].trigger = query THEN Apply(Played0[n - 1], anomalies[n])
        ELSE Played0[n - 1]
  IN  IF hold > 0 THEN [time |-> now, stall |-> hold - 1] ELSE Played0[Len(anomalies)]

LEMMA ReadingIsAt == Reading = ReadingAt(clockTime, stall, queries)
BY Zenon DEF Reading, Played, ReadingAt

LEMMA SameReading ==
  ASSUME UNCHANGED anomalies
  PROVE  \A now, hold, query : ReadingAt(now, hold, query)' = ReadingAt(now, hold, query)
BY DEF ReadingAt, SaturatingAdd, SaturatingSub, Apply

\* The moment n of a run is the one that query n - 1 makes of the moment before.
Leads(m, n) == m[n] = ReadingAt(m[n - 1].time, m[n - 1].stall, n - 1)

\* The moments a run passes through from its reset, which its readings tell of.
Passes(m) ==
  /\ m \in [0 .. Len(readings) -> Moments]
  /\ m[0] = [time |-> Base, stall |-> 0]
  /\ \A n \in 1 .. Len(readings) : Leads(m, n) /\ readings[n] = m[n].time

\* The run is where the recorded one was; at the last query the count stands still and
\* says no more where the clock is.
Follows(m) == recording /\ queries < QueryMax => m[queries] = [time |-> clockTime, stall |-> stall]

ReplayInv ==
  /\ ClockTypeOK
  /\ Len(readings) <= QueryMax /\ (recording => queries <= Len(readings))
  /\ queries = 0 /\ QueryMax > 0 => clockTime = Base /\ stall = 0
  /\ \E m : Passes(m) /\ Follows(m)

StartMoment == [n \in 0 .. 0 |-> [time |-> Base, stall |-> 0]]

LEMMA StartPasses ==
  ASSUME readings = <<>>
  PROVE  Passes(StartMoment) /\ StartMoment[0] = [time |-> Base, stall |-> 0]
<1>1. Len(readings) = 0 /\ 1 .. 0 = {}
  OBVIOUS
<1>2. [time |-> Base, stall |-> 0] \in Moments
  BY ClockAssumption DEF Moments
<1>3. StartMoment \in [0 .. 0 -> Moments] /\ StartMoment[0] = [time |-> Base, stall |-> 0]
  BY <1>2 DEF StartMoment
<1> QED
  BY <1>1, <1>3 DEF Passes

LEMMA StillLeads ==
  ASSUME NEW m, NEW n, UNCHANGED anomalies, Leads(m, n)
  PROVE  Leads(m, n)'
<1>1. \A now, hold, query : ReadingAt(now, hold, query)' = ReadingAt(now, hold, query)
  BY SameReading
<1> QED
  BY <1>1, Zenon DEF Leads

LEMMA LeadsTo ==
  ASSUME NEW m, NEW n \in Nat, NEW q \in Nat, n = q + 1, Leads(m, n)
  PROVE  m[n] = ReadingAt(m[q].time, m[q].stall, q)
<1>1. n - 1 = q
  OBVIOUS
<1> QED
  BY <1>1, Zenon DEF Leads

LEMMA ClockInitReplay == ClockInit => ReplayInv
<1> SUFFICES ASSUME ClockInit
             PROVE  ReplayInv
  OBVIOUS
<1>1. ClockTypeOK
  BY ClockAssumption DEF ClockInit, ClockTypeOK
<1>2. readings = <<>> /\ queries = 0 /\ clockTime = Base /\ stall = 0 /\ Len(readings) = 0
  BY DEF ClockInit
<1>3. Passes(StartMoment) /\ Follows(StartMoment)
  BY <1>2, StartPasses DEF Follows
<1>4. Len(readings) <= QueryMax /\ (recording => queries <= Len(readings))
  BY <1>2, ClockAssumption
<1> QED
  BY <1>1, <1>2, <1>3, <1>4 DEF ReplayInv

\* A recorded run is told as before while the schedule stays.
LEMMA PassesStill ==
  ASSUME NEW m, Passes(m), UNCHANGED <<anomalies, readings>>
  PROVE  Passes(m)'
<1>1. Len(readings)' = Len(readings) /\ readings' = readings
  OBVIOUS
<1>2. \A n \in 1 .. Len(readings) : Leads(m, n)'
  BY StillLeads DEF Passes
<1> QED
  BY <1>1, <1>2 DEF Passes

\* A recorded run goes on with the reading of the next query.
LEMMA PassesOn ==
  ASSUME ClockTypeOK, NEW m, Passes(m), NEW r \in Moments, UNCHANGED anomalies,
         readings' = Append(readings, r.time),
         r = ReadingAt(m[Len(readings)].time, m[Len(readings)].stall, Len(readings))
  PROVE  \E k : Passes(k)' /\ k[Len(readings) + 1] = r
<1> DEFINE n == Len(readings)
<1>0. PICK k : k = [i \in 0 .. n + 1 |-> IF i <= n THEN m[i] ELSE r]
  OBVIOUS
<1>1. n \in Nat /\ readings \in Seq(0 .. ClockMax) /\ r.time \in 0 .. ClockMax
  BY DEF ClockTypeOK, Moments
<1>2. /\ Len(readings') = n + 1 /\ readings'[n + 1] = r.time
      /\ \A i \in 1 .. n : readings'[i] = readings[i]
  BY <1>1, AppendProperties
<1>3. k[n + 1] = r /\ \A i \in 0 .. n : k[i] = m[i]
  BY <1>0, <1>1
<1>4. k \in [0 .. n + 1 -> Moments]
  BY <1>0, <1>1 DEF Passes
<1>5. ASSUME NEW i \in 1 .. n + 1
      PROVE  Leads(k, i)' /\ readings'[i] = k[i].time
  <2>1. CASE i = n + 1
    <3>1. i - 1 = n /\ k[i - 1] = m[n] /\ k[i] = r
      BY <1>1, <1>3, <2>1
    <3>2. Leads(k, i)
      BY <2>1, <3>1 DEF Leads
    <3> QED
      BY <1>2, <2>1, <3>1, <3>2, StillLeads
  <2>2. CASE i # n + 1
    <3>1. i \in 1 .. n /\ i - 1 \in 0 .. n /\ i \in 0 .. n
      BY <1>1, <2>2
    <3>2. k[i] = m[i] /\ k[i - 1] = m[i - 1]
      BY <1>3, <3>1
    <3>3. Leads(m, i) /\ readings[i] = m[i].time
      BY <3>1 DEF Passes
    <3>4. Leads(k, i)
      BY <3>2, <3>3, Zenon DEF Leads
    <3> QED
      BY <1>2, <3>1, <3>2, <3>3, <3>4, StillLeads
  <2> QED
    BY <2>1, <2>2
<1>7. k[0] = [time |-> Base, stall |-> 0]
  BY <1>1, <1>3 DEF Passes
<1>8. Passes(k)'
  <2>1. Len(readings') = n + 1
    BY <1>2
  <2>2. \A i \in 1 .. n + 1 :
          Leads(k, i)' /\ readings'[i] = k[i].time
    BY <1>5
  <2> HIDE DEF n
  <2> QED
    BY <1>4, <1>7, <2>1, <2>2 DEF Passes
<1> QED
  BY <1>3, <1>8

LEMMA ResetReplays ==
  ASSUME ReplayInv, ClockTypeOK', ClockReset
  PROVE  ReplayInv'
<1>1. PICK m : Passes(m)
  BY DEF ReplayInv
<1>2. Passes(m)'
  BY <1>1, PassesStill DEF ClockReset
<1>3. Follows(m)'
  BY <1>1 DEF ClockReset, Passes, Follows
<1>4. Len(readings') \in Nat /\ Len(readings') <= QueryMax
  BY DEF ClockReset, ReplayInv, ClockTypeOK
<1>5. queries' <= Len(readings') /\ clockTime' = Base /\ stall' = 0
  BY <1>4 DEF ClockReset
<1> QED
  BY <1>2, <1>3, <1>4, <1>5 DEF ReplayInv

LEMMA AddReplays ==
  ASSUME ReplayInv, ClockTypeOK', NEW a \in Anomaly, AddAnomaly(a)
  PROVE  ReplayInv'
<1>1. /\ readings' = <<>> /\ Len(readings') = 0 /\ (recording' => queries = 0)
      /\ UNCHANGED <<clockTime, queries, stall>>
  BY DEF AddAnomaly
<1>2. Passes(StartMoment)' /\ StartMoment[0] = [time |-> Base, stall |-> 0]
  <2>1. Len(readings') = 0 /\ 1 .. 0 = {}
    BY <1>1
  <2>2. [time |-> Base, stall |-> 0] \in Moments
    BY ClockAssumption DEF Moments
  <2>3. StartMoment \in [0 .. 0 -> Moments] /\ StartMoment[0] = [time |-> Base, stall |-> 0]
    BY <2>2 DEF StartMoment
  <2> QED
    BY <2>1, <2>3 DEF Passes
<1>3. Follows(StartMoment)'
  BY <1>1, <1>2, ClockAssumption DEF Follows, ReplayInv
<1>4. 0 <= QueryMax
  BY ClockAssumption
<1> QED
  BY <1>1, <1>2, <1>3, <1>4 DEF ReplayInv

LEMMA NowReplays ==
  ASSUME ReplayInv, ClockTypeOK', NowNs
  PROVE  ReplayInv'
<1>1. PICK m : Passes(m) /\ Follows(m)
  BY DEF ReplayInv
<1>2. /\ queries \in Nat /\ QueryMax \in Nat /\ queries <= QueryMax /\ Len(readings) \in Nat
      /\ readings \in Seq(0 .. ClockMax) /\ (recording => queries <= Len(readings))
      /\ Len(readings) <= QueryMax /\ Reading \in Moments /\ ClockTypeOK
  BY ReadingType, ClockAssumption DEF ReplayInv, ClockTypeOK
<1>3. /\ UNCHANGED <<anomalies, recording>> /\ clockTime' = Reading.time /\ stall' = Reading.stall
      /\ queries' = IF queries < QueryMax THEN queries + 1 ELSE queries
      /\ readings' = IF recording /\ queries = Len(readings) /\ queries < QueryMax
                       THEN Append(readings, Reading.time) ELSE readings
  BY DEF NowNs
<1>4. Reading = [time |-> clockTime', stall |-> stall']
  BY <1>2, <1>3 DEF Moments
<1>5. queries' = 0 /\ QueryMax > 0 => clockTime' = Base /\ stall' = 0
  BY <1>2, <1>3
<1>6. ASSUME recording, queries < QueryMax
      PROVE  Reading = ReadingAt(m[queries].time, m[queries].stall, queries)
  <2>1. m[queries] = [time |-> clockTime, stall |-> stall]
    BY <1>1, <1>6 DEF Follows
  <2> QED
    BY <2>1, ReadingIsAt
<1>7. CASE recording /\ queries = Len(readings) /\ queries < QueryMax
  <2>1. readings' = Append(readings, Reading.time) /\ queries' = queries + 1
    BY <1>3, <1>7
  <2>2. PICK k : Passes(k)' /\ k[Len(readings) + 1] = Reading
    BY <1>1, <1>2, <1>3, <1>6, <1>7, <2>1, PassesOn
  <2>3. Follows(k)'
    BY <1>4, <1>7, <2>1, <2>2 DEF Follows
  <2>4. Len(readings') = Len(readings) + 1
    BY <1>2, <2>1, AppendProperties DEF Moments
  <2>5. Len(readings') <= QueryMax /\ queries' <= Len(readings')
    BY <1>2, <1>7, <2>1, <2>4
  <2> QED
    BY <1>5, <2>2, <2>3, <2>5 DEF ReplayInv
<1>8. CASE ~(recording /\ queries = Len(readings) /\ queries < QueryMax)
  <2>1. readings' = readings
    BY <1>3, <1>8
  <2>2. Passes(m)'
    BY <1>1, <1>3, <2>1, PassesStill
  <2>3. Follows(m)'
    <3> SUFFICES ASSUME recording, queries' < QueryMax
                 PROVE  m[queries'] = Reading
      BY <1>3, <1>4 DEF Follows
    <3>1. queries < QueryMax /\ queries' = queries + 1
      BY <1>2, <1>3
    <3>2. queries + 1 \in 1 .. Len(readings)
      BY <1>2, <1>8, <3>1
    <3>3. m[queries + 1] = ReadingAt(m[queries].time, m[queries].stall, queries)
      <4>1. Leads(m, queries + 1)
        BY <1>1, <3>2 DEF Passes
      <4> QED
        BY <1>2, <4>1, LeadsTo
    <3> QED
      BY <1>6, <3>1, <3>3
  <2>4. recording' => queries' <= Len(readings')
    BY <1>2, <1>3, <1>8, <2>1
  <2> QED
    BY <1>2, <1>5, <2>1, <2>2, <2>3, <2>4 DEF ReplayInv
<1> QED
  BY <1>7, <1>8

LEMMA ReplayStep == ReplayInv /\ ClockTypeOK' /\ [ClockNext]_clockVars => ReplayInv'
<1> SUFFICES ASSUME ReplayInv, ClockTypeOK', [ClockNext]_clockVars
             PROVE  ReplayInv'
  OBVIOUS
<1>1. CASE UNCHANGED clockVars
  <2>1. PICK m : Passes(m) /\ Follows(m)
    BY DEF ReplayInv
  <2>2. Passes(m)'
    BY <1>1, <2>1, PassesStill DEF clockVars
  <2> QED
    BY <1>1, <2>1, <2>2 DEF clockVars, ReplayInv, Follows
<1> QED
  BY <1>1, ResetReplays, AddReplays, NowReplays DEF ClockNext

LEMMA ReplayHolds == ClockSpec => ReplayReadsTheSame
<1> DEFINE Same == queries' # queries /\ queries' > 0 /\ recording /\ queries < Len(readings)
                     => clockTime' = readings[queries + 1]
<1>1. ReplayInv /\ [ClockNext]_clockVars => [Same]_clockVars
  <2> SUFFICES ASSUME ReplayInv, ClockNext, queries' # queries, queries' > 0, recording,
                      queries < Len(readings)
               PROVE  clockTime' = readings[queries + 1]
    OBVIOUS
  <2>1. NowNs
    BY DEF ClockNext, ClockReset, AddAnomaly
  <2>2. queries \in Nat /\ Len(readings) \in Nat /\ queries < QueryMax
    BY <2>1, ClockAssumption DEF NowNs, ReplayInv, ClockTypeOK
  <2>3. PICK m : Passes(m) /\ Follows(m)
    BY DEF ReplayInv
  <2>4. m[queries] = [time |-> clockTime, stall |-> stall]
    BY <2>2, <2>3 DEF Follows
  <2>5. queries + 1 \in 1 .. Len(readings)
    BY <2>2
  <2>6. /\ m[queries + 1] = ReadingAt(m[queries].time, m[queries].stall, queries)
        /\ readings[queries + 1] = m[queries + 1].time
    <3>1. Leads(m, queries + 1) /\ readings[queries + 1] = m[queries + 1].time
      BY <2>3, <2>5 DEF Passes
    <3> QED
      BY <2>2, <3>1, LeadsTo
  <2>7. readings[queries + 1] = Reading.time
    BY <2>4, <2>6, ReadingIsAt
  <2> QED
    BY <2>1, <2>7 DEF NowNs
<1> QED
  BY <1>1, ClockInitReplay, ReplayStep, ClockTyped, PTL DEF ClockSpec, ReplayReadsTheSame

----------------------------------------------------------------------------
(* The hindsight ring and what the hooks returned *)

LEMMA NextMod ==
  ASSUME NEW w \in Nat, NEW c \in Nat \ {0}
  PROVE  (w + 1) % c = IF w % c = c - 1 THEN 0 ELSE (w % c) + 1
<1>1. PICK q \in Nat : w = c * q + (w % c) /\ w % c \in 0 .. c - 1
  BY ModOf
<1>2. PICK v \in Nat : v = w + 1
  OBVIOUS
<1>3. PICK r \in 0 .. c - 1 : r = w % c
  BY <1>1
<1>4. CASE r = c - 1
  <2>1. PICK p \in Nat : p = q + 1
    OBVIOUS
  <2>2. c * p = c * q + c
    BY <2>1
  <2>3. v = c * p + 0 /\ 0 \in 0 .. c - 1
    BY <1>1, <1>2, <1>3, <1>4, <2>2
  <2>4. v % c = 0
    BY <2>3, ModIs
  <2> QED
    BY <1>2, <1>3, <1>4, <2>4
<1>5. CASE r # c - 1
  <2>1. PICK k \in 0 .. c - 1 : k = r + 1
    BY <1>5
  <2>2. v = c * q + k
    <3>1. w = c * q + r
      BY <1>1, <1>3
    <3> QED
      BY <1>2, <2>1, <3>1
  <2>3. v % c = k
    BY <2>2, ModIs
  <2> QED
    BY <1>2, <1>3, <1>5, <2>1, <2>3
<1> QED
  BY <1>4, <1>5

\* The entry at each place from the oldest on, for a ring that is written next at c.
Place(c, t, i) == IF t < HindsightRing THEN i
                  ELSE IF c + i < HindsightRing THEN c + i ELSE c + i - HindsightRing

\* The ring holds the sequence s, oldest first.
Holding(s) ==
  /\ \E S : s \in Seq(S)
  /\ hindsight.write \in 0 .. IndexMod - 1 /\ hindsight.total \in 0 .. CounterMax
  /\ DOMAIN hindsight.ring = 0 .. HindsightRing - 1
  /\ hindsight.total <= HindsightRing => hindsight.write % HindsightRing = hindsight.total % HindsightRing
  /\ Len(s) = Readable
  /\ \A i \in 0 .. Len(s) - 1 :
       hindsight.ring[Place(hindsight.write % HindsightRing, hindsight.total, i)] = s[i + 1]

LEMMA RingCursor ==
  ASSUME NEW s, Holding(s)
  PROVE  /\ HindsightRing \in Nat \ {0} /\ IndexMod \in Nat \ {0} /\ CounterMax \in Nat
         /\ CounterMax > HindsightRing /\ hindsight.write \in Nat /\ hindsight.total \in Nat
         /\ hindsight.write % HindsightRing \in 0 .. HindsightRing - 1
         /\ hindsight.total < HindsightRing => hindsight.write % HindsightRing = hindsight.total
         /\ hindsight.total = HindsightRing => hindsight.write % HindsightRing = 0
<1>1. /\ HindsightRing \in Nat \ {0} /\ IndexMod \in Nat \ {0} /\ CounterMax \in Nat
      /\ CounterMax > HindsightRing /\ hindsight.write \in Nat /\ hindsight.total \in Nat
  BY HindsightAssumption DEF Holding
<1>2. PICK w \in Nat : w = hindsight.write
  BY <1>1
<1>3. PICK t \in Nat : t = hindsight.total
  BY <1>1
<1>4. w % HindsightRing \in 0 .. HindsightRing - 1
  BY <1>1, ModOf
<1>5. t < HindsightRing => t % HindsightRing = t
  BY <1>1, ModSmall
<1>6. t = HindsightRing => t % HindsightRing = 0
  BY <1>1, ModSmall
<1>7. t <= HindsightRing => w % HindsightRing = t % HindsightRing
  BY <1>2, <1>3 DEF Holding
<1>8. t < HindsightRing => w % HindsightRing = t
  BY <1>1, <1>5, <1>7
<1>9. t = HindsightRing => w % HindsightRing = 0
  BY <1>1, <1>6, <1>7
<1> QED
  BY <1>1, <1>2, <1>3, <1>4, <1>8, <1>9

\* Read from index 0 it gives the sequence.
LEMMA HoldingReads ==
  ASSUME NEW s, Holding(s)
  PROVE  [n \in 1 .. Readable |-> HindsightGet(n - 1)] = s
<1> DEFINE R == HindsightRing
<1>0. PICK c, t : c = hindsight.write % R /\ t = hindsight.total
  OBVIOUS
<1>1. /\ R \in Nat \ {0} /\ c \in 0 .. R - 1 /\ t \in Nat
      /\ (t = R => c = 0) /\ Len(s) = Readable /\ Readable \in 0 .. R
      /\ Readable = IF t <= R THEN t ELSE R
  BY <1>0, RingCursor DEF Holding, Readable
<1>2. s = [n \in 1 .. Readable |-> s[n]]
  BY <1>1 DEF Holding
<1>3. ASSUME NEW n \in 1 .. Readable
      PROVE  HindsightGet(n - 1) = s[n]
  <2>1. PICK i \in 0 .. R - 1 : i = n - 1 /\ i + 1 = n /\ i \in 0 .. Len(s) - 1
    BY <1>1
  <2>2. hindsight.ring[Place(c, t, i)] = s[n]
    BY <1>0, <2>1 DEF Holding
  <2>3. CASE t <= R
    <3>1. Place(c, t, i) = i
      BY <1>1, <2>1, <2>3 DEF Place
    <3>2. HindsightGet(i) = hindsight.ring[i]
      BY <1>0, <2>3 DEF HindsightGet
    <3> QED
      BY <2>1, <2>2, <3>1, <3>2
  <2>4. CASE t > R
    <3>1. PICK a \in Nat : a = c + i /\ a < 2 * R
      BY <1>1
    <3>2. a % R = IF a < R THEN a ELSE a - R
      <4> HIDE DEF R
      <4> QED
        BY <1>1, <3>1, ModSmall
    <3>3. Place(c, t, i) = a % R
      BY <1>1, <2>4, <3>1, <3>2 DEF Place
    <3>4. HindsightGet(i) = hindsight.ring[(c + i) % R]
      BY <1>0, <1>1, <2>4 DEF HindsightGet
    <3> QED
      BY <2>1, <2>2, <3>1, <3>3, <3>4
  <2> QED
    BY <1>1, <2>3, <2>4
<1> QED
  BY <1>2, <1>3

LEMMA LogHolds ==
  ASSUME NEW s, Holding(s), NEW e, HindsightLog(e)
  PROVE  Holding(Pushed(HindsightRing, s, e))'
<1> DEFINE R == HindsightRing
           ring == hindsight.ring
<1>0. PICK c, t : c = hindsight.write % R /\ t = hindsight.total
  OBVIOUS
<1>1. PICK S : s \in Seq(S)
  BY DEF Holding
<1>2. /\ R \in Nat \ {0} /\ c \in 0 .. R - 1 /\ t \in Nat /\ CounterMax \in Nat /\ CounterMax > R
      /\ hindsight.write \in Nat /\ IndexMod \in Nat \ {0} /\ IndexMod % R = 0
      /\ hindsight.write < IndexMod /\ t <= CounterMax
      /\ (t < R => c = t) /\ (t = R => c = 0)
      /\ Len(s) = IF t <= R THEN t ELSE R
  <2>1. /\ R \in Nat \ {0} /\ c \in 0 .. R - 1 /\ t \in Nat /\ CounterMax \in Nat /\ CounterMax > R
        /\ hindsight.write \in Nat /\ (t < R => c = t) /\ (t = R => c = 0)
    BY <1>0, RingCursor
  <2>2. IndexMod \in Nat \ {0} /\ IndexMod % R = 0
    BY HindsightAssumption
  <2>3. /\ hindsight.write \in 0 .. IndexMod - 1 /\ t \in 0 .. CounterMax
        /\ Len(s) = IF t <= R THEN t ELSE R
    BY <1>0 DEF Holding, Readable
  <2> QED
    BY <2>1, <2>2, <2>3
<1>3. /\ hindsight'.ring = [ring EXCEPT ![c] = e]
      /\ hindsight'.write = (hindsight.write + 1) % IndexMod
      /\ hindsight'.total = IF t < CounterMax THEN t + 1 ELSE t
  BY <1>0 DEF HindsightLog
<1>4. DOMAIN hindsight'.ring = 0 .. R - 1
  BY <1>3 DEF Holding
<1>5. hindsight'.write % R = IF c = R - 1 THEN 0 ELSE c + 1
  <2>1. PICK v \in Nat : v = hindsight.write + 1 /\ v < 2 * IndexMod
    BY <1>2
  <2>2. (v % IndexMod) % R = v % R
    <3> HIDE DEF R
    <3> QED
      BY <1>2, <2>1, WrapKeepsCell
  <2>3. v % R = IF c = R - 1 THEN 0 ELSE c + 1
    BY <1>0, <1>2, <2>1, NextMod
  <2> QED
    BY <1>3, <2>1, <2>2, <2>3
<1>6. hindsight'.write \in 0 .. IndexMod - 1
  <2>1. PICK v \in Nat : v = hindsight.write + 1
    BY <1>2
  <2>2. v % IndexMod \in 0 .. IndexMod - 1
    BY <1>2, ModOf
  <2> QED
    BY <1>3, <2>1, <2>2
<1>7. PICK d \in 0 .. R - 1 : d = hindsight'.write % R /\ d = IF c = R - 1 THEN 0 ELSE c + 1
  BY <1>2, <1>5
<1>8. PICK u \in Nat : u = hindsight'.total /\ u = IF t < CounterMax THEN t + 1 ELSE t
  BY <1>2, <1>3
<1>9. u \in 0 .. CounterMax /\ (u <= R <=> t < R) /\ (t < R => u = t + 1)
  BY <1>2, <1>8
<1>10. hindsight'.total <= R => hindsight'.write % R = hindsight'.total % R
  <2> SUFFICES ASSUME u <= R
               PROVE  d = u % R
    BY <1>7, <1>8
  <2>1. u = c + 1
    BY <1>2, <1>9
  <2>2. u % R = IF u < R THEN u ELSE u - R
    <3>1. u \in Nat /\ u < 2 * R /\ R \in Nat \ {0}
      BY <1>2, <2>1
    <3> HIDE DEF R
    <3> QED
      BY <3>1, ModSmall
  <2> QED
    BY <1>2, <1>7, <2>1, <2>2
<1>11. PICK p : p = Pushed(HindsightRing, s, e)
  OBVIOUS
<1>12. /\ p \in Seq(S \cup {e})
       /\ Len(s) < R =>
            /\ Len(p) = Len(s) + 1 /\ p[Len(s) + 1] = e /\ \A i \in 1 .. Len(s) : p[i] = s[i]
       /\ Len(s) = R => /\ Len(p) = R /\ p[R] = e /\ \A i \in 1 .. R - 1 : p[i] = s[i + 1]
  <2>1. Len(s) <= R /\ R \in Nat \ {0} /\ p = Pushed(R, s, e)
    BY <1>2, <1>11
  <2> HIDE DEF R
  <2>2. AddsLatest(R, S, s, e, p)
    BY <1>1, <2>1, PushedFacts
  <2> QED
    BY <2>2 DEF AddsLatest
<1>13. Len(p) = Readable'
  BY <1>2, <1>8, <1>9, <1>12 DEF Readable
<1>14. \A i \in 0 .. Len(s) - 1 : ring[Place(c, t, i)] = s[i + 1]
  BY <1>0 DEF Holding
<1>15. ASSUME NEW i \in 0 .. Len(p) - 1
       PROVE  hindsight'.ring[Place(d, u, i)] = p[i + 1]
  <2>1. CASE t < R
    <3>1. Len(s) = t /\ Len(p) = t + 1
      BY <1>2, <1>12, <2>1
    <3>2. Place(d, u, i) = i
      BY <1>2, <1>7, <1>9, <2>1, <3>1 DEF Place
    <3>3. CASE i = t
      <4>1. i = c /\ c \in 0 .. R - 1 /\ p[i + 1] = e
        BY <1>2, <1>12, <2>1, <3>1, <3>3
      <4>2. hindsight'.ring[c] = e
        BY <1>3, <4>1 DEF Holding
      <4> QED
        BY <3>2, <4>1, <4>2
    <3>4. CASE i # t
      <4>1. i \in 0 .. Len(s) - 1 /\ i + 1 \in 1 .. Len(s) /\ i \in 0 .. R - 1 /\ i # c
        BY <1>2, <2>1, <3>1, <3>4
      <4>2. Place(c, t, i) = i
        BY <2>1 DEF Place
      <4>3. hindsight'.ring[i] = ring[i]
        BY <1>3, <4>1 DEF Holding
      <4> QED
        BY <1>2, <1>12, <1>14, <2>1, <3>1, <3>2, <4>1, <4>2, <4>3
    <3> QED
      BY <3>3, <3>4
  <2>2. CASE t >= R
    <3>1. Len(s) = R /\ Len(p) = R /\ u >= R /\ i \in 0 .. R - 1
      BY <1>2, <1>8, <1>12, <2>2
    <3>2. CASE i = R - 1
      <4>1. Place(d, u, i) = c
        BY <1>2, <1>7, <2>2, <3>1, <3>2 DEF Place
      <4>2. hindsight'.ring[c] = e
        BY <1>2, <1>3 DEF Holding
      <4> QED
        BY <1>2, <1>12, <3>1, <3>2, <4>1, <4>2
    <3>3. CASE i # R - 1
      <4>1. i + 1 \in 0 .. R - 1 /\ i + 1 \in 1 .. R - 1
        BY <1>2, <3>1, <3>3
      <4>2. Place(d, u, i) = Place(c, t, i + 1) /\ Place(c, t, i + 1) \in 0 .. R - 1
            /\ Place(c, t, i + 1) # c
        BY <1>2, <1>7, <2>2, <3>1, <4>1 DEF Place
      <4>3. hindsight'.ring[Place(d, u, i)] = ring[Place(c, t, i + 1)]
        BY <1>3, <4>2 DEF Holding
      <4>4. ring[Place(c, t, i + 1)] = s[i + 1 + 1]
        BY <1>14, <3>1, <4>1
      <4>5. p[i + 1] = s[i + 1 + 1]
        BY <1>12, <3>1, <4>1
      <4> QED
        BY <4>3, <4>4, <4>5
    <3> QED
      BY <3>2, <3>3
  <2> QED
    BY <1>2, <2>1, <2>2
<1> QED
  BY <1>4, <1>6, <1>7, <1>8, <1>9, <1>10, <1>11, <1>12, <1>13, <1>15 DEF Holding

LEMMA EmptyHolds ==
  ASSUME hindsight = EmptyHindsight
  PROVE  Holding(<<>>)
<1>1. HindsightRing \in Nat \ {0} /\ IndexMod \in Nat \ {0} /\ CounterMax \in Nat
  BY HindsightAssumption
<1>2. /\ hindsight.write = 0 /\ hindsight.total = 0 /\ DOMAIN hindsight.ring = 0 .. HindsightRing - 1
  BY DEF EmptyHindsight
<1>3. Readable = 0 /\ <<>> \in Seq({}) /\ Len(<<>>) = 0
  BY <1>1, <1>2 DEF Readable
<1> QED
  BY <1>1, <1>2, <1>3 DEF Holding

HooksInv ==
  /\ Holding(returned)
  /\ hooks \in [hooks : SUBSET HookNames, seeded : BOOLEAN, sealed : BOOLEAN]
  /\ Deterministic /\ "entropy" \in hooks.hooks => hooks.seeded

LEMMA HooksInitInv == HooksInit => HooksInv
<1> SUFFICES ASSUME HooksInit
             PROVE  HooksInv
  OBVIOUS
<1>1. Holding(returned)
  BY EmptyHolds DEF HooksInit, HindsightInit
<1>2. hooks = NoHooks
  BY DEF HooksInit
<1> QED
  BY <1>1, <1>2 DEF HooksInv, NoHooks

LEMMA HoldingStays ==
  ASSUME HooksInv, UNCHANGED <<hindsight, returned>>
  PROVE  Holding(returned)'
BY DEF HooksInv, Holding, Readable

LEMMA ReturnKeeps ==
  ASSUME HooksInv, UNCHANGED hooks, NEW kind, NEW value, Return(kind, value)
  PROVE  HooksInv'
<1>1. PICK s, p, e : s = returned /\ e = <<kind, value>> /\ p = Pushed(HindsightRing, s, e)
  OBVIOUS
<1>2. HindsightLog(e) /\ returned' = p
  BY <1>1 DEF Return, Pushed
<1>3. Holding(s)
  BY <1>1 DEF HooksInv
<1>4. Holding(Pushed(HindsightRing, s, e))'
  BY <1>2, <1>3, LogHolds
<1>5. Holding(p)'
  BY <1>1, <1>4
<1>6. Holding(returned)'
  BY <1>2, <1>5
<1> QED
  BY <1>6 DEF HooksInv

LEMMA HooksStep == HooksInv /\ [HooksNext]_hooksVars => HooksInv'
<1> SUFFICES ASSUME HooksInv, [HooksNext]_hooksVars
             PROVE  HooksInv'
  OBVIOUS
<1> DEFINE Tables == [hooks : SUBSET HookNames, seeded : BOOLEAN, sealed : BOOLEAN]
<1>1. ASSUME NEW table \in HookTables \cup {DefaultHooks}, SetHooks(table)
      PROVE  HooksInv'
  <2>1. table \in Tables
    <3>1. DefaultHooks \in Tables
      <4>1. {"malloc", "realloc", "free", "now", "logical", "entropy", "ghost"} \in SUBSET HookNames
        BY DEF HookNames
      <4> QED
        BY <4>1, Zenon DEF DefaultHooks
    <3>2. HookTables \subseteq Tables
      BY HooksAssumption
    <3> QED
      BY <3>1, <3>2
  <2>2. Holding(returned)'
    BY <1>1, HoldingStays DEF SetHooks, hindsightVars
  <2>3. Deterministic /\ "entropy" \in table.hooks => table.seeded
    BY <1>1 DEF SetHooks, ValidHooks
  <2> QED
    BY <1>1, <2>1, <2>2, <2>3 DEF SetHooks, HooksInv
<1>2. CASE SealAllocator
  <2>1. Holding(returned)'
    BY <1>2, HoldingStays DEF SealAllocator, hindsightVars
  <2>2. hooks \in Tables
    BY DEF HooksInv
  <2>3. hooks' \in Tables /\ hooks'.hooks = hooks.hooks /\ hooks'.seeded = hooks.seeded
    BY <1>2, <2>2 DEF SealAllocator
  <2> QED
    BY <2>1, <2>3 DEF HooksInv
<1>3. CASE \/ \E fault \in Faults : FaultInject(fault)
           \/ FaultClear \/ (\E g \in BOOLEAN : RuntimeAlloc(g))
           \/ RuntimeRealloc \/ RuntimeFree
  <2>1. UNCHANGED <<hindsight, returned, hooks>>
    BY <1>3 DEF FaultInject, FaultClear, RuntimeAlloc, RuntimeRealloc, RuntimeFree, hindsightVars
  <2> QED
    BY <2>1, HoldingStays DEF HooksInv
<1>4. ASSUME NEW raw \in ClockValues, RuntimeNowNs(raw)
      PROVE  HooksInv'
  BY <1>4, ReturnKeeps DEF RuntimeNowNs
<1>5. ASSUME NEW raw \in EntropyValues, RuntimeRandom(raw)
      PROVE  HooksInv'
  BY <1>5, ReturnKeeps DEF RuntimeRandom
<1>6. ASSUME NEW ready \in ReadyCounts, RuntimeReactorWait(ready)
      PROVE  HooksInv'
  BY <1>6, ReturnKeeps DEF RuntimeReactorWait
<1>7. CASE ReadingsReset
  <2>1. hindsight' = EmptyHindsight /\ returned' = <<>> /\ hooks' = hooks
    BY <1>7 DEF ReadingsReset, HindsightReset
  <2>2. (hindsight = EmptyHindsight)'
    BY <2>1 DEF EmptyHindsight
  <2>3. Holding(<<>>)'
    BY <2>2, EmptyHolds, PTL
  <2> QED
    BY <2>1, <2>3 DEF HooksInv
<1>8. CASE UNCHANGED hooksVars
  BY <1>8, HoldingStays DEF hooksVars, hindsightVars, HooksInv
<1> QED
  BY <1>1, <1>2, <1>3, <1>4, <1>5, <1>6, <1>7, <1>8 DEF HooksNext

LEMMA HooksKept == SupportSpec => [](subject = "hooks" => ReadingsReplayable)
<1> DEFINE Inv == subject = "hooks" => HooksInv
<1>1. SupportInit => Inv
  BY HooksInitInv DEF SupportInit
<1>2. Inv /\ [SupportNext]_SupportVars => Inv'
  <2> SUFFICES ASSUME Inv, [SupportNext]_SupportVars, subject' = "hooks"
               PROVE  HooksInv'
    OBVIOUS
  <2>1. subject = "hooks" /\ [HooksNext]_hooksVars
    BY DEF SupportNext, SupportVars, Rest
  <2> QED
    BY <2>1, HooksStep
<1>3. Inv => (subject = "hooks" => ReadingsReplayable)
  <2> SUFFICES ASSUME HooksInv
               PROVE  ReadingsReplayable
    OBVIOUS
  <2>1. PICK s : s = returned
    OBVIOUS
  <2>2. [n \in 1 .. Readable |-> HindsightGet(n - 1)] = s
    BY <2>1, HoldingReads DEF HooksInv
  <2> QED
    BY <2>1, <2>2 DEF HooksInv, ReadingsReplayable
<1> QED
  BY <1>1, <1>2, <1>3, PTL DEF SupportSpec

\* ReadingsReproduce: virtual time reads after a reset what it read before, and what the
\* hooks returned is what the hindsight ring gives back, from a seeded source
\* (virtual_time.c, hooks.c, hindsight.c).
THEOREM ReadingsReproduced == SupportSpec => ReadingsReproduce
BY ClockRunsAlone, ReplayHolds, HooksKept DEF ReadingsReproduce

----------------------------------------------------------------------------
(* The timer wheel: its invariant.  What is said of the slots is said of any *)
(* array tm of timers, since an update makes two changes in one call.        *)

Alive(tm) == {s \in TimerSlots : tm[s].alive}

\* The array agrees with a high-water mark, a count and the next insertion number.
Agrees(tm, mark, active, next) ==
  /\ tm \in [TimerSlots -> Timer]
  /\ active = Cardinality(Alive(tm))
  /\ \A s \in Alive(tm) : s < mark /\ tm[s].insertion < next /\ tm[s].waker \in Wakers
  /\ \A s, r \in Alive(tm) : s # r => tm[s].insertion # tm[r].insertion

WheelInv == WheelTypeOK /\ Agrees(timers, slotCount, activeCount, nextInsertion)

LEMMA SlotSets ==
  ASSUME NEW tm
  PROVE  /\ MaxTimers \in Nat \ {0} /\ IsFiniteSet(TimerSlots) /\ Cardinality(TimerSlots) = MaxTimers
         /\ TimerSlots \subseteq Nat /\ TimerSlots = 0 .. MaxTimers - 1
         /\ IsFiniteSet(Alive(tm)) /\ Cardinality(Alive(tm)) \in 0 .. MaxTimers
<1>1. MaxTimers \in Nat \ {0} /\ TimerSlots = 0 .. MaxTimers - 1
  BY TimerAssumption DEF TimerSlots
<1>2. IsFiniteSet(0 .. MaxTimers - 1) /\ Cardinality(0 .. MaxTimers - 1) = MaxTimers
  <2>1. 0 \in Int /\ MaxTimers - 1 \in Int /\ 0 <= MaxTimers - 1
    BY <1>1
  <2>2. /\ IsFiniteSet(0 .. MaxTimers - 1)
        /\ Cardinality(0 .. MaxTimers - 1) = IF 0 > MaxTimers - 1 THEN 0 ELSE MaxTimers - 1 - 0 + 1
    BY <2>1, FS_Interval
  <2> QED
    BY <1>1, <2>1, <2>2
<1>3. Alive(tm) \subseteq TimerSlots
  BY DEF Alive
<1>4. IsFiniteSet(Alive(tm)) /\ Cardinality(Alive(tm)) <= Cardinality(TimerSlots)
  BY <1>1, <1>2, <1>3, FS_Subset
<1>5. Cardinality(Alive(tm)) \in Nat
  BY <1>4, FS_CardinalityType
<1> QED
  BY <1>1, <1>2, <1>4, <1>5

\* Where a registration goes.
LEMMA FreeSlotFacts ==
  ASSUME NEW tm, slotCount \in 0 .. MaxTimers
  PROVE  /\ FreeSlot(tm) \in 0 .. slotCount
         /\ FreeSlot(tm) < slotCount => FreeSlot(tm) \in TimerSlots /\ ~tm[FreeSlot(tm)].alive
         /\ FreeSlot(tm) = slotCount => \A s \in TimerSlots : s < slotCount => tm[s].alive
<1> DEFINE dead == {s \in TimerSlots : s < slotCount /\ ~tm[s].alive}
<1>1. MaxTimers \in Nat \ {0} /\ TimerSlots = 0 .. MaxTimers - 1 /\ slotCount \in Nat
  BY SlotSets
<1>2. CASE dead = {}
  BY <1>1, <1>2 DEF FreeSlot
<1>3. CASE dead # {}
  <2>1. dead \subseteq Nat
    BY <1>1
  <2>2. \E s \in dead : \A r \in dead : s <= r
    <3> HIDE DEF dead
    <3> QED
      BY <1>3, <2>1, MinExists
  <2>3. FreeSlot(tm) \in dead
    <3>1. FreeSlot(tm) = CHOOSE s \in dead : \A r \in dead : s <= r
      BY <1>3 DEF FreeSlot
    <3> HIDE DEF dead
    <3> QED
      BY <2>2, <3>1
  <2> QED
    BY <1>1, <2>3
<1> QED
  BY <1>2, <1>3

\* The slot found is within the array exactly while fewer timers live than it has slots.
LEMMA RoomForOne ==
  ASSUME NEW tm, NEW active, NEW next, slotCount \in 0 .. MaxTimers,
         Agrees(tm, slotCount, active, next)
  PROVE  FreeSlot(tm) < MaxTimers <=> Cardinality(Alive(tm)) < MaxTimers
<1>1. /\ MaxTimers \in Nat \ {0} /\ IsFiniteSet(TimerSlots) /\ Cardinality(TimerSlots) = MaxTimers
      /\ TimerSlots = 0 .. MaxTimers - 1 /\ IsFiniteSet(Alive(tm))
      /\ Cardinality(Alive(tm)) \in 0 .. MaxTimers /\ Alive(tm) \subseteq TimerSlots
  BY SlotSets DEF Alive
<1>2. CASE FreeSlot(tm) < MaxTimers
  <2>1. FreeSlot(tm) \in TimerSlots
    BY <1>1, <1>2, FreeSlotFacts
  <2>2. FreeSlot(tm) \notin Alive(tm)
    BY <2>1, <1>1, FreeSlotFacts DEF Agrees, Alive
  <2>3. Alive(tm) # TimerSlots
    BY <2>1, <2>2
  <2>4. Cardinality(Alive(tm)) # Cardinality(TimerSlots)
    BY <1>1, <2>3, FS_Subset
  <2> QED
    BY <1>1, <1>2, <2>4
<1>3. CASE ~(FreeSlot(tm) < MaxTimers)
  <2>1. FreeSlot(tm) = slotCount /\ slotCount = MaxTimers
    BY <1>1, <1>3, FreeSlotFacts
  <2>2. \A s \in TimerSlots : tm[s].alive
    BY <1>1, <2>1, FreeSlotFacts
  <2>3. Alive(tm) = TimerSlots
    BY <2>2 DEF Alive
  <2> QED
    BY <1>1, <1>3, <2>3
<1> QED
  BY <1>2, <1>3

\* A cancelled timer leaves the rest as they were.
LEMMA CancelledFits ==
  ASSUME NEW tm, NEW mark, NEW active, NEW next, Agrees(tm, mark, active, next), NEW s \in Alive(tm)
  PROVE  LET gone == [tm EXCEPT ![s].alive = FALSE]
         IN  /\ Agrees(gone, mark, Decrement(active), next) /\ Alive(gone) = Alive(tm) \ {s}
             /\ \A r \in TimerSlots \ {s} : gone[r] = tm[r]
             /\ gone[s].generation = tm[s].generation
<1> DEFINE gone == [tm EXCEPT ![s].alive = FALSE]
<1>1. /\ tm \in [TimerSlots -> Timer] /\ s \in TimerSlots /\ tm[s].alive
  BY DEF Agrees, Alive
<1>2. /\ gone \in [TimerSlots -> Timer] /\ \A r \in TimerSlots \ {s} : gone[r] = tm[r]
      /\ gone[s].alive = FALSE /\ gone[s].generation = tm[s].generation
  <2>1. tm[s] \in Timer
    BY <1>1
  <2>2. [tm[s] EXCEPT !.alive = FALSE] \in Timer
    BY <2>1 DEF Timer
  <2>3. gone = [tm EXCEPT ![s] = [tm[s] EXCEPT !.alive = FALSE]]
    OBVIOUS
  <2>4. gone[s] = [tm[s] EXCEPT !.alive = FALSE]
    BY <1>1, <2>3
  <2>5. /\ [tm[s] EXCEPT !.alive = FALSE].alive = FALSE
        /\ [tm[s] EXCEPT !.alive = FALSE].generation = tm[s].generation
    BY <2>1 DEF Timer
  <2> QED
    BY <1>1, <2>2, <2>3, <2>4, <2>5
<1> HIDE DEF gone
<1>3. Alive(gone) = Alive(tm) \ {s}
  BY <1>1, <1>2 DEF Alive
<1>4. IsFiniteSet(Alive(tm)) /\ Cardinality(Alive(tm)) \in Nat
  BY SlotSets
<1>5. Cardinality(Alive(gone)) = Cardinality(Alive(tm)) - 1 /\ Cardinality(Alive(gone)) \in Nat
  <2>1. Cardinality(Alive(tm) \ {s}) = Cardinality(Alive(tm)) - 1
    BY <1>4, FS_RemoveElement
  <2>2. Cardinality(Alive(gone)) \in Nat
    BY SlotSets
  <2> QED
    BY <1>3, <2>1, <2>2
<1>6. Decrement(active) = Cardinality(Alive(gone))
  BY <1>4, <1>5 DEF Decrement, Agrees
<1>7. \A r \in Alive(gone) : r \in Alive(tm) /\ gone[r] = tm[r]
  BY <1>2, <1>3 DEF Alive
<1>8. Agrees(gone, mark, Decrement(active), next)
  BY <1>2, <1>6, <1>7 DEF Agrees
<1> QED
  BY <1>2, <1>3, <1>8 DEF gone

LEMMA GenerationWraps ==
  ASSUME NEW k \in 0 .. GenMod - 1
  PROVE  NextGeneration(k) \in 0 .. GenMod - 1
<1>1. GenMod \in Nat \ {0, 1}
  BY TimerAssumption
<1>2. PICK j \in Nat : j = k + 1
  BY <1>1
<1>3. j % GenMod = IF j < GenMod THEN j ELSE j - GenMod
  <2>1. j < 2 * GenMod
    BY <1>1, <1>2
  <2> QED
    BY <1>1, <2>1, ModSmall
<1>4. NextGeneration(k) = IF j % GenMod = 0 THEN 1 ELSE j
  BY <1>2, Zenon DEF NextGeneration
<1> QED
  BY <1>1, <1>2, <1>3, <1>4

\* A registered timer is the latest of the live ones.
NewTimer(d, w, g) ==
  [deadline |-> d, waker |-> w, insertion |-> nextInsertion, generation |-> g, alive |-> TRUE]

Enlarged(tm, active, d, w, s, g) ==
  LET more == [tm EXCEPT ![s] = NewTimer(d, w, g)]
      mark == IF s = slotCount THEN slotCount + 1 ELSE slotCount
  IN  /\ Agrees(more, mark, active + 1, nextInsertion + 1)
      /\ mark \in 0 .. MaxTimers /\ g \in 0 .. GenMod - 1
      /\ s \in TimerSlots /\ s \notin Alive(tm) /\ Alive(more) = Alive(tm) \cup {s}
      /\ more[s] = NewTimer(d, w, g) /\ \A r \in Alive(tm) : more[r] = tm[r]

LEMMA RegisteredFits ==
  ASSUME NEW tm, NEW active, slotCount \in 0 .. MaxTimers, nextInsertion \in 0 .. InsertionCap,
         Agrees(tm, slotCount, active, nextInsertion), nextInsertion < InsertionCap,
         NEW d \in Times, NEW w \in Wakers, FreeSlot(tm) < MaxTimers,
         NEW s, s = FreeSlot(tm), NEW g, g = NextGeneration(tm[s].generation)
  PROVE  Enlarged(tm, active, d, w, s, g)
<1> DEFINE more == [tm EXCEPT ![s] = NewTimer(d, w, g)]
           mark == IF s = slotCount THEN slotCount + 1 ELSE slotCount
<1>1. /\ MaxTimers \in Nat \ {0} /\ TimerSlots = 0 .. MaxTimers - 1 /\ s \in TimerSlots
      /\ slotCount \in Nat /\ s <= slotCount /\ s < MaxTimers
  BY SlotSets, FreeSlotFacts
<1>2. s \notin Alive(tm)
  BY <1>1, FreeSlotFacts DEF Agrees, Alive
<1>3. g \in 0 .. GenMod - 1
  <2>1. tm[s].generation \in 0 .. GenMod - 1
    BY <1>1 DEF Agrees, Timer
  <2> QED
    BY <2>1, GenerationWraps
<1>4. NewTimer(d, w, g) \in Timer
  <2>1. nextInsertion \in 0 .. InsertionCap /\ w \in Wakers \cup {NoWaker}
    OBVIOUS
  <2> QED
    BY <1>3, <2>1, Zenon DEF NewTimer, Timer
<1>5. /\ NewTimer(d, w, g).alive = TRUE /\ NewTimer(d, w, g).insertion = nextInsertion
      /\ NewTimer(d, w, g).waker = w
  BY DEF NewTimer
<1>6. /\ more \in [TimerSlots -> Timer] /\ more[s] = NewTimer(d, w, g)
      /\ \A r \in TimerSlots \ {s} : more[r] = tm[r]
  BY <1>1, <1>4 DEF Agrees
<1> HIDE DEF more
<1>7. Alive(more) = Alive(tm) \cup {s}
  BY <1>1, <1>5, <1>6 DEF Alive
<1>8. IsFiniteSet(Alive(tm)) /\ Cardinality(Alive(tm)) \in Nat
  BY SlotSets
<1>9. Cardinality(Alive(more)) = active + 1
  BY <1>2, <1>7, <1>8, FS_AddElement DEF Agrees
<1>10. \A r \in Alive(tm) : r \in TimerSlots /\ r # s /\ more[r] = tm[r]
  BY <1>2, <1>6 DEF Alive
<1>11. /\ \A r \in Alive(more) :
            r < mark /\ more[r].insertion < nextInsertion + 1 /\ more[r].waker \in Wakers
       /\ \A q, r \in Alive(more) : q # r => more[q].insertion # more[r].insertion
  <2>1. \A r \in Alive(tm) : /\ r < slotCount /\ r \in Nat /\ more[r].insertion < nextInsertion
                             /\ more[r].insertion \in Nat /\ more[r].waker \in Wakers
    <3>1. \A r \in Alive(tm) : tm[r] \in Timer
      BY DEF Agrees, Alive
    <3> QED
      BY <1>1, <1>10, <3>1 DEF Agrees, Timer
  <2>2. more[s].insertion = nextInsertion /\ nextInsertion \in Nat /\ more[s].waker \in Wakers
    BY <1>5, <1>6
  <2>3. \A q, r \in Alive(tm) : q # r => more[q].insertion # more[r].insertion
    BY <1>10 DEF Agrees
  <2> QED
    BY <1>1, <1>7, <2>1, <2>2, <2>3
<1>12. Agrees(more, mark, active + 1, nextInsertion + 1)
  BY <1>6, <1>9, <1>11 DEF Agrees
<1>13. mark \in 0 .. MaxTimers
  BY <1>1
<1> QED
  BY <1>1, <1>2, <1>3, <1>6, <1>7, <1>10, <1>12, <1>13 DEF more, Enlarged

----------------------------------------------------------------------------
(* The queue the wheel implements, over any array of timers. *)

\* What the promised queue keeps of the timer in slot s.
Pending(tm, s) ==
  [handle |-> [slot |-> s, generation |-> tm[s].generation],
   deadline |-> tm[s].deadline, waker |-> tm[s].waker]

\* The live timers in the order of their registration, and the queue they are.
Regs(tm) ==
  CHOOSE q \in SetToSeqs(Alive(tm)) :
    \A i, j \in DOMAIN q : i < j => tm[q[i]].insertion < tm[q[j]].insertion
Pend(tm) == [n \in DOMAIN Regs(tm) |-> Pending(tm, Regs(tm)[n])]

\* Positions in rising order, and what stands at them.
Rising(I) == CHOOSE q \in SetToSeqs(I) : \A i, j \in DOMAIN q : i < j => q[i] < q[j]
KeptOf(pd, I) == [n \in DOMAIN Rising(I) |-> pd[Rising(I)[n]]]

\* The due timers: their positions in the queue, and their slots in the wheel.
DueSorts(pd, q) ==
  \A i, j \in DOMAIN q : i < j =>
    \/ pd[q[i]].deadline < pd[q[j]].deadline
    \/ pd[q[i]].deadline = pd[q[j]].deadline /\ q[i] < q[j]
DueSet(pd, now) == {i \in DOMAIN pd : pd[i].deadline <= now}
DueAt(pd, now) == CHOOSE q \in SetToSeqs(DueSet(pd, now)) : DueSorts(pd, q)
ExpiredSorts(tm, q) ==
  \A i, j \in DOMAIN q : i < j =>
    \/ tm[q[i]].deadline < tm[q[j]].deadline
    \/ tm[q[i]].deadline = tm[q[j]].deadline /\ tm[q[i]].insertion < tm[q[j]].insertion
ExpiredAt(tm, now) ==
  CHOOSE q \in SetToSeqs({s \in Alive(tm) : tm[s].deadline <= now}) : ExpiredSorts(tm, q)

\* The orders, as the sets of their pairs.
RisingIn(I) == {p \in I \X I : p[1] < p[2]}
ByInsertion(tm) ==
  {p \in Alive(tm) \X Alive(tm) : tm[p[1]].insertion < tm[p[2]].insertion}
ByDeadline(tm) ==
  {p \in Alive(tm) \X Alive(tm) :
     \/ tm[p[1]].deadline < tm[p[2]].deadline
     \/ tm[p[1]].deadline = tm[p[2]].deadline /\ tm[p[1]].insertion < tm[p[2]].insertion}
DueBefore(pd, i, j) ==
  \/ pd[i].deadline < pd[j].deadline
  \/ pd[i].deadline = pd[j].deadline /\ i < j
ByDue(pd) == {p \in (DOMAIN pd) \X (DOMAIN pd) : DueBefore(pd, p[1], p[2])}

\* No two live timers share an insertion number.
Numbered(tm) ==
  /\ tm \in [TimerSlots -> Timer]
  /\ \A s, r \in Alive(tm) : s # r => tm[s].insertion # tm[r].insertion

\* The queue as the model defines it.
LEMMA QueueIs == PendingTimers = Pend(timers)
<1>1. Registrations = Regs(timers)
  BY DEF Registrations, Sorted, Regs, Alive, LiveTimers
<1> QED
  BY <1>1 DEF PendingTimers, PendingTimer, Pend, Pending

LEMMA SameSeqs ==
  ASSUME NEW S
  PROVE  Queue!SetToSeqs(S) = SetToSeqs(S)
<1>1. Queue!Cardinality(S) = Cardinality(S)
  BY DEF Cardinality, Queue!Cardinality
<1> QED
  BY <1>1 DEF SetToSeqs, Queue!SetToSeqs

LEMMA QueueKeeps ==
  ASSUME NEW I
  PROVE  Queue!Kept(I) = KeptOf(Pend(timers), I)
<1>1. Queue!InOrder(I, LAMBDA i, j : i < j) = Rising(I)
  BY SameSeqs DEF Queue!InOrder, Rising
<1> QED
  BY <1>1, QueueIs DEF Queue!Kept, KeptOf

LEMMA QueueDue ==
  ASSUME NEW now
  PROVE  Queue!Due(now) = DueAt(Pend(timers), now)
<1> DEFINE due == DueSet(PendingTimers, now)
<1>1. Queue!Due(now) = CHOOSE q \in Queue!SetToSeqs(due) : DueSorts(PendingTimers, q)
  BY DEF Queue!Due, Queue!InOrder, DueSorts, DueSet
<1>2. DueAt(PendingTimers, now) = CHOOSE q \in SetToSeqs(due) : DueSorts(PendingTimers, q)
  BY DEF DueAt
<1>3. Queue!SetToSeqs(due) = SetToSeqs(due)
  BY SameSeqs
<1>4. Queue!Due(now) = DueAt(PendingTimers, now)
  <2> HIDE DEF due
  <2> QED
    BY <1>1, <1>2, <1>3
<1> QED
  BY <1>4, QueueIs

LEMMA QueueThen == PendingTimers' = Pend(timers')
<1>1. Registrations' = Regs(timers')
  BY DEF Registrations, Sorted, Regs, Alive, LiveTimers
<1> QED
  BY <1>1 DEF PendingTimers, PendingTimer, Pend, Pending

LEMMA RisingSorts ==
  ASSUME NEW I \in SUBSET Nat, IsFiniteSet(I)
  PROVE  SortOf(Rising(I), I, RisingIn(I))
<1>1. StrictOrder(RisingIn(I), I)
  BY DEF StrictOrder, RisingIn
<1>2. PICK q \in SetToSeqs(I) : SortOf(q, I, RisingIn(I))
  BY <1>1, SortExists
<1>3. \A i, j \in DOMAIN q : i < j => q[i] < q[j]
  BY <1>2 DEF SortOf, RisingIn
<1>4. /\ Rising(I) \in SetToSeqs(I)
      /\ \A i, j \in DOMAIN Rising(I) : i < j => Rising(I)[i] < Rising(I)[j]
  BY <1>3 DEF Rising
<1>5. \A i \in DOMAIN Rising(I) : Rising(I)[i] \in I
  BY <1>4, SeqOfSet
<1> QED
  BY <1>4, <1>5 DEF SortOf, RisingIn

LEMMA RegsSort ==
  ASSUME NEW tm, Numbered(tm)
  PROVE  /\ StrictOrder(ByInsertion(tm), Alive(tm)) /\ IsFiniteSet(Alive(tm))
         /\ SortOf(Regs(tm), Alive(tm), ByInsertion(tm))
<1>1. IsFiniteSet(Alive(tm))
  BY SlotSets
<1>2. \A s \in Alive(tm) : tm[s].insertion \in Nat
  BY TimerAssumption DEF Numbered, Alive, Timer
<1>3. StrictOrder(ByInsertion(tm), Alive(tm))
  BY <1>2 DEF StrictOrder, ByInsertion, Numbered
<1>4. PICK q \in SetToSeqs(Alive(tm)) : SortOf(q, Alive(tm), ByInsertion(tm))
  BY <1>1, <1>3, SortExists
<1>5. \A i, j \in DOMAIN q : i < j => tm[q[i]].insertion < tm[q[j]].insertion
  BY <1>4 DEF SortOf, ByInsertion
<1>6. /\ Regs(tm) \in SetToSeqs(Alive(tm))
      /\ \A i, j \in DOMAIN Regs(tm) :
           i < j => tm[Regs(tm)[i]].insertion < tm[Regs(tm)[j]].insertion
  BY <1>5 DEF Regs
<1>7. \A i \in DOMAIN Regs(tm) : Regs(tm)[i] \in Alive(tm)
  BY <1>1, <1>6, SeqOfSet
<1> QED
  BY <1>1, <1>3, <1>6, <1>7 DEF SortOf, ByInsertion

\* What follows of the positions in the queue.
LEMMA RegsAre ==
  ASSUME NEW tm, Numbered(tm)
  PROVE  /\ Cardinality(Alive(tm)) \in Nat
         /\ DOMAIN Regs(tm) = 1 .. Cardinality(Alive(tm)) /\ DOMAIN Pend(tm) = DOMAIN Regs(tm)
         /\ Len(Pend(tm)) = Cardinality(Alive(tm))
         /\ \A i \in DOMAIN Regs(tm) : Regs(tm)[i] \in Alive(tm)
         /\ \A i, j \in DOMAIN Regs(tm) : Regs(tm)[i] = Regs(tm)[j] => i = j
         /\ \A s \in Alive(tm) : \E i \in DOMAIN Regs(tm) : Regs(tm)[i] = s
         /\ \A i, j \in DOMAIN Regs(tm) :
              i < j => tm[Regs(tm)[i]].insertion < tm[Regs(tm)[j]].insertion
         /\ \A i \in DOMAIN Regs(tm) : Pend(tm)[i] = Pending(tm, Regs(tm)[i])
<1>1. SortOf(Regs(tm), Alive(tm), ByInsertion(tm)) /\ IsFiniteSet(Alive(tm))
  BY RegsSort
<1>2. /\ Cardinality(Alive(tm)) \in Nat /\ DOMAIN Regs(tm) = 1 .. Cardinality(Alive(tm))
      /\ \A i \in DOMAIN Regs(tm) : Regs(tm)[i] \in Alive(tm)
      /\ \A i, j \in DOMAIN Regs(tm) : Regs(tm)[i] = Regs(tm)[j] => i = j
      /\ \A s \in Alive(tm) : \E i \in DOMAIN Regs(tm) : Regs(tm)[i] = s
  BY <1>1, SeqOfSet DEF SortOf
<1>3. \A i, j \in DOMAIN Regs(tm) : i < j => tm[Regs(tm)[i]].insertion < tm[Regs(tm)[j]].insertion
  BY <1>1 DEF SortOf, ByInsertion
<1>4. /\ DOMAIN Pend(tm) = DOMAIN Regs(tm)
      /\ \A i \in DOMAIN Regs(tm) : Pend(tm)[i] = Pending(tm, Regs(tm)[i])
  BY DEF Pend
<1>5. Len(Pend(tm)) = Cardinality(Alive(tm))
  BY <1>2, <1>4
<1> QED
  BY <1>2, <1>3, <1>4, <1>5

LEMMA DuePair ==
  ASSUME NEW pd, NEW x \in DOMAIN pd, NEW y \in DOMAIN pd
  PROVE  <<x, y>> \in ByDue(pd) <=>
           \/ pd[x].deadline < pd[y].deadline
           \/ pd[x].deadline = pd[y].deadline /\ x < y
<1>1. PICK D : D = DOMAIN pd
  OBVIOUS
<1>2. PICK p : p = <<x, y>>
  OBVIOUS
<1>3. x \in D /\ y \in D
  BY <1>1
<1>4. p \in D \X D /\ p[1] = x /\ p[2] = y
  BY <1>2, <1>3
<1>5. p \in ByDue(pd) <=> DueBefore(pd, p[1], p[2])
  BY <1>1, <1>4 DEF ByDue
<1> QED
  BY <1>2, <1>4, <1>5 DEF DueBefore

LEMMA DueOrders ==
  ASSUME NEW pd, \A i \in DOMAIN pd : i \in Nat /\ pd[i].deadline \in Nat,
         NEW S \in SUBSET DOMAIN pd
  PROVE  StrictOrder(ByDue(pd), S)
<1> DEFINE d == [i \in DOMAIN pd |-> pd[i].deadline]
<1>1. \A i \in DOMAIN pd : i \in Nat /\ d[i] \in Nat
  OBVIOUS
<1>2. \A x, y \in S : <<x, y>> \in ByDue(pd) <=> d[x] < d[y] \/ (d[x] = d[y] /\ x < y)
  <2> SUFFICES ASSUME NEW x \in S, NEW y \in S
               PROVE  <<x, y>> \in ByDue(pd) <=> d[x] < d[y] \/ (d[x] = d[y] /\ x < y)
    OBVIOUS
  <2>1. <<x, y>> \in ByDue(pd) <=>
          \/ pd[x].deadline < pd[y].deadline
          \/ pd[x].deadline = pd[y].deadline /\ x < y
    BY DuePair
  <2>2. d[x] = pd[x].deadline /\ d[y] = pd[y].deadline
    OBVIOUS
  <2> HIDE DEF d
  <2> QED
    BY <2>1, <2>2
<1>3. \A x \in S : x \in Nat /\ d[x] \in Nat
  BY <1>1
<1> HIDE DEF d
<1>4. \A x \in S : <<x, x>> \notin ByDue(pd)
  BY <1>2, <1>3
<1>5. \A x, y \in S : x # y => <<x, y>> \in ByDue(pd) \/ <<y, x>> \in ByDue(pd)
  BY <1>2, <1>3
<1>6. ASSUME NEW x \in S, NEW y \in S, NEW z \in S,
             <<x, y>> \in ByDue(pd), <<y, z>> \in ByDue(pd)
      PROVE  <<x, z>> \in ByDue(pd)
  <2>1. (d[x] < d[y] \/ (d[x] = d[y] /\ x < y)) /\ (d[y] < d[z] \/ (d[y] = d[z] /\ y < z))
    BY <1>2, <1>6
  <2>2. d[x] < d[z] \/ (d[x] = d[z] /\ x < z)
    BY <1>3, <2>1
  <2> QED
    BY <1>2, <2>2
<1> QED
  BY <1>4, <1>5, <1>6 DEF StrictOrder

LEMMA DeadlineOrders ==
  ASSUME NEW tm, Numbered(tm), NEW S \in SUBSET Alive(tm)
  PROVE  StrictOrder(ByDeadline(tm), S)
<1> DEFINE d == [s \in Alive(tm) |-> tm[s].deadline]
           n == [s \in Alive(tm) |-> tm[s].insertion]
<1>1. \A s \in S : d[s] \in Nat /\ n[s] \in Nat
  <2>1. \A s \in S : tm[s] \in Timer
    BY DEF Numbered, Alive
  <2> QED
    BY <2>1, TimerAssumption DEF Timer, Times
<1>2. \A x, y \in S : <<x, y>> \in ByDeadline(tm) <=> d[x] < d[y] \/ (d[x] = d[y] /\ n[x] < n[y])
  BY DEF ByDeadline
<1>3. \A x, y \in S : x # y => n[x] # n[y]
  BY DEF Numbered
<1> HIDE DEF d, n
<1>4. \A x \in S : <<x, x>> \notin ByDeadline(tm)
  BY <1>1, <1>2
<1>5. \A x, y \in S : x # y => <<x, y>> \in ByDeadline(tm) \/ <<y, x>> \in ByDeadline(tm)
  BY <1>1, <1>2, <1>3
<1>6. ASSUME NEW x \in S, NEW y \in S, NEW z \in S,
             <<x, y>> \in ByDeadline(tm), <<y, z>> \in ByDeadline(tm)
      PROVE  <<x, z>> \in ByDeadline(tm)
  <2>1. /\ d[x] < d[y] \/ (d[x] = d[y] /\ n[x] < n[y])
        /\ d[y] < d[z] \/ (d[y] = d[z] /\ n[y] < n[z])
    BY <1>2, <1>6
  <2>2. d[x] < d[z] \/ (d[x] = d[z] /\ n[x] < n[z])
    BY <1>1, <2>1
  <2> QED
    BY <1>2, <2>2
<1> QED
  BY <1>4, <1>5, <1>6 DEF StrictOrder

----------------------------------------------------------------------------
\* Timers that leave take nothing with them but their positions.
LEMMA KeepPend ==
  ASSUME NEW tm, Numbered(tm), NEW tm2, Numbered(tm2), NEW I \in SUBSET DOMAIN Pend(tm),
         Alive(tm2) = {Regs(tm)[i] : i \in I}, \A s \in Alive(tm2) : tm2[s] = tm[s]
  PROVE  Pend(tm2) = KeptOf(Pend(tm), I)
<1> DEFINE f == Regs(tm)
           k == Rising(I)
           r == [n \in DOMAIN k |-> f[k[n]]]
<1>1. /\ Cardinality(Alive(tm)) \in Nat /\ DOMAIN f = 1 .. Cardinality(Alive(tm))
      /\ DOMAIN Pend(tm) = DOMAIN f
      /\ \A i, j \in DOMAIN f : f[i] = f[j] => i = j
      /\ \A i, j \in DOMAIN f : i < j => tm[f[i]].insertion < tm[f[j]].insertion
      /\ \A i \in DOMAIN f : Pend(tm)[i] = Pending(tm, f[i])
  BY RegsAre
<1>2. I \subseteq DOMAIN f /\ I \in SUBSET Nat /\ IsFiniteSet(I)
  <2>1. I \subseteq 1 .. Cardinality(Alive(tm)) /\ IsFiniteSet(1 .. Cardinality(Alive(tm)))
    BY <1>1, FS_Interval
  <2> QED
    BY <1>1, <2>1, FS_Subset
<1>3. SortOf(k, I, RisingIn(I))
  BY <1>2, RisingSorts
<1>4. \A n \in DOMAIN k : k[n] \in I
  BY <1>2, <1>3, SeqOfSet DEF SortOf
<1>5. SortOf(r, Alive(tm2), ByInsertion(tm2))
  <2> HIDE DEF f, k
  <2>1. \A i, j \in I : f[i] = f[j] => i = j
    BY <1>1, <1>2
  <2>2. ASSUME NEW i \in I, NEW j \in I, <<i, j>> \in RisingIn(I)
        PROVE  <<f[i], f[j]>> \in ByInsertion(tm2)
    <3>1. i < j
      BY <2>2 DEF RisingIn
    <3>2. tm[f[i]].insertion < tm[f[j]].insertion
      BY <1>1, <1>2, <3>1
    <3>3. f[i] \in Alive(tm2) /\ f[j] \in Alive(tm2)
      BY DEF f
    <3> QED
      BY <3>2, <3>3 DEF ByInsertion
  <2>3. SortOf([n \in DOMAIN k |-> f[k[n]]], {f[i] : i \in I}, ByInsertion(tm2))
    BY <1>2, <1>3, <2>1, <2>2, SortCarries
  <2> QED
    BY <2>3 DEF f
<1>6. Regs(tm2) = r
  <2> HIDE DEF r
  <2> QED
    BY <1>5, RegsSort, SortUnique
<1>7. ASSUME NEW n \in DOMAIN k
      PROVE  Pending(tm2, r[n]) = Pend(tm)[k[n]]
  <2>1. k[n] \in I /\ r[n] = f[k[n]] /\ r[n] \in Alive(tm2)
    BY <1>4
  <2> HIDE DEF r, f, k
  <2>2. Pend(tm)[k[n]] = Pending(tm, r[n])
    BY <1>1, <1>2, <2>1
  <2> QED
    BY <2>1, <2>2 DEF Pending
<1>8. Pend(tm2) = [n \in DOMAIN k |-> Pending(tm2, r[n])]
  BY <1>6 DEF Pend
<1> QED
  BY <1>7, <1>8 DEF KeptOf

\* A timer registered last comes last.
LEMMA AppendPend ==
  ASSUME NEW tm, Numbered(tm), NEW tm2, Numbered(tm2), NEW s, s \notin Alive(tm),
         Alive(tm2) = Alive(tm) \cup {s}, \A r \in Alive(tm) : tm2[r] = tm[r],
         \A r \in Alive(tm) : tm[r].insertion < tm2[s].insertion
  PROVE  Pend(tm2) = Append(Pend(tm), Pending(tm2, s))
<1> DEFINE f == Regs(tm)
           n == Cardinality(Alive(tm))
<1>1. /\ n \in Nat /\ DOMAIN f = 1 .. n /\ DOMAIN Pend(tm) = 1 .. n /\ Len(Pend(tm)) = n
      /\ \A i \in 1 .. n : f[i] \in Alive(tm) /\ Pend(tm)[i] = Pending(tm, f[i])
  BY RegsAre
<1>2. SortOf(f, Alive(tm), ByInsertion(tm)) /\ IsFiniteSet(Alive(tm))
  BY RegsSort
<1>3. SortOf(Append(f, s), Alive(tm2), ByInsertion(tm2))
  <2>1. \A y \in Alive(tm) : <<y, s>> \in ByInsertion(tm2)
    BY DEF ByInsertion
  <2>2. \A y, z \in Alive(tm) : <<y, z>> \in ByInsertion(tm) => <<y, z>> \in ByInsertion(tm2)
    BY DEF ByInsertion
  <2> HIDE DEF f
  <2>3. SortOf(Append(f, s), Alive(tm) \cup {s}, ByInsertion(tm2))
    BY <1>2, <2>1, <2>2, SortAppends
  <2> QED
    BY <2>3
<1>4. Regs(tm2) = Append(f, s)
  BY <1>3, RegsSort, SortUnique
<1>5. f \in Seq(Alive(tm)) /\ Len(f) = n
  BY <1>2, SeqOfSet DEF SortOf
<1>6. /\ DOMAIN Append(f, s) = 1 .. n + 1 /\ Append(f, s)[n + 1] = s
      /\ \A i \in 1 .. n : Append(f, s)[i] = f[i]
  <2>1. f \in Seq(Alive(tm2)) /\ s \in Alive(tm2)
    BY <1>5
  <2> HIDE DEF f
  <2> QED
    BY <1>1, <1>5, <2>1, AppendProperties
<1>7. Pend(tm2) = [i \in 1 .. n + 1 |-> Pending(tm2, Append(f, s)[i])]
  BY <1>4, <1>6 DEF Pend
<1>8. Pend(tm) = [i \in 1 .. n |-> Pending(tm, f[i])]
  BY <1>1 DEF Pend
<1>9. ASSUME NEW i \in 1 .. n PROVE Pending(tm2, Append(f, s)[i]) = Pend(tm)[i]
  <2>1. Append(f, s)[i] = f[i] /\ f[i] \in Alive(tm) /\ Pend(tm)[i] = Pending(tm, f[i])
    BY <1>1, <1>6
  <2> HIDE DEF f
  <2> QED
    BY <2>1 DEF Pending
<1>10. PICK E : \A i \in 1 .. n : Pend(tm)[i] \in E
  <2>1. \A i \in 1 .. n : Pend(tm)[i] \in {Pend(tm)[j] : j \in 1 .. n}
    OBVIOUS
  <2> QED
    BY <2>1
<1>11. /\ DOMAIN Append(Pend(tm), Pending(tm2, s)) = 1 .. n + 1
       /\ Append(Pend(tm), Pending(tm2, s))[n + 1] = Pending(tm2, s)
       /\ \A i \in 1 .. n : Append(Pend(tm), Pending(tm2, s))[i] = Pend(tm)[i]
       /\ Append(Pend(tm), Pending(tm2, s)) \in Seq(E \cup {Pending(tm2, s)})
  <2>1. Pend(tm) \in Seq(E \cup {Pending(tm2, s)})
    BY <1>1, <1>8, <1>10
  <2> QED
    BY <1>1, <2>1, AppendProperties
<1> QED
  <2> DEFINE a == Append(Pend(tm), Pending(tm2, s))
  <2>1. a = [i \in 1 .. n + 1 |-> a[i]]
    <3>1. DOMAIN a = 1 .. n + 1 /\ a \in Seq(E \cup {Pending(tm2, s)})
      BY <1>11
    <3> HIDE DEF a
    <3> QED
      BY <3>1
  <2>2. ASSUME NEW i \in 1 .. n + 1 PROVE Pending(tm2, Append(f, s)[i]) = a[i]
    BY <1>1, <1>6, <1>9, <1>11
  <2> HIDE DEF a, f
  <2>3. [i \in 1 .. n + 1 |-> Pending(tm2, Append(f, s)[i])] = [i \in 1 .. n + 1 |-> a[i]]
    BY <2>2
  <2> QED
    BY <1>7, <2>1, <2>3 DEF a

\* The due timers of the queue stand in the slots that expire in the wheel, in that order.
LEMMA DueCarries ==
  ASSUME NEW tm, Numbered(tm), NEW now
  PROVE  LET due == DueAt(Pend(tm), now)
             all == DueSet(Pend(tm), now)
         IN  /\ ExpiredAt(tm, now) = [n \in DOMAIN due |-> Regs(tm)[due[n]]]
             /\ IsFiniteSet(all) /\ Cardinality(all) \in Nat
             /\ DOMAIN due = 1 .. Cardinality(all) /\ due \in [1 .. Cardinality(all) -> all]
             /\ \A i, j \in DOMAIN due : due[i] = due[j] => i = j
<1> DEFINE f == Regs(tm)
           pd == Pend(tm)
           all == DueSet(pd, now)
           due == DueAt(pd, now)
           gone == {s \in Alive(tm) : tm[s].deadline <= now}
           r == [n \in DOMAIN due |-> f[due[n]]]
<1>1. /\ Cardinality(Alive(tm)) \in Nat /\ DOMAIN f = 1 .. Cardinality(Alive(tm))
      /\ DOMAIN pd = DOMAIN f
      /\ \A i \in DOMAIN f : f[i] \in Alive(tm)
      /\ \A i, j \in DOMAIN f : f[i] = f[j] => i = j
      /\ \A s \in Alive(tm) : \E i \in DOMAIN f : f[i] = s
      /\ \A i, j \in DOMAIN f : i < j => tm[f[i]].insertion < tm[f[j]].insertion
      /\ \A i \in DOMAIN f : pd[i] = Pending(tm, f[i])
  BY RegsAre
<1>2. \A i \in DOMAIN f : pd[i].deadline = tm[f[i]].deadline
  BY <1>1 DEF Pending
<1>3. /\ \A s \in Alive(tm) : tm[s].deadline \in Nat /\ tm[s].insertion \in Nat
      /\ \A i \in DOMAIN pd : pd[i].deadline \in Nat /\ i \in Nat
  <2>1. \A s \in Alive(tm) : tm[s] \in Timer
    BY DEF Numbered, Alive
  <2>2. \A s \in Alive(tm) : tm[s].deadline \in Nat /\ tm[s].insertion \in Nat
    BY <2>1, TimerAssumption DEF Timer, Times
  <2> HIDE DEF f, pd
  <2> QED
    BY <1>1, <1>2, <2>2
<1> HIDE DEF f
<1>4. all \subseteq DOMAIN f /\ IsFiniteSet(all) /\ gone = {f[i] : i \in all}
  <2>1. IsFiniteSet(DOMAIN f)
    BY <1>1, FS_Interval
  <2>2. all \subseteq DOMAIN f
    BY <1>1 DEF DueSet
  <2>3. IsFiniteSet(all)
    <3> HIDE DEF all
    <3> QED
      BY <2>1, <2>2, FS_Subset
  <2>4. gone = {f[i] : i \in all}
    BY <1>1, <1>2 DEF DueSet
  <2> QED
    BY <2>2, <2>3, <2>4
<1>5. SortOf(due, all, ByDue(pd))
  <2> HIDE DEF pd
  <2>1. StrictOrder(ByDue(pd), all)
    BY <1>3, DueOrders DEF DueSet
  <2>2. PICK q \in SetToSeqs(all) : SortOf(q, all, ByDue(pd))
    <3> HIDE DEF all
    <3> QED
      BY <1>4, <2>1, SortExists
  <2>3. DueSorts(pd, q)
    BY <2>2 DEF SortOf, ByDue, DueBefore, DueSorts
  <2>4. due \in SetToSeqs(all) /\ DueSorts(pd, due)
    <3>1. due = CHOOSE z \in SetToSeqs(all) : DueSorts(pd, z)
      BY DEF DueAt
    <3> HIDE DEF all, due
    <3> QED
      BY <2>3, <3>1
  <2>5. \A i \in DOMAIN due : due[i] \in all
    <3> HIDE DEF all, due
    <3> QED
      BY <1>4, <2>4, SeqOfSet
  <2>6. \A i \in DOMAIN due : due[i] \in DOMAIN pd
    BY <2>5 DEF DueSet
  <2>7. ASSUME NEW i \in DOMAIN due, NEW j \in DOMAIN due, i < j
        PROVE  <<due[i], due[j]>> \in ByDue(pd)
    <3> HIDE DEF due, all
    <3> QED
      BY <2>4, <2>6, <2>7, DuePair DEF DueSorts
  <2> HIDE DEF due, all
  <2> QED
    BY <2>4, <2>7 DEF SortOf
<1>6. /\ Cardinality(all) \in Nat /\ DOMAIN due = 1 .. Cardinality(all)
      /\ due \in [1 .. Cardinality(all) -> all]
      /\ \A i, j \in DOMAIN due : due[i] = due[j] => i = j
  <2> HIDE DEF all, due, pd
  <2> QED
    BY <1>4, <1>5, SeqOfSet DEF SortOf
<1>7. SortOf(r, gone, ByDeadline(tm)) /\ IsFiniteSet(gone)
  <2>1. \A i, j \in all : f[i] = f[j] => i = j
    BY <1>1, <1>4
  <2>2. ASSUME NEW i \in all, NEW j \in all, <<i, j>> \in ByDue(pd)
        PROVE  <<f[i], f[j]>> \in ByDeadline(tm)
    <3> HIDE DEF all, pd
    <3>1. i \in DOMAIN f /\ j \in DOMAIN f /\ f[i] \in Alive(tm) /\ f[j] \in Alive(tm)
      BY <1>1, <1>4
    <3>2. \/ pd[i].deadline < pd[j].deadline
          \/ pd[i].deadline = pd[j].deadline /\ i < j
      BY <2>2 DEF ByDue, DueBefore
    <3>3. \/ tm[f[i]].deadline < tm[f[j]].deadline
          \/ tm[f[i]].deadline = tm[f[j]].deadline /\ tm[f[i]].insertion < tm[f[j]].insertion
      BY <1>1, <1>2, <3>1, <3>2
    <3> QED
      BY <3>1, <3>3 DEF ByDeadline
  <2>4. \A i, j \in all : <<i, j>> \in ByDue(pd) => <<f[i], f[j]>> \in ByDeadline(tm)
    BY <2>2
  <2> HIDE DEF due, all, pd, gone, r
  <2>5. IsFiniteSet(all)
    BY <1>4
  <2>3. /\ IsFiniteSet({f[i] : i \in all})
        /\ SortOf([n \in DOMAIN due |-> f[due[n]]], {f[i] : i \in all}, ByDeadline(tm))
    BY <2>5, <1>5, <2>1, <2>4, SortCarries
  <2> QED
    BY <1>4, <2>3 DEF r
<1>8. ExpiredAt(tm, now) = r
  <2>1. \A x \in gone : x \in Alive(tm)
    OBVIOUS
  <2>2. StrictOrder(ByDeadline(tm), gone)
    BY <2>1, DeadlineOrders
  <2>3. ExpiredSorts(tm, r)
    <3> HIDE DEF r, gone
    <3> QED
      BY <1>7 DEF SortOf, ByDeadline, ExpiredSorts
  <2>4. r \in SetToSeqs(gone)
    BY <1>7 DEF SortOf
  <2>5. ExpiredAt(tm, now) \in SetToSeqs(gone) /\ ExpiredSorts(tm, ExpiredAt(tm, now))
    <3>1. ExpiredAt(tm, now) = CHOOSE z \in SetToSeqs(gone) : ExpiredSorts(tm, z)
      BY DEF ExpiredAt
    <3> HIDE DEF r, gone
    <3> QED
      BY <2>3, <2>4, <3>1
  <2>6. \A i \in DOMAIN ExpiredAt(tm, now) : ExpiredAt(tm, now)[i] \in Alive(tm)
    <3> HIDE DEF gone, r
    <3> QED
      BY <1>7, <2>1, <2>5, SeqOfSet
  <2>7. SortOf(ExpiredAt(tm, now), gone, ByDeadline(tm))
    <3> HIDE DEF gone
    <3> QED
      BY <2>5, <2>6 DEF SortOf, ByDeadline, ExpiredSorts
  <2> HIDE DEF r, gone
  <2> QED
    BY <1>7, <2>2, <2>7, SortUnique
<1> QED
  BY <1>4, <1>6, <1>8 DEF f

----------------------------------------------------------------------------
LEMMA AgreesNumbers ==
  ASSUME NEW tm, NEW mark, NEW active, NEW next, Agrees(tm, mark, active, next)
  PROVE  Numbered(tm)
BY DEF Agrees, Numbered

\* Timers of the given slots leave.
Left(tm, gone) ==
  [s \in TimerSlots |-> IF s \in gone THEN [tm[s] EXCEPT !.alive = FALSE] ELSE tm[s]]

LEMMA LeftFits ==
  ASSUME NEW tm, NEW mark, NEW active, NEW next, Agrees(tm, mark, active, next),
         NEW gone \in SUBSET Alive(tm), NEW n, n = Cardinality(gone)
  PROVE  /\ Agrees(Left(tm, gone), mark, IF active > n THEN active - n ELSE 0, next)
         /\ Alive(Left(tm, gone)) = Alive(tm) \ gone
         /\ \A s \in Alive(tm) \ gone : Left(tm, gone)[s] = tm[s]
<1> DEFINE left == Left(tm, gone)
<1>1. tm \in [TimerSlots -> Timer] /\ Alive(tm) \subseteq TimerSlots
  BY DEF Agrees, Alive
<1>2. ASSUME NEW s \in TimerSlots
      PROVE  /\ left[s] \in Timer
             /\ (s \notin gone => left[s] = tm[s])
             /\ (s \in gone => left[s].alive = FALSE)
  <2>1. tm[s] \in Timer
    BY <1>1
  <2>2. left[s] = IF s \in gone THEN [tm[s] EXCEPT !.alive = FALSE] ELSE tm[s]
    BY DEF Left
  <2>3. [tm[s] EXCEPT !.alive = FALSE] \in Timer /\ [tm[s] EXCEPT !.alive = FALSE].alive = FALSE
    BY <2>1 DEF Timer
  <2> HIDE DEF left
  <2> QED
    BY <2>1, <2>2, <2>3
<1>3. left \in [TimerSlots -> Timer]
  <2>1. left = [s \in TimerSlots |-> left[s]]
    BY DEF Left
  <2> HIDE DEF left
  <2> QED
    BY <1>2, <2>1
<1> HIDE DEF left
<1>4. Alive(left) = Alive(tm) \ gone
  BY <1>1, <1>2 DEF Alive
<1>5. /\ Cardinality(Alive(tm)) \in Nat /\ n \in Nat /\ Cardinality(Alive(left)) \in Nat
      /\ Cardinality(Alive(left)) = Cardinality(Alive(tm)) - n
  <2>1. IsFiniteSet(Alive(tm))
    BY SlotSets
  <2> QED
    BY <1>4, <2>1, FewerLeft
<1>6. Cardinality(Alive(left)) = IF active > n THEN active - n ELSE 0
  <2>1. Cardinality(Alive(tm)) = active
    BY DEF Agrees
  <2> QED
    BY <1>5, <2>1
<1>7. \A s \in Alive(left) : s \in Alive(tm) /\ left[s] = tm[s]
  BY <1>1, <1>2, <1>4
<1>8. Agrees(left, mark, IF active > n THEN active - n ELSE 0, next)
  BY <1>3, <1>6, <1>7 DEF Agrees
<1> QED
  BY <1>4, <1>7, <1>8 DEF left

\* What a collection hands out and leaves behind, in the wheel and in the queue.
LEMMA Collected ==
  ASSUME NEW tm, NEW mark, NEW active, NEW next, Agrees(tm, mark, active, next),
         NEW now, NEW most \in Nat
  PROVE  LET sorted == ExpiredAt(tm, now)
             due == DueAt(Pend(tm), now)
             n == IF Len(sorted) > most THEN most ELSE Len(sorted)
             out == SubSeq(sorted, 1, n)
             first == SubSeq(due, 1, IF Len(due) < most THEN Len(due) ELSE most)
         IN  /\ n \in Nat /\ DOMAIN first = 1 .. n
             /\ \A k \in 1 .. n : out[k] \in Alive(tm) /\ Pend(tm)[first[k]] = Pending(tm, out[k])
             /\ ToSet(out) \subseteq Alive(tm) /\ Cardinality(ToSet(out)) = n
             /\ Pend(Left(tm, ToSet(out))) = KeptOf(Pend(tm), DOMAIN Pend(tm) \ ToSet(first))
<1> DEFINE all == DueSet(Pend(tm), now)
<1>1. PICK m : m = Cardinality(all)
  OBVIOUS
<1>2. PICK f : f = Regs(tm)
  OBVIOUS
<1>3. PICK due : due = DueAt(Pend(tm), now)
  OBVIOUS
<1>4. PICK sorted : sorted = ExpiredAt(tm, now)
  OBVIOUS
<1>5. /\ DOMAIN Pend(tm) = DOMAIN f
      /\ \A i \in DOMAIN f : f[i] \in Alive(tm)
      /\ \A i, j \in DOMAIN f : f[i] = f[j] => i = j
      /\ \A s \in Alive(tm) : \E i \in DOMAIN f : f[i] = s
      /\ \A i \in DOMAIN f : Pend(tm)[i] = Pending(tm, f[i])
  BY <1>2, AgreesNumbers, RegsAre
<1>6. /\ sorted = [k \in DOMAIN due |-> f[due[k]]] /\ m \in Nat /\ DOMAIN due = 1 .. m
      /\ due \in [1 .. m -> all]
      /\ \A i, j \in DOMAIN due : due[i] = due[j] => i = j
  <2>1. Numbered(tm)
    BY AgreesNumbers
  <2> QED
    BY <1>1, <1>2, <1>3, <1>4, <2>1, DueCarries
<1>7. due \in [1 .. m -> DOMAIN f] /\ \A i, j \in 1 .. m : due[i] = due[j] => i = j
  BY <1>5, <1>6 DEF DueSet
<1>8. sorted = [k \in 1 .. m |-> f[due[k]]]
  BY <1>6
<1>9. Len(due) = m /\ Len(sorted) = m
  <2>1. DOMAIN sorted = 1 .. m
    BY <1>8
  <2> QED
    BY <1>6, <2>1
<1> HIDE DEF all
<1>10. PICK n : n = IF m > most THEN most ELSE m
  OBVIOUS
<1>11. n \in 0 .. m /\ n = IF m < most THEN m ELSE most
  BY <1>6, <1>10
<1>12. PICK first : first = SubSeq(due, 1, n)
  OBVIOUS
<1>13. PICK out : out = SubSeq(sorted, 1, n)
  OBVIOUS
<1>14. /\ DOMAIN first = 1 .. n
       /\ \A k \in 1 .. n : first[k] \in DOMAIN f /\ out[k] = f[first[k]]
       /\ ToSet(first) \subseteq DOMAIN f /\ ToSet(out) = {f[i] : i \in ToSet(first)}
       /\ Cardinality(ToSet(out)) = n
  <2>1. due \in [1 .. m -> DOMAIN f] /\ OneToOne(due, 1 .. m) /\ OneToOne(f, DOMAIN f)
    BY <1>5, <1>7 DEF OneToOne
  <2>2. Heads(n, SubSeq(due, 1, n), SubSeq([k \in 1 .. m |-> f[due[k]]], 1, n), f, DOMAIN f)
    BY <1>6, <1>11, <2>1, FirstOnes
  <2> QED
    BY <1>8, <1>12, <1>13, <2>2 DEF Heads
<1>15. \A k \in 1 .. n : out[k] \in Alive(tm) /\ Pend(tm)[first[k]] = Pending(tm, out[k])
  BY <1>5, <1>14
<1>16. ToSet(out) \subseteq Alive(tm)
  BY <1>5, <1>14
<1>17. Pend(Left(tm, ToSet(out))) = KeptOf(Pend(tm), DOMAIN Pend(tm) \ ToSet(first))
  <2>1. PICK left : left = Left(tm, ToSet(out))
    OBVIOUS
  <2>2. PICK I : I = DOMAIN Pend(tm) \ ToSet(first)
    OBVIOUS
  <2>3. /\ Agrees(left, mark, IF active > n THEN active - n ELSE 0, next)
        /\ Alive(left) = Alive(tm) \ ToSet(out)
        /\ \A s \in Alive(left) : left[s] = tm[s]
    BY <1>14, <1>16, <2>1, LeftFits
  <2>4. Alive(left) = {f[i] : i \in I} /\ I \in SUBSET DOMAIN Pend(tm)
    BY <1>5, <1>14, <2>2, <2>3
  <2>5. Numbered(left) /\ Numbered(tm)
    BY <2>3, AgreesNumbers
  <2>6. Pend(left) = KeptOf(Pend(tm), I)
    BY <1>2, <2>3, <2>4, <2>5, KeepPend
  <2> QED
    BY <2>1, <2>2, <2>6
<1> QED
  BY <1>3, <1>4, <1>9, <1>10, <1>11, <1>12, <1>13, <1>14, <1>15, <1>16, <1>17

\* Cancelling by handle: the timer that is gone, or none, as Without says.
Dropped(h) == IF Cancellable(h) THEN [timers EXCEPT ![h.slot].alive = FALSE] ELSE timers
Fewer(h) == IF Cancellable(h) THEN Decrement(activeCount) ELSE activeCount

LEMMA DroppedFits ==
  ASSUME WheelInv, NEW h \in TimerHandles
  PROVE  /\ Agrees(Dropped(h), slotCount, Fewer(h), nextInsertion)
         /\ Pend(Dropped(h)) = Queue!Without(h)
<1>1. Agrees(timers, slotCount, activeCount, nextInsertion) /\ h.slot \in TimerSlots
  BY DEF WheelInv, TimerHandles
<1> DEFINE gone == IF Cancellable(h) THEN {h.slot} ELSE {}
           I == {i \in DOMAIN Pend(timers) : Pend(timers)[i].handle # h}
           f == Regs(timers)
<1>2. /\ Agrees(Dropped(h), slotCount, Fewer(h), nextInsertion)
      /\ Alive(Dropped(h)) = Alive(timers) \ gone
      /\ \A s \in Alive(Dropped(h)) : Dropped(h)[s] = timers[s]
  <2>1. CASE Cancellable(h)
    <3>1. h.slot \in Alive(timers)
      BY <1>1, <2>1 DEF Cancellable, Alive
    <3>2. Dropped(h) = [timers EXCEPT ![h.slot].alive = FALSE] /\ Fewer(h) = Decrement(activeCount)
      BY <2>1 DEF Dropped, Fewer
    <3>3. PICK s \in Alive(timers) : s = h.slot
      BY <3>1
    <3>4. Dropped(h) = [timers EXCEPT ![s].alive = FALSE]
      BY <3>2, <3>3
    <3>5. /\ Agrees(Dropped(h), slotCount, Decrement(activeCount), nextInsertion)
          /\ Alive(Dropped(h)) = Alive(timers) \ {s}
          /\ \A r \in TimerSlots \ {s} : Dropped(h)[r] = timers[r]
      <4>1. LET left == [timers EXCEPT ![s].alive = FALSE]
            IN  /\ Agrees(left, slotCount, Decrement(activeCount), nextInsertion)
                /\ Alive(left) = Alive(timers) \ {s}
                /\ \A r \in TimerSlots \ {s} : left[r] = timers[r]
        BY <1>1, CancelledFits
      <4> QED
        BY <3>4, <4>1
    <3> QED
      BY <2>1, <3>2, <3>3, <3>5 DEF Alive
  <2>2. CASE ~Cancellable(h)
    BY <1>1, <2>2 DEF Dropped, Fewer
  <2> QED
    BY <2>1, <2>2
<1>3. /\ DOMAIN Pend(timers) = DOMAIN f
      /\ \A i \in DOMAIN f : f[i] \in Alive(timers)
      /\ \A s \in Alive(timers) : \E i \in DOMAIN f : f[i] = s
      /\ \A i \in DOMAIN f : Pend(timers)[i] = Pending(timers, f[i])
  BY <1>1, AgreesNumbers, RegsAre
<1>4. ASSUME NEW s \in Alive(timers)
      PROVE  Pending(timers, s).handle # h <=> s \notin gone
  <2>1. Pending(timers, s).handle = [slot |-> s, generation |-> timers[s].generation]
    BY DEF Pending
  <2>2. h = [slot |-> h.slot, generation |-> h.generation]
    BY DEF TimerHandles
  <2>3. Pending(timers, s).handle = h <=> s = h.slot /\ timers[s].generation = h.generation
    BY <2>1, <2>2
  <2>4. s < slotCount /\ timers[s].alive
    BY <1>1 DEF Agrees, Alive
  <2> QED
    BY <2>3, <2>4 DEF Cancellable
<1>5. Alive(Dropped(h)) = {f[i] : i \in I}
  <2>1. ASSUME NEW i \in DOMAIN f
        PROVE  i \in I <=> f[i] \notin gone
    <3> HIDE DEF f, gone
    <3>1. Pend(timers)[i] = Pending(timers, f[i]) /\ f[i] \in Alive(timers)
      BY <1>3
    <3> QED
      BY <1>3, <1>4, <3>1
  <2> HIDE DEF f, gone
  <2>2. \A i \in I : i \in DOMAIN f
    BY <1>3
  <2> HIDE DEF I
  <2> QED
    BY <1>2, <1>3, <2>1, <2>2
<1>6. I \in SUBSET DOMAIN Pend(timers)
  OBVIOUS
<1>7. Numbered(timers) /\ Numbered(Dropped(h))
  BY <1>1, <1>2, AgreesNumbers
<1>8. Pend(Dropped(h)) = KeptOf(Pend(timers), I)
  <2> HIDE DEF I
  <2> QED
    BY <1>2, <1>5, <1>6, <1>7, KeepPend DEF f
<1>9. Queue!Without(h) = Queue!Kept({i \in DOMAIN PendingTimers : PendingTimers[i].handle # h})
  BY DEF Queue!Without
<1>10. Queue!Kept({i \in DOMAIN PendingTimers : PendingTimers[i].handle # h}) = Queue!Kept(I)
  BY QueueIs
<1>11. Queue!Kept(I) = KeptOf(Pend(timers), I)
  BY QueueKeeps
<1> QED
  BY <1>2, <1>8, <1>9, <1>10, <1>11

----------------------------------------------------------------------------
(* Every call keeps the wheel's invariant and is a call of the queue. *)

WheelFits == Agrees(timers, slotCount, activeCount, nextInsertion)

\* What is left of the types once the array agrees with its counts.
LEMMA TypeFits ==
  ASSUME WheelFits', slotCount' \in 0 .. MaxTimers, nextInsertion' \in 0 .. InsertionCap,
         wheelTime' \in Times, maxDuration' \in Limits, timerHandles' \subseteq TimerHandles,
         fired' \in Seq(Wakers)
  PROVE  WheelInv'
<1>1. timers' \in [TimerSlots -> Timer] /\ activeCount' = Cardinality(Alive(timers'))
  BY DEF WheelFits, Agrees, Alive
<1>2. Cardinality(Alive(timers')) \in 0 .. MaxTimers
  BY SlotSets
<1> QED
  BY <1>1, <1>2 DEF WheelInv, WheelTypeOK, WheelFits

LEMMA FitsThen ==
  ASSUME Agrees(timers', slotCount', activeCount', nextInsertion')
  PROVE  WheelFits'
BY DEF WheelFits, Agrees, Alive

LEMMA AcceptsIs ==
  ASSUME WheelInv, NEW slots, NEW active, Agrees(slots, slotCount, active, nextInsertion),
         NEW d \in Times
  PROVE  Queue!Accepts(Pend(slots), d) <=> Registrable(slots, d)
<1>1. FreeSlot(slots) < MaxTimers <=> Len(Pend(slots)) < MaxTimers
  <2>1. slotCount \in 0 .. MaxTimers
    BY DEF WheelInv, WheelTypeOK
  <2>2. FreeSlot(slots) < MaxTimers <=> Cardinality(Alive(slots)) < MaxTimers
    BY <2>1, RoomForOne
  <2>3. Len(Pend(slots)) = Cardinality(Alive(slots))
    BY AgreesNumbers, RegsAre
  <2> QED
    BY <2>2, <2>3
<1>2. d \in Nat /\ wheelTime \in Nat /\ maxDuration \in Nat
  BY TimerAssumption DEF WheelInv, WheelTypeOK, Times
<1> QED
  BY <1>1, <1>2 DEF Queue!Accepts, Registrable

\* A registration, whatever was cancelled before it.
Registers(slots, d, w) ==
  /\ WheelFits' /\ slotCount' \in 0 .. MaxTimers /\ nextInsertion' \in 0 .. InsertionCap
  /\ \E h \in TimerHandles \ timerHandles :
       /\ timerHandles' = timerHandles \cup {h}
       /\ PendingTimers' = Append(Pend(slots), [handle |-> h, deadline |-> d, waker |-> w])

LEMMA RegisteredSteps ==
  ASSUME WheelInv, NEW slots, NEW active, Agrees(slots, slotCount, active, nextInsertion),
         NEW d \in Times, NEW w \in Wakers, Registrable(slots, d), Registered(slots, active, d, w)
  PROVE  Registers(slots, d, w)
<1>1. PICK s : s = FreeSlot(slots)
  OBVIOUS
<1>2. PICK g : g = NextGeneration(slots[s].generation)
  OBVIOUS
<1>3. /\ slotCount \in 0 .. MaxTimers /\ nextInsertion \in 0 .. InsertionCap
      /\ FreeSlot(slots) < MaxTimers /\ nextInsertion < InsertionCap
  BY DEF WheelInv, WheelTypeOK, Registrable, Registered
<1>4. PICK more : more = [slots EXCEPT ![s] = NewTimer(d, w, g)]
  OBVIOUS
<1>5. PICK mark : mark = IF s = slotCount THEN slotCount + 1 ELSE slotCount
  OBVIOUS
<1>6. /\ Agrees(more, mark, active + 1, nextInsertion + 1)
      /\ mark \in 0 .. MaxTimers /\ g \in 0 .. GenMod - 1
      /\ s \in TimerSlots /\ s \notin Alive(slots) /\ Alive(more) = Alive(slots) \cup {s}
      /\ more[s] = NewTimer(d, w, g) /\ \A r \in Alive(slots) : more[r] = slots[r]
  <2>1. Enlarged(slots, active, d, w, s, g)
    BY <1>1, <1>2, <1>3, RegisteredFits
  <2> QED
    BY <1>4, <1>5, <2>1 DEF Enlarged
<1>7. PICK h : h = [slot |-> s, generation |-> g]
  OBVIOUS
<1>8. /\ timers' = more /\ slotCount' = mark /\ activeCount' = active + 1
      /\ nextInsertion' = nextInsertion + 1 /\ h \notin timerHandles
      /\ timerHandles' = timerHandles \cup {h}
  BY <1>1, <1>2, <1>4, <1>5, <1>7 DEF Registered, NewTimer
<1>9. h \in TimerHandles
  BY <1>6, <1>7 DEF TimerHandles
<1>10. WheelFits'
  BY <1>6, <1>8, FitsThen
<1>11. nextInsertion' \in 0 .. InsertionCap
  BY <1>3, <1>8, TimerAssumption
<1>12. Pend(more) = Append(Pend(slots), Pending(more, s))
  <2>1. Numbered(slots) /\ Numbered(more)
    BY <1>6, AgreesNumbers
  <2>2. \A r \in Alive(slots) : slots[r].insertion < more[s].insertion
    BY <1>6 DEF Agrees, NewTimer
  <2> QED
    BY <1>6, <2>1, <2>2, AppendPend
<1>13. Pending(more, s) = [handle |-> h, deadline |-> d, waker |-> w]
  <2>1. more[s].generation = g /\ more[s].deadline = d /\ more[s].waker = w
    BY <1>6 DEF NewTimer
  <2> QED
    BY <1>7, <2>1 DEF Pending
<1>14. PendingTimers' = Append(Pend(slots), [handle |-> h, deadline |-> d, waker |-> w])
  BY <1>8, <1>12, <1>13, QueueThen
<1> QED
  BY <1>6, <1>8, <1>9, <1>10, <1>11, <1>14 DEF Registers

LEMMA RegisterSteps ==
  ASSUME WheelInv, NEW d \in Times, NEW w \in Wakers, TimerRegister(d, w)
  PROVE  WheelInv' /\ Queue!QueueNext
<1>1. Agrees(timers, slotCount, activeCount, nextInsertion)
  BY DEF WheelInv
<1>2. Registrable(timers, d) /\ Registered(timers, activeCount, d, w)
  BY DEF TimerRegister
<1>3. Registers(timers, d, w)
  BY <1>1, <1>2, RegisteredSteps
<1>4. PICK h \in TimerHandles \ timerHandles :
        /\ timerHandles' = timerHandles \cup {h}
        /\ PendingTimers' = Append(Pend(timers), [handle |-> h, deadline |-> d, waker |-> w])
  BY <1>3 DEF Registers
<1>5. WheelInv'
  <2>1. WheelFits' /\ slotCount' \in 0 .. MaxTimers /\ nextInsertion' \in 0 .. InsertionCap
    BY <1>3 DEF Registers
  <2>2. /\ wheelTime' \in Times /\ maxDuration' \in Limits /\ timerHandles' \subseteq TimerHandles
        /\ fired' \in Seq(Wakers)
    BY <1>4 DEF WheelInv, WheelTypeOK, TimerRegister
  <2> QED
    BY <2>1, <2>2, TypeFits
<1>6. Queue!Accepts(PendingTimers, d)
  BY <1>1, <1>2, AcceptsIs, QueueIs
<1>7. Queue!Set(h, d, w)
  BY <1>4, <1>6, QueueIs DEF Queue!Set, Queue!Quiet, TimerRegister
<1> QED
  BY <1>5, <1>7 DEF Queue!QueueNext

LEMMA CancelSteps ==
  ASSUME WheelInv, NEW h \in timerHandles, TimerCancel(h)
  PROVE  WheelInv' /\ Queue!QueueNext
<1>1. h \in TimerHandles
  BY DEF WheelInv, WheelTypeOK
<1>2. timers' = Dropped(h) /\ activeCount' = Fewer(h)
  BY DEF TimerCancel, Dropped, Fewer
<1>3. /\ Agrees(Dropped(h), slotCount, Fewer(h), nextInsertion)
      /\ Pend(Dropped(h)) = Queue!Without(h)
  BY <1>1, DroppedFits
<1>4. WheelInv'
  <2>1. WheelFits'
    BY <1>2, <1>3, FitsThen DEF TimerCancel
  <2>2. /\ slotCount' \in 0 .. MaxTimers /\ nextInsertion' \in 0 .. InsertionCap
        /\ wheelTime' \in Times /\ maxDuration' \in Limits /\ timerHandles' \subseteq TimerHandles
        /\ fired' \in Seq(Wakers)
    BY DEF WheelInv, WheelTypeOK, TimerCancel
  <2> QED
    BY <2>1, <2>2, TypeFits
<1>5. Queue!Unset(h)
  BY <1>2, <1>3, QueueThen DEF Queue!Unset, Queue!Quiet, TimerCancel
<1> QED
  BY <1>4, <1>5 DEF Queue!QueueNext

LEMMA UpdateSteps ==
  ASSUME WheelInv, NEW h \in timerHandles, NEW d \in Times, NEW w \in Wakers, TimerUpdate(h, d, w)
  PROVE  WheelInv' /\ Queue!QueueNext
<1>1. h \in TimerHandles
  BY DEF WheelInv, WheelTypeOK
<1>2. /\ Agrees(Dropped(h), slotCount, Fewer(h), nextInsertion)
      /\ Pend(Dropped(h)) = Queue!Without(h)
  BY <1>1, DroppedFits
<1>3. /\ IF Registrable(Dropped(h), d)
         THEN Registered(Dropped(h), Fewer(h), d, w)
         ELSE /\ timers' = Dropped(h) /\ activeCount' = Fewer(h)
              /\ UNCHANGED <<slotCount, nextInsertion, timerHandles>>
      /\ fired' = <<>> /\ UNCHANGED <<wheelTime, maxDuration>>
  BY DEF TimerUpdate, Dropped, Fewer
<1>4. Queue!Accepts(Queue!Without(h), d) <=> Registrable(Dropped(h), d)
  BY <1>2, AcceptsIs
<1>5. /\ slotCount \in 0 .. MaxTimers /\ nextInsertion \in 0 .. InsertionCap
      /\ wheelTime' \in Times /\ maxDuration' \in Limits /\ timerHandles \subseteq TimerHandles
      /\ fired' \in Seq(Wakers)
  BY <1>3 DEF WheelInv, WheelTypeOK
<1>6. CASE Registrable(Dropped(h), d)
  <2>1. Registers(Dropped(h), d, w)
    BY <1>2, <1>3, <1>6, RegisteredSteps
  <2>2. PICK k \in TimerHandles \ timerHandles :
          /\ timerHandles' = timerHandles \cup {k}
          /\ PendingTimers'
               = Append(Pend(Dropped(h)), [handle |-> k, deadline |-> d, waker |-> w])
    BY <2>1 DEF Registers
  <2>3. WheelInv'
    <3>1. WheelFits' /\ slotCount' \in 0 .. MaxTimers /\ nextInsertion' \in 0 .. InsertionCap
      BY <2>1 DEF Registers
    <3>2. timerHandles' \subseteq TimerHandles
      BY <1>5, <2>2
    <3> QED
      BY <1>5, <3>1, <3>2, TypeFits
  <2>4. Queue!Replace(h, k, d, w)
    BY <1>2, <1>3, <1>4, <1>6, <2>2 DEF Queue!Replace, Queue!Quiet
  <2> QED
    BY <2>3, <2>4 DEF Queue!QueueNext
<1>7. CASE ~Registrable(Dropped(h), d)
  <2>1. WheelInv'
    <3>1. WheelFits'
      BY <1>2, <1>3, <1>7, FitsThen
    <3>2. /\ slotCount' \in 0 .. MaxTimers /\ nextInsertion' \in 0 .. InsertionCap
          /\ timerHandles' \subseteq TimerHandles
      BY <1>3, <1>5, <1>7
    <3> QED
      BY <1>5, <3>1, <3>2, TypeFits
  <2>2. PendingTimers' = Queue!Without(h)
    BY <1>2, <1>3, <1>7, QueueThen
  <2>3. Queue!ReplaceRefused(h, d)
    BY <1>3, <1>4, <1>7, <2>2 DEF Queue!ReplaceRefused, Queue!Quiet
  <2> QED
    BY <2>1, <2>3 DEF Queue!QueueNext
<1> QED
  BY <1>6, <1>7

LEMMA CollectSteps ==
  ASSUME WheelInv, NEW now \in Times, NEW most \in 1 .. MaxTimers, TimerCollectExpired(now, most)
  PROVE  WheelInv' /\ Queue!QueueNext
<1>1. Agrees(timers, slotCount, activeCount, nextInsertion)
  BY DEF WheelInv
<1>2. PICK sorted : sorted = ExpiredAt(timers, now)
  OBVIOUS
<1>3. sorted = Sorted({s \in LiveTimers : s < slotCount /\ timers[s].deadline <= now}, Before)
  <2>1. {s \in LiveTimers : s < slotCount /\ timers[s].deadline <= now}
          = {s \in Alive(timers) : timers[s].deadline <= now}
    BY <1>1 DEF LiveTimers, Alive, Agrees
  <2> QED
    BY <1>2, <2>1 DEF ExpiredAt, ExpiredSorts, Sorted, Before
<1>4. PICK n : n = IF Len(sorted) > most THEN most ELSE Len(sorted)
  OBVIOUS
<1>5. PICK out : out = SubSeq(sorted, 1, n)
  OBVIOUS
<1>6. PICK due : due = DueAt(Pend(timers), now)
  OBVIOUS
<1>7. PICK first : first = SubSeq(due, 1, IF Len(due) < most THEN Len(due) ELSE most)
  OBVIOUS
<1>8. /\ wheelTime' = Later(now) /\ fired' = [k \in 1 .. n |-> timers[out[k]].waker]
      /\ timers' = Left(timers, ToSet(out))
      /\ activeCount' = IF activeCount > n THEN activeCount - n ELSE 0
      /\ UNCHANGED <<slotCount, nextInsertion, maxDuration, timerHandles>>
  BY <1>3, <1>4, <1>5 DEF TimerCollectExpired, Left
<1>9. /\ n \in Nat /\ DOMAIN first = 1 .. n
      /\ \A k \in 1 .. n :
           out[k] \in Alive(timers) /\ Pend(timers)[first[k]] = Pending(timers, out[k])
      /\ ToSet(out) \subseteq Alive(timers) /\ Cardinality(ToSet(out)) = n
      /\ Pend(Left(timers, ToSet(out)))
           = KeptOf(Pend(timers), DOMAIN Pend(timers) \ ToSet(first))
  <2>1. most \in Nat
    OBVIOUS
  <2> QED
    <3>1. LET a == ExpiredAt(timers, now)
              b == DueAt(Pend(timers), now)
              m == IF Len(a) > most THEN most ELSE Len(a)
              o == SubSeq(a, 1, m)
              f == SubSeq(b, 1, IF Len(b) < most THEN Len(b) ELSE most)
          IN  /\ m \in Nat /\ DOMAIN f = 1 .. m
              /\ \A k \in 1 .. m :
                   o[k] \in Alive(timers) /\ Pend(timers)[f[k]] = Pending(timers, o[k])
              /\ ToSet(o) \subseteq Alive(timers) /\ Cardinality(ToSet(o)) = m
              /\ Pend(Left(timers, ToSet(o)))
                   = KeptOf(Pend(timers), DOMAIN Pend(timers) \ ToSet(f))
      BY <1>1, <2>1, Collected
    <3> QED
      BY <1>2, <1>4, <1>5, <1>6, <1>7, <3>1
<1>10. \A k \in 1 .. n : /\ timers[out[k]].waker \in Wakers
                         /\ timers[out[k]].waker = Pend(timers)[first[k]].waker
  <2>1. \A s \in Alive(timers) : timers[s].waker \in Wakers
    BY <1>1 DEF Agrees
  <2>2. \A s : Pending(timers, s).waker = timers[s].waker
    BY DEF Pending
  <2> QED
    BY <1>9, <2>1, <2>2
<1>11. WheelInv'
  <2>1. WheelFits'
    <3>1. Agrees(Left(timers, ToSet(out)), slotCount,
                 IF activeCount > n THEN activeCount - n ELSE 0, nextInsertion)
      BY <1>1, <1>9, LeftFits
    <3> QED
      BY <1>8, <3>1, FitsThen
  <2>2. fired' \in Seq(Wakers)
    BY <1>8, <1>9, <1>10
  <2>3. wheelTime' \in Times
    BY <1>8 DEF Later, WheelInv, WheelTypeOK
  <2>4. /\ slotCount' \in 0 .. MaxTimers /\ nextInsertion' \in 0 .. InsertionCap
        /\ maxDuration' \in Limits /\ timerHandles' \subseteq TimerHandles
    BY <1>8 DEF WheelInv, WheelTypeOK
  <2> QED
    BY <2>1, <2>2, <2>3, <2>4, TypeFits
<1>12. Queue!Fire(now, most)
  <2>1. fired' = [k \in DOMAIN first |-> PendingTimers[first[k]].waker]
    BY <1>8, <1>9, <1>10, QueueIs
  <2>2. PendingTimers' = KeptOf(Pend(timers), DOMAIN Pend(timers) \ ToSet(first))
    BY <1>8, <1>9, QueueThen
  <2>3. KeptOf(Pend(timers), DOMAIN Pend(timers) \ ToSet(first))
          = Queue!Kept(DOMAIN PendingTimers \ ToSet(first))
    BY QueueIs, QueueKeeps
  <2>4. Queue!Due(now) = due
    BY <1>6, QueueDue
  <2>5. Queue!ToSet(first) = ToSet(first)
    BY DEF ToSet, Queue!ToSet
  <2>6. UNCHANGED <<timerHandles, maxDuration>>
        /\ wheelTime' = IF now > wheelTime THEN now ELSE wheelTime
    BY <1>8 DEF Later
  <2> QED
    BY <1>7, <2>1, <2>2, <2>3, <2>4, <2>5, <2>6 DEF Queue!Fire
<1> QED
  BY <1>11, <1>12 DEF Queue!QueueNext

LEMMA ResetSteps ==
  ASSUME WheelInv, TimerReset
  PROVE  WheelInv' /\ Queue!QueueNext
<1>1. PICK left : left = [s \in TimerSlots |-> EmptyTimer(NextGeneration(timers[s].generation))]
  OBVIOUS
<1>2. ASSUME NEW s \in TimerSlots PROVE left[s] \in Timer /\ left[s].alive = FALSE
  <2>1. timers[s].generation \in 0 .. GenMod - 1
    BY DEF WheelInv, WheelTypeOK, Timer
  <2>2. PICK g \in 0 .. GenMod - 1 : g = NextGeneration(timers[s].generation)
    BY <2>1, GenerationWraps
  <2>3. left[s] = EmptyTimer(g)
    BY <1>1, <2>2
  <2>4. 0 \in Times /\ 0 \in 0 .. InsertionCap
    BY TimerAssumption DEF Times
  <2>5. EmptyTimer(g) \in Timer /\ EmptyTimer(g).alive = FALSE
    BY <2>4 DEF EmptyTimer, Timer
  <2> QED
    BY <2>3, <2>5
<1>3. left \in [TimerSlots -> Timer] /\ Alive(left) = {}
  BY <1>1, <1>2 DEF Alive
<1>4. Agrees(left, 0, 0, 0)
  <2>1. Cardinality({}) = 0
    BY FS_EmptySet
  <2> QED
    BY <1>3, <2>1 DEF Agrees
<1>5. Pend(left) = <<>>
  <2>1. DOMAIN Pend(left) = 1 .. 0 /\ Pend(left) = [n \in DOMAIN Pend(left) |-> Pend(left)[n]]
    <3>1. DOMAIN Pend(left) = 1 .. Cardinality(Alive(left))
      BY <1>4, AgreesNumbers, RegsAre
    <3>2. Cardinality(Alive(left)) = 0
      BY <1>4 DEF Agrees
    <3> QED
      BY <3>1, <3>2 DEF Pend
  <2> QED
    BY <2>1
<1>6. WheelInv'
  <2>1. WheelFits'
    BY <1>1, <1>4, FitsThen DEF TimerReset
  <2>2. 0 \in Times /\ 0 \in 0 .. InsertionCap /\ 0 \in 0 .. MaxTimers /\ MaxDuration \in Limits
    BY TimerAssumption DEF Times
  <2>3. timerHandles \subseteq TimerHandles
    BY DEF WheelInv, WheelTypeOK
  <2> QED
    BY <2>1, <2>2, <2>3, TypeFits DEF TimerReset
<1>7. Queue!Clear
  <2>1. 0 \in Times /\ MaxDuration \in Limits
    BY TimerAssumption DEF Times
  <2> QED
    BY <1>1, <1>5, <2>1, QueueThen DEF TimerReset, Queue!Clear
<1> QED
  BY <1>6, <1>7 DEF Queue!QueueNext

\* The calls that leave the timers alone.
LEMMA OtherSteps ==
  ASSUME WheelInv, UNCHANGED <<timers, slotCount, activeCount, nextInsertion>>,
         wheelTime' \in Times, maxDuration' \in Limits, timerHandles' \subseteq TimerHandles,
         fired' \in Seq(Wakers)
  PROVE  WheelInv' /\ PendingTimers' = PendingTimers
<1>1. WheelFits'
  BY FitsThen DEF WheelInv
<1>2. slotCount' \in 0 .. MaxTimers /\ nextInsertion' \in 0 .. InsertionCap
  BY DEF WheelInv, WheelTypeOK
<1> QED
  BY <1>1, <1>2, TypeFits, QueueIs, QueueThen

LEMMA WheelSteps == WheelInv /\ [WheelNext]_wheelVars => WheelInv' /\ [Queue!QueueNext]_Queue!queueVars
<1> SUFFICES ASSUME WheelInv, [WheelNext]_wheelVars
             PROVE  WheelInv' /\ [Queue!QueueNext]_Queue!queueVars
  OBVIOUS
<1>0. /\ wheelTime \in Times /\ maxDuration \in Limits /\ timerHandles \subseteq TimerHandles
      /\ fired \in Seq(Wakers) /\ <<>> \in Seq(Wakers)
  BY DEF WheelInv, WheelTypeOK
<1>1. ASSUME NEW d \in Times, NEW w \in Wakers, TimerRegister(d, w)
      PROVE  WheelInv' /\ Queue!QueueNext
  BY <1>1, RegisterSteps
<1>2. ASSUME NEW d \in Times, NEW w \in Wakers, NEW h \in timerHandles, TimerUpdate(h, d, w)
      PROVE  WheelInv' /\ Queue!QueueNext
  BY <1>2, UpdateSteps
<1>3. ASSUME NEW h \in timerHandles, TimerCancel(h)
      PROVE  WheelInv' /\ Queue!QueueNext
  BY <1>3, CancelSteps
<1>4. ASSUME NEW h \in timerHandles, ForgetHandle(h)
      PROVE  WheelInv' /\ Queue!QueueNext
  <2>1. WheelInv' /\ PendingTimers' = PendingTimers
    BY <1>0, <1>4, OtherSteps DEF ForgetHandle
  <2>2. Queue!Discard(h)
    BY <1>4, <2>1 DEF ForgetHandle, Queue!Discard, Queue!Quiet
  <2> QED
    BY <2>1, <2>2 DEF Queue!QueueNext
<1>5. ASSUME NEW now \in Times, TimerAdvance(now)
      PROVE  WheelInv' /\ Queue!QueueNext
  <2>1. WheelInv' /\ PendingTimers' = PendingTimers
    BY <1>0, <1>5, OtherSteps DEF TimerAdvance
  <2>2. Queue!Tell(now)
    BY <1>5, <2>1 DEF TimerAdvance, Queue!Tell
  <2> QED
    BY <2>1, <2>2 DEF Queue!QueueNext
<1>6. ASSUME NEW now \in Times, NEW n \in 1 .. MaxTimers, TimerCollectExpired(now, n)
      PROVE  WheelInv' /\ Queue!QueueNext
  BY <1>6, CollectSteps
<1>7. ASSUME NEW n \in Limits, TimerSetMaxDuration(n)
      PROVE  WheelInv' /\ Queue!QueueNext
  <2>1. WheelInv' /\ PendingTimers' = PendingTimers
    BY <1>0, <1>7, OtherSteps DEF TimerSetMaxDuration
  <2>2. Queue!SetLimit(n)
    BY <1>7, <2>1 DEF TimerSetMaxDuration, Queue!SetLimit
  <2> QED
    BY <2>1, <2>2 DEF Queue!QueueNext
<1>8. ASSUME TimerReset
      PROVE  WheelInv' /\ Queue!QueueNext
  BY <1>8, ResetSteps
<1>9. ASSUME UNCHANGED wheelVars
      PROVE  WheelInv' /\ UNCHANGED Queue!queueVars
  <2>1. WheelInv' /\ PendingTimers' = PendingTimers
    BY <1>0, <1>9, OtherSteps DEF wheelVars
  <2> QED
    BY <1>9, <2>1 DEF wheelVars, Queue!queueVars
<1> QED
  BY <1>1, <1>2, <1>3, <1>4, <1>5, <1>6, <1>7, <1>8, <1>9 DEF WheelNext

LEMMA WheelStarts == WheelInit => WheelInv /\ Queue!QueueInit
<1> SUFFICES ASSUME WheelInit PROVE WheelInv /\ Queue!QueueInit
  OBVIOUS
<1>1. 0 \in Times /\ 0 \in 0 .. InsertionCap /\ 0 \in 0 .. MaxTimers /\ MaxDuration \in Limits
      /\ 0 \in 0 .. GenMod - 1
  BY TimerAssumption DEF Times
<1>2. EmptyTimer(0) \in Timer /\ EmptyTimer(0).alive = FALSE
  BY <1>1 DEF EmptyTimer, Timer
<1>3. timers \in [TimerSlots -> Timer] /\ Alive(timers) = {}
  BY <1>2 DEF WheelInit, Alive
<1>4. Agrees(timers, 0, 0, 0)
  <2>1. Cardinality({}) = 0
    BY FS_EmptySet
  <2> QED
    BY <1>3, <2>1 DEF Agrees
<1>5. WheelInv
  BY <1>1, <1>3, <1>4 DEF WheelInv, WheelTypeOK, WheelInit
<1>6. PendingTimers = <<>>
  <2>1. DOMAIN Pend(timers) = 1 .. Cardinality(Alive(timers))
    BY <1>4, AgreesNumbers, RegsAre
  <2>2. Cardinality(Alive(timers)) = 0
    BY <1>4 DEF Agrees
  <2>3. DOMAIN Pend(timers) = 1 .. 0 /\ Pend(timers) = [n \in DOMAIN Pend(timers) |-> Pend(timers)[n]]
    BY <2>1, <2>2 DEF Pend
  <2>4. Pend(timers) = <<>>
    BY <2>3
  <2> QED
    BY <2>4, QueueIs
<1> QED
  BY <1>1, <1>5, <1>6 DEF Queue!QueueInit, WheelInit

LEMMA WheelRunsAlone == SupportSpec => WheelSpec
<1>1. SupportInit => WheelInit
  BY DEF SupportInit
<1>2. [SupportNext]_SupportVars => [WheelNext]_wheelVars
  BY DEF SupportNext, SupportVars, Rest
<1> QED
  BY <1>1, <1>2, PTL DEF SupportSpec, WheelSpec

LEMMA WheelInvariant == WheelSpec => []WheelInv
<1>1. WheelInit => WheelInv
  BY WheelStarts
<1>2. WheelInv /\ [WheelNext]_wheelVars => WheelInv'
  BY WheelSteps
<1> QED
  BY <1>1, <1>2, PTL DEF WheelSpec

\* TimersImplementQueue: with its slots, generations and batches the wheel is a queue by
\* deadline and order of registration (timer_wheel.c).
THEOREM TimersAreQueue == SupportSpec => TimersImplementQueue
<1>1. SupportInit => Queue!QueueInit
  BY WheelStarts DEF SupportInit
<1>2. WheelInv /\ [SupportNext]_SupportVars
        => [subject # "timers" \/ [Queue!QueueNext]_Queue!queueVars]_SupportVars
  <2>1. [SupportNext]_SupportVars => [WheelNext]_wheelVars
    BY DEF SupportNext, SupportVars, Rest
  <2> QED
    BY <2>1, WheelSteps
<1> QED
  BY <1>1, <1>2, WheelRunsAlone, WheelInvariant, PTL DEF SupportSpec, TimersImplementQueue

----------------------------------------------------------------------------
(* Guarded steps *)

\* StepsGuarded: no call leaves an affinity domain, allocates under the seal, takes time
\* back without a jitter due at that query, or moves a breaker whose outcomes do not say so
\* (affinity.c, hooks.c, virtual_time.c, regression_localize.c).
THEOREM StepsStayGuarded == SupportSpec => StepsGuarded
BY AffinityRunsAlone, AffinityHolds, SealHolds, ClockRunsAlone, BackwardsHolds, BreakerRunsAlone,
   BreakerHolds DEF StepsGuarded

====
