---- MODULE CleanupStack ----
(***************************************************************************)
(* src/core/cleanup.c: the cleanup stack of a region.  The owner pushes    *)
(* cleanup functions, pops the ones no longer needed in any order, and a   *)
(* drain calls the rest, last one first.  A function may push and pop      *)
(* while the drain is under way; it does not drain its own stack again.    *)
(***************************************************************************)
EXTENDS Naturals, Sequences

CONSTANTS
  StackMax,      \* ASX_CLEANUP_STACK_CAPACITY
  CleanupGenMax, \* bound on the pushes to one slot: generations (uint16_t) do not wrap here
  MaxPushes      \* bound on the pushes

ASSUME CleanupAssumption == StackMax \in Nat /\ CleanupGenMax \in Nat /\ MaxPushes \in Nat

Tickets == 1 .. MaxPushes      \* numbers of the pushes, in order
NoTicket == 0                  \* a NULL function
StackSlots == 0 .. StackMax - 1

VARIABLES
  stack,      \* fns, generations, count, drained
  cursor      \* slot whose function a drain is calling, StackMax outside a drain
VARIABLES
  handles,    \* handles[t]: slot and generation push t returned
  fate,       \* what became of push t: "none", "pushed", "popped", "run"
  late,       \* pushes made by a function while a drain calls it
  ran         \* pushes run by the last drain, in order
cleanupVars == <<stack, cursor, handles, fate, late, ran>>

CleanupInit ==
  /\ stack = [fns |-> [k \in StackSlots |-> NoTicket], gens |-> [k \in StackSlots |-> 0],
              count |-> 0, drained |-> FALSE]
  /\ cursor = StackMax
  /\ handles = [t \in Tickets |-> [slot |-> 0, gen |-> 0]]
  /\ fate = [t \in Tickets |-> "none"] /\ late = {} /\ ran = <<>>

Draining == cursor < StackMax

Push(t) ==
  LET idx == stack.count
  IN  /\ fate[t] = "none" /\ \A u \in Tickets : u < t => fate[u] # "none"
      /\ idx < StackMax /\ stack.gens[idx] < CleanupGenMax
      /\ stack' = [stack EXCEPT !.fns[idx] = t, !.gens[idx] = @ + 1, !.count = @ + 1,
                                !.drained = @ /\ stack.count # 0]
      /\ handles' = [handles EXCEPT ![t] = [slot |-> idx, gen |-> stack.gens[idx] + 1]]
      /\ fate' = [fate EXCEPT ![t] = "pushed"]
      /\ late' = IF Draining THEN late \cup {t} ELSE late
      /\ UNCHANGED <<cursor, ran>>

Trimmed_Decrement(fns, count) == count - 1
\* The number of slots left when the empty ones on top are taken off.
Trimmed(fns, count) ==
  CHOOSE n \in 0 .. count :
    /\ n > 0 => fns[n - 1] # NoTicket
    /\ \A k \in n .. count - 1 : fns[k] = NoTicket

\* A handle that resolves to an occupied slot of its generation.
Poppable(h) ==
  h.slot < stack.count /\ stack.fns[h.slot] # NoTicket /\ stack.gens[h.slot] = h.gen

\* Handles of pushes long gone are tried too.
Pop(t) ==
  LET h == handles[t]
      fns == [stack.fns EXCEPT ![h.slot] = NoTicket]
  IN  /\ fate[t] # "none" /\ Poppable(h)
      /\ stack' = [stack EXCEPT !.fns = fns, !.count = Trimmed(fns, @)]
      /\ fate' = [fate EXCEPT ![stack.fns[h.slot]] = IF @ = "run" THEN @ ELSE "popped"]
      /\ UNCHANGED <<cursor, handles, late, ran>>

\* The drain's next slot below "from" with a function; without one the drain is over.
CallBelow(from, fns) ==
  LET next == {k \in StackSlots : k < from /\ fns[k] # NoTicket}
  IN  IF next = {}
      THEN /\ cursor' = StackMax
           /\ stack' = [stack EXCEPT !.fns = fns, !.count = 0, !.drained = TRUE]
           /\ UNCHANGED fate
      ELSE LET k == CHOOSE k \in next : \A j \in next : j <= k
           IN  /\ cursor' = k
               /\ stack' = [stack EXCEPT !.fns = fns]
               /\ fate' = [fate EXCEPT ![fns[k]] = "run"]

\* asx_cleanup_drain up to its first call, and from the return of one call to the next.
DrainStack ==
  /\ ~Draining /\ ~stack.drained
  /\ CallBelow(stack.count, stack.fns)
  /\ ran' = IF cursor' < StackMax THEN <<stack.fns[cursor']>> ELSE <<>>
  /\ UNCHANGED <<handles, late>>

CallReturns ==
  /\ Draining
  /\ CallBelow(cursor, [stack.fns EXCEPT ![cursor] = NoTicket])
  /\ ran' = IF cursor' < StackMax THEN Append(ran, stack.fns[cursor']) ELSE ran
  /\ UNCHANGED <<handles, late>>

CleanupNext ==
  \/ \E t \in Tickets : Push(t) \/ Pop(t)
  \/ DrainStack \/ CallReturns

CleanupSpec == CleanupInit /\ [][CleanupNext]_cleanupVars

----------------------------------------------------------------------------
(* Properties *)

\* A drain calls no function twice, calls them the last pushed first, and leaves out none
\* that was pushed before it and not popped, whatever functions pop and push meanwhile.
\* What is pushed during the drain has neither promise: it lies above the cursor and is
\* lost, or, when its pusher popped itself, below, and is called out of order.
DrainRunsEach ==
  /\ \A m, n \in DOMAIN ran : m < n => ran[m] # ran[n]
  /\ \A m, n \in DOMAIN ran : m < n /\ {ran[m], ran[n]} \cap late = {} => ran[m] > ran[n]
  /\ stack.drained /\ ~Draining => \A t \in Tickets : fate[t] = "pushed" => t \in late

----------------------------------------------------------------------------
(* The inductive invariant *)

StackTypeOK ==
  /\ stack \in [fns : [StackSlots -> Tickets \cup {NoTicket}],
                gens : [StackSlots -> 0 .. CleanupGenMax],
                count : 0 .. StackMax, drained : BOOLEAN]
  /\ cursor \in 0 .. StackMax
  /\ handles \in [Tickets -> [slot : Nat, gen : Nat]]
  /\ fate \in [Tickets -> {"none", "pushed", "popped", "run"}]
  /\ late \subseteq Tickets
  /\ ran \in Seq(Tickets)

Occupied(k) == k < stack.count /\ stack.fns[k] # NoTicket

\* The stack holds pushes in their order; what it holds is still to run, but for the
\* function being called.  A drain leaves no function between the trimmed top and itself.
StackOrdered ==
  /\ \A t, u \in Tickets : fate[t] = "none" /\ fate[u] # "none" => u < t
  /\ \A j, k \in StackSlots : Occupied(j) /\ Occupied(k) /\ j < k =>
       stack.fns[j] < stack.fns[k]
  /\ \A k \in StackSlots : Occupied(k) =>
       fate[stack.fns[k]] = "pushed" \/ (k = cursor /\ fate[stack.fns[k]] = "run")
  /\ Draining => \A k \in StackSlots : stack.count <= k /\ k < cursor => stack.fns[k] = NoTicket

\* A push that was neither popped nor called, nor made during a drain, is in the stack,
\* and a drain under way has not passed it; a stack once drained is empty.
NothingLost ==
  /\ \A t \in Tickets \ late : fate[t] = "pushed" =>
       \E k \in StackSlots : Occupied(k) /\ k < cursor /\ stack.fns[k] = t
  /\ stack.drained => ~Draining /\ stack.count = 0

\* What ran is marked, and what is still to be called was pushed before it.
RanInOrder ==
  /\ \A m \in DOMAIN ran : fate[ran[m]] = "run"
  /\ \A m, n \in DOMAIN ran : m < n => ran[m] # ran[n]
  /\ \A m, n \in DOMAIN ran : m < n /\ {ran[m], ran[n]} \cap late = {} => ran[m] > ran[n]
  /\ Draining => \A m \in DOMAIN ran, k \in StackSlots :
       Occupied(k) /\ k < cursor /\ {ran[m], stack.fns[k]} \cap late = {} =>
         stack.fns[k] < ran[m]

CleanupInv == StackTypeOK /\ StackOrdered /\ NothingLost /\ RanInOrder
====
