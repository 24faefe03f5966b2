---- MODULE DecisionProofs ----
(***************************************************************************)
(* Theorems about what the supporting components decide: the rule of the   *)
(* adapters, the actions of least expected loss, and what the fixture      *)
(* codecs accept.  They are about SupportSpec, the specification the run   *)
(* checks.                                                                 *)
(***************************************************************************)
EXTENDS SupportProofs

----------------------------------------------------------------------------
(* Decisions of overload *)

\* A threshold triggers on no capacity, or on a load that reaches it.
LEMMA ThresholdTriggers ==
  ASSUME NEW mode, NEW u, NEW c, NEW t, NEW shed
  PROVE  Threshold(mode, u, c, t, shed).triggered <=> c = 0 \/ PercentLoad(u, c) >= t
BY DEF Threshold, Decision

LEMMA LoadIsNat ==
  ASSUME NEW u \in Nat, NEW c \in Nat
  PROVE  PercentLoad(u, c) \in Nat
<1>1. LoadMax \in Nat
  BY OverloadAssumption
<1>2. CASE c = 0
  BY <1>2 DEF PercentLoad
<1>3. CASE c # 0
  <2>1. PICK n \in Nat : n = (u * 100) \div c
    BY <1>3
  <2>2. Min({n, LoadMax}) = Least(n, LoadMax)
    BY <1>1, <2>1, MinOfTwo
  <2> QED
    BY <1>1, <1>3, <2>1, <2>2 DEF PercentLoad, Least
<1> QED
  BY <1>2, <1>3

\* What a threshold answers.
LEMMA ThresholdAnswers ==
  ASSUME NEW mode, NEW u, NEW c, NEW t, NEW shed
  PROVE  LET d == Threshold(mode, u, c, t, shed)
         IN  /\ DOMAIN d = {"mode", "triggered", "load", "shed", "admit"}
             /\ d.mode = mode
             /\ c = 0 => d.admit # "OK"
             /\ d.triggered /\ c # 0 => d.admit = Admission(mode) /\ d.shed = shed
<1> DEFINE d == Threshold(mode, u, c, t, shed)
<1>1. CASE c = 0
  <2>1. d = Decision(mode, TRUE, 100, 0,
                     IF mode = "BACKPRESSURE" THEN "WOULD_BLOCK" ELSE "ADMISSION_CLOSED")
    BY <1>1 DEF Threshold
  <2> QED
    BY <1>1, <2>1 DEF Decision
<1>2. CASE c # 0 /\ PercentLoad(u, c) >= t
  <2>1. d = Decision(mode, TRUE, PercentLoad(u, c), shed, Admission(mode))
    BY <1>2 DEF Threshold
  <2> QED
    BY <1>2, <2>1 DEF Decision
<1>3. CASE c # 0 /\ ~(PercentLoad(u, c) >= t)
  <2>1. d = Decision(mode, FALSE, PercentLoad(u, c), 0, "OK")
    BY <1>3 DEF Threshold
  <2> QED
    BY <1>3, <2>1 DEF Decision
<1> QED
  BY <1>1, <1>2, <1>3

\* A load of 85 % needs work to be there.
LEMMA LoadedIsUsed ==
  ASSUME NEW u \in Nat, NEW c \in Nat \ {0}, PercentLoad(u, c) >= 85
  PROVE  u # 0
<1> SUFFICES ASSUME u = 0
             PROVE  FALSE
  OBVIOUS
<1>1. (u * 100) \div c = 0
  BY SMT
<1>2. LoadMax \in Nat
  BY OverloadAssumption
<1>3. Min({0, LoadMax}) = Least(0, LoadMax)
  BY <1>2, MinOfTwo
<1>4. PercentLoad(u, c) = 0
  BY <1>1, <1>2, <1>3 DEF PercentLoad, Least
<1> QED
  BY <1>4

\* Where its CORE fallback rejects, an adapter triggers, and it does not admit, or evicts.
LEMMA AdaptersAnswer ==
  ASSUME NEW u \in Nat, NEW c \in Nat, NEW class \in ResourceClasses, NEW domain \in AdapterDomains
  PROVE  LET d == Dispatch(domain, u, c, class)
         IN  /\ Isomorphic(domain, u, c, class)
             /\ CoreFallback(u, c).admit # "OK" => d.admit # "OK" \/ AdmitsByEviction(d, u)
<1> DEFINE d == Dispatch(domain, u, c, class)
<1>1. PICK L \in Nat : L = PercentLoad(u, c)
  BY LoadIsNat
<1>2. CoreFallback(u, c).triggered <=> c = 0 \/ L >= 90
  BY <1>1, ThresholdTriggers DEF CoreFallback
<1>3. CoreFallback(u, c).admit # "OK" => c = 0 \/ L >= 90
  BY <1>1 DEF CoreFallback, Threshold, Decision
<1>4. SUFFICES ASSUME c = 0 \/ L >= 90
               PROVE  d.triggered /\ (d.admit # "OK" \/ AdmitsByEviction(d, u))
  BY <1>2, <1>3 DEF Isomorphic
<1>5. CASE domain = "HFT"
  <2>1. d = Threshold("SHED_OLDEST", u, c, 85, Min({u, 2}))
    BY <1>5 DEF Dispatch, HftDecide
  <2>2. d.triggered
    BY <1>1, <1>4, <2>1, ThresholdTriggers
  <2>3. CASE c = 0
    BY <2>1, <2>2, <2>3, ThresholdAnswers
  <2>4. CASE c # 0
    <3>1. d.mode = "SHED_OLDEST" /\ d.shed = Min({u, 2})
      BY <2>1, <2>2, <2>4, ThresholdAnswers
    <3>2. Min({u, 2}) = Least(u, 2)
      BY MinOfTwo
    <3>3. u # 0
      BY <1>1, <1>4, <2>4, LoadedIsUsed
    <3>4. Least(u, 2) \in 1 .. 2 /\ Least(u, 2) <= u
      BY <3>3 DEF Least
    <3> HIDE DEF d
    <3>5. AdmitsByEviction(d, u)
      BY <3>1, <3>2, <3>4 DEF AdmitsByEviction
    <3> QED
      BY <2>2, <3>5
  <2> QED
    BY <2>3, <2>4
<1>6. CASE domain = "AUTOMOTIVE"
  <2> DEFINE a == Threshold("BACKPRESSURE", u, c, 90, 0)
  <2>1. d = AutoDecide(u, c)
    BY <1>6 DEF Dispatch
  <2>2. a.triggered
    BY <1>1, <1>4, ThresholdTriggers
  <2>3. AutoDecide(u, c) = a
    BY <2>2, Zenon DEF AutoDecide
  <2>4. a.admit # "OK"
    BY <2>2, ThresholdAnswers DEF Admission
  <2> QED
    BY <2>1, <2>2, <2>3, <2>4
<1>7. CASE domain = "ROUTER"
  <2> DEFINE r == Threshold("REJECT", u, ScaledCapacity(c, class), 75, 0)
  <2>1. d = RouterDecide(u, c, class)
    BY <1>7 DEF Dispatch
  <2>2. CASE r.triggered
    <3>1. RouterDecide(u, c, class) = r
      BY <2>2, Zenon DEF RouterDecide
    <3>2. r.admit # "OK"
      BY <2>2, ThresholdAnswers DEF Admission
    <3> QED
      BY <2>1, <2>2, <3>1, <3>2
  <2>3. CASE ~r.triggered
    <3>1. ScaledCapacity(c, class) # 0
      BY <2>3, ThresholdTriggers
    <3>2. c # 0
      BY <3>1, OverloadAssumption DEF ScaledCapacity, ResourceClasses
    <3>3. L >= 90 /\ c > 0
      BY <1>1, <1>4, <3>2
    <3>4. DOMAIN r = {"mode", "triggered", "load", "shed", "admit"}
      BY ThresholdAnswers
    <3>5. RouterDecide(u, c, class)
            = [r EXCEPT !.triggered = TRUE, !.load = PercentLoad(u, c), !.admit = "ADMISSION_CLOSED"]
      BY <1>1, <2>3, <3>3 DEF RouterDecide
    <3> HIDE DEF r
    <3>6. RouterDecide(u, c, class).triggered = TRUE
          /\ RouterDecide(u, c, class).admit = "ADMISSION_CLOSED"
      BY <3>4, <3>5
    <3> QED
      BY <2>1, <3>6
  <2> QED
    BY <2>2, <2>3
<1> QED
  BY <1>5, <1>6, <1>7 DEF AdapterDomains

\* The catalogue is valid, and its policies decide what its own check accepts.
LEMMA CatalogConsistent ==
  ASSUME NEW p \in DOMAIN Catalog, NEW u \in Nat \ {0}, NEW c \in Nat \ {0}
  PROVE  EntryValid(Catalog[p]) /\ Consistent(Catalog[p], Evaluated(Catalog[p], u, c))
<1> DEFINE e == Catalog[p]
           L == PercentLoad(u, c)
           x == Evaluated(e, u, c)
<1>1. EntryValid(e)
  BY DEF EntryValid, Catalog, Entry
<1>2. \/ e.mode = "REJECT"
      \/ e.mode = "SHED_OLDEST" /\ e.shedMax = 2
      \/ e.mode = "BACKPRESSURE"
  BY DEF Catalog, Entry
<1> HIDE DEF e
<1>3. CASE L >= e.threshold
  <2>1. x = Decision(e.mode, TRUE, L, IF e.mode = "SHED_OLDEST" THEN Min({e.shedMax, u}) ELSE 0,
                     Admission(e.mode))
    BY <1>3 DEF Evaluated
  <2>2. x.mode = e.mode /\ x.triggered = TRUE /\ x.admit = Admission(e.mode)
    BY <2>1 DEF Decision
  <2>3. e.mode = "SHED_OLDEST" => x.shed \in 1 .. e.shedMax
    <3> SUFFICES ASSUME e.mode = "SHED_OLDEST"
                 PROVE  x.shed \in 1 .. e.shedMax
      OBVIOUS
    <3>1. x.shed = Min({e.shedMax, u}) /\ e.shedMax = 2
      BY <1>2, <2>1 DEF Decision
    <3>2. Min({2, u}) = Least(2, u)
      BY MinOfTwo
    <3> QED
      BY <3>1, <3>2 DEF Least
  <2> QED
    BY <1>1, <2>2, <2>3 DEF Consistent, e
<1>4. CASE ~(L >= e.threshold)
  <2>1. x = Decision(e.mode, FALSE, L, 0, "OK")
    BY <1>4 DEF Evaluated
  <2>2. x.mode = e.mode /\ x.triggered = FALSE /\ x.admit = "OK"
    BY <2>1 DEF Decision
  <2> QED
    BY <1>1, <2>2 DEF Consistent, e
<1> QED
  BY <1>3, <1>4

LEMMA OverloadIsAnswered == OverloadAnswered
<1>1. Loads \subseteq Nat /\ Capacities \subseteq Nat
  BY OverloadAssumption
<1> QED
  BY <1>1, AdaptersAnswer, CatalogConsistent DEF OverloadAnswered

----------------------------------------------------------------------------
(* Adaptive decisions: the pass over the actions *)

PassStates == [best : Nat \cup {-1}, action : Nat, second : Nat \cup {-1}, other : Nat]
NothingSeen == [best |-> -1, action |-> 0, second |-> -1, other |-> 0]

\* The first of the least losses among the actions S.
IsFirst(loss, S, a) ==
  a \in S /\ \A b \in S : loss[a] < loss[b] \/ (loss[a] = loss[b] /\ a <= b)

\* What the pass holds after the actions 0 .. n - 1: the first of the least, and the first
\* of the least of the rest.
Ahead(loss, n, acc) ==
  /\ acc \in PassStates
  /\ n = 0 => acc = NothingSeen
  /\ n > 0 => IsFirst(loss, 0 .. n - 1, acc.action) /\ acc.best = loss[acc.action]
  /\ n = 1 => acc.second = -1
  /\ n > 1 => IsFirst(loss, (0 .. n - 1) \ {acc.action}, acc.other) /\ acc.second = loss[acc.other]

\* One action more.
LEMMA SeenAhead ==
  ASSUME NEW m \in Nat, NEW loss \in [0 .. m - 1 -> Nat], NEW n \in 0 .. m - 1, NEW acc,
         Ahead(loss, n, acc)
  PROVE  Ahead(loss, n + 1, Seen(acc, n, loss[n]))
<1>1. PICK x \in Nat : x = loss[n]
  OBVIOUS
<1>2. acc \in PassStates /\ \A a \in 0 .. n - 1 : loss[a] \in Nat
  BY DEF Ahead
<1>3. PICK new : new = Seen(acc, n, x)
  OBVIOUS
<1>4. n + 1 > 0 /\ (n + 1) - 1 = n
  OBVIOUS
<1>5. CASE Less(x, acc.best)
  <2>1. new = [best |-> x, action |-> n, second |-> acc.best, other |-> acc.action]
    BY <1>3, <1>5 DEF Seen
  <2>2. new \in PassStates /\ new.best = x /\ new.action = n /\ new.second = acc.best
        /\ new.other = acc.action
    BY <1>2, <2>1 DEF PassStates
  <2>3. CASE n = 0
    <3>1. acc.best = -1 /\ IsFirst(loss, 0 .. n, n)
      BY <1>1, <2>3 DEF Ahead, NothingSeen, IsFirst
    <3> QED
      BY <1>1, <1>3, <1>4, <2>2, <2>3, <3>1 DEF Ahead
  <2>4. CASE n > 0
    <3>1. IsFirst(loss, 0 .. n - 1, acc.action) /\ acc.best = loss[acc.action]
      BY <2>4 DEF Ahead
    <3>2. x < loss[acc.action] /\ loss[acc.action] \in Nat
      BY <1>2, <1>5, <3>1 DEF Less, IsFirst
    <3>3. IsFirst(loss, 0 .. n, n)
      <4>1. ASSUME NEW b \in 0 .. n
            PROVE  loss[n] < loss[b] \/ (loss[n] = loss[b] /\ n <= b)
        <5>1. CASE b = n
          BY <1>1, <5>1
        <5>2. CASE b # n
          <6>1. b \in 0 .. n - 1
            BY <5>2
          <6>2. loss[acc.action] <= loss[b] /\ loss[b] \in Nat
            BY <1>2, <3>1, <3>2, <6>1 DEF IsFirst
          <6> QED
            BY <1>1, <3>2, <6>2
        <5> QED
          BY <5>1, <5>2
      <4>2. n \in 0 .. n
        BY <2>4
      <4> QED
        BY <4>1, <4>2 DEF IsFirst
    <3>4. (0 .. n) \ {n} = 0 .. n - 1
      OBVIOUS
    <3>5. IsFirst(loss, (0 .. n) \ {n}, acc.action)
      BY <3>1, <3>4
    <3>6. Ahead(loss, n + 1, new)
      BY <1>4, <2>2, <2>4, <3>1, <3>3, <3>5, <1>1 DEF Ahead
    <3> QED
      BY <1>1, <1>3, <3>6
  <2> QED
    BY <2>3, <2>4
<1>6. CASE ~Less(x, acc.best)
  <2>1. n > 0
    BY <1>1, <1>6 DEF Less, Ahead, NothingSeen
  <2>2. IsFirst(loss, 0 .. n - 1, acc.action) /\ acc.best = loss[acc.action]
    BY <2>1 DEF Ahead
  <2>3. acc.action \in 0 .. n - 1 /\ loss[acc.action] <= x /\ loss[acc.action] \in Nat
    BY <1>1, <1>2, <1>6, <2>2 DEF Less, IsFirst
  <2>4. IsFirst(loss, 0 .. n, acc.action)
    <3>1. ASSUME NEW b \in 0 .. n
          PROVE  loss[acc.action] < loss[b] \/ (loss[acc.action] = loss[b] /\ acc.action <= b)
      <4>1. CASE b = n
        BY <1>1, <2>3, <4>1
      <4>2. CASE b # n
        <5>1. b \in 0 .. n - 1
          BY <4>2
        <5> QED
          BY <2>2, <5>1 DEF IsFirst
      <4> QED
        BY <4>1, <4>2
    <3> QED
      BY <2>3, <3>1 DEF IsFirst
  <2>5. CASE Less(x, acc.second)
    <3>1. new = [acc EXCEPT !.second = x, !.other = n]
      BY <1>3, <1>6, <2>5 DEF Seen
    <3>2. new \in PassStates /\ new.best = acc.best /\ new.action = acc.action /\ new.second = x
          /\ new.other = n
      <4>1. acc = [best |-> acc.best, action |-> acc.action, second |-> acc.second, other |-> acc.other]
        BY <1>2 DEF PassStates
      <4>2. new = [best |-> acc.best, action |-> acc.action, second |-> x, other |-> n]
        BY <3>1, <4>1
      <4> QED
        BY <1>2, <4>2 DEF PassStates
    <3>3. IsFirst(loss, (0 .. n) \ {acc.action}, n)
      <4>1. ASSUME NEW b \in (0 .. n) \ {acc.action}
            PROVE  loss[n] < loss[b] \/ (loss[n] = loss[b] /\ n <= b)
        <5>1. CASE b = n
          BY <1>1, <5>1
        <5>2. CASE b # n
          <6>1. b \in (0 .. n - 1) \ {acc.action} /\ n > 1
            BY <2>3, <5>2
          <6>2. IsFirst(loss, (0 .. n - 1) \ {acc.action}, acc.other) /\ acc.second = loss[acc.other]
            BY <6>1 DEF Ahead
          <6>3. loss[acc.other] <= loss[b] /\ loss[acc.other] \in Nat /\ loss[b] \in Nat
            <7>1. acc.other \in 0 .. n - 1 /\ b \in 0 .. n - 1
              BY <6>1, <6>2 DEF IsFirst
            <7>2. loss[acc.other] < loss[b] \/ loss[acc.other] = loss[b]
              BY <6>1, <6>2 DEF IsFirst
            <7>3. loss[acc.other] \in Nat /\ loss[b] \in Nat
              BY <1>2, <7>1
            <7> QED
              BY <7>2, <7>3
          <6>4. x < loss[acc.other]
            BY <2>5, <6>2, <6>3 DEF Less
          <6> QED
            BY <1>1, <6>3, <6>4
        <5> QED
          BY <5>1, <5>2
      <4>2. n \in (0 .. n) \ {acc.action}
        BY <2>3
      <4> QED
        BY <4>1, <4>2 DEF IsFirst
    <3> QED
      BY <1>1, <1>3, <1>4, <2>1, <2>2, <2>4, <3>2, <3>3 DEF Ahead
  <2>6. CASE ~Less(x, acc.second)
    <3>1. new = acc
      BY <1>3, <1>6, <2>6 DEF Seen
    <3>2. n > 1
      BY <1>1, <2>1, <2>6 DEF Less, Ahead
    <3>3. IsFirst(loss, (0 .. n - 1) \ {acc.action}, acc.other) /\ acc.second = loss[acc.other]
      BY <3>2 DEF Ahead
    <3>4. acc.other \in (0 .. n - 1) \ {acc.action} /\ loss[acc.other] <= x /\ loss[acc.other] \in Nat
      BY <1>1, <1>2, <2>6, <3>3 DEF Less, IsFirst
    <3>5. IsFirst(loss, (0 .. n) \ {acc.action}, acc.other)
      <4>1. ASSUME NEW b \in (0 .. n) \ {acc.action}
            PROVE  loss[acc.other] < loss[b] \/ (loss[acc.other] = loss[b] /\ acc.other <= b)
        <5>1. CASE b = n
          BY <1>1, <3>4, <5>1
        <5>2. CASE b # n
          <6>1. b \in (0 .. n - 1) \ {acc.action}
            BY <5>2
          <6> QED
            BY <3>3, <6>1 DEF IsFirst
        <5> QED
          BY <5>1, <5>2
      <4> QED
        BY <3>4, <4>1 DEF IsFirst
    <3> QED
      BY <1>1, <1>2, <1>3, <1>4, <2>1, <2>2, <2>4, <3>1, <3>2, <3>3, <3>5 DEF Ahead
  <2> QED
    BY <2>5, <2>6
<1> QED
  BY <1>5, <1>6

\* The losses of a surface's actions under a posterior over its states.
LossesOf(surface, posterior) ==
  [a \in 0 .. surface.actions - 1 |-> ExpectedLoss(surface, posterior, a)]

LEMMA LossIsNat ==
  ASSUME NEW surface \in Surfaces, NEW posterior \in Posteriors,
         Len(posterior.weights) = surface.states, NEW a \in 0 .. surface.actions - 1
  PROVE  ExpectedLoss(surface, posterior, a) \in Nat
<1> DEFINE m == surface.states
           Term == [n \in 1 .. m |-> (surface.losses[<<a, n>>] * posterior.weights[n]) \div Unit]
           Step == [p \in (1 .. m) \X Nat |-> p[2] + Term[p[1]]]
           Body(g) == [s \in 0 .. m |->
                         IF s = 0 THEN 0
                         ELSE g[s - 1] + (surface.losses[<<a, s>>] * posterior.weights[s]) \div Unit]
<1>1. m \in Nat /\ Unit \in Nat \ {0}
  BY AdaptiveAssumption
<1>2. ASSUME NEW n \in 1 .. m
      PROVE  Term[n] \in Nat
  <2>1. surface.losses[<<a, n>>] \in Nat
    BY AdaptiveAssumption
  <2>2. posterior.weights[n] \in Nat
    BY AdaptiveAssumption
  <2>3. PICK x \in Nat : x = surface.losses[<<a, n>>] * posterior.weights[n]
    BY <2>1, <2>2
  <2>4. \A y \in Nat : y \div Unit \in Nat
    BY <1>1
  <2> QED
    BY <2>3, <2>4
<1>3. Step \in Stepping(m, Nat)
  <2>1. \A n \in 1 .. m, x \in Nat : x + Term[n] \in Nat
    <3> HIDE DEF Term
    <3> QED
      BY <1>2
  <2> HIDE DEF Term
  <2> QED
    BY <2>1 DEF Stepping
<1>4. PICK f : Recurs(f, m, Nat, 0, Step)
  <2> HIDE DEF m, Step
  <2> QED
    BY <1>1, <1>3, RecursionExists
<1>5. f \in [0 .. m -> Nat] /\ f[0] = 0 /\ \A n \in 1 .. m : f[n] = Step[<<n, f[n - 1]>>]
  BY <1>4 DEF Recurs
<1>6. ASSUME NEW n \in 1 .. m
      PROVE  f[n] = f[n - 1] + Term[n]
  <2>1. n - 1 \in 0 .. m
    BY <1>1
  <2>2. f[n - 1] \in Nat
    BY <1>5, <2>1
  <2> HIDE DEF Term
  <2> QED
    BY <1>5, <2>2
<1>7. f = Body(f)
  <2> HIDE DEF m
  <2>1. f = [n \in 0 .. m |-> f[n]]
    BY <1>5
  <2>2. ASSUME NEW n \in 0 .. m
        PROVE  f[n] = IF n = 0 THEN 0
                      ELSE f[n - 1] + (surface.losses[<<a, n>>] * posterior.weights[n]) \div Unit
    <3>1. CASE n = 0
      BY <1>5, <3>1
    <3>2. CASE n # 0
      <4>1. n \in 1 .. m
        BY <1>1, <3>2
      <4>2. f[n] = f[n - 1] + Term[n]
        BY <1>6, <4>1
      <4>3. Term[n] = (surface.losses[<<a, n>>] * posterior.weights[n]) \div Unit
        BY <4>1, Zenon
      <4> HIDE DEF Term
      <4>4. f[n] = f[n - 1] + (surface.losses[<<a, n>>] * posterior.weights[n]) \div Unit
        BY <4>2, <4>3, Zenon
      <4> QED
        BY <3>2, <4>4, Zenon
    <3> QED
      BY <3>1, <3>2
  <2> QED
    BY <2>1, <2>2, Zenon
<1>8. PICK P : P = Body(P) /\ ExpectedLoss(surface, posterior, a) = P[m]
  <2> DEFINE Q == CHOOSE g : g = Body(g)
  <2>1. Q = Body(Q)
    <3> HIDE DEF Body
    <3> QED
      BY <1>7
  <2>2. ExpectedLoss(surface, posterior, a) = Q[m]
    BY DEF ExpectedLoss
  <2> HIDE DEF Q, Body
  <2> QED
    BY <2>1, <2>2
<1>9. P[0] = 0 /\ \A n \in 1 .. m : P[n] = P[n - 1] + Term[n]
  <2>1. 0 \in 0 .. m /\ \A n \in 1 .. m : n \in 0 .. m /\ n # 0
    BY <1>1
  <2>2. P[0] = 0
    BY <1>8, <2>1
  <2>3. ASSUME NEW n \in 1 .. m
        PROVE  P[n] = P[n - 1] + Term[n]
    <3>1. Body(P)[n] = P[n - 1] + (surface.losses[<<a, n>>] * posterior.weights[n]) \div Unit
      <4> HIDE DEF m
      <4>1. n \in 0 .. m /\ n # 0
        BY <2>1
      <4> QED
        BY <4>1, Zenon
    <3>2. Term[n] = (surface.losses[<<a, n>>] * posterior.weights[n]) \div Unit
      BY Zenon
    <3>3. P[n] = Body(P)[n]
      <4> HIDE DEF Body
      <4> QED
        BY <1>8
    <3> HIDE DEF Body, Term
    <3> QED
      BY <3>1, <3>2, <3>3, Zenon
  <2> QED
    BY <2>2, <2>3
<1> DEFINE Good == {n \in 0 .. m : P[n] \in Nat}
<1>10. 0 .. m \subseteq Good
  <2>1. 0 \in Good
    <3>1. 0 \in 0 .. m /\ P[0] \in Nat
      BY <1>1, <1>9
    <3> QED
      BY <3>1
  <2>2. ASSUME NEW n \in 1 .. m, n - 1 \in Good
        PROVE  n \in Good
    <3> HIDE DEF Term
    <3>1. P[n - 1] \in Nat /\ Term[n] \in Nat /\ n \in 0 .. m
      BY <1>1, <1>2, <2>2
    <3> QED
      BY <1>9, <3>1
  <2> HIDE DEF Good, m
  <2> QED
    BY <1>1, <2>1, <2>2, InductionUpTo
<1>11. m \in Good
  BY <1>1, <1>10
<1> HIDE DEF Body
<1> QED
  BY <1>8, <1>11

\* The pass over all the actions holds the first of the least losses and the first of the
\* least of the rest.
LEMMA ScanAhead ==
  ASSUME NEW surface \in Surfaces, NEW posterior \in Posteriors,
         Len(posterior.weights) = surface.states
  PROVE  Ahead(LossesOf(surface, posterior), surface.actions, Scan(surface, posterior))
<1> DEFINE m == surface.actions
           loss == LossesOf(surface, posterior)
           Step == [p \in (1 .. m) \X PassStates |-> Seen(p[2], p[1] - 1, loss[p[1] - 1])]
           Body(g) == [n \in 0 .. m |->
                         IF n = 0 THEN [best |-> -1, action |-> 0, second |-> -1, other |-> 0]
                         ELSE Seen(g[n - 1], n - 1, ExpectedLoss(surface, posterior, n - 1))]
<1>1. m \in Nat \ {0}
  BY AdaptiveAssumption
<1>2. loss \in [0 .. m - 1 -> Nat]
      /\ \A n \in 1 .. m : n - 1 \in 0 .. m - 1 /\ loss[n - 1] = ExpectedLoss(surface, posterior, n - 1)
  <2>1. \A n \in 1 .. m : n - 1 \in 0 .. m - 1
    BY <1>1
  <2>2. \A k \in 0 .. m - 1 : ExpectedLoss(surface, posterior, k) \in Nat
    BY LossIsNat
  <2> QED
    BY <2>1, <2>2 DEF LossesOf
<1> HIDE DEF loss
<1>3. NothingSeen \in PassStates
  BY DEF NothingSeen, PassStates
<1>4. Step \in Stepping(m, PassStates)
  <2>1. ASSUME NEW n \in 1 .. m, NEW x \in PassStates
        PROVE  Seen(x, n - 1, loss[n - 1]) \in PassStates
    <3>1. PICK l \in Nat : l = loss[n - 1]
      BY <1>1, <1>2
    <3>2. PICK k \in Nat : k = n - 1
      BY <1>1
    <3>3. PICK p \in Nat \cup {-1}, q \in Nat, r \in Nat \cup {-1}, s \in Nat :
            x = [best |-> p, action |-> q, second |-> r, other |-> s]
      BY DEF PassStates
    <3>4. PICK new : new = [x EXCEPT !.second = l, !.other = k]
      OBVIOUS
    <3>5. new \in PassStates
      <4>1. new = [best |-> p, action |-> q, second |-> l, other |-> k]
        BY <3>3, <3>4
      <4> QED
        BY <3>1, <3>2, <3>3, <4>1 DEF PassStates
    <3>6. [best |-> l, action |-> k, second |-> x.best, other |-> x.action] \in PassStates
      BY <3>1, <3>2, <3>3 DEF PassStates
    <3> QED
      BY <3>1, <3>2, <3>4, <3>5, <3>6 DEF Seen
  <2> QED
    BY <2>1 DEF Stepping
<1>5. PICK f : Recurs(f, m, PassStates, NothingSeen, Step)
  <2> HIDE DEF m, Step
  <2> QED
    BY <1>1, <1>3, <1>4, RecursionExists
<1>6. /\ f \in [0 .. m -> PassStates] /\ f[0] = NothingSeen
      /\ \A n \in 1 .. m : f[n] = Step[<<n, f[n - 1]>>]
  BY <1>5 DEF Recurs
<1>7. ASSUME NEW n \in 1 .. m
      PROVE  f[n] = Seen(f[n - 1], n - 1, ExpectedLoss(surface, posterior, n - 1))
  <2>1. n - 1 \in 0 .. m
    BY <1>1
  <2>2. f[n - 1] \in PassStates
    BY <1>6, <2>1
  <2> QED
    BY <1>2, <1>6, <2>2
<1>8. f = Body(f)
  <2> HIDE DEF m
  <2>1. f = [n \in 0 .. m |-> f[n]]
    BY <1>6
  <2>2. ASSUME NEW n \in 0 .. m
        PROVE  f[n] = IF n = 0 THEN [best |-> -1, action |-> 0, second |-> -1, other |-> 0]
                      ELSE Seen(f[n - 1], n - 1, ExpectedLoss(surface, posterior, n - 1))
    <3>1. CASE n = 0
      BY <1>6, <3>1 DEF NothingSeen
    <3>2. CASE n # 0
      <4>1. n \in 1 .. m
        BY <1>1, <3>2
      <4> QED
        BY <1>7, <3>2, <4>1
    <3> QED
      BY <3>1, <3>2
  <2> QED
    BY <2>1, <2>2, Zenon
<1>9. PICK P : P = Body(P) /\ Scan(surface, posterior) = P[m]
  <2> DEFINE Q == CHOOSE g : g = Body(g)
  <2>1. Q = Body(Q)
    <3> HIDE DEF Body
    <3> QED
      BY <1>8
  <2>2. Scan(surface, posterior) = Q[m]
    BY DEF Scan
  <2> HIDE DEF Q, Body
  <2> QED
    BY <2>1, <2>2
<1>10. /\ P[0] = NothingSeen
       /\ \A n \in 1 .. m : P[n] = Seen(P[n - 1], n - 1, loss[n - 1])
  <2>1. 0 \in 0 .. m /\ \A n \in 1 .. m : n \in 0 .. m /\ n # 0
    BY <1>1
  <2> QED
    BY <1>2, <1>9, <2>1 DEF NothingSeen
<1> DEFINE Good == {n \in 0 .. m : Ahead(loss, n, P[n])}
<1>11. 0 .. m \subseteq Good
  <2>1. 0 \in Good
    BY <1>1, <1>3, <1>10 DEF Ahead
  <2>2. ASSUME NEW n \in 1 .. m, n - 1 \in Good
        PROVE  n \in Good
    <3>1. PICK k \in 0 .. m - 1 : k = n - 1 /\ k + 1 = n
      BY <1>1
    <3>2. Ahead(loss, k, P[k])
      BY <2>2, <3>1
    <3>3. Ahead(loss, k + 1, Seen(P[k], k, loss[k]))
      <4> HIDE DEF m
      <4> QED
        BY <1>1, <1>2, <3>2, SeenAhead
    <3>4. P[n] = Seen(P[k], k, loss[k]) /\ n \in 0 .. m
      BY <1>1, <1>10, <3>1
    <3> QED
      BY <3>1, <3>3, <3>4
  <2> HIDE DEF Good, m
  <2> QED
    BY <1>1, <2>1, <2>2, InductionUpTo
<1>12. m \in 0 .. m
  BY <1>1
<1> QED
  BY <1>9, <1>11, <1>12 DEF loss

\* The best is the first of the least.
LEMMA BestIs ==
  ASSUME NEW surface \in Surfaces, NEW posterior \in Posteriors,
         Len(posterior.weights) = surface.states,
         NEW S, S \subseteq 0 .. surface.actions - 1,
         NEW a, IsFirst(LossesOf(surface, posterior), S, a)
  PROVE  Best(surface, posterior, S) = a
<1> DEFINE L(x) == ExpectedLoss(surface, posterior, x)
           Better(x) == x \in S /\ \A b \in S : L(x) < L(b) \/ (L(x) = L(b) /\ x <= b)
           w == CHOOSE x : Better(x)
<1>1. \A x \in S : LossesOf(surface, posterior)[x] = L(x) /\ L(x) \in Nat /\ x \in Int
  BY LossIsNat DEF LossesOf
<1>2. Better(a)
  BY <1>1 DEF IsFirst
<1>3. Best(surface, posterior, S) = w
  BY DEF Best
<1>4. Better(w)
  <2> HIDE DEF Better
  <2> QED
    BY <1>2
<1> HIDE DEF w, L
<1>5. w \in S /\ a \in S /\ (L(w) < L(a) \/ (L(w) = L(a) /\ w <= a))
      /\ (L(a) < L(w) \/ (L(a) = L(w) /\ a <= w))
  BY <1>2, <1>4
<1>6. w \in Int /\ a \in Int /\ L(w) \in Nat /\ L(a) \in Nat
  BY <1>1, <1>5
<1> QED
  BY <1>3, <1>5, <1>6

----------------------------------------------------------------------------
(* Adaptive decisions: the ledger and its inductive invariant *)

ReportedLosses == {x % LossMod : x \in Nat \cup {-1}} \cup {0}
Decisions ==
  [selected : Nat, loss : ReportedLosses, counterfactual : Nat, cfLoss : ReportedLosses,
   fallback : BOOLEAN]
DecisionEntries == [sequence : Nat, decision : Decisions]
AdaptiveRecord ==
  [threshold : Nat, budget : Nat, seq : Nat, fallbacks : Nat, inFallback : BOOLEAN,
   ledger : [DecisionSlots -> DecisionEntries], written : Nat]
DecisionCalls ==
  [surface : Surfaces, posterior : Posteriors, decision : Decisions, budget : Nat, threshold : Nat]

\* What AdaptiveExplained says of the n-th decision.
OnMerits(call) ==
  LET actions == 0 .. call.surface.actions - 1
      best == Best(call.surface, call.posterior, actions)
  IN  /\ call.decision.selected = best
      /\ call.surface.actions > 1 =>
           ExpectedLoss(call.surface, call.posterior, call.decision.counterfactual)
             = ExpectedLoss(call.surface, call.posterior,
                            Best(call.surface, call.posterior, actions \ {best}))
Justified(call, n) ==
  /\ call.decision.fallback <=>
       call.posterior.confidence < call.threshold \/ call.budget \in 1 .. n - 1
  /\ IF call.decision.fallback THEN call.decision.selected = call.surface.fallback ELSE OnMerits(call)

FallbacksOf(s) == {n \in DOMAIN s : s[n].decision.fallback}

\* The latest decisions are in the cells of their numbers.
LatestIn(ledger, s) ==
  \A n \in 1 .. Len(s) : n + AdaptiveDepth > Len(s) =>
    ledger[(n - 1) % AdaptiveDepth] = [sequence |-> n - 1, decision |-> s[n].decision]

AdaptiveInv ==
  /\ adaptive \in AdaptiveRecord /\ decided \in Seq(DecisionCalls)
  /\ adaptive.seq = Len(decided) /\ adaptive.written = Len(decided)
  /\ adaptive.fallbacks = Cardinality(FallbacksOf(decided))
  /\ \A n \in 1 .. Len(decided) : Justified(decided[n], n)
  /\ LatestIn(adaptive.ledger, decided)

LEMMA AdaptiveRunsAlone == SupportSpec => AdaptiveSpec
<1>1. SupportInit => AdaptiveInit
  BY DEF SupportInit
<1>2. [SupportNext]_SupportVars => [AdaptiveNext]_adaptiveVars
  BY DEF SupportNext, SupportVars, Rest
<1> QED
  BY <1>1, <1>2, PTL DEF SupportSpec, AdaptiveSpec

\* A new ledger.
LEMMA AdaptiveFresh ==
  ASSUME NEW a, a = FreshAdaptive
  PROVE  /\ a \in AdaptiveRecord /\ a.seq = 0 /\ a.written = 0
         /\ a.fallbacks = 0 /\ FallbacksOf(<<>>) = {} /\ LatestIn(a.ledger, <<>>)
<1>1. 0 \in ReportedLosses
  BY DEF ReportedLosses
<1>2. NoDecision \in Decisions
  BY <1>1 DEF NoDecision, Decisions
<1>3. [sequence |-> 0, decision |-> NoDecision] \in DecisionEntries
  BY <1>2 DEF DecisionEntries
<1>4. PICK l : l = [k \in DecisionSlots |-> [sequence |-> 0, decision |-> NoDecision]]
  OBVIOUS
<1>5. l \in [DecisionSlots -> DecisionEntries]
  BY <1>3, <1>4
<1>6. a = [threshold |-> 0, budget |-> 0, seq |-> 0, fallbacks |-> 0, inFallback |-> FALSE,
           ledger |-> l, written |-> 0]
  BY <1>4 DEF FreshAdaptive
<1>7. a \in AdaptiveRecord
  BY <1>5, <1>6 DEF AdaptiveRecord
<1>8. LatestIn(a.ledger, <<>>)
  BY DEF LatestIn
<1> QED
  BY <1>6, <1>7, <1>8 DEF FallbacksOf

\* The decision for a posterior over the states of its surface.
LEMMA DecisionIs ==
  ASSUME AdaptiveInv, NEW surface \in Surfaces, NEW posterior \in Posteriors,
         Len(posterior.weights) = surface.states,
         NEW call, call = [surface |-> surface, posterior |-> posterior,
                           decision |-> DecisionFor(surface, posterior),
                           budget |-> adaptive.budget, threshold |-> adaptive.threshold]
  PROVE  call \in DecisionCalls /\ Justified(call, Len(decided) + 1)
<1> DEFINE m == surface.actions
           loss == LossesOf(surface, posterior)
<1>1. PICK scan : scan = Scan(surface, posterior)
  OBVIOUS
<1>2. PICK d : d = DecisionFor(surface, posterior)
  OBVIOUS
<1>3. /\ call.surface = surface /\ call.posterior = posterior /\ call.decision = d
      /\ call.budget = adaptive.budget /\ call.threshold = adaptive.threshold
  BY <1>2
<1>4. Ahead(loss, m, scan) /\ m \in Nat \ {0}
  BY <1>1, ScanAhead, AdaptiveAssumption
<1>5. scan.best \in Nat \cup {-1} /\ scan.second \in Nat \cup {-1} /\ scan.action \in Nat /\ scan.other \in Nat
  BY <1>4 DEF Ahead, PassStates
<1>6. surface.fallback \in Nat /\ posterior.confidence \in Nat
  BY AdaptiveAssumption
<1>7. adaptive.threshold \in Nat /\ adaptive.budget \in Nat /\ adaptive.seq = Len(decided)
      /\ Len(decided) \in Nat
  BY DEF AdaptiveInv, AdaptiveRecord
<1>8. FallsBack(posterior) <=>
        call.posterior.confidence < call.threshold \/ call.budget \in 1 .. (Len(decided) + 1) - 1
  BY <1>3, <1>6, <1>7 DEF FallsBack
<1>9. CASE FallsBack(posterior)
  <2>1. d = [NoDecision EXCEPT !.selected = surface.fallback, !.counterfactual = surface.fallback,
                               !.fallback = TRUE]
    BY <1>2, <1>9 DEF DecisionFor
  <2>2. d = [selected |-> surface.fallback, loss |-> 0, counterfactual |-> surface.fallback,
             cfLoss |-> 0, fallback |-> TRUE]
    BY <2>1 DEF NoDecision
  <2>3. d \in Decisions /\ d.fallback = TRUE /\ d.selected = surface.fallback
    BY <1>6, <2>2 DEF Decisions, ReportedLosses
  <2>4. call \in DecisionCalls
    BY <1>2, <1>7, <2>3 DEF DecisionCalls
  <2>5. Justified(call, Len(decided) + 1)
    BY <1>3, <1>8, <1>9, <2>3 DEF Justified
  <2> QED
    BY <2>4, <2>5
<1>10. CASE ~FallsBack(posterior)
  <2>1. d = [selected |-> scan.action, loss |-> scan.best % LossMod, counterfactual |-> scan.other,
             cfLoss |-> scan.second % LossMod, fallback |-> FALSE]
    BY <1>1, <1>2, <1>10 DEF DecisionFor
  <2>2. PICK x, y : x = scan.best % LossMod /\ y = scan.second % LossMod
    OBVIOUS
  <2>3. x \in ReportedLosses /\ y \in ReportedLosses
    BY <1>5, <2>2 DEF ReportedLosses
  <2>4. d = [selected |-> scan.action, loss |-> x, counterfactual |-> scan.other, cfLoss |-> y,
             fallback |-> FALSE]
    BY <2>1, <2>2, Zenon
  <2>5. d \in Decisions /\ d.fallback = FALSE /\ d.selected = scan.action /\ d.counterfactual = scan.other
    BY <1>5, <2>3, <2>4 DEF Decisions
  <2>6. call \in DecisionCalls
    BY <1>2, <1>7, <2>5 DEF DecisionCalls
  <2>7. IsFirst(loss, 0 .. m - 1, scan.action)
    BY <1>4 DEF Ahead
  <2>8. Best(surface, posterior, 0 .. m - 1) = scan.action
    BY <2>7, BestIs
  <2>9. m > 1 => Best(surface, posterior, (0 .. m - 1) \ {scan.action}) = scan.other
    <3> SUFFICES ASSUME m > 1
                 PROVE  Best(surface, posterior, (0 .. m - 1) \ {scan.action}) = scan.other
      OBVIOUS
    <3>1. IsFirst(loss, (0 .. m - 1) \ {scan.action}, scan.other)
      BY <1>4 DEF Ahead
    <3>2. (0 .. m - 1) \ {scan.action} \subseteq 0 .. m - 1
      OBVIOUS
    <3> QED
      BY <3>1, <3>2, BestIs
  <2>10. OnMerits(call)
    BY <1>3, <2>5, <2>8, <2>9 DEF OnMerits
  <2>11. Justified(call, Len(decided) + 1)
    BY <1>3, <1>8, <1>10, <2>5, <2>10 DEF Justified
  <2> QED
    BY <2>6, <2>11
<1> QED
  BY <1>9, <1>10

\* One decision more.
LEMMA DecideKeeps ==
  ASSUME AdaptiveInv, NEW surface \in Surfaces, NEW posterior \in Posteriors,
         Decide(surface, posterior)
  PROVE  AdaptiveInv'
<1>1. PICK d : d = DecisionFor(surface, posterior)
  OBVIOUS
<1>2. PICK call : call = [surface |-> surface, posterior |-> posterior, decision |-> d,
                          budget |-> adaptive.budget, threshold |-> adaptive.threshold]
  OBVIOUS
<1>3. PICK s, a, l : s = decided /\ a = adaptive /\ l = a.ledger
  OBVIOUS
<1>4. PICK len \in Nat : len = Len(s)
  BY <1>3 DEF AdaptiveInv
<1>5. AdaptiveDepth \in Nat \ {0}
  BY AdaptiveAssumption
<1>6. PICK c \in DecisionSlots : c = len % AdaptiveDepth
  BY <1>4, <1>5 DEF DecisionSlots
<1>7. PICK e : e = [sequence |-> len, decision |-> d]
  OBVIOUS
<1>8. /\ a \in AdaptiveRecord /\ s \in Seq(DecisionCalls) /\ l \in [DecisionSlots -> DecisionEntries]
      /\ a.seq = len /\ a.written = len /\ a.fallbacks \in Nat
      /\ a.fallbacks = Cardinality(FallbacksOf(s))
      /\ \A n \in 1 .. len : Justified(s[n], n)
      /\ LatestIn(l, s)
  BY <1>3, <1>4 DEF AdaptiveInv, AdaptiveRecord
<1>9. call \in DecisionCalls /\ Justified(call, len + 1) /\ call.decision = d
  <2>1. Len(posterior.weights) = surface.states
    BY DEF Decide
  <2> QED
    BY <1>1, <1>2, <1>3, <1>4, <2>1, DecisionIs
<1>10. d \in Decisions
  BY <1>9 DEF DecisionCalls
<1>11. d.fallback \in BOOLEAN
  BY <1>10 DEF Decisions
<1>12. e \in DecisionEntries
  BY <1>7, <1>10 DEF DecisionEntries
<1>13. PICK t : t = Append(s, call)
  OBVIOUS
<1>14. t \in Seq(DecisionCalls) /\ Len(t) = len + 1 /\ t[len + 1] = call /\ \A n \in 1 .. len : t[n] = s[n]
  <2>1. /\ Append(s, call) \in Seq(DecisionCalls) /\ Len(Append(s, call)) = Len(s) + 1
        /\ Append(s, call)[Len(s) + 1] = call /\ \A n \in 1 .. Len(s) : Append(s, call)[n] = s[n]
    BY <1>8, <1>9, AppendProperties
  <2> QED
    BY <1>4, <1>13, <2>1
<1>15. PICK v : v = [l EXCEPT ![c] = e]
  OBVIOUS
<1>16. v \in [DecisionSlots -> DecisionEntries] /\ v[c] = e /\ \A k \in DecisionSlots : k # c => v[k] = l[k]
  BY <1>8, <1>12, <1>15
<1>17. PICK f : f = IF d.fallback THEN a.fallbacks + 1 ELSE a.fallbacks
  OBVIOUS
<1>18. f \in Nat
  BY <1>8, <1>17
<1>19. decided' = t
  BY <1>1, <1>2, <1>3, <1>13 DEF Decide
<1>20. adaptive' = [a EXCEPT !.inFallback = d.fallback, !.fallbacks = f, !.ledger = v,
                             !.written = len + 1, !.seq = len + 1]
  <2>1. adaptive' = [a EXCEPT !.inFallback = d.fallback,
                       !.fallbacks = IF d.fallback THEN @ + 1 ELSE @,
                       !.ledger[a.written % AdaptiveDepth] = [sequence |-> a.seq, decision |-> d],
                       !.written = @ + 1, !.seq = @ + 1]
    BY <1>1, <1>3 DEF Decide
  <2>2. adaptive' = [a EXCEPT !.inFallback = d.fallback,
                       !.fallbacks = IF d.fallback THEN a.fallbacks + 1 ELSE a.fallbacks,
                       !.ledger = [a.ledger EXCEPT ![a.written % AdaptiveDepth] =
                                     [sequence |-> a.seq, decision |-> d]],
                       !.written = a.written + 1, !.seq = a.seq + 1]
    BY <1>8, <2>1 DEF AdaptiveRecord
  <2> QED
    BY <1>3, <1>6, <1>7, <1>8, <1>15, <1>17, <2>2
<1>21. PICK b : b = adaptive'
  OBVIOUS
<1>22. /\ b \in AdaptiveRecord
       /\ b.seq = len + 1 /\ b.written = len + 1 /\ b.fallbacks = f /\ b.ledger = v
  <2>1. b = [threshold |-> a.threshold, budget |-> a.budget, seq |-> len + 1, fallbacks |-> f,
             inFallback |-> d.fallback, ledger |-> v, written |-> len + 1]
    BY <1>8, <1>20, <1>21 DEF AdaptiveRecord
  <2>2. a.threshold \in Nat /\ a.budget \in Nat
    BY <1>8 DEF AdaptiveRecord
  <2> QED
    BY <1>4, <1>11, <1>16, <1>18, <2>1, <2>2 DEF AdaptiveRecord
<1>23. f = Cardinality(FallbacksOf(t))
  <2>1. DOMAIN s = 1 .. len /\ DOMAIN t = 1 .. len + 1
    BY <1>4, <1>8, <1>14
  <2>2. FallbacksOf(t) = IF d.fallback THEN FallbacksOf(s) \cup {len + 1} ELSE FallbacksOf(s)
    <3>1. \A n \in 1 .. len + 1 : n \in 1 .. len \/ n = len + 1
      OBVIOUS
    <3>2. len + 1 \in 1 .. len + 1 /\ \A n \in 1 .. len : n \in 1 .. len + 1
      OBVIOUS
    <3> QED
      BY <1>9, <1>14, <2>1, <3>1, <3>2 DEF FallbacksOf
  <2>3. IsFiniteSet(FallbacksOf(s)) /\ len + 1 \notin FallbacksOf(s)
    <3>1. IsFiniteSet(1 .. len)
      BY FS_Interval
    <3>2. FallbacksOf(s) \subseteq 1 .. len
      BY <2>1 DEF FallbacksOf
    <3>3. len + 1 \notin 1 .. len
      OBVIOUS
    <3> QED
      BY <3>1, <3>2, <3>3, FS_Subset
  <2>4. Cardinality(FallbacksOf(s) \cup {len + 1}) = Cardinality(FallbacksOf(s)) + 1
    BY <2>3, FS_AddElement
  <2> QED
    BY <1>8, <1>17, <2>2, <2>4
<1>24. \A n \in 1 .. len + 1 : Justified(t[n], n)
  <2>1. \A n \in 1 .. len + 1 : n \in 1 .. len \/ n = len + 1
    OBVIOUS
  <2> QED
    BY <1>8, <1>9, <1>14, <2>1
<1>25. LatestIn(v, t)
  <2>1. ASSUME NEW n \in 1 .. len + 1, n + AdaptiveDepth > len + 1
        PROVE  v[(n - 1) % AdaptiveDepth] = [sequence |-> n - 1, decision |-> t[n].decision]
    <3>1. PICK p \in Nat : p = n - 1
      OBVIOUS
    <3>2. CASE n = len + 1
      <4>1. p = len /\ t[n] = call
        BY <1>14, <3>1, <3>2
      <4> QED
        BY <1>6, <1>7, <1>9, <1>16, <3>1, <4>1
    <3>3. CASE n # len + 1
      <4>1. n \in 1 .. len /\ n + AdaptiveDepth > len /\ p < len /\ len < p + AdaptiveDepth
        BY <1>5, <2>1, <3>1, <3>3
      <4>2. l[p % AdaptiveDepth] = [sequence |-> p, decision |-> s[n].decision]
        BY <1>4, <1>8, <3>1, <4>1 DEF LatestIn
      <4>3. PICK k \in DecisionSlots : k = p % AdaptiveDepth
        BY <1>5 DEF DecisionSlots
      <4>4. k # c
        BY <1>5, <1>6, <4>1, <4>3, LapApart
      <4>5. v[k] = l[k] /\ t[n] = s[n]
        BY <1>14, <1>16, <4>1, <4>4
      <4> QED
        BY <3>1, <4>2, <4>3, <4>5
    <3> QED
      BY <3>2, <3>3
  <2> QED
    BY <1>14, <2>1 DEF LatestIn
<1>26. /\ b \in AdaptiveRecord /\ t \in Seq(DecisionCalls)
       /\ b.seq = Len(t) /\ b.written = Len(t)
       /\ b.fallbacks = Cardinality(FallbacksOf(t))
       /\ \A n \in 1 .. Len(t) : Justified(t[n], n)
       /\ LatestIn(b.ledger, t)
  BY <1>14, <1>22, <1>23, <1>24, <1>25
<1> QED
  BY <1>19, <1>21, <1>26 DEF AdaptiveInv

LEMMA AdaptiveStarts ==
  ASSUME NEW a, NEW s, a = FreshAdaptive, s = <<>>
  PROVE  /\ a \in AdaptiveRecord /\ s \in Seq(DecisionCalls)
         /\ a.seq = Len(s) /\ a.written = Len(s)
         /\ a.fallbacks = Cardinality(FallbacksOf(s))
         /\ \A n \in 1 .. Len(s) : Justified(s[n], n)
         /\ LatestIn(a.ledger, s)
<1>1. Cardinality({}) = 0
  BY FS_EmptySet
<1>2. s \in Seq(DecisionCalls) /\ Len(s) = 0
  OBVIOUS
<1>3. \A n \in 1 .. Len(s) : FALSE
  BY <1>2
<1> QED
  BY <1>1, <1>2, <1>3, AdaptiveFresh

LEMMA AdaptiveSteps == AdaptiveInv /\ [AdaptiveNext]_adaptiveVars => AdaptiveInv'
<1> SUFFICES ASSUME AdaptiveInv, [AdaptiveNext]_adaptiveVars
             PROVE  AdaptiveInv'
  OBVIOUS
<1>1. CASE AdaptiveReset
  <2>1. PICK a, s : a = adaptive' /\ s = decided'
    OBVIOUS
  <2>2. a = FreshAdaptive /\ s = <<>>
    BY <1>1, <2>1 DEF AdaptiveReset
  <2> QED
    BY <2>1, <2>2, AdaptiveStarts DEF AdaptiveInv
<1>2. ASSUME NEW chosen \in Policies, SetDecisionPolicy(chosen)
      PROVE  AdaptiveInv'
  <2>1. chosen.threshold \in Nat /\ chosen.budget \in Nat
    BY AdaptiveAssumption
  <2>2. PICK a, b : a = adaptive /\ b = adaptive'
    OBVIOUS
  <2>3. b = [a EXCEPT !.threshold = chosen.threshold, !.budget = chosen.budget]
    BY <1>2, <2>2 DEF SetDecisionPolicy
  <2>4. a \in AdaptiveRecord
    BY <2>2 DEF AdaptiveInv
  <2>5. /\ b \in AdaptiveRecord /\ b.seq = a.seq /\ b.written = a.written
        /\ b.fallbacks = a.fallbacks /\ b.ledger = a.ledger
    BY <2>1, <2>3, <2>4 DEF AdaptiveRecord
  <2>6. decided' = decided
    BY <1>2 DEF SetDecisionPolicy
  <2> QED
    BY <2>2, <2>5, <2>6 DEF AdaptiveInv
<1>3. CASE UNCHANGED adaptiveVars
  BY <1>3 DEF adaptiveVars, AdaptiveInv
<1> QED
  BY <1>1, <1>2, <1>3, DecideKeeps DEF AdaptiveNext

\* Read from its first index, the ledger gives the latest decisions with their reasons.
LEMMA AdaptiveReads == AdaptiveInv => AdaptiveExplained
<1> SUFFICES ASSUME AdaptiveInv
             PROVE  AdaptiveExplained
  OBVIOUS
<1>1. PICK s, l, w : w \in Nat /\ s = decided /\ l = adaptive.ledger /\ w = adaptive.written
  BY DEF AdaptiveInv, AdaptiveRecord
<1>2. PICK D \in Nat \ {0} : D = AdaptiveDepth
  BY AdaptiveAssumption
<1>3. /\ w = Len(s) /\ s \in Seq(DecisionCalls)
      /\ \A n \in 1 .. w : Justified(s[n], n)
      /\ \A n \in 1 .. w : n + D > w => l[(n - 1) % D] = [sequence |-> n - 1, decision |-> s[n].decision]
  BY <1>1, <1>2 DEF AdaptiveInv, LatestIn
<1>4. PICK R \in Nat : R = ReadableDecisions /\ R = Least(w, D)
  BY <1>1, <1>2, MinOfTwo DEF ReadableDecisions, Least
<1>5. adaptive.fallbacks = Cardinality({n \in DOMAIN decided : decided[n].decision.fallback})
  BY DEF AdaptiveInv, FallbacksOf
<1>6. ASSUME NEW k \in 1 .. R
      PROVE  LET n == w - R + k
             IN  Justified(s[n], n) /\ DecisionGet(k - 1) = [sequence |-> n - 1, decision |-> s[n].decision]
  <2>1. PICK n \in 1 .. w : n = w - R + k
    <3>1. w - R + k \in 1 .. w
      BY <1>1, <1>4 DEF Least
    <3> QED
      BY <3>1
  <2>2. n + D > w
    BY <1>1, <1>4, <2>1 DEF Least
  <2>3. PICK p \in Nat : p = n - 1
    OBVIOUS
  <2>4. DecisionGet(k - 1) = l[((IF w <= D THEN 0 ELSE w) + (k - 1)) % D]
    BY <1>1, <1>2 DEF DecisionGet
  <2>5. PICK j : j = (IF w <= D THEN 0 ELSE w) + (k - 1)
    OBVIOUS
  <2>6. DecisionGet(k - 1) = l[p % D]
    <3>1. CASE w <= D
      <4>1. j = p
        BY <1>1, <1>4, <2>1, <2>3, <2>5, <3>1 DEF Least
      <4> QED
        BY <2>4, <2>5, <4>1
    <3>2. CASE w > D
      <4>1. w + (k - 1) = p + D /\ ~(w <= D)
        BY <1>1, <1>4, <2>1, <2>3, <3>2 DEF Least
      <4>2. j = p + D
        BY <2>5, <4>1
      <4>3. (p + D) % D = p % D
        BY AddLap
      <4> QED
        BY <2>4, <2>5, <4>2, <4>3
    <3> QED
      BY <1>1, <3>1, <3>2
  <2> QED
    BY <1>3, <2>1, <2>2, <2>3, <2>6
<1>7. ASSUME NEW k \in 1 .. ReadableDecisions
      PROVE  LET n == Len(decided) - ReadableDecisions + k
                 call == decided[n]
                 entry == DecisionGet(k - 1)
                 actions == 0 .. call.surface.actions - 1
                 best == Best(call.surface, call.posterior, actions)
             IN  /\ entry = [sequence |-> n - 1, decision |-> call.decision]
                 /\ entry.decision.fallback <=>
                      \/ call.posterior.confidence < call.threshold
                      \/ call.budget \in 1 .. n - 1
                 /\ IF entry.decision.fallback THEN entry.decision.selected = call.surface.fallback
                    ELSE /\ entry.decision.selected = best
                         /\ call.surface.actions > 1 =>
                              ExpectedLoss(call.surface, call.posterior, entry.decision.counterfactual)
                                = ExpectedLoss(call.surface, call.posterior,
                                               Best(call.surface, call.posterior, actions \ {best}))
  <2>1. PICK n : n = Len(decided) - ReadableDecisions + k
    OBVIOUS
  <2>2. PICK call : call = decided[n]
    OBVIOUS
  <2>3. PICK entry : entry = DecisionGet(k - 1)
    OBVIOUS
  <2>4. Justified(call, n) /\ entry = [sequence |-> n - 1, decision |-> call.decision]
    BY <1>1, <1>3, <1>4, <1>6, <2>1, <2>2, <2>3
  <2>5. entry.decision = call.decision
    BY <2>4
  <2> QED
    BY <2>1, <2>2, <2>3, <2>4, <2>5, Zenon DEF Justified, OnMerits
<1> QED
  BY <1>5, <1>7 DEF AdaptiveExplained

LEMMA AdaptiveKept == SupportSpec => []AdaptiveExplained
<1>1. AdaptiveInit => AdaptiveInv
  BY AdaptiveStarts DEF AdaptiveInit, AdaptiveInv
<1> QED
  BY <1>1, AdaptiveRunsAlone, AdaptiveSteps, AdaptiveReads, PTL DEF AdaptiveSpec

\* DecisionsExplained: where its CORE fallback rejects an adapter sees the overload and
\* rejects, makes the caller wait or evicts one or two tasks that are there for the one it
\* admits, the catalogue decides what its own check accepts, and the ledger of adaptive decisions names for each
\* of the latest the action of the least expected loss and the best of the others, or the
\* fallback when confidence or the budget had run out (adapter.c, overload_catalog.c,
\* adaptive.c).
THEOREM DecisionsAreExplained == SupportSpec => []DecisionsExplained
<1>1. AdaptiveExplained => DecisionsExplained
  BY OverloadIsAnswered DEF DecisionsExplained
<1> QED
  BY <1>1, AdaptiveKept, PTL

----------------------------------------------------------------------------
(* Fixtures: the names of the fields *)

LEMMA FieldNames ==
  Fields = {"scenario_id", "fixture_schema_version", "scenario_dsl_version", "profile", "codec",
            "seed", "input", "expected_events", "expected_final_snapshot", "expected_error_codes",
            "semantic_digest", "rust_baseline_commit", "rust_toolchain_commit_hash",
            "rust_toolchain_release", "rust_toolchain_host", "cargo_lock_sha256", "capture_run_id"}
BY DEF Fields, Range, BinOrder

LEMMA FieldFacts ==
  /\ RawFields \subseteq Fields /\ TextFields \subseteq Fields /\ "codec" \in Fields /\ "seed" \in Fields
  /\ \A k \in Fields : k \in RawFields \/ k \in TextFields \/ k = "codec" \/ k = "seed"
  /\ "codec" \notin RawFields /\ "seed" \notin RawFields
  /\ \A k \in TextFields : k \notin RawFields /\ k # "codec" /\ k # "seed"
  /\ "semantic_digest" \in TextFields /\ "fixture_schema_version" \in TextFields
  /\ "unknown" \notin Fields /\ "outside" \notin Fields
BY FieldNames DEF RawFields, TextFields

LEMMA JsonOrderFacts ==
  /\ Len(JsonOrder) = 17 /\ DOMAIN JsonOrder = 1 .. 17
  /\ \A n \in 1 .. 17 : JsonOrder[n] \in Fields
  /\ \A k \in Fields : \E n \in 1 .. 17 : JsonOrder[n] = k
  /\ \A i, j \in 1 .. 17 : JsonOrder[i] = JsonOrder[j] => i = j
<1>1. Len(JsonOrder) = 17 /\ DOMAIN JsonOrder = 1 .. 17
  BY DEF JsonOrder
<1>2. \A n \in 1 .. 17 : JsonOrder[n] \in Fields
  BY FieldNames DEF JsonOrder
<1>3. \A k \in Fields : \E n \in 1 .. 17 : JsonOrder[n] = k
  BY FieldNames DEF JsonOrder
<1>4. \A i, j \in 1 .. 17 : JsonOrder[i] = JsonOrder[j] => i = j
  BY DEF JsonOrder
<1> QED
  BY <1>1, <1>2, <1>3, <1>4

LEMMA BinOrderFacts ==
  /\ Len(BinOrder) = 17 /\ DOMAIN BinOrder = 1 .. 17
  /\ \A n \in 1 .. 17 : BinOrder[n] \in Fields
  /\ \A k \in Fields : \E n \in 1 .. 17 : BinOrder[n] = k
  /\ \A i, j \in 1 .. 17 : BinOrder[i] = BinOrder[j] => i = j
<1>1. Len(BinOrder) = 17 /\ DOMAIN BinOrder = 1 .. 17
  BY DEF BinOrder
<1>2. \A n \in 1 .. 17 : BinOrder[n] \in Fields
  BY FieldNames DEF BinOrder
<1>3. \A k \in Fields : \E n \in 1 .. 17 : BinOrder[n] = k
  BY FieldNames DEF BinOrder
<1>4. \A i, j \in 1 .. 17 : BinOrder[i] = BinOrder[j] => i = j
  BY DEF BinOrder
<1> QED
  BY <1>1, <1>2, <1>3, <1>4

LEMMA FieldCount == Cardinality(Fields) = 17
<1>1. IsFiniteSet(1 .. 17) /\ Cardinality(1 .. 17) = 17
  <2>1. PICK a \in Int, b \in Int : a = 1 /\ b = 17
    OBVIOUS
  <2>2. IsFiniteSet(a .. b) /\ Cardinality(a .. b) = IF a > b THEN 0 ELSE b - a + 1
    BY FS_Interval
  <2> QED
    BY <2>1, <2>2
<1>2. JsonOrder \in [1 .. 17 -> Fields]
  <2>1. JsonOrder = [n \in 1 .. 17 |-> JsonOrder[n]]
    BY DEF JsonOrder
  <2> QED
    BY <2>1, JsonOrderFacts
<1>3. JsonOrder \in Bijection(1 .. 17, Fields)
  BY <1>2, JsonOrderFacts DEF Bijection, Injection, Surjection, IsInjective
<1>4. ExistsBijection(1 .. 17, Fields)
  BY <1>3 DEF ExistsBijection
<1> QED
  BY <1>1, <1>4, FS_Bijection

----------------------------------------------------------------------------
(* Fixtures: what the codecs do to a fixture *)

LEMMA FixtureValue ==
  ASSUME NEW f, IsFixture(f), NEW k \in Fields
  PROVE  /\ f[k] = [is |-> f[k].is, form |-> f[k].form] /\ f[k].form # "nul"
BY DEF IsFixture, IsValue

\* A fixture after a round trip through JSON.
ThroughJson(f) == [k \in Fields |-> ReadJson(k, JsonValue(k, f[k]))]

\* One value after a round trip through JSON.
LEMMA ThroughJsonValue ==
  ASSUME NEW k, NEW v, v = [is |-> v.is, form |-> v.form], NEW w, w = ReadJson(k, JsonValue(k, v)),
         k \in TextFields => k \notin RawFields
  PROVE  /\ w = [is |-> v.is,
                 form |-> IF k \in RawFields THEN "tight"
                          ELSE IF k \in TextFields
                          THEN IF v.form \in {"control", "escaped"} THEN "question" ELSE v.form
                          ELSE v.form]
         /\ JsonValue(k, v) = [is |-> v.is,
                 form |-> IF k \in RawFields THEN "tight"
                          ELSE IF k \in TextFields /\ v.form = "control" THEN "escaped" ELSE v.form]
<1>1. PICK a, b : v = [is |-> a, form |-> b]
  OBVIOUS
<1>2. v.is = a /\ v.form = b
  BY <1>1
<1>3. PICK j : j = JsonValue(k, v)
  OBVIOUS
<1>4. CASE k \in RawFields
  <2>1. j = [v EXCEPT !.form = "tight"]
    BY <1>3, <1>4 DEF JsonValue, JsonRaw
  <2>2. j = [is |-> a, form |-> "tight"]
    BY <1>1, <2>1
  <2>3. w = j
    BY <1>3, <1>4, <2>2 DEF ReadJson, ReadRaw
  <2> QED
    BY <1>2, <1>3, <1>4, <2>2, <2>3
<1>5. CASE k \notin RawFields /\ k \in TextFields
  <2>1. j = IF b = "control" THEN [v EXCEPT !.form = "escaped"] ELSE v
    BY <1>2, <1>3, <1>5 DEF JsonValue, JsonText
  <2>2. j = [is |-> a, form |-> IF b = "control" THEN "escaped" ELSE b]
    BY <1>1, <2>1
  <2>3. j.form = IF b = "control" THEN "escaped" ELSE b
    BY <2>2
  <2>4. w = IF j.form = "escaped" THEN [j EXCEPT !.form = "question"] ELSE j
    BY <1>3, <1>5 DEF ReadJson, ReadText
  <2>5. CASE b \in {"control", "escaped"}
    <3>1. w = [j EXCEPT !.form = "question"]
      BY <2>3, <2>4, <2>5
    <3>2. w = [is |-> a, form |-> "question"]
      BY <2>2, <3>1
    <3> QED
      BY <1>2, <1>3, <1>5, <2>2, <2>5, <3>2
  <2>6. CASE b \notin {"control", "escaped"}
    BY <1>1, <1>2, <1>3, <1>5, <2>2, <2>3, <2>4, <2>6
  <2> QED
    BY <2>5, <2>6
<1>6. CASE k \notin RawFields /\ k \notin TextFields
  BY <1>1, <1>2, <1>3, <1>6 DEF JsonValue, ReadJson
<1> QED
  BY <1>4, <1>5, <1>6

LEMMA ThroughJsonFacts ==
  ASSUME NEW f, IsFixture(f), ValidFixture(f), NEW g, g = ThroughJson(f)
  PROVE  /\ IsFixture(g) /\ ValidFixture(g) /\ g["codec"] = f["codec"]
         /\ ThroughJson(g) = g
         /\ \A k \in Fields : LET v == JsonValue(k, f[k])
                              IN  /\ v.form # "nul" /\ (k \in RawFields => v.form # "broken")
                                  /\ (k = "seed" => v.form = "number") /\ (k = "codec" => v.is \in Codecs)
<1>1. ASSUME NEW k \in Fields
      PROVE  /\ g[k] = [is |-> f[k].is,
                        form |-> IF k \in RawFields THEN "tight"
                                 ELSE IF k \in TextFields
                                 THEN IF f[k].form \in {"control", "escaped"} THEN "question" ELSE f[k].form
                                 ELSE f[k].form]
             /\ JsonValue(k, f[k]) = [is |-> f[k].is,
                        form |-> IF k \in RawFields THEN "tight"
                                 ELSE IF k \in TextFields /\ f[k].form = "control" THEN "escaped"
                                 ELSE f[k].form]
  <2>1. PICK v : v = f[k]
    OBVIOUS
  <2>2. PICK w : w = ReadJson(k, JsonValue(k, v))
    OBVIOUS
  <2>3. v = [is |-> v.is, form |-> v.form] /\ (k \in TextFields => k \notin RawFields)
    BY <2>1, FixtureValue, FieldFacts
  <2>4. g[k] = w
    BY <2>1, <2>2 DEF ThroughJson
  <2> QED
    BY <2>1, <2>2, <2>3, <2>4, ThroughJsonValue
<1>2. ASSUME NEW k \in Fields
      PROVE  /\ g[k] = [is |-> g[k].is, form |-> g[k].form] /\ g[k].is = f[k].is
             /\ g[k].form # "nul"
             /\ (k \in RawFields => g[k].form = "tight")
             /\ (k \in TextFields /\ f[k].form # "empty" => g[k].form # "empty")
             /\ (k \in TextFields => g[k].form \notin {"control", "escaped"})
             /\ (k \in TextFields /\ f[k].form = "digest" => g[k].form = "digest")
             /\ (k \notin RawFields /\ k \notin TextFields => g[k].form = f[k].form)
  <2>1. PICK a, b : a = f[k].is /\ b = f[k].form
    OBVIOUS
  <2>2. b # "nul"
    BY <2>1, FixtureValue
  <2>3. k \in TextFields => k \notin RawFields
    BY FieldFacts
  <2>4. g[k].is = a /\ g[k].form = IF k \in RawFields THEN "tight"
                                   ELSE IF k \in TextFields
                                   THEN IF b \in {"control", "escaped"} THEN "question" ELSE b ELSE b
    <3>1. PICK x : x = IF k \in RawFields THEN "tight"
                       ELSE IF k \in TextFields
                       THEN IF b \in {"control", "escaped"} THEN "question" ELSE b ELSE b
      OBVIOUS
    <3>2. g[k] = [is |-> a, form |-> x]
      BY <1>1, <2>1, <3>1, Zenon
    <3> QED
      BY <3>1, <3>2
  <2>5. g[k] = [is |-> g[k].is, form |-> g[k].form]
    BY <1>1, <2>1, <2>4
  <2> QED
    BY <2>1, <2>2, <2>3, <2>4, <2>5
<1>3. g = [k \in Fields |-> g[k]]
  BY DEF ThroughJson
<1>4. f["seed"].form = "number" /\ "seed" \in Fields /\ "codec" \in Fields
  BY FieldFacts DEF IsFixture
<1>5. IsFixture(g)
  BY <1>2, <1>3, <1>4, FieldFacts DEF IsFixture, IsValue
<1>6. /\ \A k \in TextFields : f[k].form # "empty" /\ k \in Fields
      /\ f["codec"].is \in Codecs /\ f["semantic_digest"].form = "digest"
      /\ \A k \in RawFields : f[k].form \in WholeJson /\ k \in Fields
  BY FieldFacts DEF ValidFixture
<1>7. ValidFixture(g)
  <2>1. \A k \in TextFields : g[k].form # "empty"
    BY <1>2, <1>6
  <2>2. g["codec"].is \in Codecs
    BY <1>2, <1>4, <1>6
  <2>3. \A k \in RawFields : g[k].form \in WholeJson
    BY <1>2, <1>6 DEF WholeJson
  <2>4. g["semantic_digest"].form = "digest"
    BY <1>2, <1>6, FieldFacts
  <2> QED
    BY <2>1, <2>2, <2>3, <2>4 DEF ValidFixture
<1>8. g["codec"] = f["codec"]
  <2>1. g["codec"] = [is |-> f["codec"].is, form |-> f["codec"].form]
    <3>1. g["codec"].is = f["codec"].is /\ g["codec"].form = f["codec"].form
      BY <1>2, <1>4, FieldFacts
    <3>2. g["codec"] = [is |-> g["codec"].is, form |-> g["codec"].form]
      BY <1>2, <1>4
    <3> QED
      BY <3>1, <3>2
  <2> QED
    BY <1>4, <2>1, FixtureValue
<1>9. ThroughJson(g) = g
  <2>1. ASSUME NEW k \in Fields
        PROVE  ReadJson(k, JsonValue(k, g[k])) = g[k]
    <3>1. PICK v, w : v = g[k] /\ w = ReadJson(k, JsonValue(k, v))
      OBVIOUS
    <3>2. v = [is |-> v.is, form |-> v.form] /\ (k \in TextFields => k \notin RawFields)
      BY <1>2, <3>1, FieldFacts
    <3>3. w = [is |-> v.is,
               form |-> IF k \in RawFields THEN "tight"
                        ELSE IF k \in TextFields
                        THEN IF v.form \in {"control", "escaped"} THEN "question" ELSE v.form
                        ELSE v.form]
      BY <3>1, <3>2, ThroughJsonValue
    <3>4. w = [is |-> v.is, form |-> v.form]
      BY <1>2, <3>1, <3>3
    <3> QED
      BY <3>1, <3>2, <3>4
  <2> QED
    BY <1>3, <2>1 DEF ThroughJson
<1>10. ASSUME NEW k \in Fields
       PROVE  LET v == JsonValue(k, f[k])
              IN  /\ v.form # "nul" /\ (k \in RawFields => v.form # "broken")
                  /\ (k = "seed" => v.form = "number") /\ (k = "codec" => v.is \in Codecs)
  <2>1. PICK v, a, b : v = JsonValue(k, f[k]) /\ a = f[k].is /\ b = f[k].form
    OBVIOUS
  <2>2. v.is = a /\ v.form = IF k \in RawFields THEN "tight"
                             ELSE IF k \in TextFields /\ b = "control" THEN "escaped" ELSE b
    <3>1. PICK x : x = IF k \in RawFields THEN "tight"
                       ELSE IF k \in TextFields /\ b = "control" THEN "escaped" ELSE b
      OBVIOUS
    <3>2. v = [is |-> a, form |-> x]
      BY <1>1, <2>1, <3>1, Zenon
    <3> QED
      BY <3>1, <3>2
  <2>3. b # "nul"
    BY <2>1, FixtureValue
  <2>4. v.form # "nul" /\ (k \in RawFields => v.form # "broken")
    BY <2>2, <2>3
  <2>5. k = "seed" => v.form = "number"
    BY <1>4, <2>1, <2>2, FieldFacts
  <2>6. k = "codec" => v.is \in Codecs
    BY <1>6, <2>1, <2>2
  <2> QED
    BY <2>1, <2>4, <2>5, <2>6
<1> QED
  BY <1>5, <1>7, <1>8, <1>9, <1>10

----------------------------------------------------------------------------
(* Fixtures: JSON payloads *)

Origins(f) == {[key |-> k, value |-> JsonValue(k, f[k])] : k \in Fields}
JsonValuesOf(f) == {JsonValue(k, f[k]) : k \in Fields} \cup Damage
Strays(f) == {[key |-> "unknown", value |-> v] : v \in JsonValuesOf(f)}
AnyMembers(f) == {[key |-> k, value |-> v] : k \in Fields \cup {"unknown"}, v \in JsonValuesOf(f)}

\* What a decoder took a fixture from.
LEMMA TakenFrom ==
  ASSUME NEW doc, NEW S, doc.members \in Seq(S), NEW g \in DecodeJson(doc)
  PROVE  /\ g = [k \in Fields |-> ReadJson(k, MemberOf(doc, k).value)] /\ ValidFixture(g)
         /\ doc.closed /\ Len(doc.members) = 17
         /\ \A k \in Fields : MemberOf(doc, k) \in S /\ MemberOf(doc, k).key = k /\ Legible(MemberOf(doc, k))
         /\ \A n \in 1 .. Len(doc.members) : doc.members[n] \in S /\ doc.members[n].key \in Fields
<1> DEFINE ms == doc.members
           parsed == [k \in Fields |-> ReadJson(k, MemberOf(doc, k).value)]
<1>1. /\ doc.closed /\ Len(ms) = Cardinality(Fields)
      /\ {ms[n].key : n \in DOMAIN ms} = Fields
      /\ \A n \in DOMAIN ms : Legible(ms[n])
      /\ ValidFixture(parsed) /\ g = parsed
  <2> HIDE DEF parsed
  <2> QED
    BY DEF DecodeJson, parsed
<1>2. DOMAIN ms = 1 .. Len(ms) /\ \A n \in 1 .. Len(ms) : ms[n] \in S
  OBVIOUS
<1>3. ASSUME NEW k \in Fields
      PROVE  MemberOf(doc, k) \in S /\ MemberOf(doc, k).key = k /\ Legible(MemberOf(doc, k))
  <2>1. PICK n \in DOMAIN ms : ms[n].key = k
    BY <1>1
  <2>2. ms[n] \in Range(ms)
    BY DEF Range
  <2>3. MemberOf(doc, k) \in Range(ms) /\ MemberOf(doc, k).key = k
    BY <2>1, <2>2 DEF MemberOf
  <2>4. PICK i \in DOMAIN ms : MemberOf(doc, k) = ms[i]
    BY <2>3 DEF Range
  <2> QED
    BY <1>1, <1>2, <2>3, <2>4
<1> QED
  BY <1>1, <1>2, <1>3, FieldCount

\* A payload whose values are not damaged is taken for what it was written from.
LEMMA CleanJson ==
  ASSUME NEW f, NEW doc, doc.members \in Seq(Origins(f) \cup Strays(f)), NEW g \in DecodeJson(doc)
  PROVE  g = ThroughJson(f)
<1>1. /\ g = [k \in Fields |-> ReadJson(k, MemberOf(doc, k).value)]
      /\ \A k \in Fields : MemberOf(doc, k) \in Origins(f) \cup Strays(f) /\ MemberOf(doc, k).key = k
  BY TakenFrom
<1>2. ASSUME NEW k \in Fields
      PROVE  MemberOf(doc, k).value = JsonValue(k, f[k])
  <2>1. PICK m : m = MemberOf(doc, k)
    OBVIOUS
  <2>2. m \in Origins(f) \cup Strays(f) /\ m.key = k /\ k # "unknown"
    BY <1>1, <2>1, FieldFacts
  <2>3. m \notin Strays(f)
    BY <2>2 DEF Strays
  <2>4. PICK j \in Fields : m = [key |-> j, value |-> JsonValue(j, f[j])]
    BY <2>2, <2>3 DEF Origins
  <2> QED
    BY <2>1, <2>2, <2>4
<1> QED
  BY <1>1, <1>2 DEF ThroughJson

\* The payload of an encoder is taken.
LEMMA EncodedJson ==
  ASSUME NEW f, IsFixture(f), ValidFixture(f)
  PROVE  /\ EncodeJson(f).members \in Seq(Origins(f)) /\ EncodeJson(f).closed = TRUE
         /\ EncodeJson(f).codec = "json"
         /\ DecodeJson(EncodeJson(f)) = {ThroughJson(f)}
<1> DEFINE e == EncodeJson(f)
           ms == [n \in 1 .. 17 |-> [key |-> JsonOrder[n], value |-> JsonValue(JsonOrder[n], f[JsonOrder[n]])]]
<1>1. e = [codec |-> "json", closed |-> TRUE, members |-> ms]
  BY JsonOrderFacts DEF EncodeJson
<1> HIDE DEF e
<1>2. e.codec = "json" /\ e.closed = TRUE /\ e.members = ms
  <2> HIDE DEF ms
  <2> QED
    BY <1>1
<1>3. \A n \in 1 .. 17 : ms[n] = [key |-> JsonOrder[n], value |-> JsonValue(JsonOrder[n], f[JsonOrder[n]])]
  OBVIOUS
<1>4. \A n \in 1 .. 17 : ms[n] \in Origins(f)
  BY <1>3, JsonOrderFacts DEF Origins
<1>5. ms \in Seq(Origins(f)) /\ Len(ms) = 17 /\ DOMAIN ms = 1 .. 17
  <2>1. ms \in [1 .. 17 -> Origins(f)]
    BY <1>4
  <2> HIDE DEF ms
  <2>2. PICK n \in Nat : n = 17
    OBVIOUS
  <2>3. PICK T : T = Origins(f)
    OBVIOUS
  <2>4. ms \in [1 .. n -> T]
    BY <2>1, <2>2, <2>3
  <2>5. ms \in Seq(T) /\ Len(ms) = n /\ DOMAIN ms = 1 .. n
    BY <2>4
  <2> QED
    BY <2>2, <2>3, <2>5
<1> HIDE DEF ms
<1>6. {ms[n].key : n \in DOMAIN ms} = Fields
  <2>1. \A n \in 1 .. 17 : ms[n].key = JsonOrder[n]
    BY <1>3
  <2> QED
    BY <1>5, <2>1, JsonOrderFacts
<1>7. ASSUME NEW n \in 1 .. 17
      PROVE  Legible(ms[n])
  <2>1. PICK k \in Fields : k = JsonOrder[n]
    BY JsonOrderFacts
  <2>2. PICK v : v = JsonValue(k, f[k])
    OBVIOUS
  <2>3. ms[n] = [key |-> k, value |-> v]
    BY <1>3, <2>1, <2>2
  <2>4. /\ v.form # "nul" /\ (k \in RawFields => v.form # "broken")
        /\ (k = "seed" => v.form = "number") /\ (k = "codec" => v.is \in Codecs)
    BY <2>2, ThroughJsonFacts
  <2>5. ms[n].key = k /\ ms[n].value = v
    BY <2>3
  <2> QED
    BY <2>4, <2>5 DEF Legible
<1>8. \A k \in Fields : MemberOf(e, k).value = JsonValue(k, f[k])
  <2> SUFFICES ASSUME NEW k \in Fields
               PROVE  MemberOf(e, k).value = JsonValue(k, f[k])
    OBVIOUS
  <2>1. PICK n \in DOMAIN ms : ms[n].key = k
    BY <1>6
  <2>2. ms[n] \in Range(ms)
    BY DEF Range
  <2>3. MemberOf(e, k) \in Range(ms) /\ MemberOf(e, k).key = k
    BY <1>2, <2>1, <2>2 DEF MemberOf
  <2>4. PICK i \in 1 .. 17 : MemberOf(e, k) = ms[i]
    BY <1>5, <2>3 DEF Range
  <2> QED
    BY <1>3, <2>3, <2>4
<1>9. [k \in Fields |-> ReadJson(k, MemberOf(e, k).value)] = ThroughJson(f)
  BY <1>8 DEF ThroughJson
<1>10. ValidFixture(ThroughJson(f))
  BY ThroughJsonFacts
<1>11. DecodeJson(e) = {ThroughJson(f)}
  BY <1>2, <1>5, <1>6, <1>7, <1>9, <1>10, FieldCount DEF DecodeJson
<1> QED
  BY <1>2, <1>5, <1>11 DEF e

\* Whatever damage to a payload, what is taken from it is a fixture.
LEMMA JsonGivesFixture ==
  ASSUME NEW f, IsFixture(f), NEW doc, doc.members \in Seq(AnyMembers(f)), NEW g \in DecodeJson(doc)
  PROVE  IsFixture(g)
<1>1. /\ g = [k \in Fields |-> ReadJson(k, MemberOf(doc, k).value)]
      /\ \A k \in Fields : /\ MemberOf(doc, k) \in AnyMembers(f) /\ MemberOf(doc, k).key = k
                           /\ Legible(MemberOf(doc, k))
  BY TakenFrom
<1>2. ASSUME NEW k \in Fields
      PROVE  /\ g[k] = [is |-> g[k].is, form |-> g[k].form] /\ g[k].form # "nul"
             /\ (k = "seed" => g[k].form = "number")
  <2>1. PICK m : m = MemberOf(doc, k)
    OBVIOUS
  <2>2. m \in AnyMembers(f) /\ m.key = k /\ Legible(m)
    BY <1>1, <2>1
  <2>3. PICK v : v = m.value
    OBVIOUS
  <2>4. v \in JsonValuesOf(f) /\ v.form # "nul" /\ (k = "seed" => v.form = "number")
    BY <2>2, <2>3 DEF AnyMembers, Legible
  <2>5. v = [is |-> v.is, form |-> v.form]
    <3>1. CASE v \in Damage
      BY <3>1, CodecAssumption DEF IsValue
    <3>2. ASSUME NEW j \in Fields, v = JsonValue(j, f[j])
          PROVE  v = [is |-> v.is, form |-> v.form]
      <4>1. PICK x, y : x = f[j] /\ y = JsonValue(j, x)
        OBVIOUS
      <4>2. x = [is |-> x.is, form |-> x.form] /\ (j \in TextFields => j \notin RawFields)
        BY <4>1, FixtureValue, FieldFacts
      <4> DEFINE b == IF j \in RawFields THEN "tight"
                      ELSE IF j \in TextFields /\ x.form = "control" THEN "escaped" ELSE x.form
      <4>3. y = [is |-> x.is, form |-> b]
        BY <4>1, <4>2, ThroughJsonValue
      <4> HIDE DEF b
      <4> QED
        BY <3>2, <4>1, <4>3
    <3> QED
      BY <2>4, <3>1, <3>2 DEF JsonValuesOf
  <2>6. PICK a, b : v = [is |-> a, form |-> b]
    BY <2>5
  <2>7. PICK w : w = ReadJson(k, v)
    OBVIOUS
  <2>8. g[k] = w
    BY <1>1, <2>1, <2>3, <2>7
  <2>9. \/ w = [v EXCEPT !.form = "question"] /\ k \in TextFields
        \/ w = [v EXCEPT !.form = "tight"] /\ k \in RawFields
        \/ w = v
    BY <2>7 DEF ReadJson, ReadText, ReadRaw
  <2>10. /\ [v EXCEPT !.form = "question"] = [is |-> a, form |-> "question"]
         /\ [v EXCEPT !.form = "tight"] = [is |-> a, form |-> "tight"]
    BY <2>6
  <2>11. PICK c : /\ w = [is |-> a, form |-> c] /\ (c = "question" \/ c = "tight" \/ c = b)
                  /\ (k = "seed" => c = b)
    BY <2>6, <2>9, <2>10, FieldFacts
  <2> QED
    BY <2>4, <2>6, <2>8, <2>11
<1> QED
  BY <1>1, <1>2, FieldFacts DEF IsFixture, IsValue

----------------------------------------------------------------------------
(* Fixtures: BIN payloads *)

BinFieldsOf(f) ==
  [n \in 1 .. 17 |-> [tag |-> BinOrder[n], wire |-> WireOf(BinOrder[n]), value |-> f[BinOrder[n]]]]
BinValuesOf(f) == {f[k] : k \in Fields} \cup Damage
AnyBinFields(f) ==
  {[tag |-> k, wire |-> w, value |-> v] :
     k \in Fields \cup {"unknown", "outside"}, w \in {"varint", "bytes", "other"}, v \in BinValuesOf(f)}

\* What the checksum of f covers, and the footers of its frames, whatever their bytes read as.
SumOf(f) == <<"v1", TRUE, SizeOf(BinFieldsOf(f)), BinFieldsOf(f)>>
FooterOf(f, r) == [covers |-> SumOf(f), reads |-> r]
Footers(f) == {FooterOf(f, r) : r \in FooterReadings}

LEMMA SizeIsNat ==
  ASSUME NEW S, NEW s \in Seq(S)
  PROVE  SizeOf(s) \in Nat
<1> DEFINE whole == {n \in DOMAIN s : s[n].value.is \notin Abridged}
<1>1. Len(s) \in Nat /\ DOMAIN s = 1 .. Len(s)
  OBVIOUS
<1>2. IsFiniteSet(1 .. Len(s))
  BY <1>1, FS_Interval
<1>3. whole \subseteq 1 .. Len(s)
  BY <1>1
<1> HIDE DEF whole
<1>4. Cardinality(whole) \in Nat
  BY <1>2, <1>3, FS_Subset, FS_CardinalityType
<1>5. 4 * (Len(s) + Cardinality(whole)) \in Nat
  BY <1>1, <1>4
<1> QED
  BY <1>5 DEF SizeOf, whole

LEMMA FooterIsThere ==
  ASSUME NEW f, NEW r \in Footers(f)
  PROVE  r # NoFooter /\ r.covers = SumOf(f)
<1>1. PICK q \in FooterReadings : r = FooterOf(f, q)
  BY DEF Footers
<1>2. PICK c : c = SumOf(f)
  OBVIOUS
<1>3. r = [covers |-> c, reads |-> q]
  BY <1>1, <1>2 DEF FooterOf
<1>4. r.covers = c /\ NoFooter.covers = <<>>
  BY <1>3 DEF NoFooter
<1>5. c # <<>>
  BY <1>2 DEF SumOf
<1> QED
  BY <1>2, <1>4, <1>5

\* The fields an encoder writes.
LEMMA BinFieldsFacts ==
  ASSUME NEW f
  PROVE  /\ BinFieldsOf(f) \in Seq(AnyBinFields(f)) /\ Len(BinFieldsOf(f)) = 17
         /\ SizeOf(BinFieldsOf(f)) \in Nat
<1>1. PICK fs : fs = BinFieldsOf(f)
  OBVIOUS
<1>2. fs \in [1 .. 17 -> AnyBinFields(f)]
  <2>1. \A n \in 1 .. 17 : [tag |-> BinOrder[n], wire |-> WireOf(BinOrder[n]), value |-> f[BinOrder[n]]]
                             \in AnyBinFields(f)
    <3> SUFFICES ASSUME NEW n \in 1 .. 17
                 PROVE  [tag |-> BinOrder[n], wire |-> WireOf(BinOrder[n]), value |-> f[BinOrder[n]]]
                          \in AnyBinFields(f)
      OBVIOUS
    <3>1. PICK k \in Fields : k = BinOrder[n]
      BY BinOrderFacts
    <3>2. WireOf(k) \in {"varint", "bytes", "other"} /\ f[k] \in BinValuesOf(f)
      BY DEF WireOf, BinValuesOf
    <3> QED
      BY <3>1, <3>2 DEF AnyBinFields
  <2> QED
    BY <1>1, <2>1 DEF BinFieldsOf
<1>3. fs \in Seq(AnyBinFields(f)) /\ Len(fs) = 17
  <2>1. PICK n \in Nat : n = 17
    OBVIOUS
  <2>2. PICK T : T = AnyBinFields(f)
    OBVIOUS
  <2>3. fs \in [1 .. n -> T]
    BY <1>2, <2>1, <2>2
  <2>4. fs \in Seq(T) /\ Len(fs) = n
    BY <2>3
  <2> QED
    BY <2>1, <2>2, <2>4
<1> QED
  BY <1>1, <1>3, SizeIsNat

LEMMA EncodedBin ==
  ASSUME NEW f, NEW r, NEW e, e = EncodeBin(f, r)
  PROVE  /\ e = [codec |-> "bin", header |-> e.header, flag |-> e.flag, length |-> e.length,
                 fields |-> e.fields, footer |-> e.footer]
         /\ e.codec = "bin" /\ e.header = "v1" /\ e.flag = TRUE
         /\ e.length = SizeOf(BinFieldsOf(f)) /\ e.fields = BinFieldsOf(f)
         /\ e.footer = FooterOf(f, r)
<1>1. PICK fs, n, t, q : /\ fs = BinFieldsOf(f) /\ n = SizeOf(fs) /\ t = TRUE
                         /\ q = [covers |-> <<"v1", t, n, fs>>, reads |-> r]
  BY Zenon
<1>2. PICK p : p = [codec |-> "bin", header |-> "v1", flag |-> t, length |-> n, fields |-> fs,
                    footer |-> NoFooter]
  OBVIOUS
<1>3. e = [p EXCEPT !.footer = [covers |-> Checksum(p), reads |-> r]]
  BY <1>1, <1>2, BinOrderFacts, Zenon DEF EncodeBin, BinFieldsOf
<1>4. Checksum(p) = <<"v1", t, n, fs>>
  BY <1>2 DEF Checksum
<1>5. e = [p EXCEPT !.footer = q]
  BY <1>1, <1>3, <1>4, Zenon
<1>6. e = [codec |-> "bin", header |-> "v1", flag |-> t, length |-> n, fields |-> fs, footer |-> q]
  BY <1>2, <1>5
<1>7. /\ e = [codec |-> "bin", header |-> e.header, flag |-> e.flag, length |-> e.length,
              fields |-> e.fields, footer |-> e.footer]
      /\ e.codec = "bin" /\ e.header = "v1" /\ e.flag = t /\ e.length = n /\ e.fields = fs /\ e.footer = q
  BY <1>6
<1>8. q = FooterOf(f, r)
  BY <1>1, Zenon DEF FooterOf, SumOf
<1> QED
  BY <1>1, <1>7, <1>8, Zenon

\* A frame with the parts an encoder writes is accepted, and its payload is its fields.
LEMMA WrittenFrame ==
  ASSUME NEW f, NEW frame, frame.header = "v1", frame.flag = TRUE,
         frame.length = SizeOf(BinFieldsOf(f)), frame.fields = BinFieldsOf(f),
         frame.footer \in Footers(f)
  PROVE  FrameAccepted(frame) /\ PayloadOf(frame) = BinFieldsOf(f)
<1>1. frame.footer # NoFooter /\ frame.footer.covers = SumOf(f)
  BY FooterIsThere
<1>2. LengthFits(frame)
  BY <1>1 DEF LengthFits
<1>3. Checksum(frame) = SumOf(f)
  BY Zenon DEF Checksum, SumOf
<1>4. PayloadOf(frame) = BinFieldsOf(f)
  BY DEF PayloadOf
<1>5. FrameAccepted(frame)
  BY <1>1, <1>2, <1>3, Zenon DEF FrameAccepted
<1> QED
  BY <1>4, <1>5

\* The fields of an encoder are taken for the fixture.
LEMMA CleanBin ==
  ASSUME NEW f, IsFixture(f), ValidFixture(f), f["fixture_schema_version"] = SchemaV1,
         NEW frame, PayloadOf(frame) = BinFieldsOf(f)
  PROVE  DecodeBin(frame) = IF FrameAccepted(frame) THEN {f} ELSE {}
<1>1. PICK fs : fs = PayloadOf(frame)
  OBVIOUS
<1> DEFINE view == [k \in Fields |-> Slice(fs, k)]
           parsed == [k \in Fields |-> CopiedText(view[k])]
<1>2. DOMAIN fs = 1 .. 17
      /\ \A n \in 1 .. 17 : fs[n] = [tag |-> BinOrder[n], wire |-> WireOf(BinOrder[n]), value |-> f[BinOrder[n]]]
  BY <1>1 DEF BinFieldsOf
<1>3. ASSUME NEW k \in Fields
      PROVE  Cardinality(Taken(fs, k)) = 1 /\ Slice(fs, k) = f[k]
  <2>1. PICK n \in 1 .. 17 : BinOrder[n] = k
    BY BinOrderFacts
  <2>2. \A i \in 1 .. 17 : fs[i].tag = BinOrder[i] /\ fs[i].wire = WireOf(BinOrder[i])
                           /\ fs[i].value = f[BinOrder[i]]
    BY <1>2
  <2>3. Taken(fs, k) = {n}
    <3>1. \A i \in 1 .. 17 : BinOrder[i] = k <=> i = n
      BY <2>1, BinOrderFacts
    <3>2. \A i \in 1 .. 17 : (fs[i].tag = k /\ fs[i].wire = WireOf(k)) <=> i = n
      BY <2>1, <2>2, <3>1
    <3>3. Taken(fs, k) = {i \in 1 .. 17 : fs[i].tag = k /\ fs[i].wire = WireOf(k)}
      BY <1>2 DEF Taken
    <3> QED
      BY <2>1, <3>2, <3>3
  <2>4. Cardinality({n}) = 1
    BY FS_Singleton
  <2> QED
    BY <2>1, <2>2, <2>3, <2>4 DEF Slice
<1>4. view = f
  BY <1>3 DEF IsFixture
<1>5. parsed = f
  <2>1. \A k \in Fields : CopiedText(f[k]) = f[k]
    BY FixtureValue DEF CopiedText
  <2>2. f = [k \in Fields |-> f[k]]
    BY DEF IsFixture
  <2> HIDE DEF view
  <2>3. parsed = [k \in Fields |-> f[k]]
    BY <1>4, <2>1
  <2> QED
    BY <2>2, <2>3
<1>6. \A n \in DOMAIN fs : fs[n].tag # "outside" /\ fs[n].wire # "other"
  <2>1. \A n \in DOMAIN fs : fs[n].tag # "outside"
    BY <1>2, BinOrderFacts, FieldFacts
  <2>2. \A n \in DOMAIN fs : fs[n].wire # "other"
    BY <1>2 DEF WireOf
  <2> QED
    BY <2>1, <2>2
<1>7. ValidView(f)
  BY DEF ValidView, ValidFixture, IsFixture
<1> HIDE DEF view, parsed
<1>8. DecodeBin(frame) = IF /\ FrameAccepted(frame)
                            /\ \A n \in DOMAIN fs : fs[n].tag # "outside" /\ fs[n].wire # "other"
                            /\ \A k \in Fields : Cardinality(Taken(fs, k)) = 1
                            /\ ValidView(view) /\ ValidFixture(parsed)
                         THEN {parsed} ELSE {}
  BY <1>1, Zenon DEF DecodeBin, view, parsed
<1> QED
  BY <1>3, <1>4, <1>5, <1>6, <1>7, <1>8

\* A footer read as payload adds fields of the readings; their values are values.
Leavings == UNION {{r[n] : n \in 1 .. Len(r)} : r \in FooterReadings}

LEMMA PayloadIn ==
  ASSUME NEW S, NEW frame, frame.fields \in Seq(S), frame.footer.reads \in FooterReadings \cup {<<>>}
  PROVE  PayloadOf(frame) \in Seq(S \cup Leavings)
<1>1. PICK x, r, T : x = frame.fields /\ r = frame.footer.reads /\ T = S \cup Leavings
  OBVIOUS
<1>2. x \in Seq(T)
  <2>1. S \subseteq T /\ x \in Seq(S)
    BY <1>1
  <2> QED
    BY <2>1
<1>3. r \in Seq(T)
  <2>1. CASE r = <<>>
    BY <2>1
  <2>2. CASE r \in FooterReadings
    <3>1. r = [n \in 1 .. Len(r) |-> r[n]] /\ Len(r) \in Nat
      BY <2>2, CodecAssumption
    <3>2. \A n \in 1 .. Len(r) : r[n] \in T
      BY <1>1, <2>2 DEF Leavings
    <3> QED
      BY <3>1, <3>2
  <2> QED
    BY <1>1, <2>1, <2>2
<1>4. x \o r \in Seq(T)
  BY <1>2, <1>3, ConcatProperties
<1> QED
  BY <1>1, <1>2, <1>4 DEF PayloadOf

\* Whatever damage to a payload, what is taken from it is a fixture.
LEMMA BinGivesFixture ==
  ASSUME NEW f, IsFixture(f), NEW frame, frame.fields \in Seq(AnyBinFields(f)),
         frame.footer.reads \in FooterReadings \cup {<<>>}, NEW g \in DecodeBin(frame)
  PROVE  IsFixture(g)
<1>0. PICK fs : fs = PayloadOf(frame)
  OBVIOUS
<1> DEFINE view == [k \in Fields |-> Slice(fs, k)]
<1>1. /\ \A k \in Fields : Cardinality(Taken(fs, k)) = 1
      /\ ValidView(view) /\ g = [k \in Fields |-> CopiedText(view[k])]
  <2> HIDE DEF view
  <2> QED
    BY <1>0 DEF DecodeBin, view
<1>2. ASSUME NEW k \in Fields
      PROVE  IsValue(view[k])
  <2>1. Taken(fs, k) # {}
    <3>1. Cardinality({}) = 0
      BY FS_EmptySet
    <3>2. Cardinality(Taken(fs, k)) = 1
      BY <1>1
    <3>3. 0 # 1
      OBVIOUS
    <3> QED
      BY <3>1, <3>2, <3>3, Zenon
  <2>2. PICK n \in Taken(fs, k) : Slice(fs, k) = fs[n].value
    BY <2>1 DEF Slice
  <2>3. PICK v : v = fs[n].value
    OBVIOUS
  <2>4. fs \in Seq(AnyBinFields(f) \cup Leavings)
    BY <1>0, PayloadIn
  <2>5. fs[n] \in AnyBinFields(f) \cup Leavings
    BY <2>2, <2>4 DEF Taken
  <2>6. ASSUME fs[n] \in AnyBinFields(f)
        PROVE  IsValue(v)
    <3>1. v \in BinValuesOf(f)
      BY <2>3, <2>6 DEF AnyBinFields
    <3>2. \A w \in Damage : IsValue(w)
      BY CodecAssumption, Zenon
    <3>3. \A j \in Fields : IsValue(f[j])
      BY Zenon DEF IsFixture
    <3> QED
      BY <3>1, <3>2, <3>3, Zenon DEF BinValuesOf
  <2>7. ASSUME fs[n] \in Leavings
        PROVE  IsValue(v)
    <3>1. PICK r \in FooterReadings : \E j \in 1 .. Len(r) : fs[n] = r[j]
      BY <2>7, Zenon DEF Leavings
    <3>2. \A j \in 1 .. Len(r) : IsValue(r[j].value)
      BY <3>1, CodecAssumption, Zenon
    <3> QED
      BY <2>3, <3>1, <3>2, Zenon
  <2>8. view[k] = v
    BY <2>2, <2>3
  <2> HIDE DEF view
  <2> QED
    BY <2>5, <2>6, <2>7, <2>8, Zenon
<1>3. view["seed"].form = "number"
  BY <1>1 DEF ValidView
<1> HIDE DEF view
<1>4. ASSUME NEW k \in Fields
      PROVE  /\ g[k] = [is |-> g[k].is, form |-> g[k].form] /\ g[k].form # "nul"
             /\ (view[k].form = "number" => g[k].form = "number")
  <2>1. PICK v : v = view[k]
    OBVIOUS
  <2>2. v = [is |-> v.is, form |-> v.form]
    BY <1>2, <2>1 DEF IsValue
  <2>3. g[k] = IF v.form = "nul" THEN [v EXCEPT !.form = "cut"] ELSE v
    BY <1>1, <2>1 DEF CopiedText
  <2>4. PICK a, b : v = [is |-> a, form |-> b]
    BY <2>2
  <2>5. [v EXCEPT !.form = "cut"] = [is |-> a, form |-> "cut"]
    BY <2>4
  <2>6. PICK w : w = g[k]
    OBVIOUS
  <2>7. PICK c : w = [is |-> a, form |-> c] /\ c = IF b = "nul" THEN "cut" ELSE b
    BY <2>3, <2>4, <2>5, <2>6
  <2> QED
    BY <2>1, <2>4, <2>6, <2>7
<1> QED
  BY <1>1, <1>3, <1>4, FieldFacts DEF IsFixture, IsValue

----------------------------------------------------------------------------
(* Fixtures: storage, and the inductive invariant *)

LEMMA FrontIn ==
  ASSUME NEW S, NEW s \in Seq(S), s # <<>>
  PROVE  Front(s) \in Seq(S)
<1>1. Len(s) \in Nat /\ Len(s) # 0
  OBVIOUS
<1>2. \A i \in 1 .. Len(s) - 1 : s[i] \in S
  OBVIOUS
<1> QED
  BY <1>1, <1>2 DEF Front

LEMMA RemoveAtIn ==
  ASSUME NEW S, NEW s \in Seq(S), NEW n \in DOMAIN s
  PROVE  RemoveAt(s, n) \in Seq(S)
<1>1. n \in 1 .. Len(s) /\ Len(s) \in Nat
  OBVIOUS
<1>2. PICK a, b : a = SubSeq(s, 1, n - 1) /\ b = SubSeq(s, n + 1, Len(s))
  OBVIOUS
<1>3. a \in Seq(S)
  <2>1. \A i \in 1 .. n - 1 : s[i] \in S
    BY <1>1
  <2> QED
    BY <1>1, <1>2, <2>1
<1>4. b \in Seq(S)
  <2>1. \A i \in n + 1 .. Len(s) : s[i] \in S
    BY <1>1
  <2> QED
    BY <1>1, <1>2, <2>1
<1>5. a \o b \in Seq(S)
  BY <1>3, <1>4, ConcatProperties
<1> QED
  BY <1>2, <1>5 DEF RemoveAt

LEMMA ReplaceIn ==
  ASSUME NEW S, NEW s \in Seq(S), NEW n \in DOMAIN s, NEW e \in S
  PROVE  [s EXCEPT ![n] = e] \in Seq(S)
OBVIOUS

FlawKinds ==
  {"cut", "drop", "double", "key", "rename", "value", "header", "flag", "footer", "length", "wire"}

\* A JSON payload was written from f: its members are, unless a value was damaged or a key
\* renamed, and a key renamed alone is missing.
Lacks(members) == \E k \in Fields : \A n \in DOMAIN members : members[n].key # k
FromJson(p, f, fl) ==
  /\ p = [codec |-> "json", closed |-> p.closed, members |-> p.members]
  /\ p.members \in Seq(AnyMembers(f))
  /\ ~Contains(fl, "value") /\ ~Contains(fl, "rename")
       => p.members \in Seq(Origins(f) \cup Strays(f))
  /\ Len(fl) = 1 /\ Contains(fl, "rename") => Lacks(p.members)
  /\ fl = <<>> => p = EncodeJson(f)

\* A BIN payload was written from f, and every part of it that is not as it was written
\* took a fault: its flag, its footer, and the rest, which the checksum covers.
Flawed(b) == IF b THEN 1 ELSE 0
Covered(p) == <<p.header, p.length, p.fields>>
Written(f) == <<"v1", SizeOf(BinFieldsOf(f)), BinFieldsOf(f)>>
Spoilt == {[covers |-> <<"other">>, reads |-> r] : r \in FooterReadings}
AnyFooters(f) == Footers(f) \cup Spoilt \cup {NoFooter}
FromBin(p, f, fl) ==
  /\ f["fixture_schema_version"] = SchemaV1
  /\ p = [codec |-> "bin", header |-> p.header, flag |-> p.flag, length |-> p.length,
          fields |-> p.fields, footer |-> p.footer]
  /\ p.flag \in BOOLEAN /\ p.fields \in Seq(AnyBinFields(f))
  /\ p.footer \in AnyFooters(f)
  /\ Flawed(~p.flag) + Flawed(p.footer \notin Footers(f)) + Flawed(Covered(p) # Written(f)) <= Len(fl)

LEMMA FooterReads ==
  ASSUME NEW f, NEW r \in AnyFooters(f)
  PROVE  r.reads \in FooterReadings \cup {<<>>}
<1>1. CASE r \in Footers(f)
  BY <1>1 DEF Footers, FooterOf
<1>2. CASE r \in Spoilt
  BY <1>2 DEF Spoilt
<1>3. CASE r = NoFooter
  BY <1>3 DEF NoFooter
<1> QED
  BY <1>1, <1>2, <1>3 DEF AnyFooters

CodecInv ==
  /\ \A g \in decoded : IsFixture(g)
  /\ flaws \in Seq(FlawKinds)
  /\ \/ payload = NoBytes
     \/ /\ IsFixture(source) /\ ValidFixture(source)
        /\ FromJson(payload, source, flaws) \/ FromBin(payload, source, flaws)

LEMMA OneFlawMore ==
  ASSUME NEW fl \in Seq(FlawKinds), NEW kind \in FlawKinds
  PROVE  /\ Append(fl, kind) \in Seq(FlawKinds) /\ Append(fl, kind) # <<>>
         /\ Len(Append(fl, kind)) = Len(fl) + 1
         /\ \A x : Contains(Append(fl, kind), x) <=> Contains(fl, x) \/ kind = x
<1>1. PICK S : S = FlawKinds
  OBVIOUS
<1>2. PICK q : q = Append(fl, kind)
  OBVIOUS
<1>3. q \in Seq(S) /\ Len(q) = Len(fl) + 1 /\ q[Len(fl) + 1] = kind /\ \A i \in 1 .. Len(fl) : q[i] = fl[i]
  BY <1>1, <1>2, AppendProperties
<1>4. q # <<>>
  BY <1>3
<1>5. \A x : Contains(q, x) <=> Contains(fl, x) \/ kind = x
  <2>1. Len(fl) \in Nat /\ \A i \in 1 .. Len(fl) + 1 : i \in 1 .. Len(fl) \/ i = Len(fl) + 1
    OBVIOUS
  <2>2. Len(fl) + 1 \in 1 .. Len(fl) + 1 /\ \A i \in 1 .. Len(fl) : i \in 1 .. Len(fl) + 1
    BY <2>1
  <2> QED
    BY <1>3, <2>1, <2>2 DEF Contains
<1> QED
  BY <1>1, <1>2, <1>3, <1>4, <1>5

\* Encoding a fixture.
LEMMA EncodeKeeps ==
  ASSUME CodecInv, NEW codec \in Codecs, NEW f \in Fixtures \cup decoded, EncodeFixture(codec, f)
  PROVE  CodecInv'
<1>1. IsFixture(f)
  BY CodecAssumption DEF CodecInv
<1>2. PICK p \in Encoded(codec, f) : payload' = p
  BY DEF EncodeFixture
<1>3. source' = f /\ flaws' = <<>> /\ decoded' = decoded
  BY DEF EncodeFixture
<1>4. ValidFixture(f)
  BY <1>2 DEF Encoded
<1>5. CASE codec = "json"
  <2>1. p = EncodeJson(f)
    BY <1>2, <1>4, <1>5 DEF Encoded
  <2>2. /\ p.members \in Seq(Origins(f)) /\ p.closed = TRUE /\ p.codec = "json"
    BY <1>1, <1>4, <2>1, EncodedJson
  <2>3. p = [codec |-> "json", closed |-> p.closed, members |-> p.members]
    BY <2>1 DEF EncodeJson
  <2>4. Origins(f) \subseteq Origins(f) \cup Strays(f) /\ Origins(f) \subseteq AnyMembers(f)
    BY DEF Origins, AnyMembers, JsonValuesOf
  <2>5. PICK A, B, C : A = Origins(f) /\ B = Origins(f) \cup Strays(f) /\ C = AnyMembers(f)
    OBVIOUS
  <2>6. A \subseteq B /\ A \subseteq C /\ p.members \in Seq(A)
    BY <2>2, <2>4, <2>5
  <2>7. p.members \in Seq(B) /\ p.members \in Seq(C)
    BY <2>6
  <2>8. FromJson(p, f, <<>>)
    BY <2>1, <2>3, <2>5, <2>7 DEF FromJson
  <2> QED
    BY <1>1, <1>2, <1>3, <1>4, <2>8 DEF CodecInv
<1>6. CASE codec # "json"
  <2>1. f["fixture_schema_version"] = SchemaV1
    BY <1>2, <1>4, <1>6 DEF Encoded
  <2>2. PICK r \in FooterReadings : p = EncodeBin(f, r)
    BY <1>2, <1>4, <1>6 DEF Encoded
  <2>3. /\ p = [codec |-> "bin", header |-> p.header, flag |-> p.flag, length |-> p.length,
                fields |-> p.fields, footer |-> p.footer]
        /\ p.header = "v1" /\ p.flag = TRUE
        /\ p.length = SizeOf(BinFieldsOf(f)) /\ p.fields = BinFieldsOf(f)
        /\ p.footer = FooterOf(f, r)
    BY <2>2, EncodedBin
  <2>4. p.footer \in Footers(f) /\ p.footer \in AnyFooters(f)
    BY <2>3 DEF Footers, AnyFooters
  <2>5. Flawed(~p.flag) = 0 /\ Flawed(p.footer \notin Footers(f)) = 0
        /\ Flawed(Covered(p) # Written(f)) = 0
    <3>1. Covered(p) = Written(f)
      BY <2>3, Zenon DEF Covered, Written
    <3> QED
      BY <2>3, <2>4, <3>1, Zenon DEF Flawed
  <2>6. FromBin(p, f, <<>>)
    <3>1. Flawed(~p.flag) + Flawed(p.footer \notin Footers(f)) + Flawed(Covered(p) # Written(f))
            <= Len(<<>>)
      BY <2>5
    <3>2. p.flag \in BOOLEAN
      BY <2>3, Zenon
    <3>3. p.fields \in Seq(AnyBinFields(f))
      BY <2>3, BinFieldsFacts, Zenon
    <3> QED
      BY <2>1, <2>3, <2>4, <3>1, <3>2, <3>3, Zenon DEF FromBin
  <2> QED
    BY <1>1, <1>2, <1>3, <1>4, <2>6 DEF CodecInv
<1> QED
  BY <1>5, <1>6

\* What a decoder gives is a fixture, whatever the payload went through.
LEMMA DecodedIsFixture ==
  ASSUME CodecInv, payload # NoBytes, NEW codec, NEW g \in Decoded(codec, payload)
  PROVE  IsFixture(g)
<1>1. payload.codec = codec /\ g \in IF codec = "json" THEN DecodeJson(payload) ELSE DecodeBin(payload)
  BY DEF Decoded
<1>2. PICK p, f : p = payload /\ f = source
  OBVIOUS
<1>3. IsFixture(f) /\ (FromJson(p, f, flaws) \/ FromBin(p, f, flaws))
  BY <1>2 DEF CodecInv
<1>4. CASE FromJson(p, f, flaws)
  <2>1. p.codec = "json" /\ p.members \in Seq(AnyMembers(f))
    BY <1>4 DEF FromJson
  <2> QED
    BY <1>1, <1>2, <1>3, <2>1, JsonGivesFixture
<1>5. CASE FromBin(p, f, flaws)
  <2>1. p.codec = "bin" /\ p.fields \in Seq(AnyBinFields(f)) /\ p.footer \in AnyFooters(f)
    BY <1>5 DEF FromBin
  <2> QED
    BY <1>1, <1>2, <1>3, <2>1, FooterReads, BinGivesFixture
<1> QED
  BY <1>3, <1>4, <1>5

LEMMA JsonAfter ==
  ASSUME NEW p, NEW q, NEW f, NEW fl \in Seq(FlawKinds), NEW kind \in FlawKinds, FromJson(p, f, fl),
         q = [codec |-> "json", closed |-> q.closed, members |-> q.members],
         q.members \in Seq(AnyMembers(f)),
         kind # "value" /\ kind # "rename" /\ p.members \in Seq(Origins(f) \cup Strays(f))
           => q.members \in Seq(Origins(f) \cup Strays(f)),
         kind = "rename" /\ fl = <<>> => Lacks(q.members)
  PROVE  FromJson(q, f, Append(fl, kind))
<1>1. /\ Append(fl, kind) # <<>> /\ Len(Append(fl, kind)) = Len(fl) + 1
      /\ \A x : Contains(Append(fl, kind), x) <=> Contains(fl, x) \/ kind = x
  BY OneFlawMore
<1>2. ASSUME Len(Append(fl, kind)) = 1, Contains(Append(fl, kind), "rename")
      PROVE  Lacks(q.members)
  <2>1. fl = <<>>
    BY <1>1, <1>2
  <2>2. ~Contains(fl, "rename")
    BY <2>1 DEF Contains
  <2> QED
    BY <1>1, <1>2, <2>1, <2>2
<1> QED
  BY <1>1, <1>2, Zenon DEF FromJson

\* Damage to one member leaves a member, and one written so or unknown unless its value is
\* damaged.
LEMMA MemberDamaged ==
  ASSUME NEW f, NEW m \in AnyMembers(f)
  PROVE  /\ [m EXCEPT !.key = "unknown"] \in AnyMembers(f)
         /\ [m EXCEPT !.key = "unknown"] \in Strays(f)
         /\ \A j \in Fields : [m EXCEPT !.key = j] \in AnyMembers(f) /\ [m EXCEPT !.key = j].key = j
         /\ \A v \in Damage : [m EXCEPT !.value = v] \in AnyMembers(f)
<1>1. PICK k \in Fields \cup {"unknown"}, w \in JsonValuesOf(f) : m = [key |-> k, value |-> w]
  BY DEF AnyMembers
<1>2. [m EXCEPT !.key = "unknown"] = [key |-> "unknown", value |-> w]
  BY <1>1
<1>3. \A v \in Damage : [m EXCEPT !.value = v] = [key |-> k, value |-> v] /\ v \in JsonValuesOf(f)
  BY <1>1 DEF JsonValuesOf
<1>4. [key |-> "unknown", value |-> w] \in AnyMembers(f)
  BY <1>1 DEF AnyMembers
<1>5. [key |-> "unknown", value |-> w] \in Strays(f)
  BY <1>1 DEF Strays
<1>6. \A v \in JsonValuesOf(f) : [key |-> k, value |-> v] \in AnyMembers(f)
  BY <1>1 DEF AnyMembers
<1>7. ASSUME NEW j \in Fields
      PROVE  [m EXCEPT !.key = j] \in AnyMembers(f) /\ [m EXCEPT !.key = j].key = j
  <2>1. [m EXCEPT !.key = j] = [key |-> j, value |-> w]
    BY <1>1
  <2>2. [key |-> j, value |-> w] \in AnyMembers(f)
    BY <1>1 DEF AnyMembers
  <2> QED
    BY <2>1, <2>2
<1>8. \A v \in Damage : [m EXCEPT !.value = v] \in AnyMembers(f)
  BY <1>3, <1>6, Zenon
<1>9. [m EXCEPT !.key = "unknown"] \in AnyMembers(f) /\ [m EXCEPT !.key = "unknown"] \in Strays(f)
  BY <1>2, <1>4, <1>5, Zenon
<1> QED
  BY <1>7, <1>8, <1>9, Zenon

LEMMA JsonDamageKeeps ==
  ASSUME CodecInv, JsonDamaged
  PROVE  CodecInv'
<1> DEFINE m == payload.members
<1>1. payload.codec = "json" /\ payload # NoBytes
  BY DEF JsonDamaged, NoBytes
<1>2. PICK p, f, fl, q : p = payload /\ f = source /\ fl = flaws /\ q = payload'
  OBVIOUS
<1>3. IsFixture(f) /\ ValidFixture(f) /\ fl \in Seq(FlawKinds) /\ FromJson(p, f, fl)
  BY <1>1, <1>2 DEF CodecInv, FromBin
<1>4. PICK A, C : A = AnyMembers(f) /\ C = Origins(f) \cup Strays(f)
  OBVIOUS
<1>5. p = [codec |-> "json", closed |-> p.closed, members |-> m] /\ m \in Seq(A)
  BY <1>2, <1>3, <1>4 DEF FromJson
<1>6. PICK c : c = p.closed
  OBVIOUS
<1>7. ASSUME NEW kind \in FlawKinds, Fault(kind), NEW c2, NEW m2 \in Seq(A),
             kind # "value" /\ kind # "rename" /\ m \in Seq(C) => m2 \in Seq(C),
             kind = "rename" /\ fl = <<>> => Lacks(m2),
             q = [codec |-> "json", closed |-> c2, members |-> m2]
      PROVE  CodecInv'
  <2>1. flaws' = Append(fl, kind) /\ source' = f /\ decoded' = decoded
    BY <1>2, <1>7 DEF Fault
  <2>2. q.closed = c2 /\ q.members = m2 /\ q = [codec |-> "json", closed |-> q.closed, members |-> q.members]
    BY <1>7
  <2>3. FromJson(q, f, Append(fl, kind))
    BY <1>2, <1>3, <1>4, <1>7, <2>2, JsonAfter
  <2>4. Append(fl, kind) \in Seq(FlawKinds)
    BY <1>3, OneFlawMore
  <2> QED
    BY <1>2, <1>3, <2>1, <2>3, <2>4 DEF CodecInv
<1> HIDE DEF m
<1>8. /\ "cut" \in FlawKinds /\ "drop" \in FlawKinds /\ "double" \in FlawKinds /\ "key" \in FlawKinds
      /\ "rename" \in FlawKinds /\ "value" \in FlawKinds
  BY DEF FlawKinds
<1>9. CASE /\ Fault("cut") /\ m # <<>>
           /\ payload' = [payload EXCEPT !.members = Front(m), !.closed = FALSE]
  <2>1. PICK x, y : x = Front(m) /\ y = FALSE
    BY Zenon
  <2>2. q = [p EXCEPT !.members = x, !.closed = y]
    BY <1>2, <1>9, <2>1, Zenon
  <2>3. q = [codec |-> "json", closed |-> y, members |-> x]
    <3>1. PICK z : z = m
      OBVIOUS
    <3>2. p = [codec |-> "json", closed |-> c, members |-> z]
      BY <1>5, <1>6, <3>1, Zenon
    <3> QED
      BY <2>2, <3>2
  <2>4. x \in Seq(A) /\ (m \in Seq(C) => x \in Seq(C))
    BY <1>5, <1>9, <2>1, FrontIn
  <2> QED
    BY <1>7, <1>8, <1>9, <2>3, <2>4
<1>10. ASSUME NEW n \in DOMAIN m, Fault("drop"), payload' = [payload EXCEPT !.members = RemoveAt(m, n)]
       PROVE  CodecInv'
  <2>1. PICK x : x = RemoveAt(m, n)
    OBVIOUS
  <2>2. q = [codec |-> "json", closed |-> c, members |-> x]
    BY <1>2, <1>5, <1>6, <1>10, <2>1
  <2>3. x \in Seq(A) /\ (m \in Seq(C) => x \in Seq(C))
    BY <1>5, <2>1, RemoveAtIn
  <2> QED
    BY <1>7, <1>8, <1>10, <2>2, <2>3
<1>11. ASSUME NEW n \in DOMAIN m, Fault("double"), payload' = [payload EXCEPT !.members = Append(m, m[n])]
       PROVE  CodecInv'
  <2>1. PICK x : x = Append(m, m[n])
    OBVIOUS
  <2>2. q = [codec |-> "json", closed |-> c, members |-> x]
    <3>1. q = [p EXCEPT !.members = x]
      BY <1>2, <1>11, <2>1, Zenon
    <3> QED
      BY <1>5, <1>6, <3>1
  <2>3. x \in Seq(A) /\ (m \in Seq(C) => x \in Seq(C))
    BY <1>5, <2>1
  <2> QED
    BY <1>7, <1>8, <1>11, <2>2, <2>3
<1>12. ASSUME NEW n \in DOMAIN m, Fault("key"), payload' = [payload EXCEPT !.members[n].key = "unknown"]
       PROVE  CodecInv'
  <2>1. PICK e : e = [m[n] EXCEPT !.key = "unknown"]
    OBVIOUS
  <2>2. PICK x : x = [m EXCEPT ![n] = e]
    OBVIOUS
  <2>3. q = [p EXCEPT !.members = x]
    BY <1>2, <1>12, <2>1, <2>2, Zenon DEF m
  <2>4. q = [codec |-> "json", closed |-> c, members |-> x]
    BY <1>5, <1>6, <2>3
  <2>5. m[n] \in A
    BY <1>5, <1>12
  <2>6. e \in A /\ e \in C
    BY <1>4, <2>1, <2>5, MemberDamaged
  <2>7. x \in Seq(A) /\ (m \in Seq(C) => x \in Seq(C))
    BY <1>5, <1>12, <2>2, <2>6, ReplaceIn
  <2> QED
    BY <1>7, <1>8, <1>12, <2>4, <2>7
<1>13. ASSUME NEW n \in DOMAIN m, NEW v \in Damage, Fault("value"),
              payload' = [payload EXCEPT !.members[n].value = v]
       PROVE  CodecInv'
  <2>1. PICK e : e = [m[n] EXCEPT !.value = v]
    OBVIOUS
  <2>2. PICK x : x = [m EXCEPT ![n] = e]
    OBVIOUS
  <2>3. q = [p EXCEPT !.members = x]
    BY <1>2, <1>13, <2>1, <2>2, Zenon DEF m
  <2>4. q = [codec |-> "json", closed |-> c, members |-> x]
    BY <1>5, <1>6, <2>3
  <2>5. m[n] \in A
    BY <1>5, <1>13
  <2>6. e \in A
    BY <1>4, <2>1, <2>5, MemberDamaged
  <2>7. x \in Seq(A)
    BY <1>5, <1>13, <2>2, <2>6, ReplaceIn
  <2> QED
    BY <1>7, <1>8, <1>13, <2>4, <2>7
<1>14. ASSUME NEW n \in DOMAIN m, NEW k \in Fields, k # m[n].key, Fault("rename"),
              payload' = [payload EXCEPT !.members[n].key = k]
       PROVE  CodecInv'
  <2>1. PICK e : e = [m[n] EXCEPT !.key = k]
    OBVIOUS
  <2>2. PICK x : x = [m EXCEPT ![n] = e]
    OBVIOUS
  <2>3. q = [p EXCEPT !.members = x]
    BY <1>2, <1>14, <2>1, <2>2, Zenon DEF m
  <2>4. q = [codec |-> "json", closed |-> c, members |-> x]
    BY <1>5, <1>6, <2>3
  <2>5. m[n] \in A
    BY <1>5, <1>14
  <2>6. e \in A /\ e.key = k
    BY <1>4, <2>1, <2>5, MemberDamaged
  <2>7. x \in Seq(A)
    BY <1>5, <1>14, <2>2, <2>6, ReplaceIn
  <2>8. ASSUME fl = <<>>
        PROVE  Lacks(x)
    <3>1. p = EncodeJson(f)
      BY <1>3, <2>8 DEF FromJson
    <3>2. DOMAIN m = 1 .. 17 /\ \A i \in 1 .. 17 : m[i].key = JsonOrder[i]
      BY <1>2, <3>1, JsonOrderFacts DEF EncodeJson, m
    <3>3. DOMAIN x = 1 .. 17 /\ x[n] = e /\ \A i \in 1 .. 17 : i # n => x[i] = m[i]
      BY <1>14, <2>2, <3>2
    <3>4. \A i \in DOMAIN x : x[i].key # JsonOrder[n]
      BY <1>14, <2>6, <3>2, <3>3, JsonOrderFacts
    <3> QED
      BY <1>14, <3>2, <3>4, JsonOrderFacts DEF Lacks
  <2> QED
    BY <1>7, <1>8, <1>14, <2>4, <2>7, <2>8
<1>15. ASSUME NEW n \in DOMAIN m, NEW kind \in Interchangeable,
              NEW k \in (kind \cap Damageable) \ {m[n].key}, m[n].key \in kind, Fault("rename"),
              payload' = [payload EXCEPT !.members[n].key = k]
       PROVE  CodecInv'
  <2>1. k \in Fields
    BY FieldFacts, FieldNames DEF Interchangeable, Provenance
  <2> QED
    BY <1>14, <1>15, <2>1
<1> QED
  BY <1>9, <1>10, <1>11, <1>12, <1>13, <1>15 DEF JsonDamaged, m

LEMMA BinAfter ==
  ASSUME NEW p, NEW q, NEW f, NEW fl \in Seq(FlawKinds), NEW kind \in FlawKinds, FromBin(p, f, fl),
         q = [codec |-> "bin", header |-> q.header, flag |-> q.flag, length |-> q.length,
              fields |-> q.fields, footer |-> q.footer],
         q.flag \in BOOLEAN, q.fields \in Seq(AnyBinFields(f)),
         q.footer \in AnyFooters(f),
         \/ q.flag = p.flag /\ q.footer = p.footer
         \/ q.footer = p.footer /\ Covered(q) = Covered(p)
         \/ q.flag = p.flag /\ Covered(q) = Covered(p)
  PROVE  FromBin(q, f, Append(fl, kind))
<1> DEFINE A(r) == Flawed(~r.flag)
           B(r) == Flawed(r.footer \notin Footers(f))
           C(r) == Flawed(Covered(r) # Written(f))
<1>1. \A r : A(r) \in {0, 1} /\ B(r) \in {0, 1} /\ C(r) \in {0, 1}
  BY DEF Flawed
<1>2. /\ (q.flag = p.flag => A(q) = A(p))
      /\ (q.footer = p.footer => B(q) = B(p))
      /\ (Covered(q) = Covered(p) => C(q) = C(p))
  OBVIOUS
<1>3. A(p) + B(p) + C(p) <= Len(fl)
  BY Zenon DEF FromBin
<1> HIDE DEF A, B, C
<1>4. Len(Append(fl, kind)) = Len(fl) + 1 /\ Len(fl) \in Nat
  BY OneFlawMore
<1>5. A(q) + B(q) + C(q) <= Len(Append(fl, kind))
  BY <1>1, <1>2, <1>3, <1>4
<1>6. Flawed(~q.flag) + Flawed(q.footer \notin Footers(f)) + Flawed(Covered(q) # Written(f))
        <= Len(Append(fl, kind))
  BY <1>5, Zenon DEF A, B, C
<1>7. f["fixture_schema_version"] = SchemaV1
  BY Zenon DEF FromBin
<1> QED
  BY <1>6, <1>7, Zenon DEF FromBin

\* Damage to one field leaves a field.
LEMMA FieldDamaged ==
  ASSUME NEW f, NEW m \in AnyBinFields(f)
  PROVE  /\ \A t \in {"unknown", "outside"} : [m EXCEPT !.tag = t] \in AnyBinFields(f)
         /\ \A x \in Wires : [m EXCEPT !.wire = x] \in AnyBinFields(f)
         /\ \A v \in Damage : [m EXCEPT !.value = v] \in AnyBinFields(f)
<1>1. PICK k \in Fields \cup {"unknown", "outside"}, w \in {"varint", "bytes", "other"},
           v \in BinValuesOf(f) : m = [tag |-> k, wire |-> w, value |-> v]
  BY DEF AnyBinFields
<1>2. \A t : [m EXCEPT !.tag = t] = [tag |-> t, wire |-> w, value |-> v]
  BY <1>1
<1>3. \A x : [m EXCEPT !.wire = x] = [tag |-> k, wire |-> x, value |-> v]
  BY <1>1
<1>4. \A u : [m EXCEPT !.value = u] = [tag |-> k, wire |-> w, value |-> u]
  BY <1>1
<1>5. \A u \in Damage : u \in BinValuesOf(f)
  BY DEF BinValuesOf
<1>6. \A j \in Fields \cup {"unknown", "outside"}, x \in {"varint", "bytes", "other"},
         u \in BinValuesOf(f) : [tag |-> j, wire |-> x, value |-> u] \in AnyBinFields(f)
  <2>1. PICK V, F : V = BinValuesOf(f) /\ F = Fields \cup {"unknown", "outside"}
    OBVIOUS
  <2>2. PICK W : W = {"varint", "bytes", "other"}
    OBVIOUS
  <2>3. AnyBinFields(f) = {[tag |-> j, wire |-> x, value |-> u] : j \in F, x \in W, u \in V}
    BY <2>1, <2>2 DEF AnyBinFields
  <2>4. \A j \in F, x \in W, u \in V : [tag |-> j, wire |-> x, value |-> u] \in AnyBinFields(f)
    BY <2>3
  <2> QED
    BY <2>1, <2>2, <2>4
<1> QED
  BY <1>1, <1>2, <1>3, <1>4, <1>5, <1>6 DEF Wires

LEMMA BinDamageKeeps ==
  ASSUME CodecInv, BinDamaged
  PROVE  CodecInv'
<1> DEFINE fs == payload.fields
<1>1. payload.codec = "bin" /\ payload # NoBytes
  BY DEF BinDamaged, NoBytes
<1>2. PICK p, f, fl, q : p = payload /\ f = source /\ fl = flaws /\ q = payload'
  OBVIOUS
<1>3. IsFixture(f) /\ ValidFixture(f) /\ fl \in Seq(FlawKinds) /\ FromBin(p, f, fl)
  BY <1>1, <1>2 DEF CodecInv, FromJson
<1>4. PICK A : A = AnyBinFields(f)
  OBVIOUS
<1>5. PICK h, b, l, x, r : h = p.header /\ b = p.flag /\ l = p.length /\ x = fs /\ r = p.footer
  BY Zenon
<1> HIDE DEF fs
<1>6. p = [codec |-> "bin", header |-> h, flag |-> b, length |-> l, fields |-> x, footer |-> r]
  BY <1>2, <1>3, <1>5, Zenon DEF FromBin, fs
<1>7. b \in BOOLEAN /\ x \in Seq(A) /\ r \in AnyFooters(f)
  BY <1>2, <1>3, <1>4, <1>5, Zenon DEF FromBin, fs
<1>8. ASSUME NEW kind \in FlawKinds, Fault(kind), NEW h2, NEW b2 \in BOOLEAN, NEW l2, NEW x2 \in Seq(A),
             NEW r2 \in AnyFooters(f),
             q = [codec |-> "bin", header |-> h2, flag |-> b2, length |-> l2, fields |-> x2, footer |-> r2],
             \/ b2 = b /\ r2 = r
             \/ r2 = r /\ h2 = h /\ l2 = l /\ x2 = x
             \/ b2 = b /\ h2 = h /\ l2 = l /\ x2 = x
      PROVE  CodecInv'
  <2>1. flaws' = Append(fl, kind) /\ source' = f /\ decoded' = decoded
    BY <1>2, <1>8 DEF Fault
  <2>2. /\ q.header = h2 /\ q.flag = b2 /\ q.length = l2 /\ q.fields = x2 /\ q.footer = r2
        /\ q = [codec |-> "bin", header |-> q.header, flag |-> q.flag, length |-> q.length,
                fields |-> q.fields, footer |-> q.footer]
    BY <1>8
  <2>3. /\ h = p.header /\ b = p.flag /\ l = p.length /\ x = p.fields /\ r = p.footer
    BY <1>2, <1>5, Zenon DEF fs
  <2>4. (h2 = h /\ l2 = l /\ x2 = x) => Covered(q) = Covered(p)
    BY <2>2, <2>3, Zenon DEF Covered
  <2>5. \/ q.flag = p.flag /\ q.footer = p.footer
        \/ q.footer = p.footer /\ Covered(q) = Covered(p)
        \/ q.flag = p.flag /\ Covered(q) = Covered(p)
    BY <1>8, <2>2, <2>3, <2>4, Zenon
  <2>6. q.flag \in BOOLEAN /\ q.fields \in Seq(AnyBinFields(f)) /\ q.footer \in AnyFooters(f)
    BY <1>4, <1>8, <2>2, Zenon
  <2>7. FromBin(q, f, Append(fl, kind))
    BY <1>3, <1>8, <2>2, <2>5, <2>6, BinAfter
  <2>8. Append(fl, kind) \in Seq(FlawKinds)
    BY <1>3, <1>8, OneFlawMore
  <2> QED
    BY <1>2, <1>3, <2>1, <2>7, <2>8 DEF CodecInv
<1>9. /\ "drop" \in FlawKinds /\ "double" \in FlawKinds /\ "key" \in FlawKinds /\ "value" \in FlawKinds
      /\ "header" \in FlawKinds /\ "flag" \in FlawKinds /\ "footer" \in FlawKinds
      /\ "length" \in FlawKinds /\ "wire" \in FlawKinds
  BY DEF FlawKinds
<1>10. CASE Fault("header") /\ payload' = [payload EXCEPT !.header = "other"]
  <2>1. q = [p EXCEPT !.header = "other"]
    BY <1>2, <1>10, Zenon
  <2>2. q = [codec |-> "bin", header |-> "other", flag |-> b, length |-> l, fields |-> x, footer |-> r]
    BY <1>6, <2>1
  <2> QED
    BY <1>7, <1>8, <1>9, <1>10, <2>2
<1>11. CASE Fault("flag") /\ payload' = [payload EXCEPT !.flag = ~@]
  <2>1. PICK b2 : b2 = ~p.flag
    BY Zenon
  <2>2. q = [p EXCEPT !.flag = b2]
    BY <1>2, <1>11, <2>1, Zenon
  <2>3. q = [codec |-> "bin", header |-> h, flag |-> b2, length |-> l, fields |-> x, footer |-> r]
    BY <1>6, <2>2
  <2>4. b2 \in BOOLEAN
    BY <2>1, Zenon
  <2> QED
    BY <1>7, <1>8, <1>9, <1>11, <2>3, <2>4
<1>12. ASSUME NEW r2 \in Spoilt \cup {NoFooter}, Fault("footer"),
              payload' = [payload EXCEPT !.footer = r2]
       PROVE  CodecInv'
  <2>1. r2 \in AnyFooters(f)
    BY DEF AnyFooters
  <2>2. q = [p EXCEPT !.footer = r2]
    BY <1>2, <1>12, Zenon
  <2>3. q = [codec |-> "bin", header |-> h, flag |-> b, length |-> l, fields |-> x, footer |-> r2]
    BY <1>6, <2>2
  <2> QED
    BY <1>7, <1>8, <1>9, <1>12, <2>1, <2>3
<1>13. ASSUME NEW d \in {0, 5, 8}, Fault("length"), payload' = [payload EXCEPT !.length = (@ + d) - 4]
       PROVE  CodecInv'
  <2>1. PICK l2 : l2 = (p.length + d) - 4
    OBVIOUS
  <2>2. q = [p EXCEPT !.length = l2]
    BY <1>2, <1>13, <2>1, Zenon
  <2>3. q = [codec |-> "bin", header |-> h, flag |-> b, length |-> l2, fields |-> x, footer |-> r]
    BY <1>6, <2>2
  <2> QED
    BY <1>7, <1>8, <1>9, <1>13, <2>3
<1>14. ASSUME NEW kind \in FlawKinds, Fault(kind), NEW x2 \in Seq(A), q = [p EXCEPT !.fields = x2]
       PROVE  CodecInv'
  <2>1. q = [codec |-> "bin", header |-> h, flag |-> b, length |-> l, fields |-> x2, footer |-> r]
    BY <1>6, <1>14
  <2>2. b \in BOOLEAN /\ r \in AnyFooters(f) /\ b = b /\ r = r
    BY <1>7, Zenon
  <2>3. (b = b /\ r = r) \/ (r = r /\ h = h /\ l = l /\ x2 = x) \/ (b = b /\ h = h /\ l = l /\ x2 = x)
    BY Zenon
  <2>4. kind \in FlawKinds /\ x2 \in Seq(A) /\ Fault(kind)
    BY <1>14
  <2> QED
    BY <1>8, <2>1, <2>2, <2>4
<1>15. ASSUME NEW n \in DOMAIN fs, Fault("drop"), payload' = [payload EXCEPT !.fields = RemoveAt(fs, n)]
       PROVE  CodecInv'
  <2>1. PICK x2 : x2 = RemoveAt(x, n)
    OBVIOUS
  <2>2. q = [p EXCEPT !.fields = x2]
    BY <1>2, <1>5, <1>15, <2>1, Zenon
  <2>3. x2 \in Seq(A)
    BY <1>5, <1>7, <1>15, <2>1, RemoveAtIn
  <2> QED
    BY <1>9, <1>14, <1>15, <2>2, <2>3
<1>16. ASSUME NEW n \in DOMAIN fs, Fault("double"), payload' = [payload EXCEPT !.fields = Append(fs, fs[n])]
       PROVE  CodecInv'
  <2>1. PICK x2 : x2 = Append(x, x[n])
    OBVIOUS
  <2>2. q = [p EXCEPT !.fields = x2]
    BY <1>2, <1>5, <1>16, <2>1, Zenon
  <2>3. x2 \in Seq(A)
    BY <1>5, <1>7, <1>16, <2>1
  <2> QED
    BY <1>9, <1>14, <1>16, <2>2, <2>3
<1>17. ASSUME NEW n \in DOMAIN fs, NEW t \in {"unknown", "outside"}, Fault("key"),
              payload' = [payload EXCEPT !.fields[n].tag = t]
       PROVE  CodecInv'
  <2>1. PICK e : e = [x[n] EXCEPT !.tag = t]
    OBVIOUS
  <2>2. PICK x2 : x2 = [x EXCEPT ![n] = e]
    OBVIOUS
  <2>3. q = [p EXCEPT !.fields = x2]
    BY <1>2, <1>5, <1>17, <2>1, <2>2, Zenon DEF fs
  <2>4. x[n] \in A
    BY <1>5, <1>7, <1>17
  <2>5. e \in A
    BY <1>4, <2>1, <2>4, FieldDamaged
  <2>6. x2 \in Seq(A)
    BY <1>5, <1>7, <1>17, <2>2, <2>5, ReplaceIn
  <2> QED
    BY <1>9, <1>14, <1>17, <2>3, <2>6
<1>18. ASSUME NEW n \in DOMAIN fs, NEW w \in Wires, Fault("wire"),
              payload' = [payload EXCEPT !.fields[n].wire = w]
       PROVE  CodecInv'
  <2>1. PICK e : e = [x[n] EXCEPT !.wire = w]
    OBVIOUS
  <2>2. PICK x2 : x2 = [x EXCEPT ![n] = e]
    OBVIOUS
  <2>3. q = [p EXCEPT !.fields = x2]
    BY <1>2, <1>5, <1>18, <2>1, <2>2, Zenon DEF fs
  <2>4. x[n] \in A
    BY <1>5, <1>7, <1>18
  <2>5. e \in A
    BY <1>4, <2>1, <2>4, FieldDamaged
  <2>6. x2 \in Seq(A)
    BY <1>5, <1>7, <1>18, <2>2, <2>5, ReplaceIn
  <2> QED
    BY <1>9, <1>14, <1>18, <2>3, <2>6
<1>19. ASSUME NEW n \in DOMAIN fs, NEW v \in Damage, Fault("value"),
              payload' = [payload EXCEPT !.fields[n].value = v]
       PROVE  CodecInv'
  <2>1. PICK e : e = [x[n] EXCEPT !.value = v]
    OBVIOUS
  <2>2. PICK x2 : x2 = [x EXCEPT ![n] = e]
    OBVIOUS
  <2>3. q = [p EXCEPT !.fields = x2]
    BY <1>2, <1>5, <1>19, <2>1, <2>2, Zenon DEF fs
  <2>4. x[n] \in A
    BY <1>5, <1>7, <1>19
  <2>5. e \in A
    BY <1>4, <2>1, <2>4, FieldDamaged
  <2>6. x2 \in Seq(A)
    BY <1>5, <1>7, <1>19, <2>2, <2>5, ReplaceIn
  <2> QED
    BY <1>9, <1>14, <1>19, <2>3, <2>6
<1>20. ASSUME NEW r2 \in FooterReadings, Fault("footer"),
              payload' = [payload EXCEPT !.footer = [covers |-> <<"other">>, reads |-> r2]]
       PROVE  CodecInv'
  BY <1>12, <1>20 DEF Spoilt
<1>21. CASE Fault("footer") /\ payload' = [payload EXCEPT !.footer = NoFooter]
  BY <1>12, <1>21
<1> QED
  BY <1>10, <1>11, <1>13, <1>15, <1>16, <1>17, <1>18, <1>19, <1>20, <1>21, Zenon DEF BinDamaged, fs

LEMMA CodecSteps ==
  ASSUME CodecInv, [CodecNext]_codecVars
  PROVE  CodecInv'
<1>1. ASSUME NEW codec \in Codecs, NEW f \in Fixtures \cup decoded, EncodeFixture(codec, f)
      PROVE  CodecInv'
  BY <1>1, EncodeKeeps
<1>2. ASSUME NEW codec \in Codecs, DecodeFixture(codec)
      PROVE  CodecInv'
  <2>1. /\ payload # NoBytes /\ UNCHANGED <<source, payload, flaws>>
        /\ decoded' = IF Decoded(codec, payload) = {} THEN decoded ELSE Decoded(codec, payload)
    BY <1>2 DEF DecodeFixture
  <2>2. \A g \in decoded' : IsFixture(g)
    <3>1. \A g \in decoded : IsFixture(g)
      BY DEF CodecInv
    <3>2. \A g \in Decoded(codec, payload) : IsFixture(g)
      BY <2>1, DecodedIsFixture
    <3> QED
      BY <2>1, <3>1, <3>2
  <2> QED
    BY <2>1, <2>2 DEF CodecInv
<1>3. CASE FixtureReset
  BY <1>3 DEF FixtureReset, CodecInv
<1>4. CASE UNCHANGED codecVars
  BY <1>4 DEF codecVars, CodecInv
<1> QED
  BY <1>1, <1>2, <1>3, <1>4, JsonDamageKeeps, BinDamageKeeps DEF CodecNext

\* Either codec, on a valid fixture.
LEMMA RoundTripOf ==
  ASSUME NEW f, IsFixture(f), ValidFixture(f)
  PROVE  /\ Encoded("json", f) = {EncodeJson(f)}
         /\ Decoded("json", EncodeJson(f)) = {ThroughJson(f)}
         /\ f["fixture_schema_version"] = SchemaV1 =>
              Encoded("bin", f) # {} /\ \A p \in Encoded("bin", f) : Decoded("bin", p) = {f}
         /\ f["fixture_schema_version"] # SchemaV1 => Encoded("bin", f) = {}
<1>1. Encoded("json", f) = {EncodeJson(f)} /\ Decoded("json", EncodeJson(f)) = {ThroughJson(f)}
  BY EncodedJson DEF Encoded, Decoded
<1>2. ASSUME f["fixture_schema_version"] = SchemaV1
      PROVE  Encoded("bin", f) # {} /\ \A p \in Encoded("bin", f) : Decoded("bin", p) = {f}
  <2>1. Encoded("bin", f) = {EncodeBin(f, r) : r \in FooterReadings}
    BY <1>2 DEF Encoded
  <2>2. Encoded("bin", f) # {}
    BY <2>1, CodecAssumption
  <2>3. ASSUME NEW r \in FooterReadings, NEW e, e = EncodeBin(f, r)
        PROVE  Decoded("bin", e) = {f}
    <3>1. /\ e.codec = "bin" /\ e.header = "v1" /\ e.flag = TRUE
          /\ e.length = SizeOf(BinFieldsOf(f)) /\ e.fields = BinFieldsOf(f)
          /\ e.footer = FooterOf(f, r)
      BY <2>3, EncodedBin
    <3>2. e.footer \in Footers(f)
      BY <3>1 DEF Footers
    <3>3. FrameAccepted(e) /\ PayloadOf(e) = BinFieldsOf(f)
      BY <3>1, <3>2, WrittenFrame, Zenon
    <3>4. DecodeBin(e) = {f}
      BY <1>2, <3>3, CleanBin
    <3> QED
      BY <3>1, <3>4 DEF Decoded
  <2> QED
    BY <2>1, <2>2, <2>3
<1>3. f["fixture_schema_version"] # SchemaV1 => Encoded("bin", f) = {}
  BY DEF Encoded
<1> QED
  BY <1>1, <1>2, <1>3

\* A frame that is accepted, and that kept its flag or took one fault at most, has the
\* payload it was written with.
LEMMA AcceptedIsClean ==
  ASSUME NEW f, NEW p, NEW fl \in Seq(FlawKinds), FromBin(p, f, fl), p.flag \/ Len(fl) <= 1,
         FrameAccepted(p)
  PROVE  PayloadOf(p) = BinFieldsOf(f)
<1>1. p.footer \in AnyFooters(f)
  BY Zenon DEF FromBin
<1>2. CASE p.flag
  <2>1. p.footer.covers = <<p.header, p.flag, p.length, p.fields>>
    BY <1>2, Zenon DEF FrameAccepted, Checksum
  <2>2. PICK h, b, l, x, r, c : /\ h = p.header /\ b = p.flag /\ l = p.length /\ x = p.fields
                                /\ r = p.footer /\ c = r.covers
    BY Zenon
  <2>3. c = <<h, b, l, x>>
    BY <2>1, <2>2, Zenon
  <2>4. r # NoFooter
    <3> SUFFICES ASSUME r = NoFooter
                 PROVE  FALSE
      OBVIOUS
    <3>1. c = <<>>
      BY <2>2 DEF NoFooter
    <3>2. Len(<<>>) = 0 /\ Len(<<h, b, l, x>>) = 4
      OBVIOUS
    <3> QED
      BY <2>3, <3>1, <3>2
  <2>5. r \notin Spoilt
    <3> SUFFICES ASSUME r \in Spoilt
                 PROVE  FALSE
      OBVIOUS
    <3>1. PICK w, o : w = "other" /\ o = <<w>>
      BY Zenon
    <3>2. Len(o) = 1
      BY <3>1
    <3>3. PICK z \in FooterReadings : r = [covers |-> o, reads |-> z]
      BY <3>1, Zenon DEF Spoilt
    <3>4. r.covers = o
      BY <3>3
    <3>5. Len(<<h, b, l, x>>) = 4
      OBVIOUS
    <3>6. PICK t : t = <<h, b, l, x>> /\ Len(t) = 4
      BY <3>5
    <3>7. t = o
      BY <2>2, <2>3, <3>4, <3>6, Zenon
    <3> QED
      <4>1. 1 = 4
        BY <3>2, <3>6, <3>7, Zenon
      <4> QED
        BY <4>1
  <2>6. c = SumOf(f)
    BY <1>1, <2>2, <2>4, <2>5, FooterIsThere DEF AnyFooters
  <2>7. x = BinFieldsOf(f)
    <3>1. PICK t, n, y : t = TRUE /\ n = SizeOf(BinFieldsOf(f)) /\ y = BinFieldsOf(f)
      BY Zenon
    <3>2. <<h, b, l, x>> = <<"v1", t, n, y>>
      BY <2>3, <2>6, <3>1, Zenon DEF SumOf
    <3>3. x = y
      BY <3>2
    <3> QED
      BY <3>1, <3>3
  <2> QED
    BY <1>2, <2>2, <2>7, Zenon DEF PayloadOf
<1>3. CASE ~p.flag
  <2>1. PICK B, C : B = Flawed(p.footer \notin Footers(f)) /\ C = Flawed(Covered(p) # Written(f))
    OBVIOUS
  <2>2. Flawed(~p.flag) = 1
    BY <1>3, Zenon DEF Flawed
  <2>3. 1 + B + C <= Len(fl) /\ Len(fl) <= 1
    BY <1>3, <2>1, <2>2, Zenon DEF FromBin
  <2>4. B \in {0, 1} /\ C \in {0, 1} /\ Len(fl) \in Nat
    BY <2>1 DEF Flawed
  <2>5. B = 0 /\ C = 0
    BY <2>3, <2>4
  <2>6. p.footer \in Footers(f) /\ Covered(p) = Written(f)
    BY <2>1, <2>5 DEF Flawed
  <2>7. p.length = SizeOf(BinFieldsOf(f)) /\ p.fields = BinFieldsOf(f)
    BY <2>6 DEF Covered, Written
  <2>8. p.footer # NoFooter
    BY <2>6, FooterIsThere
  <2>9. LengthFits(p)
    BY Zenon DEF FrameAccepted
  <2>10. SizeOf(BinFieldsOf(f)) + 0 = SizeOf(BinFieldsOf(f)) + 4
    <3>1. (IF p.flag THEN 4 ELSE 0) = 0 /\ (IF p.footer = NoFooter THEN 0 ELSE 4) = 4
      BY <1>3, <2>8, Zenon
    <3> QED
      BY <2>7, <2>9, <3>1, Zenon DEF LengthFits
  <2>11. SizeOf(BinFieldsOf(f)) \in Nat
    BY BinFieldsFacts
  <2> QED
    BY <2>10, <2>11
<1> QED
  BY <1>2, <1>3

LEMMA DamageIsRefused == CodecInv => DamageRefused
<1> SUFFICES ASSUME CodecInv, payload # NoBytes, Bearable, NEW g \in Decoded(payload.codec, payload)
             PROVE  \E o \in Encoded(payload.codec, source) : g \in Decoded(payload.codec, o)
  BY DEF DamageRefused
<1>1. PICK p, f, fl : p = payload /\ f = source /\ fl = flaws
  OBVIOUS
<1>2. /\ IsFixture(f) /\ ValidFixture(f) /\ fl \in Seq(FlawKinds)
      /\ FromJson(p, f, fl) \/ FromBin(p, f, fl)
  BY <1>1 DEF CodecInv
<1>3. CASE FromJson(p, f, fl)
  <2>1. p.codec = "json"
    BY <1>3 DEF FromJson
  <2>2. /\ g \in DecodeJson(p) /\ ~Contains(fl, "value")
        /\ Contains(fl, "rename") => Len(fl) <= 1
    BY <1>1, <2>1 DEF Decoded, Bearable
  <2>4. ~Contains(fl, "rename")
    <3> SUFFICES ASSUME Contains(fl, "rename")
                 PROVE  FALSE
      OBVIOUS
    <3>1. Len(fl) = 1
      <4>1. Len(fl) \in Nat /\ DOMAIN fl = 1 .. Len(fl)
        BY <1>2
      <4>2. PICK n \in 1 .. Len(fl) : fl[n] = "rename"
        BY <4>1 DEF Contains
      <4>3. Len(fl) <= 1
        BY <2>2, Zenon
      <4> QED
        BY <4>1, <4>2, <4>3
    <3>2. Lacks(p.members)
      BY <1>3, <3>1 DEF FromJson
    <3>3. {p.members[n].key : n \in DOMAIN p.members} = Fields
      BY <2>2 DEF DecodeJson
    <3> QED
      BY <3>2, <3>3 DEF Lacks
  <2>5. p.members \in Seq(Origins(f) \cup Strays(f))
    BY <1>3, <2>2, <2>4 DEF FromJson
  <2>3. g = ThroughJson(f)
    BY <2>2, <2>5, CleanJson
  <2> QED
    BY <1>1, <1>2, <2>1, <2>3, RoundTripOf
<1>4. CASE FromBin(p, f, fl)
  <2>1. p.codec = "bin" /\ f["fixture_schema_version"] = SchemaV1
    <3>1. PICK b, h, l, x, r : b = p.flag /\ h = p.header /\ l = p.length /\ x = p.fields /\ r = p.footer
      BY Zenon
    <3>2. p = [codec |-> "bin", header |-> h, flag |-> b, length |-> l, fields |-> x, footer |-> r]
      BY <1>4, <3>1, Zenon DEF FromBin
    <3>3. f["fixture_schema_version"] = SchemaV1
      BY <1>4, Zenon DEF FromBin
    <3> QED
      BY <3>2, <3>3
  <2>2. g \in DecodeBin(p) /\ (p.flag \/ Len(fl) <= 1)
    BY <1>1, <2>1 DEF Decoded, Bearable
  <2>3. FrameAccepted(p)
    BY <2>2 DEF DecodeBin
  <2>4. PayloadOf(p) = BinFieldsOf(f)
    BY <1>2, <1>4, <2>2, <2>3, AcceptedIsClean
  <2>5. g = f
    BY <1>2, <2>1, <2>2, <2>3, <2>4, CleanBin
  <2> QED
    BY <1>1, <1>2, <2>1, <2>5, RoundTripOf
<1> QED
  BY <1>2, <1>3, <1>4

\* What JSON brings back both codecs preserve, and they agree on what it did not change.
LEMMA JsonSettles ==
  ASSUME NEW f, IsFixture(f), ValidFixture(f), NEW g, g = ThroughJson(f)
  PROVE  /\ \A codec \in Codecs : RoundTrips(codec, g)
         /\ Encoded("bin", f) # {} => (CrossCodecVerify(f) <=> g = f)
<1>1. IsFixture(g) /\ ValidFixture(g) /\ g["codec"] = f["codec"] /\ ThroughJson(g) = g
  BY ThroughJsonFacts
<1>2. RoundTrips("json", g)
  BY <1>1, RoundTripOf DEF RoundTrips
<1>3. RoundTrips("bin", g)
  <2>1. \/ Encoded("bin", g) = {}
        \/ \A p \in Encoded("bin", g) : Decoded("bin", p) = {g}
    BY <1>1, RoundTripOf
  <2> QED
    BY <2>1 DEF RoundTrips
<1>4. ASSUME Encoded("bin", f) # {}
      PROVE  CrossCodecVerify(f) <=> g = f
  <2>1. Encoded("bin", f) # {} /\ \A p \in Encoded("bin", f) : Decoded("bin", p) = {f}
    BY <1>4, RoundTripOf
  <2>2. Encoded("json", f) = {EncodeJson(f)} /\ Decoded("json", EncodeJson(f)) = {g}
    BY RoundTripOf
  <2>3. /\ UNION {Decoded("json", p) : p \in Encoded("json", f)} = {g}
        /\ UNION {Decoded("bin", p) : p \in Encoded("bin", f)} = {f}
    BY <2>1, <2>2
  <2>4. CrossCodecVerify(f) <=> SemanticEq(g, f)
    BY <2>3, Zenon DEF CrossCodecVerify
  <2>5. f = [k \in Fields |-> f[k]] /\ g = [k \in Fields |-> g[k]]
    BY <1>1 DEF IsFixture
  <2>6. SemanticEq(g, f) <=> g = f
    BY <1>1, <2>5 DEF SemanticEq
  <2> QED
    BY <2>4, <2>6
<1> QED
  BY <1>2, <1>3, <1>4 DEF Codecs

\* A frame without a fault is taken for what was written.
LEMMA SoundFrame ==
  ASSUME NEW f, IsFixture(f), ValidFixture(f), NEW p, FromBin(p, f, <<>>)
  PROVE  p.codec = "bin" /\ DecodeBin(p) = {f}
<1>1. PICK A, B, C : /\ A = Flawed(~p.flag) /\ B = Flawed(p.footer \notin Footers(f))
                     /\ C = Flawed(Covered(p) # Written(f))
  OBVIOUS
<1>2. A + B + C <= Len(<<>>)
  BY <1>1, Zenon DEF FromBin
<1>3. A \in {0, 1} /\ B \in {0, 1} /\ C \in {0, 1}
  BY <1>1 DEF Flawed
<1>4. A = 0 /\ B = 0 /\ C = 0
  BY <1>2, <1>3
<1>5. p.flag = TRUE
  <2>1. p.flag \in BOOLEAN
    BY Zenon DEF FromBin
  <2>2. ~p.flag => A = 1
    BY <1>1, Zenon DEF Flawed
  <2>3. 0 # 1
    OBVIOUS
  <2> QED
    BY <1>4, <2>1, <2>2, <2>3, Zenon
<1>6. p.footer \in Footers(f) /\ Covered(p) = Written(f)
  BY <1>1, <1>4 DEF Flawed
<1>7. p.header = "v1" /\ p.length = SizeOf(BinFieldsOf(f)) /\ p.fields = BinFieldsOf(f)
  BY <1>6 DEF Covered, Written
<1>8. FrameAccepted(p) /\ PayloadOf(p) = BinFieldsOf(f)
  BY <1>5, <1>6, <1>7, WrittenFrame, Zenon
<1>9. p.codec = "bin" /\ f["fixture_schema_version"] = SchemaV1
  <2>1. PICK b, h, l, x, r : b = p.flag /\ h = p.header /\ l = p.length /\ x = p.fields /\ r = p.footer
    BY Zenon
  <2>2. p = [codec |-> "bin", header |-> h, flag |-> b, length |-> l, fields |-> x, footer |-> r]
    BY <2>1, Zenon DEF FromBin
  <2>3. f["fixture_schema_version"] = SchemaV1
    BY Zenon DEF FromBin
  <2> QED
    BY <2>2, <2>3
<1> QED
  BY <1>8, <1>9, CleanBin

LEMMA RoundTripIsSettled == CodecInv => RoundTripSettles
<1> SUFFICES ASSUME CodecInv, payload # NoBytes, flaws = <<>>
             PROVE  RoundTripSettles
  BY DEF RoundTripSettles
<1>1. PICK p, f : p = payload /\ f = source
  OBVIOUS
<1>2. /\ IsFixture(f) /\ ValidFixture(f)
      /\ FromJson(p, f, <<>>) \/ FromBin(p, f, <<>>)
  BY <1>1 DEF CodecInv
<1>3. CASE FromJson(p, f, <<>>)
  <2>1. p = EncodeJson(f) /\ p.codec = "json"
    BY <1>2, <1>3, EncodedJson DEF FromJson
  <2>2. PICK g : g = ThroughJson(f)
    OBVIOUS
  <2>3. g \in Decoded(p.codec, p)
    BY <1>2, <2>1, <2>2, RoundTripOf
  <2>4. /\ \A codec \in Codecs : RoundTrips(codec, g)
        /\ Encoded("bin", f) # {} => (CrossCodecVerify(f) <=> g = f)
    BY <1>2, <2>2, JsonSettles
  <2>5. CrossCodecVerify(f) => Encoded("bin", f) # {}
    BY DEF CrossCodecVerify
  <2>6. CrossCodecVerify(f) => SemanticKey(g) = SemanticKey(f) /\ ReplayKey(g) = ReplayKey(f)
    BY <2>4, <2>5
  <2>7. p.codec # "bin"
    BY <2>1
  <2> QED
    BY <1>1, <2>3, <2>4, <2>6, <2>7, Zenon DEF RoundTripSettles
<1>4. CASE FromBin(p, f, <<>>)
  <2>1. p.codec = "bin" /\ DecodeBin(p) = {f}
    BY <1>2, <1>4, SoundFrame
  <2>2. f \in Decoded(p.codec, p)
    BY <2>1 DEF Decoded
  <2>3. p.codec # "json"
    BY <2>1
  <2> QED
    BY <1>1, <2>2, <2>3, Zenon DEF RoundTripSettles
<1> QED
  BY <1>2, <1>3, <1>4

LEMMA CodecRunsAlone == SupportSpec => CodecSpec
<1>1. SupportInit => CodecInit
  BY DEF SupportInit
<1>2. [SupportNext]_SupportVars => [CodecNext]_codecVars
  BY DEF SupportNext, SupportVars, Rest
<1> QED
  BY <1>1, <1>2, PTL DEF SupportSpec, CodecSpec

\* FixtureSurvives: what an encoder writes its decoder takes, BIN exactly and JSON up to a
\* fixture that both codecs then preserve; any number of faults leaves a BIN payload whose
\* flag is set refused or harmless, one fault any BIN payload, and so a JSON payload whose
\* keys and values are intact or unknown, or one of whose keys was renamed (hooks.c,
\* equivalence.c).
THEOREM FixturesSurvive == SupportSpec => []FixtureSurvives
<1>1. CodecInit => CodecInv
  BY DEF CodecInit, CodecInv
<1>2. CodecInv => FixtureSurvives
  BY RoundTripIsSettled, DamageIsRefused DEF FixtureSurvives
<1> QED
  BY <1>1, <1>2, CodecRunsAlone, CodecSteps, PTL DEF CodecSpec

====
