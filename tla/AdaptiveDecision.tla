---- MODULE AdaptiveDecision ----
(***************************************************************************)
(* src/core/adaptive.c: a decision picks the action of the least expected  *)
(* loss, or the surface's declared fallback when confidence or the budget  *)
(* of decisions runs out, and leaves its evidence in a ring.  A surface    *)
(* here is its losses and its fallback; the terms of evidence are left out *)
(* and the ledger's digest is the sequence of entries it hashes.           *)
(***************************************************************************)
EXTENDS Integers, FiniteSetsExt, SequencesExt

CONSTANTS
  AdaptiveDepth,   \* ASX_ADAPTIVE_LEDGER_DEPTH
  Unit,            \* 2^32, the 1.0 of a posterior
  LossMod,         \* 2^32, the width a loss is reported in
  Surfaces,        \* [losses : a loss for each <<action, state>>, actions, states, fallback]
  Posteriors,      \* [weights : a sequence for the states, confidence]
  Policies,        \* [threshold, budget]
  MaxDecisions     \* bound on the decisions between two resets

ASSUME AdaptiveAssumption ==
  /\ AdaptiveDepth \in Nat \ {0} /\ Unit \in Nat \ {0} /\ LossMod \in Nat \ {0} /\ MaxDecisions \in Nat
  /\ \A surface \in Surfaces :
       /\ surface.actions \in Nat \ {0} /\ surface.states \in Nat \ {0} /\ surface.fallback \in Nat
       /\ surface.losses \in [(0 .. surface.actions - 1) \X (1 .. surface.states) -> Nat]
  /\ \A posterior \in Posteriors : posterior.weights \in Seq(Nat) /\ posterior.confidence \in Nat
  /\ \A policy \in Policies : policy.threshold \in Nat /\ policy.budget \in Nat

VARIABLES
  adaptive,        \* g_policy, g_decision_seq, g_fallback_count, g_in_fallback and the ledger
  decided          \* surface, posterior, policy and decision of each call since the reset
adaptiveVars == <<adaptive, decided>>

DecisionSlots == 0 .. AdaptiveDepth - 1
NoDecision == [selected |-> 0, loss |-> 0, counterfactual |-> 0, cfLoss |-> 0, fallback |-> FALSE]
FreshAdaptive ==
  [threshold |-> 0, budget |-> 0, seq |-> 0, fallbacks |-> 0, inFallback |-> FALSE,
   ledger |-> [k \in DecisionSlots |-> [sequence |-> 0, decision |-> NoDecision]], written |-> 0]

AdaptiveInit == adaptive = FreshAdaptive /\ decided = <<>>
AdaptiveReset == adaptive' = FreshAdaptive /\ decided' = <<>>

SetDecisionPolicy(policy) ==
  /\ adaptive' = [adaptive EXCEPT !.threshold = policy.threshold, !.budget = policy.budget]
  /\ UNCHANGED decided

\* compute_expected_loss: every product is rounded down on its own.
ExpectedLoss(surface, posterior, a) ==
  LET Total[s \in 0 .. surface.states] ==
        IF s = 0 THEN 0
        ELSE Total[s - 1] + (surface.losses[<<a, s>>] * posterior.weights[s]) \div Unit
  IN  Total[surface.states]

\* The first of the best among a set of actions.
Best(surface, posterior, actions) ==
  CHOOSE a \in actions : \A b \in actions :
    LET la == ExpectedLoss(surface, posterior, a)
        lb == ExpectedLoss(surface, posterior, b)
    IN  la < lb \/ (la = lb /\ a <= b)

\* A smaller loss; losses start at UINT64_MAX, here -1 for "no action yet".
Less(x, y) == x # -1 /\ (y = -1 \/ x < y)

\* The best and the second best so far, after one action more.
Seen(acc, a, loss) ==
  IF Less(loss, acc.best)
  THEN [best |-> loss, action |-> a, second |-> acc.best, other |-> acc.action]
  ELSE IF Less(loss, acc.second) THEN [acc EXCEPT !.second = loss, !.other = a] ELSE acc

\* One pass over the actions; both start at 0.
Scan(surface, posterior) ==
  LET Pass[n \in 0 .. surface.actions] ==
        IF n = 0 THEN [best |-> -1, action |-> 0, second |-> -1, other |-> 0]
        ELSE Seen(Pass[n - 1], n - 1, ExpectedLoss(surface, posterior, n - 1))
  IN  Pass[surface.actions]

FallsBack(posterior) ==
  \/ adaptive.threshold > 0 /\ posterior.confidence < adaptive.threshold
  \/ adaptive.budget > 0 /\ adaptive.seq >= adaptive.budget

DecisionFor(surface, posterior) ==
  LET scan == Scan(surface, posterior)
  IN  IF FallsBack(posterior)
      THEN [NoDecision EXCEPT !.selected = surface.fallback, !.counterfactual = surface.fallback,
                              !.fallback = TRUE]
      ELSE [selected |-> scan.action, loss |-> scan.best % LossMod, counterfactual |-> scan.other,
            cfLoss |-> scan.second % LossMod, fallback |-> FALSE]

\* A posterior over other states than the surface's is refused.
Decide(surface, posterior) ==
  LET d == DecisionFor(surface, posterior)
  IN  /\ Len(posterior.weights) = surface.states /\ Len(decided) < MaxDecisions
      /\ adaptive' =
           [adaptive EXCEPT !.inFallback = d.fallback,
              !.fallbacks = IF d.fallback THEN @ + 1 ELSE @,
              !.ledger[adaptive.written % AdaptiveDepth] = [sequence |-> adaptive.seq, decision |-> d],
              !.written = @ + 1, !.seq = @ + 1]
      /\ decided' = Append(decided, [surface |-> surface, posterior |-> posterior, decision |-> d,
                                     budget |-> adaptive.budget, threshold |-> adaptive.threshold])

AdaptiveNext ==
  \/ AdaptiveReset
  \/ \E policy \in Policies : SetDecisionPolicy(policy)
  \/ \E surface \in Surfaces, posterior \in Posteriors : Decide(surface, posterior)

AdaptiveSpec == AdaptiveInit /\ [][AdaptiveNext]_adaptiveVars

\* asx_adaptive_ledger_get of an index below ReadableDecisions
ReadableDecisions == Min({adaptive.written, AdaptiveDepth})
DecisionGet(index) ==
  adaptive.ledger[((IF adaptive.written <= AdaptiveDepth THEN 0 ELSE adaptive.written) + index)
                    % AdaptiveDepth]

----------------------------------------------------------------------------
(* Properties *)

\* The ledger explains the latest decisions in the order they were made: one taken on its
\* merits has the least expected loss and names the best of the other actions; one taken
\* without confidence, or after as many decisions as the policy allows, is the fallback.
AdaptiveExplained ==
  /\ adaptive.fallbacks = Cardinality({n \in DOMAIN decided : decided[n].decision.fallback})
  /\ \A k \in 1 .. ReadableDecisions :
       LET n == Len(decided) - ReadableDecisions + k
           call == decided[n]
           entry == DecisionGet(k - 1)
           actions == 0 .. call.surface.actions - 1
           best == Best(call.surface, call.posterior, actions)
       IN  /\ entry = [sequence |-> n - 1, decision |-> call.decision]
           /\ entry.decision.fallback <=>
                \/ call.posterior.confidence < call.threshold
                \/ call.budget \in 1 .. n - 1
           /\ IF entry.decision.fallback THEN entry.decision.selected = call.surface.fallback
              ELSE /\ entry.decision.selected = best
                   /\ call.surface.actions > 1 =>
                        ExpectedLoss(call.surface, call.posterior, entry.decision.counterfactual)
                          = ExpectedLoss(call.surface, call.posterior,
                                         Best(call.surface, call.posterior, actions \ {best}))
====
