---- MODULE Budget ----
(***************************************************************************)
(* src/core/budget.c: budgets, their meet, and their consumption by work   *)
(* that was given the meet of two of them.                                 *)
(***************************************************************************)
EXTENDS Integers, FiniteSetsExt

CONSTANTS
  Unlimited,      \* UINT64_MAX in a cost quota
  PollMax,        \* UINT32_MAX
  Grants,         \* the budgets callers hand out, besides the infinite and the empty one
  Costs,          \* what one piece of work costs
  TimeMax         \* bound on the clock

ASSUME BudgetAssumption ==
  /\ Unlimited \in Nat /\ PollMax \in Nat /\ Costs \subseteq Nat /\ TimeMax \in Nat
  /\ Grants \subseteq [deadline : Nat, polls : 0 .. PollMax, cost : 0 .. Unlimited, priority : 0 .. 255]

VARIABLES
  grants,         \* the two budgets the work is under
  budget,         \* their meet, as it is consumed
  polled, spent,  \* what the work was allowed so far
  clock
budgetVars == <<grants, budget, polled, spent, clock>>

InfiniteBudget == [deadline |-> 0, polls |-> PollMax, cost |-> Unlimited, priority |-> 255]
ZeroBudget == [deadline |-> 1, polls |-> 0, cost |-> 0, priority |-> 0]
FromPolls(n) == [InfiniteBudget EXCEPT !.polls = n]

\* A deadline of 0 is none.
EarlierDeadline(a, b) == IF a = 0 THEN b ELSE IF b = 0 THEN a ELSE Min({a, b})

\* asx_budget_meet
Meet(a, b) ==
  [deadline |-> EarlierDeadline(a.deadline, b.deadline), polls |-> Min({a.polls, b.polls}),
   cost |-> Min({a.cost, b.cost}), priority |-> Min({a.priority, b.priority})]

Exhausted(b) == b.polls = 0 \/ (b.cost # Unlimited /\ b.cost = 0)
PastDeadline(b, now) == b.deadline # 0 /\ now >= b.deadline

AllGrants == Grants \cup {InfiniteBudget, ZeroBudget, FromPolls(1)}

BudgetInit ==
  /\ grants \in AllGrants \X AllGrants
  /\ budget = Meet(grants[1], grants[2])
  /\ polled = 0 /\ spent = 0 /\ clock = 0

\* asx_budget_consume_poll
ConsumePoll ==
  /\ budget.polls > 0
  /\ budget' = [budget EXCEPT !.polls = @ - 1]
  /\ polled' = polled + 1
  /\ UNCHANGED <<grants, spent, clock>>

\* asx_budget_consume_cost: an unlimited quota stays unlimited, a cost beyond the quota is
\* refused and takes nothing.
ConsumeCost(c) ==
  /\ spent < 2 * Unlimited
  /\ budget.cost = Unlimited \/ c <= budget.cost
  /\ budget' = [budget EXCEPT !.cost = IF @ = Unlimited THEN @ ELSE @ - c]
  /\ spent' = spent + c
  /\ UNCHANGED <<grants, polled, clock>>

\* The work, before it begins, comes under one more budget.
Narrow(b) ==
  /\ polled = 0 /\ spent = 0
  /\ grants' = <<grants[1], Meet(grants[2], b)>>
  /\ budget' = Meet(budget, b)
  /\ UNCHANGED <<polled, spent, clock>>

ClockTick == clock < TimeMax /\ clock' = clock + 1 /\ UNCHANGED <<grants, budget, polled, spent>>

BudgetNext ==
  \/ ConsumePoll \/ (\E c \in Costs : ConsumeCost(c))
  \/ (\E b \in AllGrants : Narrow(b))
  \/ ClockTick

BudgetSpec == BudgetInit /\ [][BudgetNext]_budgetVars

----------------------------------------------------------------------------
(* Properties *)

\* Work under the meet of budgets keeps within each of them: it never polls or spends more
\* than one allows, is exhausted once one is used up, and past its deadline once it is past
\* the deadline of one.
BudgetWithinEach ==
  \A n \in 1 .. 2 :
    /\ polled <= grants[n].polls
    /\ grants[n].cost # Unlimited => spent <= grants[n].cost
    /\ PastDeadline(grants[n], clock) => PastDeadline(budget, clock)
    /\ (polled = grants[n].polls \/ (grants[n].cost # Unlimited /\ spent = grants[n].cost))
         => Exhausted(budget)
====
