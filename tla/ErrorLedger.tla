---- MODULE ErrorLedger ----
(***************************************************************************)
(* src/core/status.c: the error ledger.  A ring of the latest errors per   *)
(* task slot, and one for every other caller; a handle that finds the ring *)
(* of its slot in other hands takes it over, empty.  The operation and the *)
(* place of an error are left out.                                         *)
(***************************************************************************)
EXTENDS Naturals, Sequences

CONSTANTS
  LedgerDepth,      \* ASX_ERROR_LEDGER_DEPTH
  LedgerSlots,      \* task slots below ASX_ERROR_LEDGER_TASK_SLOTS
  LedgerGens,       \* generations of a task slot
  Fallback,         \* the name of g_fallback_ledger
  Others,           \* handles that are no task's
  NoOwner,          \* ASX_INVALID_ID, one of them
  Errors,           \* statuses other than ASX_OK
  NoError           \* the ASX_OK of a cleared entry

ASSUME LedgerAssumption ==
  /\ LedgerDepth \in Nat \ {0} /\ NoOwner \in Others /\ Fallback \notin LedgerSlots

VARIABLES
  ledgers,       \* g_task_ledgers and g_fallback_ledger
  boundTask,     \* g_bound_task
  errors         \* errors[h]: the latest errors of a handle, while it owns its ledger
ledgerVars == <<ledgers, boundTask, errors>>

LedgerTasks == [slot : LedgerSlots, gen : LedgerGens]
Owners == LedgerTasks \cup Others

ClearedLedger(owner) ==
  [owner |-> owner, used |-> 0, write |-> 0, overflowed |-> FALSE,
   entries |-> [k \in 0 .. LedgerDepth - 1 |-> NoError]]

LedgerReset ==
  /\ ledgers' = [l \in LedgerSlots \cup {Fallback} |-> ClearedLedger(NoOwner)]
  /\ boundTask' = NoOwner /\ errors' = [h \in Owners |-> <<>>]

LedgerInit ==
  /\ ledgers = [l \in LedgerSlots \cup {Fallback} |-> ClearedLedger(NoOwner)]
  /\ boundTask = NoOwner /\ errors = [h \in Owners |-> <<>>]

LedgerOf(h) == IF h \in LedgerTasks THEN h.slot ELSE Fallback

Owned(h) == IF ledgers[LedgerOf(h)].owner = h THEN ledgers[LedgerOf(h)] ELSE ClearedLedger(h)

\* asx_error_ledger_record_for_task
ErrorRecord(h, status) ==
  LET l == Owned(h)
      latest == IF Len(errors[h]) = LedgerDepth THEN Tail(errors[h]) ELSE errors[h]
  IN  /\ ledgers' = [ledgers EXCEPT ![LedgerOf(h)] =
                       [l EXCEPT !.entries[l.write] = status,
                                 !.write = (@ + 1) % LedgerDepth,
                                 !.used = IF @ < LedgerDepth THEN @ + 1 ELSE @,
                                 !.overflowed = @ \/ l.used = LedgerDepth]]
      /\ errors' = [x \in Owners |->
                      IF x = h THEN Append(latest, status)
                      ELSE IF LedgerOf(x) = LedgerOf(h) THEN <<>> ELSE errors[x]]
      /\ UNCHANGED boundTask

ErrorRecordCurrent(status) == ErrorRecord(boundTask, status)

BindTask(h) ==
  /\ boundTask' = h
  /\ UNCHANGED <<ledgers, errors>>

\* asx_error_ledger_count and _get: what a reader that asks for h sees, in order.
ErrorsRead(h) ==
  LET l == ledgers[LedgerOf(h)]
      oldest == IF l.used < LedgerDepth THEN 0 ELSE l.write
  IN  IF l.owner # h THEN <<>>
      ELSE [n \in 1 .. l.used |-> l.entries[(oldest + n - 1) % LedgerDepth]]

LedgerNext ==
  \/ \E s \in Errors : ErrorRecordCurrent(s) \/ \E h \in Owners : ErrorRecord(h, s)
  \/ \E h \in Owners : BindTask(h)
  \/ LedgerReset

LedgerSpec == LedgerInit /\ [][LedgerNext]_ledgerVars

----------------------------------------------------------------------------
(* Properties *)

\* A handle reads its own latest errors, oldest first, over wraps of the ring and
\* changes of the slot's owner: no task reads what another generation left.
ErrorsReadOwn == \A h \in Owners : ErrorsRead(h) = errors[h]
====
