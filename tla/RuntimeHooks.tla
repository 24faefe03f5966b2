---- MODULE RuntimeHooks ----
(***************************************************************************)
(* src/runtime/hooks.c, the first part: the table of platform hooks and    *)
(* its seal, the faults injected in front of them, and the runtime's       *)
(* helpers for memory, time, entropy and readiness.  What they read from   *)
(* outside goes to the hindsight ring.                                     *)
(***************************************************************************)
EXTENDS Hindsight, FiniteSets

CONSTANTS
  Deterministic,   \* ASX_DETERMINISTIC of the build
  HookTables,      \* the tables installed: [hooks : a set of names, seeded, sealed]
  ClockValues,     \* what a clock hook returns
  EntropyValues,   \* what an entropy hook returns
  ReadyCounts,     \* what a reactor hook reports
  Faults,          \* the faults injected: [kind, param, after, count]
  MaxFaults,       \* ASX_FAULT_MAX_ACTIVE
  MaxCalls,        \* bound on the calls of each kind between two clears
  MaxBlocks        \* bound on the blocks the allocator has handed out

\* The functions a table may have; the log sink is left out.
HookNames == {"malloc", "realloc", "free", "now", "logical", "entropy", "wait", "ghost"}

ASSUME HooksAssumption ==
  /\ Deterministic \in BOOLEAN /\ MaxFaults \in Nat /\ MaxCalls \in Nat /\ MaxBlocks \in Nat
  /\ ClockValues \subseteq Nat /\ EntropyValues \subseteq Nat /\ ReadyCounts \subseteq Nat
  /\ HookTables \subseteq [hooks : SUBSET HookNames, seeded : BOOLEAN, sealed : BOOLEAN]

VARIABLES
  hooks,           \* g_hooks, or NoHooks while g_hooks_installed is 0
  faults,          \* g_faults up to g_fault_count
  calls,           \* the call counters since the last clear, by kind
  blocks,          \* blocks handed out by the allocator and not freed
  returned         \* the latest values returned to callers, oldest first, with their kind
hooksVars == <<hindsightVars, hooks, faults, calls, blocks, returned>>

NoHooks == [hooks |-> {}, seeded |-> FALSE, sealed |-> FALSE]
NoCalls == [alloc |-> 0, clock |-> 0, entropy |-> 0]
Installed == hooks # NoHooks

HooksInit ==
  /\ HindsightInit
  /\ hooks = NoHooks /\ faults = <<>> /\ calls = NoCalls /\ blocks = 0 /\ returned = <<>>

\* asx_runtime_hooks_init
DefaultHooks ==
  [hooks |-> {"malloc", "realloc", "free", "now", "logical", "entropy", "ghost"},
   seeded |-> TRUE, sealed |-> FALSE]

\* asx_runtime_hooks_validate
ValidHooks(table) ==
  /\ {"malloc", "free"} \subseteq table.hooks
  /\ IF Deterministic
     THEN /\ "logical" \in table.hooks
          /\ "entropy" \in table.hooks => table.seeded
          /\ "wait" \in table.hooks => "ghost" \in table.hooks
     ELSE "now" \in table.hooks

\* The seal is the table's: installing another table may lift it.
SetHooks(table) ==
  /\ ValidHooks(table)
  /\ hooks' = table
  /\ UNCHANGED <<hindsightVars, faults, calls, blocks, returned>>

SealAllocator ==
  /\ Installed /\ ~hooks.sealed
  /\ hooks' = [hooks EXCEPT !.sealed = TRUE]
  /\ UNCHANGED <<hindsightVars, faults, calls, blocks, returned>>

FaultInject(fault) ==
  /\ Len(faults) < MaxFaults
  /\ faults' = Append(faults, fault)
  /\ UNCHANGED <<hindsightVars, hooks, calls, blocks, returned>>

FaultClear ==
  /\ faults' = <<>> /\ calls' = NoCalls
  /\ UNCHANGED <<hindsightVars, hooks, blocks, returned>>

\* fault_should_fire: a window of calls counted from the last clear, not from the injection.
ShouldFire(fault, call) ==
  call >= fault.after /\ (fault.count > 0 => call - fault.after < fault.count)

\* The value after the faults, in the order of their injection.
Through(value, kinds, call) ==
  LET Apply[n \in 0 .. Len(faults)] ==
        IF n = 0 THEN value
        ELSE LET f == faults[n]
                 v == Apply[n - 1]
             IN  IF f.kind \notin kinds \/ ~ShouldFire(f, call) THEN v
                 ELSE CASE f.kind = "ClockSkew" -> v + f.param
                        [] f.kind = "ClockReverse" -> IF v >= f.param THEN v - f.param ELSE 0
                        [] f.kind = "EntropyConst" -> f.param
  IN  Apply[Len(faults)]

Counted(kind) == calls[kind] < MaxCalls /\ calls' = [calls EXCEPT ![kind] = @ + 1]

\* asx_runtime_alloc; the allocator may have nothing left.
RuntimeAlloc(granted) ==
  /\ Installed /\ ~hooks.sealed /\ "malloc" \in hooks.hooks /\ blocks < MaxBlocks
  /\ Counted("alloc")
  /\ blocks' = IF granted /\ \A n \in DOMAIN faults :
                               faults[n].kind # "AllocFail" \/ ~ShouldFire(faults[n], calls.alloc)
               THEN blocks + 1 ELSE blocks
  /\ UNCHANGED <<hindsightVars, hooks, faults, returned>>

\* asx_runtime_realloc of no block: no fault is injected here.
RuntimeRealloc ==
  /\ Installed /\ ~hooks.sealed /\ "realloc" \in hooks.hooks /\ blocks < MaxBlocks
  /\ blocks' = blocks + 1
  /\ UNCHANGED <<hindsightVars, hooks, faults, calls, returned>>

RuntimeFree ==
  /\ Installed /\ "free" \in hooks.hooks /\ blocks > 0
  /\ blocks' = blocks - 1
  /\ UNCHANGED <<hindsightVars, hooks, faults, calls, returned>>

\* A reading goes to the ring of asx_hindsight_log and to the caller.
Return(kind, value) ==
  /\ HindsightLog(<<kind, value>>)
  /\ returned' = IF Len(returned) = HindsightRing THEN Append(Tail(returned), <<kind, value>>)
                 ELSE Append(returned, <<kind, value>>)

RuntimeNowNs(raw) ==
  /\ Installed
  /\ (Deterministic /\ "logical" \in hooks.hooks) \/ "now" \in hooks.hooks
  /\ Return("clock", Through(raw, {"ClockSkew", "ClockReverse"}, calls.clock))
  /\ Counted("clock")
  /\ UNCHANGED <<hooks, faults, blocks>>

RuntimeRandom(raw) ==
  /\ Installed /\ (Deterministic => hooks.seeded) /\ "entropy" \in hooks.hooks
  /\ Return("entropy", Through(raw, {"EntropyConst"}, calls.entropy))
  /\ Counted("entropy")
  /\ UNCHANGED <<hooks, faults, blocks>>

RuntimeReactorWait(ready) ==
  /\ Installed
  /\ (Deterministic /\ "ghost" \in hooks.hooks) \/ "wait" \in hooks.hooks
  /\ Return("ready", ready)
  /\ UNCHANGED <<hooks, faults, calls, blocks>>

\* asx_hindsight_reset starts a new record of what callers have read.
ReadingsReset ==
  HindsightReset /\ returned' = <<>> /\ UNCHANGED <<hooks, faults, calls, blocks>>

HooksNext ==
  \/ \E table \in HookTables \cup {DefaultHooks} : SetHooks(table)
  \/ SealAllocator
  \/ \E fault \in Faults : FaultInject(fault)
  \/ FaultClear
  \/ \E granted \in BOOLEAN : RuntimeAlloc(granted)
  \/ RuntimeRealloc \/ RuntimeFree
  \/ \E raw \in ClockValues : RuntimeNowNs(raw)
  \/ \E raw \in EntropyValues : RuntimeRandom(raw)
  \/ \E ready \in ReadyCounts : RuntimeReactorWait(ready)
  \/ ReadingsReset

HooksSpec == HooksInit /\ [][HooksNext]_hooksVars

----------------------------------------------------------------------------
(* Properties *)

\* What callers read of the outside, faults included, is what the ring gives back, in
\* order, also after the ring has wrapped and its count has stopped; in a deterministic
\* build none of it comes from an unseeded source; and a sealed allocator hands out nothing.
ReadingsReplayable ==
  /\ [n \in 1 .. Readable |-> HindsightGet(n - 1)] = returned
  /\ Deterministic /\ "entropy" \in hooks.hooks => hooks.seeded

SealedAllocatesNothing == [][hooks.sealed => blocks' <= blocks]_hooksVars
====
