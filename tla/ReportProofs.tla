---- MODULE ReportProofs ----
(***************************************************************************)
(* Theorems about what the supporting components report: rings, ledgers    *)
(* and audits, the suspects of a regression, the percentiles of latencies. *)
(* Like those of SupportProofs they are about SupportSpec, the             *)
(* specification the run checks.                                           *)
(***************************************************************************)
EXTENDS SupportProofs

----------------------------------------------------------------------------
(* Rings and ledgers *)

LedgerRecord ==
  [owner : Owners, used : 0 .. LedgerDepth, write : 0 .. LedgerDepth - 1, overflowed : BOOLEAN,
   entries : [0 .. LedgerDepth - 1 -> Errors \cup {NoError}]]

\* The error ledger of a handle that owns one holds its errors; a handle that owns none
\* has none.
LedgerInv ==
  /\ ledgers \in [LedgerSlots \cup {Fallback} -> LedgerRecord] /\ boundTask \in Owners
  /\ DOMAIN errors = Owners
  /\ \A h \in Owners :
       LET l == ledgers[LedgerOf(h)]
       IN  IF l.owner = h
           THEN l.used = Len(errors[h]) /\ InCells(LedgerDepth, l.entries, l.write, errors[h])
           ELSE errors[h] = <<>>

LEMMA LedgerRunsAlone == SupportSpec => LedgerSpec
<1>1. SupportInit => LedgerInit
  BY DEF SupportInit
<1>2. [SupportNext]_SupportVars => [LedgerNext]_ledgerVars
  BY DEF SupportNext, SupportVars, Rest
<1> QED
  BY <1>1, <1>2, PTL DEF SupportSpec, LedgerSpec

LEMMA LedgerPlaces == \A h \in Owners : LedgerOf(h) \in LedgerSlots \cup {Fallback}
BY DEF LedgerOf, LedgerTasks

\* A ledger just taken over holds nothing.
LEMMA ClearedHolds ==
  ASSUME NEW o \in Owners
  PROVE  /\ ClearedLedger(o) \in LedgerRecord
         /\ ClearedLedger(o).owner = o /\ ClearedLedger(o).used = 0
         /\ InCells(LedgerDepth, ClearedLedger(o).entries, ClearedLedger(o).write, <<>>)
<1>1. LedgerDepth \in Nat \ {0}
  BY LedgerAssumption
<1>2. PICK r : r = [k \in 0 .. LedgerDepth - 1 |-> NoError]
  OBVIOUS
<1>3. r \in [0 .. LedgerDepth - 1 -> Errors \cup {NoError}] /\ DOMAIN r = 0 .. LedgerDepth - 1
  BY <1>2
<1>4. InCells(LedgerDepth, r, 0, <<>>)
  BY <1>1, <1>3, CellsEmpty
<1>5. ClearedLedger(o) = [owner |-> o, used |-> 0, write |-> 0, overflowed |-> FALSE, entries |-> r]
  BY <1>2 DEF ClearedLedger
<1> QED
  BY <1>1, <1>3, <1>4, <1>5 DEF LedgerRecord

LEMMA LedgerClears ==
  ASSUME NEW ls, ls = [l \in LedgerSlots \cup {Fallback} |-> ClearedLedger(NoOwner)],
         NEW h \in Owners
  PROVE  LET l == ls[LedgerOf(h)]
         IN  IF l.owner = h
             THEN l.used = Len(<<>>) /\ InCells(LedgerDepth, l.entries, l.write, <<>>)
             ELSE TRUE
<1>1. ls[LedgerOf(h)] = ClearedLedger(NoOwner) /\ NoOwner \in Owners
  BY LedgerAssumption, LedgerPlaces DEF Owners
<1> QED
  BY <1>1, ClearedHolds

LEMMA LedgerInitInv == LedgerInit => LedgerInv
<1> SUFFICES ASSUME LedgerInit
             PROVE  LedgerInv
  OBVIOUS
<1>1. NoOwner \in Owners
  BY LedgerAssumption DEF Owners
<1>2. \A h \in Owners : errors[h] = <<>>
  BY DEF LedgerInit
<1>3. PICK ls : ls = ledgers
  OBVIOUS
<1>4. ls = [l \in LedgerSlots \cup {Fallback} |-> ClearedLedger(NoOwner)]
  BY <1>3 DEF LedgerInit
<1>5. ASSUME NEW h \in Owners
      PROVE  LET l == ls[LedgerOf(h)]
             IN  IF l.owner = h
                 THEN l.used = Len(errors[h]) /\ InCells(LedgerDepth, l.entries, l.write, errors[h])
                 ELSE errors[h] = <<>>
  BY <1>2, <1>4, LedgerClears
<1>6. /\ ledgers \in [LedgerSlots \cup {Fallback} -> LedgerRecord]
      /\ boundTask = NoOwner /\ DOMAIN errors = Owners
  BY <1>1, ClearedHolds DEF LedgerInit
<1> QED
  BY <1>1, <1>3, <1>5, <1>6 DEF LedgerInv

Written(l, status) ==
  [l EXCEPT !.entries[l.write] = status, !.write = (@ + 1) % LedgerDepth,
            !.used = IF @ < LedgerDepth THEN @ + 1 ELSE @,
            !.overflowed = @ \/ l.used = LedgerDepth]

OwnedBy(l, o, s) ==
  l \in LedgerRecord /\ l.owner = o /\ l.used = Len(s) /\ InCells(LedgerDepth, l.entries, l.write, s)

\* A new error of the owner h of a ledger, which held its errors.
LEMMA LedgerWritten ==
  ASSUME NEW l, NEW o, NEW s, OwnedBy(l, o, s), NEW status \in Errors
  PROVE  OwnedBy(Written(l, status), o, Pushed(LedgerDepth, s, status))
<1> DEFINE D == LedgerDepth
<1>0. PICK m : m = Written(l, status)
  OBVIOUS
<1>1. D \in Nat \ {0} /\ l \in LedgerRecord /\ l.owner = o /\ l.used = Len(s)
      /\ InCells(D, l.entries, l.write, s)
  BY LedgerAssumption DEF OwnedBy
<1>2. /\ l.owner \in Owners /\ l.used \in 0 .. D /\ l.write \in 0 .. D - 1
      /\ l.overflowed \in BOOLEAN /\ l.entries \in [0 .. D - 1 -> Errors \cup {NoError}]
  BY <1>1 DEF LedgerRecord
<1>3. PICK r, w, v : r = l.entries /\ w = l.write /\ v = (w + 1) % D
  OBVIOUS
<1>4. PICK p : p = Pushed(D, s, status)
  OBVIOUS
<1>5. /\ InCells(D, [r EXCEPT ![w] = status], v, p)
      /\ Len(p) = IF Len(s) < D THEN Len(s) + 1 ELSE D
  BY <1>1, <1>3, <1>4, CellsPush DEF Grown
<1>6. v \in 0 .. D - 1
  BY <1>5 DEF InCells
<1>7. PICK u : u = IF l.used < D THEN l.used + 1 ELSE l.used
  OBVIOUS
<1>8. u \in 0 .. D /\ u = Len(p)
  BY <1>1, <1>2, <1>5, <1>7
<1>9. m = [l EXCEPT !.entries = [r EXCEPT ![w] = status], !.write = v, !.used = u,
                    !.overflowed = l.overflowed \/ l.used = D]
  BY <1>0, <1>3, <1>7, Zenon DEF Written
<1>10. [r EXCEPT ![w] = status] \in [0 .. D - 1 -> Errors \cup {NoError}]
  BY <1>2, <1>3
<1>11. (l.overflowed \/ l.used = D) \in BOOLEAN
  OBVIOUS
<1>12. PICK es, f : es = [r EXCEPT ![w] = status] /\ f = (l.overflowed \/ l.used = D)
  OBVIOUS
<1>13. m = [l EXCEPT !.entries = es, !.write = v, !.used = u, !.overflowed = f]
  BY <1>9, <1>12, Zenon
<1>14. /\ m \in LedgerRecord /\ m.owner = l.owner /\ m.used = u /\ m.write = v /\ m.entries = es
  BY <1>1, <1>2, <1>6, <1>8, <1>10, <1>11, <1>12, <1>13 DEF LedgerRecord
<1> QED
  BY <1>0, <1>1, <1>4, <1>5, <1>8, <1>12, <1>14 DEF OwnedBy

LEMMA ErrorRecordKeeps ==
  ASSUME LedgerInv, NEW h \in Owners, NEW status \in Errors, ErrorRecord(h, status)
  PROVE  LedgerInv'
<1> DEFINE D == LedgerDepth
           place == LedgerOf(h)
<1>0. D \in Nat \ {0} /\ place \in LedgerSlots \cup {Fallback}
  BY LedgerAssumption, LedgerPlaces
<1>1. PICK l : l = Owned(h)
  OBVIOUS
<1>2. PICK s : s = errors[h]
  OBVIOUS
<1>3. l \in LedgerRecord /\ l.owner = h /\ l.used = Len(s) /\ InCells(D, l.entries, l.write, s)
  <2>1. CASE ledgers[place].owner = h
    BY <1>0, <1>1, <1>2, <2>1 DEF Owned, LedgerInv
  <2>2. CASE ledgers[place].owner # h
    <3>1. l = ClearedLedger(h) /\ s = <<>>
      BY <1>1, <1>2, <2>2 DEF Owned, LedgerInv
    <3> QED
      BY <3>1, ClearedHolds
  <2> QED
    BY <2>1, <2>2
<1>4. PICK m : m = Written(l, status)
  OBVIOUS
<1>5. ledgers' = [ledgers EXCEPT ![place] = m]
  BY <1>1, <1>4 DEF ErrorRecord, Written
<1>6. PICK p : p = Pushed(D, s, status)
  OBVIOUS
<1>7. /\ m \in LedgerRecord /\ m.owner = h /\ m.used = Len(p) /\ InCells(D, m.entries, m.write, p)
  <2>1. OwnedBy(l, h, s)
    BY <1>3 DEF OwnedBy
  <2>2. OwnedBy(Written(l, status), h, Pushed(D, s, status))
    BY <2>1, LedgerWritten
  <2> QED
    BY <1>4, <1>6, <2>2 DEF OwnedBy
<1>8. /\ ledgers' \in [LedgerSlots \cup {Fallback} -> LedgerRecord] /\ ledgers'[place] = m
      /\ \A k \in LedgerSlots \cup {Fallback} : k # place => ledgers'[k] = ledgers[k]
  BY <1>0, <1>5, <1>7 DEF LedgerInv
<1>9. /\ DOMAIN errors' = Owners /\ errors'[h] = p
      /\ \A x \in Owners \ {h} : errors'[x] = IF LedgerOf(x) = place THEN <<>> ELSE errors[x]
  <2>1. p = Append(IF Len(errors[h]) = D THEN Tail(errors[h]) ELSE errors[h], status)
    BY <1>2, <1>6 DEF Pushed
  <2> QED
    BY <2>1 DEF ErrorRecord
<1>10. ASSUME NEW x \in Owners
       PROVE  LET n == ledgers'[LedgerOf(x)]
              IN  IF n.owner = x
                  THEN n.used = Len(errors'[x]) /\ InCells(D, n.entries, n.write, errors'[x])
                  ELSE errors'[x] = <<>>
  <2>1. CASE x = h
    BY <1>7, <1>8, <1>9, <2>1
  <2>2. CASE x # h /\ LedgerOf(x) = place
    BY <1>7, <1>8, <1>9, <2>2
  <2>3. CASE x # h /\ LedgerOf(x) # place
    <3>1. ledgers'[LedgerOf(x)] = ledgers[LedgerOf(x)] /\ errors'[x] = errors[x]
      BY <1>8, <1>9, <2>3, LedgerPlaces
    <3> QED
      BY <3>1 DEF LedgerInv
  <2> QED
    BY <2>1, <2>2, <2>3
<1>11. boundTask' \in Owners
  BY DEF ErrorRecord, LedgerInv
<1>12. \A x \in Owners : LedgerOf(x)' = LedgerOf(x)
  BY DEF LedgerOf
<1> QED
  BY <1>8, <1>9, <1>10, <1>11, <1>12 DEF LedgerInv

LEMMA LedgerStep == LedgerInv /\ [LedgerNext]_ledgerVars => LedgerInv'
<1> SUFFICES ASSUME LedgerInv, [LedgerNext]_ledgerVars
             PROVE  LedgerInv'
  OBVIOUS
<1>1. ASSUME NEW s \in Errors, ErrorRecordCurrent(s)
      PROVE  LedgerInv'
  <2>1. boundTask \in Owners
    BY DEF LedgerInv
  <2> QED
    BY <1>1, <2>1, ErrorRecordKeeps DEF ErrorRecordCurrent
<1>2. ASSUME NEW s \in Errors, NEW h \in Owners, ErrorRecord(h, s)
      PROVE  LedgerInv'
  BY <1>2, ErrorRecordKeeps
<1>3. ASSUME NEW h \in Owners, BindTask(h)
      PROVE  LedgerInv'
  BY <1>3 DEF BindTask, LedgerInv, LedgerOf
<1>4. ASSUME LedgerReset
      PROVE  LedgerInv'
  <2>1. NoOwner \in Owners
    BY LedgerAssumption DEF Owners
  <2>2. \A h \in Owners : errors'[h] = <<>>
    BY <1>4 DEF LedgerReset
  <2>3. PICK ls : ls = ledgers'
    OBVIOUS
  <2>4. ls = [l \in LedgerSlots \cup {Fallback} |-> ClearedLedger(NoOwner)]
    BY <1>4, <2>3 DEF LedgerReset
  <2>5. ASSUME NEW h \in Owners
        PROVE  LET l == ls[LedgerOf(h)]
               IN  IF l.owner = h
                   THEN l.used = Len(errors'[h]) /\ InCells(LedgerDepth, l.entries, l.write, errors'[h])
                   ELSE errors'[h] = <<>>
    BY <2>2, <2>4, LedgerClears
  <2>6. /\ ls \in [LedgerSlots \cup {Fallback} -> LedgerRecord]
        /\ boundTask' = NoOwner /\ DOMAIN errors' = Owners
    BY <1>4, <2>1, <2>4, ClearedHolds DEF LedgerReset
  <2>7. \A x \in Owners : LedgerOf(x)' = LedgerOf(x)
    BY DEF LedgerOf
  <2> QED
    BY <2>1, <2>3, <2>5, <2>6, <2>7 DEF LedgerInv
<1>5. CASE UNCHANGED ledgerVars
  BY <1>5 DEF ledgerVars, LedgerInv, LedgerOf
<1> QED
  BY <1>1, <1>2, <1>3, <1>4, <1>5 DEF LedgerNext

LEMMA LedgerReads == LedgerInv => ErrorsReadOwn
<1> SUFFICES ASSUME LedgerInv, NEW h \in Owners
             PROVE  ErrorsRead(h) = errors[h]
  BY DEF ErrorsReadOwn
<1> DEFINE D == LedgerDepth
<1>0. D \in Nat \ {0}
  BY LedgerAssumption
<1>1. PICK l, s : l = ledgers[LedgerOf(h)] /\ s = errors[h]
  OBVIOUS
<1>2. CASE l.owner # h
  BY <1>1, <1>2 DEF ErrorsRead, LedgerInv
<1>3. CASE l.owner = h
  <2>1. l.used = Len(s) /\ InCells(D, l.entries, l.write, s)
    BY <1>1, <1>3 DEF LedgerInv
  <2>2. PICK n \in 0 .. D : n = Len(s) /\ n = l.used /\ s = [k \in 1 .. n |-> s[k]]
    BY <2>1 DEF InCells
  <2>3. PICK w \in 0 .. D - 1 : w = l.write
    BY <2>1 DEF InCells
  <2>4. PICK oldest \in Nat : oldest = IF n < D THEN 0 ELSE w
    OBVIOUS
  <2>5. ErrorsRead(h) = [k \in 1 .. n |-> l.entries[(oldest + k - 1) % D]]
    BY <1>1, <1>3, <2>2, <2>3, <2>4 DEF ErrorsRead
  <2>6. ASSUME NEW k \in 1 .. n
        PROVE  l.entries[(oldest + k - 1) % D] = s[k]
    <3>1. PICK i \in 0 .. n - 1 : i = k - 1 /\ i + 1 = k
      OBVIOUS
    <3>2. PICK r : r = l.entries
      OBVIOUS
    <3>3. ReadsCell(D, r, w, s, i)
      <4> HIDE DEF D
      <4>1. InCells(D, r, w, s) /\ i \in 0 .. Len(s) - 1
        BY <2>1, <2>2, <2>3, <3>1, <3>2
      <4> QED
        BY <1>0, <4>1, CellIs
    <3> HIDE DEF D
    <3>4. CASE n < D
      <4>1. oldest + k - 1 = i
        BY <2>4, <3>1, <3>4
      <4> QED
        BY <2>2, <3>1, <3>2, <3>3, <3>4, <4>1 DEF ReadsCell
    <3>5. CASE n = D
      <4>1. oldest + k - 1 = w + i
        BY <2>4, <3>1, <3>5
      <4> QED
        BY <2>2, <3>1, <3>2, <3>3, <3>5, <4>1 DEF ReadsCell
    <3>6. n < D \/ n = D
      BY <1>0
    <3> QED
      BY <3>4, <3>5, <3>6
  <2> QED
    BY <1>1, <2>2, <2>5, <2>6
<1> QED
  BY <1>2, <1>3

LEMMA ErrorsKept == SupportSpec => []ErrorsReadOwn
BY LedgerRunsAlone, LedgerInitInv, LedgerStep, LedgerReads, PTL DEF LedgerSpec

----------------------------------------------------------------------------
(* The ring of violations *)

\* What monitors report: a kind and what it is about.
Entries == (Protocols \cup {"Double", "Leak", "Exclusive", "Shared", "Drift"})
             \X (Entities \cup {NoEntity})

Rings == [slots : [GhostSlots -> Violation], write : GhostSlots, count : 0 .. GhostCountMax,
          overflow : BOOLEAN]

\* What the slots tell of a violation.
Told(slots) == [k \in GhostSlots |-> <<slots[k].kind, slots[k].entity>>]

\* The ring holds the entries s.
RingTells(ring, s) ==
  /\ ring \in Rings /\ s \in Seq(Entries)
  /\ InCells(GhostRing, Told(ring.slots), ring.write, s)
  /\ Len(s) = IF ring.count < GhostRing THEN ring.count ELSE GhostRing
  /\ (ring.overflow <=> ring.count > GhostRing)
  /\ ring.count = GhostRing => ring.write = 0

\* One violation more.
LEMMA RecordTells ==
  ASSUME NEW ring, NEW s, RingTells(ring, s), NEW v \in Entries
  PROVE  RingTells(RecordIn(ring, v), Pushed(GhostRing, s, v))
<1> DEFINE R == GhostRing
<1>1. R \in Nat \ {0} /\ GhostCountMax \in Nat /\ GhostCountMax > R /\ GhostSlots = 0 .. R - 1
  BY GhostAssumption DEF GhostSlots
<1>2. PICK slots, w, c, o : slots = ring.slots /\ w = ring.write /\ c = ring.count /\ o = ring.overflow
  OBVIOUS
<1>3. /\ slots \in [GhostSlots -> Violation] /\ w \in 0 .. R - 1 /\ c \in 0 .. GhostCountMax
      /\ o \in BOOLEAN /\ InCells(R, Told(slots), w, s) /\ s \in Seq(Entries)
      /\ Len(s) = (IF c < R THEN c ELSE R) /\ (o <=> c > R) /\ (c = R => w = 0)
  BY <1>1, <1>2 DEF RingTells, Rings
<1>4. PICK x : x = [kind |-> v[1], entity |-> v[2], sequence |-> c]
  OBVIOUS
<1>5. /\ x \in Violation /\ <<x.kind, x.entity>> = v
  <2>1. /\ v[1] \in Protocols \cup {"Double", "Leak", "Exclusive", "Shared", "Drift"}
        /\ v[2] \in Entities \cup {NoEntity} /\ v = <<v[1], v[2]>>
    BY DEF Entries
  <2> QED
    BY <1>3, <1>4, <2>1 DEF Violation
<1>6. PICK d, t, k : /\ d = [slots EXCEPT ![w] = x] /\ t = (w + 1) % R
                     /\ k = IF c < GhostCountMax THEN c + 1 ELSE c
  OBVIOUS
<1>7. RecordIn(ring, v) = [slots |-> d, write |-> t, count |-> k, overflow |-> o \/ k > R]
  BY <1>2, <1>4, <1>6 DEF RecordIn
<1>8. PICK p : p = Pushed(R, s, v)
  OBVIOUS
<1>9. InCells(R, [Told(slots) EXCEPT ![w] = v], t, p) /\ Len(p) = IF Len(s) < R THEN Len(s) + 1 ELSE R
  <2>1. InCells(R, Told(slots), w, s)
    BY <1>3
  <2> HIDE DEF R
  <2>2. InCells(R, [Told(slots) EXCEPT ![w] = v], (w + 1) % R, Pushed(R, s, v)) /\ Grown(R, s, Pushed(R, s, v))
    BY <1>1, <2>1, CellsPush
  <2> QED
    BY <1>6, <1>8, <2>2 DEF Grown
<1>10. Told(d) = [Told(slots) EXCEPT ![w] = v]
  BY <1>1, <1>3, <1>5, <1>6 DEF Told
<1>11. p \in Seq(Entries)
  <2>1. Len(s) <= R
    BY <1>1, <1>3
  <2>2. AddsLatest(R, Entries, s, v, p)
    BY <1>1, <1>3, <1>8, <2>1, PushedFacts
  <2>3. Entries \cup {v} = Entries
    OBVIOUS
  <2> QED
    BY <2>2, <2>3 DEF AddsLatest
<1>12. t \in 0 .. R - 1
  BY <1>9 DEF InCells
<1>13. /\ k \in 0 .. GhostCountMax /\ (k > R <=> c >= R) /\ (k = R => c = R - 1)
       /\ Len(p) = IF k < R THEN k ELSE R
  BY <1>1, <1>3, <1>6, <1>9
<1>14. k = R => t = 0
  <2> SUFFICES ASSUME k = R
               PROVE  t = 0
    OBVIOUS
  <2>1. c = R - 1 /\ Len(s) = R - 1 /\ Len(s) < R
    BY <1>1, <1>3, <1>13
  <2>2. w = R - 1
    BY <1>3, <2>1 DEF InCells
  <2>3. R % R = 0
    <3> HIDE DEF R
    <3>1. R \in Nat /\ R < 2 * R
      BY <1>1
    <3> QED
      BY <1>1, <3>1, ModSmall
  <2>4. w + 1 = R
    BY <1>1, <2>2
  <2> QED
    BY <1>6, <2>3, <2>4
<1>15. PICK f \in BOOLEAN : f = (o \/ k > R) /\ (f <=> k > R)
  <2>1. o => k > R
    BY <1>1, <1>3, <1>13
  <2> QED
    BY <2>1, Zenon
<1>16. d \in [GhostSlots -> Violation]
  BY <1>1, <1>3, <1>5, <1>6
<1>17. PICK r : r = [slots |-> d, write |-> t, count |-> k, overflow |-> f]
  OBVIOUS
<1>18. r \in Rings /\ r.slots = d /\ r.write = t /\ r.count = k /\ r.overflow = f
  BY <1>1, <1>12, <1>13, <1>15, <1>16, <1>17 DEF Rings
<1>19. RingTells(r, p)
  BY <1>9, <1>10, <1>11, <1>13, <1>14, <1>15, <1>18 DEF RingTells
<1> QED
  BY <1>7, <1>8, <1>15, <1>17, <1>19

LEMMA RecordTyped ==
  ASSUME NEW ring \in Rings, NEW v \in Entries
  PROVE  RecordIn(ring, v) \in Rings
<1>1. GhostRing \in Nat \ {0} /\ GhostCountMax \in Nat /\ GhostSlots = 0 .. GhostRing - 1
  BY GhostAssumption DEF GhostSlots
<1>2. /\ ring.slots \in [GhostSlots -> Violation] /\ ring.write \in GhostSlots
      /\ ring.count \in 0 .. GhostCountMax /\ ring.overflow \in BOOLEAN
  BY DEF Rings
<1>3. PICK x : x = [kind |-> v[1], entity |-> v[2], sequence |-> ring.count]
  OBVIOUS
<1>4. x \in Violation
  BY <1>2, <1>3 DEF Entries, Violation
<1>5. PICK a \in Nat : a = ring.write + 1
  BY <1>1, <1>2
<1>6. a % GhostRing \in GhostSlots
  BY <1>1, ModOf
<1>7. PICK d, t, k, f : /\ d = [ring.slots EXCEPT ![ring.write] = x] /\ t = a % GhostRing
                        /\ k = (IF ring.count < GhostCountMax THEN ring.count + 1 ELSE ring.count)
                        /\ f = (ring.overflow \/ k > GhostRing)
  OBVIOUS
<1>8. RecordIn(ring, v) = [slots |-> d, write |-> t, count |-> k, overflow |-> f]
  BY <1>3, <1>5, <1>7 DEF RecordIn
<1>9. /\ d \in [GhostSlots -> Violation] /\ t \in GhostSlots /\ k \in 0 .. GhostCountMax
      /\ f \in BOOLEAN
  BY <1>1, <1>2, <1>4, <1>6, <1>7
<1> QED
  BY <1>8, <1>9 DEF Rings

LEMMA PushedTyped ==
  ASSUME NEW s \in Seq(Entries), NEW v \in Entries
  PROVE  Pushed(GhostRing, s, v) \in Seq(Entries)
<1>1. GhostRing \in Nat \ {0}
  BY GhostAssumption
<1>2. CASE Len(s) = GhostRing
  <2>1. s # <<>>
    BY <1>1, <1>2
  <2>2. Tail(s) \in Seq(Entries)
    BY <2>1
  <2> QED
    BY <1>2, <2>2 DEF Pushed
<1>3. CASE Len(s) # GhostRing
  BY <1>3 DEF Pushed
<1> QED
  BY <1>2, <1>3

\* Some violations, one after the other.
LEMMA RecordAllTells ==
  ASSUME RingTells(ghostRing, recorded), NEW vs \in Seq(Entries), RecordAll(vs)
  PROVE  RingTells(ghostRing', recorded')
<1> DEFINE m == Len(vs)
           RingStep == [p \in (1 .. m) \X Rings |-> RecordIn(p[2], vs[p[1]])]
           KeptStep == [p \in (1 .. m) \X Seq(Entries) |-> Pushed(GhostRing, p[2], vs[p[1]])]
           RingBody(g) == [n \in 0 .. m |-> IF n = 0 THEN ghostRing ELSE RecordIn(g[n - 1], vs[n])]
           KeptBody(g) == [n \in 0 .. m |->
                             IF n = 0 THEN recorded
                             ELSE IF Len(g[n - 1]) = GhostRing THEN Append(Tail(g[n - 1]), vs[n])
                             ELSE Append(g[n - 1], vs[n])]
<1>1. m \in Nat /\ \A n \in 1 .. m : vs[n] \in Entries
  OBVIOUS
<1>2. ghostRing \in Rings /\ recorded \in Seq(Entries)
  BY DEF RingTells
<1>3. \E g : g = RingBody(g)
  <2>1. RingStep \in Stepping(m, Rings)
    <3>1. \A n \in 1 .. m, x \in Rings : RecordIn(x, vs[n]) \in Rings
      BY <1>1, RecordTyped
    <3> QED
      BY <3>1 DEF Stepping
  <2>2. PICK f : Recurs(f, m, Rings, ghostRing, RingStep)
    <3> HIDE DEF m, RingStep
    <3> QED
      BY <1>1, <1>2, <2>1, RecursionExists
  <2>3. f \in [0 .. m -> Rings] /\ f[0] = ghostRing /\ \A n \in 1 .. m : f[n] = RingStep[<<n, f[n - 1]>>]
    BY <2>2 DEF Recurs
  <2>4. ASSUME NEW n \in 1 .. m
        PROVE  f[n] = RecordIn(f[n - 1], vs[n])
    <3>1. n - 1 \in 0 .. m
      BY <1>1
    <3>2. f[n - 1] \in Rings
      BY <2>3, <3>1
    <3> QED
      BY <2>3, <3>2
  <2>5. f = RingBody(f)
    <3> HIDE DEF m
    <3> QED
      BY <2>3, <2>4
  <2> QED
    BY <2>5
<1>4. \E g : g = KeptBody(g)
  <2>1. KeptStep \in Stepping(m, Seq(Entries))
    <3>1. \A n \in 1 .. m, x \in Seq(Entries) : Pushed(GhostRing, x, vs[n]) \in Seq(Entries)
      BY <1>1, PushedTyped
    <3> QED
      BY <3>1 DEF Stepping
  <2>2. PICK f : Recurs(f, m, Seq(Entries), recorded, KeptStep)
    <3> HIDE DEF m, KeptStep
    <3> QED
      BY <1>1, <1>2, <2>1, RecursionExists
  <2>3. /\ f \in [0 .. m -> Seq(Entries)] /\ f[0] = recorded
        /\ \A n \in 1 .. m : f[n] = KeptStep[<<n, f[n - 1]>>]
    BY <2>2 DEF Recurs
  <2>4. ASSUME NEW n \in 1 .. m
        PROVE  f[n] = IF Len(f[n - 1]) = GhostRing THEN Append(Tail(f[n - 1]), vs[n])
                      ELSE Append(f[n - 1], vs[n])
    <3>1. n - 1 \in 0 .. m
      BY <1>1
    <3>2. f[n - 1] \in Seq(Entries)
      BY <2>3, <3>1
    <3>3. f[n] = Pushed(GhostRing, f[n - 1], vs[n])
      BY <2>3, <3>2
    <3> QED
      BY <3>3 DEF Pushed
  <2>5. f = KeptBody(f)
    <3> HIDE DEF m
    <3>1. f = [n \in 0 .. m |-> f[n]]
      BY <2>3
    <3>2. ASSUME NEW n \in 0 .. m
          PROVE  f[n] = IF n = 0 THEN recorded
                        ELSE IF Len(f[n - 1]) = GhostRing THEN Append(Tail(f[n - 1]), vs[n])
                        ELSE Append(f[n - 1], vs[n])
      <4>1. CASE n = 0
        BY <2>3, <4>1
      <4>2. CASE n # 0
        <5>1. n \in 1 .. m
          BY <1>1, <4>2
        <5> QED
          BY <2>4, <4>2, <5>1
      <4> QED
        BY <4>1, <4>2
    <3> QED
      BY <3>1, <3>2, Zenon
  <2> QED
    BY <2>5
<1>5. PICK P : P = RingBody(P) /\ ghostRing' = P[m]
  <2> DEFINE Q == CHOOSE g : g = RingBody(g)
  <2>1. Q = RingBody(Q)
    <3> HIDE DEF RingBody
    <3> QED
      BY <1>3
  <2>2. ghostRing' = Q[m]
    BY DEF RecordAll
  <2> HIDE DEF Q, RingBody
  <2> QED
    BY <2>1, <2>2
<1>6. PICK K : K = KeptBody(K) /\ recorded' = K[m]
  <2> DEFINE Q == CHOOSE g : g = KeptBody(g)
  <2>1. Q = KeptBody(Q)
    <3> HIDE DEF KeptBody
    <3> QED
      BY <1>4
  <2>2. recorded' = Q[m]
    BY DEF RecordAll
  <2> HIDE DEF Q, KeptBody
  <2> QED
    BY <2>1, <2>2
<1>7. P[0] = ghostRing /\ K[0] = recorded
  BY <1>1, <1>5, <1>6
<1>8. \A n \in 1 .. m : P[n] = RecordIn(P[n - 1], vs[n]) /\ K[n] = Pushed(GhostRing, K[n - 1], vs[n])
  <2>1. \A n \in 1 .. m : n \in 0 .. m /\ n # 0
    BY <1>1
  <2> QED
    BY <1>5, <1>6, <2>1 DEF Pushed
<1> DEFINE Good == {n \in 0 .. m : RingTells(P[n], K[n])}
<1>9. 0 .. m \subseteq Good
  <2>1. 0 \in Good
    BY <1>1, <1>7
  <2>2. ASSUME NEW n \in 1 .. m, n - 1 \in Good
        PROVE  n \in Good
    <3>1. PICK r, s : r = P[n - 1] /\ s = K[n - 1]
      OBVIOUS
    <3>2. RingTells(r, s) /\ vs[n] \in Entries /\ n \in 0 .. m
      BY <1>1, <2>2, <3>1
    <3>3. RingTells(RecordIn(r, vs[n]), Pushed(GhostRing, s, vs[n]))
      BY <3>2, RecordTells
    <3> QED
      BY <1>8, <3>1, <3>2, <3>3
  <2> HIDE DEF Good, m
  <2> QED
    BY <1>1, <2>1, <2>2, InductionUpTo
<1>10. m \in Good
  BY <1>1, <1>9
<1> QED
  BY <1>5, <1>6, <1>10

\* What a loop reports are entries it goes over.
LEMMA ReportedIn ==
  ASSUME NEW T, NEW s \in Seq(T), NEW which
  PROVE  Reported(s, which) \in Seq(T)
<1> DEFINE m == Len(s)
           Step == [p \in (1 .. m) \X Seq(T) |->
                      IF p[1] \in which THEN Append(p[2], s[p[1]]) ELSE p[2]]
           Body(g) == [n \in 0 .. m |->
                         IF n = 0 THEN <<>> ELSE IF n \in which THEN Append(g[n - 1], s[n]) ELSE g[n - 1]]
<1>1. m \in Nat /\ \A n \in 1 .. m : s[n] \in T
  OBVIOUS
<1>2. Step \in Stepping(m, Seq(T)) /\ <<>> \in Seq(T)
  <2>1. \A n \in 1 .. m, x \in Seq(T) : Append(x, s[n]) \in Seq(T)
    BY <1>1
  <2> QED
    BY <2>1 DEF Stepping
<1>3. PICK f : Recurs(f, m, Seq(T), <<>>, Step)
  <2> HIDE DEF m, Step
  <2> QED
    BY <1>1, <1>2, RecursionExists
<1>4. f \in [0 .. m -> Seq(T)] /\ f[0] = <<>> /\ \A n \in 1 .. m : f[n] = Step[<<n, f[n - 1]>>]
  BY <1>3 DEF Recurs
<1>5. ASSUME NEW n \in 1 .. m
      PROVE  f[n] = IF n \in which THEN Append(f[n - 1], s[n]) ELSE f[n - 1]
  <2>1. n - 1 \in 0 .. m
    BY <1>1
  <2>2. f[n - 1] \in Seq(T)
    BY <1>4, <2>1
  <2> QED
    BY <1>4, <2>2
<1>6. f = Body(f)
  <2> HIDE DEF m
  <2>1. f = [n \in 0 .. m |-> f[n]]
    BY <1>4
  <2>2. ASSUME NEW n \in 0 .. m
        PROVE  f[n] = IF n = 0 THEN <<>> ELSE IF n \in which THEN Append(f[n - 1], s[n]) ELSE f[n - 1]
    <3>1. CASE n = 0
      BY <1>4, <3>1
    <3>2. CASE n # 0
      <4>1. n \in 1 .. m
        BY <1>1, <3>2
      <4> QED
        BY <1>5, <3>2, <4>1
    <3> QED
      BY <3>1, <3>2
  <2> QED
    BY <2>1, <2>2, Zenon
<1>7. PICK P : P = Body(P) /\ Reported(s, which) = P[m]
  <2> DEFINE Q == CHOOSE g : g = Body(g)
  <2>1. Q = Body(Q)
    <3> HIDE DEF Body
    <3> QED
      BY <1>6
  <2>2. Reported(s, which) = Q[m]
    BY DEF Reported
  <2> HIDE DEF Q, Body
  <2> QED
    BY <2>1, <2>2
<1>8. /\ P[0] = <<>>
      /\ \A n \in 1 .. m : P[n] = IF n \in which THEN Append(P[n - 1], s[n]) ELSE P[n - 1]
  <2>1. 0 \in 0 .. m /\ \A n \in 1 .. m : n \in 0 .. m /\ n # 0
    BY <1>1
  <2> QED
    BY <1>7, <2>1
<1> DEFINE Good == {n \in 0 .. m : P[n] \in Seq(T)}
<1>9. 0 .. m \subseteq Good
  <2>1. 0 \in Good
    <3>1. 0 \in 0 .. m /\ P[0] \in Seq(T)
      BY <1>1, <1>2, <1>8
    <3> QED
      BY <3>1
  <2>2. ASSUME NEW n \in 1 .. m, n - 1 \in Good
        PROVE  n \in Good
    <3>1. P[n - 1] \in Seq(T) /\ s[n] \in T /\ n \in 0 .. m
      BY <1>1, <2>2
    <3>2. Append(P[n - 1], s[n]) \in Seq(T)
      BY <3>1
    <3> QED
      BY <1>8, <3>1, <3>2
  <2> HIDE DEF Good, m
  <2> QED
    BY <1>1, <2>1, <2>2, InductionUpTo
<1> QED
  BY <1>1, <1>7, <1>9

RingInv ==
  /\ RingTells(ghostRing, recorded)
  /\ linearity \in Seq([id : Entities, resolved : BOOLEAN])
  /\ runEvents.current \in Seq(Entities) /\ runEvents.reference \in Seq(Entities)
  /\ DOMAIN runEvents = {"current", "count", "reference", "refCount", "sealed"}

LEMMA RingStarts ==
  ASSUME NEW ring, ring = EmptyGhostRing
  PROVE  RingTells(ring, <<>>)
<1> DEFINE R == GhostRing
<1>1. R \in Nat \ {0} /\ GhostCountMax \in Nat /\ GhostSlots = 0 .. R - 1
  BY GhostAssumption DEF GhostSlots
<1>2. PICK slots : slots = [k \in GhostSlots |-> NoViolation]
  OBVIOUS
<1>3. NoViolation \in Violation
  BY <1>1 DEF NoViolation, Violation
<1>4. ring = [slots |-> slots, write |-> 0, count |-> 0, overflow |-> FALSE]
  BY <1>2 DEF EmptyGhostRing
<1>5. ring \in Rings /\ ring.slots = slots /\ ring.write = 0 /\ ring.count = 0 /\ ring.overflow = FALSE
  BY <1>1, <1>2, <1>3, <1>4 DEF Rings
<1>6. DOMAIN Told(slots) = 0 .. R - 1
  BY <1>1 DEF Told
<1>7. InCells(R, Told(slots), 0, <<>>)
  <2> HIDE DEF R
  <2> QED
    BY <1>1, <1>6, CellsEmpty
<1>8. <<>> \in Seq(Entries) /\ Len(<<>>) = 0
  OBVIOUS
<1> QED
  BY <1>1, <1>5, <1>7, <1>8 DEF RingTells

LEMMA RingInitInv == GhostInit => RingInv
<1> SUFFICES ASSUME GhostInit
             PROVE  RingInv
  OBVIOUS
<1>1. RingTells(ghostRing, recorded)
  BY RingStarts DEF GhostInit
<1> QED
  BY <1>1 DEF GhostInit, NoRun, RingInv

\* Entries of each kind.
LEMMA EntryKinds ==
  ASSUME NEW e \in Entities \cup {NoEntity}
  PROVE  /\ \A k \in Protocols \cup {"Double", "Leak", "Exclusive", "Shared", "Drift"} : <<k, e>> \in Entries
         /\ <<"Double", e>> \in Entries /\ <<"Leak", e>> \in Entries /\ <<"Drift", e>> \in Entries
         /\ <<"Exclusive", e>> \in Entries /\ <<"Shared", e>> \in Entries
BY DEF Entries

LEMMA RecordOneTells ==
  ASSUME RingTells(ghostRing, recorded), NEW kind, NEW e, <<kind, e>> \in Entries, Record(kind, e)
  PROVE  RingTells(ghostRing', recorded')
<1>1. PICK v : v = <<kind, e>>
  OBVIOUS
<1>2. <<v>> \in Seq(Entries) /\ RecordAll(<<v>>)
  BY <1>1 DEF Record
<1> QED
  BY <1>2, RecordAllTells

LEMMA RingStep == RingInv /\ [GhostNext]_ghostVars => RingInv'
<1> SUFFICES ASSUME RingInv, [GhostNext]_ghostVars
             PROVE  RingInv'
  OBVIOUS
<1> DEFINE Item == [id : Entities, resolved : BOOLEAN]
<1>0. RingTells(ghostRing, recorded) /\ linearity \in Seq(Item)
  BY DEF RingInv
<1>1. ASSUME NoRecord
      PROVE  RingTells(ghostRing', recorded')
  BY <1>0, <1>1 DEF NoRecord
<1>2. ASSUME RingTells(ghostRing', recorded'), UNCHANGED <<linearity, runEvents>>
      PROVE  RingInv'
  BY <1>2 DEF RingInv
<1>3. CASE GhostReset
  <2>1. RingTells(ghostRing', recorded')
    BY <1>3, RingStarts DEF GhostReset
  <2> QED
    BY <1>3, <2>1 DEF GhostReset, NoRun, RingInv
<1>4. ASSUME NEW e \in Entities
      PROVE  /\ \A p \in Protocols : IllegalTransition(p, e) => RingInv'
             /\ BorrowShared(e) \/ BorrowExclusive(e) \/ BorrowRelease(e) \/ BorrowReleaseAll(e) => RingInv'
  <2>1. ASSUME NEW p \in Protocols, IllegalTransition(p, e)
        PROVE  RingInv'
    <3>1. <<p, e>> \in Entries
      BY EntryKinds
    <3> QED
      BY <1>0, <1>2, <2>1, <3>1, RecordOneTells DEF IllegalTransition
  <2>2. ASSUME BorrowShared(e) \/ BorrowExclusive(e) \/ BorrowRelease(e) \/ BorrowReleaseAll(e)
        PROVE  RingInv'
    <3>1. /\ NoRecord \/ Record("Shared", e) \/ Record("Exclusive", e)
          /\ UNCHANGED <<linearity, runEvents>>
      BY <2>2 DEF BorrowShared, BorrowExclusive, BorrowRelease, BorrowReleaseAll
    <3>2. <<"Shared", e>> \in Entries /\ <<"Exclusive", e>> \in Entries
      BY EntryKinds
    <3> QED
      BY <1>0, <1>1, <1>2, <3>1, <3>2, RecordOneTells
  <2> QED
    BY <2>1, <2>2
<1>5. ASSUME NEW o \in Entities, ObligationReserved(o)
      PROVE  RingInv'
  <2>1. linearity' \in Seq(Item) /\ UNCHANGED runEvents /\ NoRecord
    <3>1. PICK x \in Item : x = [id |-> o, resolved |-> FALSE]
      OBVIOUS
    <3> QED
      BY <1>0, <1>5, <3>1 DEF ObligationReserved
  <2> QED
    BY <1>1, <2>1 DEF RingInv
<1>6. ASSUME NEW o \in Entities, ObligationResolved(o)
      PROVE  RingInv'
  <2>1. PICK n \in DOMAIN linearity :
          /\ linearity[n].id = o
          /\ IF linearity[n].resolved THEN Record("Double", o) ELSE NoRecord
          /\ linearity' = [linearity EXCEPT ![n].resolved = TRUE]
          /\ UNCHANGED runEvents
    BY <1>6 DEF ObligationResolved
  <2>2. <<"Double", o>> \in Entries
    BY EntryKinds
  <2>3. RingTells(ghostRing', recorded')
    BY <1>0, <1>1, <2>1, <2>2, RecordOneTells
  <2>4. linearity' \in Seq(Item)
    <3>1. linearity[n] \in Item /\ n \in 1 .. Len(linearity)
      <4> HIDE DEF Item
      <4> QED
        BY <1>0, <2>1
    <3>2. PICK x : x = [linearity[n] EXCEPT !.resolved = TRUE]
      OBVIOUS
    <3>3. x \in Item /\ linearity' = [linearity EXCEPT ![n] = x]
      BY <2>1, <3>1, <3>2
    <3> HIDE DEF Item
    <3> QED
      BY <1>0, <3>1, <3>3
  <2> QED
    BY <2>1, <2>3, <2>4 DEF RingInv
<1>7. CASE CheckLeaks
  <2>1. PICK s : s = [n \in 1 .. Len(linearity) |-> <<"Leak", linearity[n].id>>]
    OBVIOUS
  <2>2. s \in Seq(Entries)
    <3>1. Len(linearity) \in Nat /\ \A n \in 1 .. Len(linearity) : linearity[n].id \in Entities
      <4>1. ASSUME NEW n \in 1 .. Len(linearity)
            PROVE  linearity[n] \in Item
        <5> HIDE DEF Item
        <5> QED
          BY <1>0
      <4>2. Len(linearity) \in Nat
        BY <1>0
      <4> QED
        BY <4>1, <4>2
    <3>2. \A n \in 1 .. Len(linearity) : <<"Leak", linearity[n].id>> \in Entries
      BY <3>1, EntryKinds
    <3> QED
      BY <2>1, <3>1, <3>2
  <2>3. Unresolved \in Seq(Entries)
    BY <2>1, <2>2, ReportedIn DEF Unresolved
  <2>4. RecordAll(Unresolved) /\ UNCHANGED <<linearity, runEvents>>
    BY <1>7 DEF CheckLeaks
  <2> QED
    BY <1>0, <1>2, <2>3, <2>4, RecordAllTells
<1>8. CASE \/ \E e \in Entities : DeterminismRecord(e)
           \/ DeterminismSeal \/ DeterminismReset
  <2>1. NoRecord /\ UNCHANGED linearity
    BY <1>8 DEF DeterminismRecord, DeterminismSeal, DeterminismReset
  <2>2. /\ runEvents'.current \in Seq(Entities) /\ runEvents'.reference \in Seq(Entities)
        /\ DOMAIN runEvents' = {"current", "count", "reference", "refCount", "sealed"}
    <3>1. ASSUME NEW e \in Entities, DeterminismRecord(e)
          PROVE  <2>2
      <4>1. runEvents.current \in Seq(Entities) /\ Append(runEvents.current, e) \in Seq(Entities)
        BY DEF RingInv
      <4> QED
        BY <3>1, <4>1 DEF DeterminismRecord, RingInv
    <3>2. CASE DeterminismSeal
      BY <3>2 DEF DeterminismSeal, NoRun, RingInv
    <3>3. CASE DeterminismReset
      BY <3>3 DEF DeterminismReset, NoRun
    <3> QED
      BY <1>8, <3>1, <3>2, <3>3
  <2> QED
    BY <1>1, <2>1, <2>2 DEF RingInv
<1>9. CASE DeterminismCheck
  <2> DEFINE both == IF Len(runEvents.current) < Len(runEvents.reference) THEN Len(runEvents.current)
                     ELSE Len(runEvents.reference)
             s == [n \in 1 .. both |-> <<"Drift", runEvents.current[n]>>]
             which == {n \in 1 .. both : runEvents.current[n] # runEvents.reference[n]}
             first == IF runEvents.count # runEvents.refCount THEN <<<<"Drift", NoEntity>>>> ELSE <<>>
  <2>1. both \in Nat /\ \A n \in 1 .. both : runEvents.current[n] \in Entities
    BY DEF RingInv
  <2>2. s \in Seq(Entries)
    <3>1. \A n \in 1 .. both : <<"Drift", runEvents.current[n]>> \in Entries
      BY <2>1, EntryKinds
    <3> HIDE DEF both
    <3> QED
      BY <2>1, <3>1
  <2>3. Reported(s, which) \in Seq(Entries)
    <3> HIDE DEF s, which
    <3> QED
      BY <2>2, ReportedIn
  <2>4. first \in Seq(Entries)
    <3>1. <<"Drift", NoEntity>> \in Entries
      BY EntryKinds
    <3> QED
      BY <3>1
  <2>5. Drifts = first \o Reported(s, which)
    BY DEF Drifts
  <2>6. Drifts \in Seq(Entries)
    <3> HIDE DEF first, s, which
    <3> QED
      BY <2>3, <2>4, <2>5
  <2>7. RecordAll(Drifts) /\ UNCHANGED <<linearity, runEvents>>
    BY <1>9 DEF DeterminismCheck
  <2> QED
    BY <1>0, <1>2, <2>6, <2>7, RecordAllTells
<1>10. CASE UNCHANGED ghostVars
  BY <1>10 DEF ghostVars, RingInv
<1> QED
  BY <1>3, <1>4, <1>5, <1>6, <1>7, <1>8, <1>9, <1>10
     DEF GhostNext, MonitorNext, BorrowNext

LEMMA RingReads == RingInv => GhostRingRecent
<1> SUFFICES ASSUME RingInv
             PROVE  GhostRingRecent
  OBVIOUS
<1> DEFINE R == GhostRing
<1>0. R \in Nat \ {0} /\ GhostSlots = 0 .. R - 1
  BY GhostAssumption DEF GhostSlots
<1>1. PICK slots, w, c, s : slots = ghostRing.slots /\ w = ghostRing.write /\ c = ghostRing.count /\ s = recorded
  OBVIOUS
<1>2. /\ w \in 0 .. R - 1 /\ c \in Nat /\ InCells(R, Told(slots), w, s)
      /\ Len(s) = (IF c < R THEN c ELSE R) /\ (ghostRing.overflow <=> c > R) /\ (c = R => w = 0)
  BY <1>0, <1>1 DEF RingInv, RingTells, Rings
<1>3. Available = Len(s)
  BY <1>0, <1>1, <1>2 DEF Available
<1>4. ASSUME NEW n \in 1 .. Len(s)
      PROVE  ViolationGet(n - 1).kind = s[n][1] /\ ViolationGet(n - 1).entity = s[n][2]
  <2>1. PICK i \in 0 .. R - 1 : i = n - 1 /\ i + 1 = n /\ i \in 0 .. Len(s) - 1
    BY <1>0, <1>2
  <2>2. PICK t : t = Told(slots)
    OBVIOUS
  <2>3. ReadsCell(R, t, w, s, i)
    <3> HIDE DEF R
    <3> QED
      BY <1>0, <1>2, <2>1, <2>2, CellIs
  <2>4. PICK k : k = IF ghostRing.overflow THEN (w + i) % R ELSE i
    OBVIOUS
  <2>5. ViolationGet(n - 1) = slots[k]
    BY <1>1, <2>1, <2>4 DEF ViolationGet
  <2>6. k \in 0 .. R - 1 /\ t[k] = s[n]
    <3>1. PICK x : x = (w + i) % R
      OBVIOUS
    <3>2. x \in 0 .. R - 1
      <4>1. PICK a \in Nat : a = w + i
        BY <1>0, <1>2, <2>1
      <4> HIDE DEF R
      <4> QED
        BY <1>0, <3>1, <4>1, ModOf
    <3>3. w = 0 => x = i
      <4> SUFFICES ASSUME w = 0
                   PROVE  x = i
        OBVIOUS
      <4>1. w + i = i
        BY <2>1
      <4> QED
        BY <2>3, <3>1, <4>1 DEF ReadsCell
    <3>4. (Len(s) < R => t[i] = s[n]) /\ (Len(s) = R => t[x] = s[n])
      BY <2>1, <2>3, <3>1 DEF ReadsCell
    <3>5. k = IF c > R THEN x ELSE i
      BY <1>2, <2>4, <3>1
    <3> HIDE DEF R
    <3>6. CASE c < R
      BY <1>0, <1>2, <2>1, <3>4, <3>5, <3>6
    <3>7. CASE c = R
      BY <1>0, <1>2, <2>1, <3>3, <3>4, <3>5, <3>7
    <3>8. CASE c > R
      BY <1>0, <1>2, <3>2, <3>4, <3>5, <3>8
    <3> QED
      BY <1>0, <1>2, <3>6, <3>7, <3>8
  <2>7. t[k] = <<slots[k].kind, slots[k].entity>>
    BY <1>0, <2>2, <2>6 DEF Told
  <2>8. s[n] = <<slots[k].kind, slots[k].entity>>
    BY <2>6, <2>7
  <2> QED
    BY <2>5, <2>8
<1> QED
  BY <1>1, <1>3, <1>4 DEF GhostRingRecent

LEMMA ViolationsKept == SupportSpec => []GhostRingRecent
BY GhostRunsAlone, RingInitInv, RingStep, RingReads, PTL DEF GhostSpec

\* The hindsight ring holds what was logged.
LEMMA LoggedKept == SupportSpec => [](subject = "hindsight" => HindsightReadsLatest)
<1> DEFINE Inv == subject = "hindsight" => Holding(logged)
<1>1. SupportInit => Inv
  <2> SUFFICES ASSUME SupportInit
               PROVE  Holding(logged)
    OBVIOUS
  <2>1. hindsight = EmptyHindsight /\ logged = <<>>
    BY DEF SupportInit, HooksInit, HindsightInit
  <2> QED
    BY <2>1, EmptyHolds
<1>2. Inv /\ [SupportNext]_SupportVars => Inv'
  <2> SUFFICES ASSUME Inv, [SupportNext]_SupportVars, subject' = "hindsight"
               PROVE  Holding(logged)'
    OBVIOUS
  <2>1. Holding(logged) /\ (HindsightNext \/ UNCHANGED hindsightVars)
    BY DEF SupportNext, SupportVars, Rest, hooksVars
  <2>2. ASSUME NEW r \in Readings, HindsightLog(r)
        PROVE  Holding(logged)'
    <3>1. PICK s, p : s = logged /\ p = Pushed(HindsightRing, s, r)
      OBVIOUS
    <3>2. logged' = p
      BY <2>2, <3>1 DEF HindsightLog, Pushed
    <3>3. Holding(s)
      BY <2>1, <3>1
    <3>4. Holding(Pushed(HindsightRing, s, r))'
      BY <2>2, <3>3, LogHolds
    <3>5. Holding(p)'
      BY <3>1, <3>4
    <3> QED
      BY <3>2, <3>5
  <2>3. CASE HindsightReset
    <3>1. logged' = <<>> /\ hindsight' = EmptyHindsight
      BY <2>3 DEF HindsightReset
    <3>2. (hindsight = EmptyHindsight)'
      BY <3>1 DEF EmptyHindsight
    <3>3. Holding(<<>>)'
      BY <3>2, EmptyHolds, PTL
    <3> QED
      BY <3>1, <3>3
  <2>4. CASE UNCHANGED <<hindsight, logged>>
    BY <2>1, <2>4 DEF Holding, Readable
  <2> QED
    BY <2>1, <2>2, <2>3, <2>4
       DEF HindsightNext, FlushOnDivergence, FlushOnInvariant, Flush, SetPolicy, hindsightVars
<1>3. Inv => (subject = "hindsight" => HindsightReadsLatest)
  <2> SUFFICES ASSUME Holding(logged)
               PROVE  HindsightReadsLatest
    OBVIOUS
  <2>1. PICK s : s = logged
    OBVIOUS
  <2>2. [n \in 1 .. Readable |-> HindsightGet(n - 1)] = s
    BY <2>1, HoldingReads
  <2> QED
    BY <2>1, <2>2 DEF HindsightReadsLatest
<1> QED
  BY <1>1, <1>2, <1>3, PTL DEF SupportSpec

LEMMA TimersKept == SupportSpec => [](WheelTypeOK /\ WheelConsistent)
<1>1. WheelInv => WheelTypeOK /\ WheelConsistent
  BY DEF WheelInv, Agrees, Alive, LiveTimers, WheelConsistent
<1> QED
  BY <1>1, WheelRunsAlone, WheelInvariant, PTL

\* RingsKeepLatest: a ring read from its first index gives the newest entries in order over
\* wraps and stopped counters, a task reads its own errors whoever used its ledger before,
\* and the wheel's counts are those of its live timers (ghost.c, hindsight.c, status.c,
\* timer_wheel.c).
LEMMA RingsTellLatest == SupportSpec => []RingsKeepLatest
<1>1. WheelTypeOK /\ WheelConsistent /\ GhostRingRecent /\ ErrorsReadOwn
        /\ (subject = "hindsight" => HindsightReadsLatest) => RingsKeepLatest
  BY DEF RingsKeepLatest
<1> QED
  BY <1>1, TimersKept, ViolationsKept, ErrorsKept, LoggedKept, PTL

----------------------------------------------------------------------------
(* The automotive audit: positions of what was late *)

LateKinds == {"DeadlineMiss", "WatchdogViolation"}
Observation == [kind : {"Hit", "DeadlineMiss", "Checkpoint", "WatchdogViolation"}, detail : Int]
LateIn(s) == {n \in DOMAIN s : s[n].kind \in LateKinds}
AfterIn(s, n) == {m \in LateIn(s) : m > n}

HearsLate(s, e, p) ==
  /\ DOMAIN p = 1 .. Len(s) + 1 /\ p[Len(s) + 1] = e /\ \A n \in 1 .. Len(s) : p[n] = s[n]
  /\ DOMAIN s = 1 .. Len(s) /\ Len(s) \in Nat
  /\ e.kind \in LateKinds =>
       /\ LateIn(p) = LateIn(s) \cup {Len(s) + 1}
       /\ AfterIn(p, Len(s) + 1) = {}
       /\ \A n \in LateIn(s) : AfterIn(p, n) = AfterIn(s, n) \cup {Len(s) + 1}
  /\ e.kind \notin LateKinds =>
       /\ LateIn(p) = LateIn(s)
       /\ \A n \in LateIn(s) : AfterIn(p, n) = AfterIn(s, n)

LEMMA LateAppends ==
  ASSUME NEW S, NEW s \in Seq(S), NEW e \in S
  PROVE  HearsLate(s, e, Append(s, e))
<1>0. PICK p : p = Append(s, e)
  OBVIOUS
<1>1. /\ DOMAIN p = 1 .. Len(s) + 1 /\ p[Len(s) + 1] = e /\ \A n \in 1 .. Len(s) : p[n] = s[n]
      /\ DOMAIN s = 1 .. Len(s) /\ Len(s) \in Nat
  BY <1>0, AppendProperties
<1>2. PICK k \in Nat : k = Len(s)
  BY <1>1
<1>3. LateIn(s) = {n \in 1 .. k : s[n].kind \in LateKinds}
  BY <1>1, <1>2 DEF LateIn
<1>4. LateIn(p) = {n \in 1 .. k + 1 : p[n].kind \in LateKinds}
  BY <1>1, <1>2 DEF LateIn
<1>5. ASSUME e.kind \in LateKinds
      PROVE  LateIn(p) = LateIn(s) \cup {k + 1}
  <2>1. \A n \in 1 .. k + 1 : p[n].kind \in LateKinds <=> n = k + 1 \/ (n \in 1 .. k /\ s[n].kind \in LateKinds)
    BY <1>1, <1>2, <1>5
  <2> QED
    BY <1>2, <1>3, <1>4, <2>1
<1>6. ASSUME e.kind \notin LateKinds
      PROVE  LateIn(p) = LateIn(s)
  <2>1. \A n \in 1 .. k + 1 : p[n].kind \in LateKinds <=> (n \in 1 .. k /\ s[n].kind \in LateKinds)
    BY <1>1, <1>2, <1>6
  <2> QED
    BY <1>2, <1>3, <1>4, <2>1
<1>7. \A n \in LateIn(s) : n \in 1 .. k
  BY <1>3
<1>8. ASSUME e.kind \in LateKinds
      PROVE  /\ AfterIn(p, k + 1) = {}
             /\ \A n \in LateIn(s) : AfterIn(p, n) = AfterIn(s, n) \cup {k + 1}
  BY <1>2, <1>5, <1>7, <1>8 DEF AfterIn
<1>9. ASSUME e.kind \notin LateKinds
      PROVE  \A n \in LateIn(s) : AfterIn(p, n) = AfterIn(s, n)
  BY <1>6, <1>9 DEF AfterIn
<1> QED
  BY <1>0, <1>1, <1>2, <1>5, <1>6, <1>8, <1>9 DEF HearsLate

LEMMA LateCounted ==
  ASSUME NEW S, NEW s \in Seq(S)
  PROVE  /\ IsFiniteSet(LateIn(s)) /\ Cardinality(LateIn(s)) \in Nat
         /\ \A n \in LateIn(s) :
              /\ n \in 1 .. Len(s) /\ IsFiniteSet(AfterIn(s, n)) /\ Cardinality(AfterIn(s, n)) \in Nat
              /\ Cardinality(AfterIn(s, n)) < Cardinality(LateIn(s))
<1>1. PICK k \in Nat : k = Len(s)
  OBVIOUS
<1>2. DOMAIN s = 1 .. k
  BY <1>1
<1>3. IsFiniteSet(1 .. k)
  BY FS_Interval
<1>4. LateIn(s) \subseteq 1 .. k
  BY <1>2 DEF LateIn
<1>5. IsFiniteSet(LateIn(s))
  BY <1>3, <1>4, FS_Subset
<1>6. ASSUME NEW n \in LateIn(s)
      PROVE  /\ n \in 1 .. Len(s) /\ IsFiniteSet(AfterIn(s, n)) /\ Cardinality(AfterIn(s, n)) \in Nat
             /\ Cardinality(AfterIn(s, n)) < Cardinality(LateIn(s))
  <2>1. AfterIn(s, n) \subseteq LateIn(s) /\ n \notin AfterIn(s, n) /\ n \in 1 .. k
    BY <1>4 DEF AfterIn
  <2>2. AfterIn(s, n) # LateIn(s)
    BY <2>1
  <2> QED
    BY <1>1, <1>5, <2>1, <2>2, FS_Subset, FS_CardinalityType
<1> QED
  BY <1>5, <1>6, FS_CardinalityType

\* The cell of the entry k places before the newest.
CellBack(R, h, k) == IF h > k THEN h - 1 - k ELSE h - 1 - k + R

\* The audit ring keeps the latest of what was late.
AuditKeeps(R, cells, h, c, s) ==
  /\ h \in 0 .. R - 1 /\ DOMAIN cells = 0 .. R - 1
  /\ c = Cardinality(LateIn(s))
  /\ c < R => h = c
  /\ c = R => h = 0
  /\ \A n \in LateIn(s) :
       Cardinality(AfterIn(s, n)) < R => cells[CellBack(R, h, Cardinality(AfterIn(s, n)))] = s[n]

LEMMA AuditPasses ==
  ASSUME NEW R \in Nat \ {0}, NEW cells, NEW h, NEW c, NEW S, NEW s \in Seq(S), NEW e \in S,
         AuditKeeps(R, cells, h, c, s), e.kind \notin LateKinds
  PROVE  AuditKeeps(R, cells, h, c, Append(s, e))
<1>1. PICK p : p = Append(s, e)
  OBVIOUS
<1>2. /\ LateIn(p) = LateIn(s) /\ \A n \in LateIn(s) : AfterIn(p, n) = AfterIn(s, n)
      /\ \A n \in LateIn(s) : p[n] = s[n]
  <2>1. \A n \in LateIn(s) : n \in 1 .. Len(s)
    BY LateCounted
  <2>2. /\ LateIn(p) = LateIn(s) /\ \A n \in LateIn(s) : AfterIn(p, n) = AfterIn(s, n)
        /\ \A n \in 1 .. Len(s) : p[n] = s[n]
    <3>1. HearsLate(s, e, p)
      BY <1>1, LateAppends
    <3> QED
      BY <3>1 DEF HearsLate
  <2> QED
    BY <2>1, <2>2
<1> QED
  BY <1>1, <1>2 DEF AuditKeeps

LEMMA AuditGrows ==
  ASSUME NEW R \in Nat \ {0}, NEW cells, NEW h, NEW c, NEW S, NEW s \in Seq(S), NEW e \in S,
         AuditKeeps(R, cells, h, c, s), e.kind \in LateKinds
  PROVE  AuditKeeps(R, [cells EXCEPT ![h] = e], (h + 1) % R, c + 1, Append(s, e))
<1>1. PICK p, q : p = Append(s, e) /\ q = [cells EXCEPT ![h] = e]
  OBVIOUS
<1>2. PICK t : t = Len(s) + 1
  OBVIOUS
<1>3. /\ LateIn(p) = LateIn(s) \cup {t} /\ AfterIn(p, t) = {} /\ p[t] = e
      /\ \A n \in LateIn(s) : AfterIn(p, n) = AfterIn(s, n) \cup {t} /\ p[n] = s[n]
      /\ \A n \in LateIn(s) : t \notin AfterIn(s, n)
      /\ t \notin LateIn(s)
  <2>1. \A n \in LateIn(s) : n \in 1 .. Len(s)
    BY LateCounted
  <2>2. t \notin LateIn(s)
    BY <1>2, <2>1
  <2>3. \A n : AfterIn(s, n) \subseteq LateIn(s)
    BY DEF AfterIn
  <2>4. /\ LateIn(p) = LateIn(s) \cup {t} /\ AfterIn(p, t) = {} /\ p[t] = e
        /\ \A n \in LateIn(s) : AfterIn(p, n) = AfterIn(s, n) \cup {t}
        /\ \A n \in 1 .. Len(s) : p[n] = s[n]
    <3>1. HearsLate(s, e, p)
      BY <1>1, LateAppends
    <3> QED
      BY <1>2, <3>1 DEF HearsLate
  <2> QED
    BY <2>1, <2>2, <2>3, <2>4
<1>4. /\ h \in 0 .. R - 1 /\ DOMAIN cells = 0 .. R - 1 /\ (c < R => h = c) /\ (c = R => h = 0)
      /\ c = Cardinality(LateIn(s)) /\ c \in Nat
  BY LateCounted DEF AuditKeeps
<1>5. PICK v \in 0 .. R - 1 : v = (h + 1) % R /\ v = IF h = R - 1 THEN 0 ELSE h + 1
  <2>1. PICK a \in Nat : a = h + 1 /\ a < 2 * R
    BY <1>4
  <2>2. a % R = IF a < R THEN a ELSE a - R
    BY <2>1, ModSmall
  <2>3. a % R \in 0 .. R - 1 /\ a % R = IF h = R - 1 THEN 0 ELSE h + 1
    BY <1>4, <2>1, <2>2
  <2> QED
    BY <2>1, <2>3
<1>6. Cardinality(LateIn(p)) = c + 1
  BY <1>3, <1>4, LateCounted, FS_AddElement
<1>7. DOMAIN q = 0 .. R - 1 /\ q[h] = e /\ \A k \in 0 .. R - 1 : k # h => q[k] = cells[k]
  BY <1>1, <1>4
<1>8. (c + 1 < R => v = c + 1) /\ (c + 1 = R => v = 0)
  BY <1>4, <1>5
<1>9. ASSUME NEW n \in LateIn(p), Cardinality(AfterIn(p, n)) < R
      PROVE  q[CellBack(R, v, Cardinality(AfterIn(p, n)))] = p[n]
  <2>1. CASE n = t
    <3>1. Cardinality(AfterIn(p, n)) = 0
      BY <1>3, <2>1, FS_EmptySet
    <3>2. CellBack(R, v, 0) = h
      BY <1>4, <1>5 DEF CellBack
    <3> QED
      BY <1>3, <1>7, <2>1, <3>1, <3>2
  <2>2. CASE n \in LateIn(s)
    <3>1. PICK k \in Nat : k = Cardinality(AfterIn(s, n))
      BY <2>2, LateCounted
    <3>2. Cardinality(AfterIn(p, n)) = k + 1
      BY <1>3, <2>2, <3>1, LateCounted, FS_AddElement
    <3>3. k + 1 < R
      BY <1>9, <3>2
    <3>4. cells[CellBack(R, h, k)] = s[n]
      BY <2>2, <3>1, <3>3 DEF AuditKeeps
    <3>5. CellBack(R, v, k + 1) = CellBack(R, h, k) /\ CellBack(R, h, k) \in 0 .. R - 1
          /\ CellBack(R, h, k) # h
      BY <1>4, <1>5, <3>3 DEF CellBack
    <3> QED
      BY <1>3, <1>7, <2>2, <3>2, <3>4, <3>5
  <2> QED
    BY <1>3, <2>1, <2>2
<1> QED
  BY <1>1, <1>4, <1>5, <1>6, <1>7, <1>8, <1>9 DEF AuditKeeps

----------------------------------------------------------------------------
(* The automotive instruments: their inductive invariant *)

DetailsIn(s, kinds) == {s[n].detail : n \in {m \in DOMAIN s : s[m].kind \in kinds}}
Happened(s, k) == \E n \in DOMAIN s : s[n].kind = k
Bounds(lo, hi, D) == lo \in D /\ hi \in D /\ \A d \in D : lo <= d /\ d <= hi

Adds(s, e, p) ==
  /\ \A K : DetailsIn(p, K) = IF e.kind \in K THEN DetailsIn(s, K) \cup {e.detail} ELSE DetailsIn(s, K)
  /\ \A k : Happened(p, k) <=> Happened(s, k) \/ e.kind = k

LEMMA DetailsAppended ==
  ASSUME NEW S, NEW s \in Seq(S), NEW e \in S
  PROVE  Adds(s, e, Append(s, e))
<1>1. PICK p, m : p = Append(s, e) /\ m = Len(s)
  OBVIOUS
<1>2. /\ DOMAIN p = 1 .. m + 1 /\ DOMAIN s = 1 .. m /\ m \in Nat
      /\ p[m + 1] = e /\ \A n \in 1 .. m : p[n] = s[n]
  BY <1>1, AppendProperties
<1>3. \A n : n \in 1 .. m + 1 <=> n \in 1 .. m \/ n = m + 1
  BY <1>2
<1>4. ASSUME NEW K
      PROVE  DetailsIn(p, K) = IF e.kind \in K THEN DetailsIn(s, K) \cup {e.detail} ELSE DetailsIn(s, K)
  BY <1>2, <1>3 DEF DetailsIn
<1>5. ASSUME NEW k
      PROVE  Happened(p, k) <=> Happened(s, k) \/ e.kind = k
  BY <1>2, <1>3 DEF Happened
<1> QED
  BY <1>1, <1>4, <1>5 DEF Adds

MarginKinds == {"Hit", "DeadlineMiss"}
IntervalKinds == {"Checkpoint", "WatchdogViolation"}

DeadlinesTell(d, s) ==
  /\ d.total \in Nat /\ d.misses \in Nat /\ d.misses <= d.total
  /\ d.total = 0 => DetailsIn(s, MarginKinds) = {}
  /\ d.total # 0 => Bounds(d.worst, d.best, DetailsIn(s, MarginKinds))
  /\ d.misses # 0 <=> Happened(s, "DeadlineMiss")

WatchdogTells(w, s) ==
  /\ w.last \in Nat /\ w.checkpoints \in Nat /\ w.violations \in Nat
  /\ Bounds(0, w.worst, {0} \cup DetailsIn(s, IntervalKinds))
  /\ w.violations # 0 <=> Happened(s, "WatchdogViolation")

AutomotiveInv ==
  /\ observed \in Seq(Observation)
  /\ AuditKeeps(AuditRing, audit.entries, audit.head, audit.count, observed)
  /\ DeadlinesTell(deadlines, observed)
  /\ WatchdogTells(watchdog, observed)

LEMMA DetailsAreInt ==
  ASSUME NEW s \in Seq(Observation), NEW K
  PROVE  DetailsIn(s, K) \subseteq Int
<1>1. \A o \in Observation : o.detail \in Int
  BY DEF Observation
<1>2. \A n \in DOMAIN s : s[n] \in Observation
  OBVIOUS
<1> QED
  BY <1>1, <1>2 DEF DetailsIn

\* Reset, and the first state.
LEMMA AutomotiveFresh ==
  /\ AuditKeeps(AuditRing, EmptyAudit.entries, EmptyAudit.head, EmptyAudit.count, <<>>)
  /\ DeadlinesTell(NoDeadlines, <<>>) /\ WatchdogTells(NewWatchdog, <<>>)
<1>1. LateIn(<<>>) = {} /\ (\A K : DetailsIn(<<>>, K) = {}) /\ \A k : ~Happened(<<>>, k)
  BY DEF LateIn, DetailsIn, Happened
<1>2. AuditRing \in Nat \ {0}
  BY AutomotiveAssumption
<1>3. Cardinality({}) = 0
  BY FS_EmptySet
<1>4. AuditKeeps(AuditRing, EmptyAudit.entries, EmptyAudit.head, EmptyAudit.count, <<>>)
  <2>1. PICK c : c = [k \in 0 .. AuditRing - 1 |-> NoAudit]
    OBVIOUS
  <2>2. EmptyAudit = [entries |-> c, head |-> 0, count |-> 0]
    BY <2>1 DEF EmptyAudit, AuditSlots
  <2>3. EmptyAudit.entries = c /\ EmptyAudit.head = 0 /\ EmptyAudit.count = 0
    BY <2>2
  <2>4. DOMAIN c = 0 .. AuditRing - 1
    BY <2>1
  <2>5. 0 \in 0 .. AuditRing - 1
    BY <1>2
  <2>6. Cardinality(LateIn(<<>>)) = 0
    BY <1>1, <1>3, Zenon
  <2> QED
    BY <1>1, <2>3, <2>4, <2>5, <2>6, Zenon DEF AuditKeeps
<1>5. DeadlinesTell(NoDeadlines, <<>>)
  BY <1>1 DEF DeadlinesTell, NoDeadlines
<1>6. WatchdogTells(NewWatchdog, <<>>)
  <2>1. PICK w : w = NewWatchdog
    OBVIOUS
  <2>2. w.last = 0 /\ w.worst = 0 /\ w.checkpoints = 0 /\ w.violations = 0
    BY <2>1 DEF NewWatchdog
  <2>3. DetailsIn(<<>>, IntervalKinds) = {} /\ ~Happened(<<>>, "WatchdogViolation")
    BY <1>1
  <2> QED
    BY <2>1, <2>2, <2>3 DEF WatchdogTells, Bounds
<1> QED
  BY <1>4, <1>5, <1>6

\* A margin.
LEMMA DeadlineTold ==
  ASSUME NEW d, NEW s \in Seq(Observation), DeadlinesTell(d, s), NEW margin \in Int, NEW e \in Observation,
         e = [kind |-> IF margin < 0 THEN "DeadlineMiss" ELSE "Hit", detail |-> margin]
  PROVE  DeadlinesTell(DeadlineRecorded(d, margin), Append(s, e))
<1>1. PICK n : n = DeadlineRecorded(d, margin)
  OBVIOUS
<1>2. /\ n.total = d.total + 1
      /\ n.misses = IF margin >= 0 THEN d.misses ELSE d.misses + 1
      /\ n.worst = IF margin < d.worst \/ d.total = 0 THEN margin ELSE d.worst
      /\ n.best = IF margin > d.best \/ d.total = 0 THEN margin ELSE d.best
  BY <1>1 DEF DeadlineRecorded
<1>3. PICK k : k = e.kind /\ k = (IF margin < 0 THEN "DeadlineMiss" ELSE "Hit") /\ e.detail = margin
  OBVIOUS
<1>4. PICK p, D, E : p = Append(s, e) /\ D = DetailsIn(s, MarginKinds) /\ E = DetailsIn(p, MarginKinds)
  OBVIOUS
<1>5. E = D \cup {margin}
  <2>1. k \in MarginKinds
    BY <1>3 DEF MarginKinds
  <2>2. E = IF e.kind \in MarginKinds THEN D \cup {e.detail} ELSE D
    <3>1. Adds(s, e, p)
      BY <1>4, DetailsAppended
    <3> QED
      BY <1>4, <3>1, Zenon DEF Adds
  <2> QED
    BY <1>3, <2>1, <2>2
<1>6. Happened(p, "DeadlineMiss") <=> Happened(s, "DeadlineMiss") \/ margin < 0
  BY <1>3, <1>4, DetailsAppended DEF Adds
<1>7. D \subseteq Int
  BY <1>4, DetailsAreInt
<1>8. /\ d.total \in Nat /\ d.misses \in Nat /\ d.misses <= d.total
      /\ d.total = 0 => D = {}
      /\ d.total # 0 => Bounds(d.worst, d.best, D)
      /\ d.misses # 0 <=> Happened(s, "DeadlineMiss")
  BY <1>4 DEF DeadlinesTell
<1>9. Bounds(n.worst, n.best, E)
  <2>1. CASE d.total = 0
    BY <1>2, <1>5, <1>8, <2>1 DEF Bounds
  <2>2. CASE d.total # 0
    <3>1. d.worst \in D /\ d.best \in D /\ \A x \in D : d.worst <= x /\ x <= d.best
      BY <1>8, <2>2 DEF Bounds
    <3>2. d.worst \in Int /\ d.best \in Int
      BY <1>7, <3>1
    <3>3. n.worst = (IF margin < d.worst THEN margin ELSE d.worst)
          /\ n.best = IF margin > d.best THEN margin ELSE d.best
      BY <1>2, <2>2
    <3>4. n.worst \in E /\ n.best \in E /\ n.worst <= margin /\ margin <= n.best
          /\ n.worst <= d.worst /\ d.best <= n.best /\ n.worst \in Int /\ n.best \in Int
      BY <1>5, <3>1, <3>2, <3>3
    <3>5. \A x \in E : n.worst <= x /\ x <= n.best
      BY <1>5, <1>7, <3>1, <3>2, <3>4
    <3> QED
      BY <3>4, <3>5 DEF Bounds
  <2> QED
    BY <2>1, <2>2
<1>10. n.total \in Nat /\ n.misses \in Nat /\ n.misses <= n.total /\ n.total # 0
       /\ (n.misses # 0 <=> d.misses # 0 \/ margin < 0)
  BY <1>2, <1>8
<1> QED
  BY <1>1, <1>4, <1>6, <1>8, <1>9, <1>10 DEF DeadlinesTell

\* An observation that is no margin, or no interval, is nothing to the deadlines, or to
\* the watchdog.
LEMMA OtherTold ==
  ASSUME NEW s \in Seq(Observation), NEW e \in Observation
  PROVE  /\ e.kind \notin MarginKinds => \A d : DeadlinesTell(d, s) => DeadlinesTell(d, Append(s, e))
         /\ e.kind \notin IntervalKinds => \A w : WatchdogTells(w, s) => WatchdogTells(w, Append(s, e))
<1>1. PICK p : p = Append(s, e)
  OBVIOUS
<1>2. ASSUME e.kind \notin MarginKinds
      PROVE  DetailsIn(p, MarginKinds) = DetailsIn(s, MarginKinds)
             /\ (Happened(p, "DeadlineMiss") <=> Happened(s, "DeadlineMiss"))
  <2>1. e.kind # "DeadlineMiss"
    BY <1>2 DEF MarginKinds
  <2> QED
    BY <1>1, <1>2, <2>1, DetailsAppended DEF Adds
<1>3. ASSUME e.kind \notin IntervalKinds
      PROVE  DetailsIn(p, IntervalKinds) = DetailsIn(s, IntervalKinds)
             /\ (Happened(p, "WatchdogViolation") <=> Happened(s, "WatchdogViolation"))
  <2>1. e.kind # "WatchdogViolation"
    BY <1>3 DEF IntervalKinds
  <2> QED
    BY <1>1, <1>3, <2>1, DetailsAppended DEF Adds
<1> QED
  BY <1>1, <1>2, <1>3 DEF DeadlinesTell, WatchdogTells

\* A checkpoint.
LEMMA CheckpointTold ==
  ASSUME NEW w, NEW s \in Seq(Observation), WatchdogTells(w, s), NEW now \in Nat, now >= w.last,
         NEW overrun \in BOOLEAN, NEW armed \in BOOLEAN, NEW e \in Observation,
         e = [kind |-> IF overrun THEN "WatchdogViolation" ELSE "Checkpoint",
              detail |-> IF armed THEN now - w.last ELSE 0],
         NEW n, n.last = now, n.checkpoints = w.checkpoints + 1,
         n.worst = IF armed /\ now - w.last > w.worst THEN now - w.last ELSE w.worst,
         n.violations = IF overrun THEN w.violations + 1 ELSE w.violations
  PROVE  WatchdogTells(n, Append(s, e))
<1>1. PICK p, D, E : p = Append(s, e) /\ D = {0} \cup DetailsIn(s, IntervalKinds)
                     /\ E = {0} \cup DetailsIn(p, IntervalKinds)
  OBVIOUS
<1>2. PICK x \in Nat : x = IF armed THEN now - w.last ELSE 0
  BY DEF WatchdogTells
<1>3. PICK k : k = IF overrun THEN "WatchdogViolation" ELSE "Checkpoint"
  OBVIOUS
<1>4. e.kind = k /\ e.detail = x
  BY <1>2, <1>3
<1>5. k \in IntervalKinds /\ (k = "WatchdogViolation" <=> overrun)
  BY <1>3 DEF IntervalKinds
<1>6. Adds(s, e, p)
  BY <1>1, DetailsAppended
<1>7. DetailsIn(p, IntervalKinds) = DetailsIn(s, IntervalKinds) \cup {x}
  BY <1>4, <1>5, <1>6 DEF Adds
<1>8. E = D \cup {x}
  BY <1>1, <1>7
<1>9. Happened(p, "WatchdogViolation") <=> Happened(s, "WatchdogViolation") \/ overrun
  BY <1>4, <1>5, <1>6 DEF Adds
<1>10. /\ w.last \in Nat /\ w.checkpoints \in Nat /\ w.violations \in Nat
       /\ 0 \in D /\ w.worst \in D /\ \A d \in D : 0 <= d /\ d <= w.worst
       /\ w.violations # 0 <=> Happened(s, "WatchdogViolation")
  BY <1>1 DEF WatchdogTells, Bounds
<1>11. D \subseteq Int
  BY <1>1, DetailsAreInt
<1>12. w.worst \in Int /\ 0 <= w.worst
  BY <1>10, <1>11
<1>13. n.worst = IF x > w.worst THEN x ELSE w.worst
  BY <1>2, <1>12
<1>14. n.worst \in E /\ \A d \in E : 0 <= d /\ d <= n.worst
  BY <1>8, <1>10, <1>11, <1>12, <1>13
<1>15. n.violations \in Nat /\ (n.violations # 0 <=> w.violations # 0 \/ overrun)
  BY <1>10
<1>16. Bounds(0, n.worst, E)
  BY <1>1, <1>14 DEF Bounds
<1> QED
  BY <1>1, <1>9, <1>10, <1>15, <1>16 DEF WatchdogTells

LEMMA RecordDeadlineKeeps ==
  ASSUME AutomotiveInv, NEW d \in DeadlineTimes, NEW a \in DeadlineTimes, RecordDeadline(d, a)
  PROVE  AutomotiveInv'
<1>1. PICK margin \in Int : margin = d - a /\ (margin < 0 <=> a > d)
  BY AutomotiveAssumption
<1>2. PICK k : k = IF margin < 0 THEN "DeadlineMiss" ELSE "Hit"
  OBVIOUS
<1>3. PICK e : e = [kind |-> k, detail |-> margin]
  OBVIOUS
<1>4. /\ deadlines' = DeadlineRecorded(deadlines, margin)
      /\ audit' = IF margin < 0 THEN Audited("DeadlineMiss", margin) ELSE audit
      /\ observed' = Append(observed, e) /\ watchdog' = watchdog
  BY <1>1, <1>2, <1>3 DEF RecordDeadline
<1>5. PICK s, r : s = observed /\ r = audit
  OBVIOUS
<1>6. /\ s \in Seq(Observation) /\ AuditKeeps(AuditRing, r.entries, r.head, r.count, s)
      /\ DeadlinesTell(deadlines, s) /\ WatchdogTells(watchdog, s)
  BY <1>5 DEF AutomotiveInv
<1>7. e \in Observation /\ e.kind = k
  BY <1>2, <1>3 DEF Observation
<1>8. Append(s, e) \in Seq(Observation)
  BY <1>6, <1>7
<1>9. DeadlinesTell(deadlines', Append(s, e))
  BY <1>2, <1>3, <1>4, <1>6, <1>7, DeadlineTold
<1>10. WatchdogTells(watchdog, Append(s, e))
  <2>1. k \notin IntervalKinds
    BY <1>2 DEF IntervalKinds
  <2> QED
    BY <1>6, <1>7, <2>1, OtherTold
<1>11. AuditKeeps(AuditRing, audit'.entries, audit'.head, audit'.count, Append(s, e))
  <2>0. AuditRing \in Nat \ {0}
    BY AutomotiveAssumption
  <2>1. CASE margin < 0
    <3>1. e.kind \in LateKinds /\ k = "DeadlineMiss"
      BY <1>2, <1>7, <2>1 DEF LateKinds
    <3>2. PICK c : c = [r.entries EXCEPT ![r.head] = e]
      OBVIOUS
    <3>3. audit' = [entries |-> c, head |-> (r.head + 1) % AuditRing, count |-> r.count + 1]
      BY <1>3, <1>4, <1>5, <2>1, <3>1, <3>2 DEF Audited
    <3>4. PICK h, t : h = (r.head + 1) % AuditRing /\ t = r.count + 1
      OBVIOUS
    <3>5. audit' = [entries |-> c, head |-> h, count |-> t]
      BY <3>3, <3>4
    <3>6. audit'.entries = c /\ audit'.head = h /\ audit'.count = t
      BY <3>5
    <3>7. AuditKeeps(AuditRing, c, h, t, Append(s, e))
      BY <1>6, <1>7, <2>0, <3>1, <3>2, <3>4, AuditGrows
    <3> QED
      BY <3>6, <3>7
  <2>2. CASE ~(margin < 0)
    <3>1. e.kind \notin LateKinds /\ audit' = r
      BY <1>2, <1>4, <1>5, <1>7, <2>2 DEF LateKinds
    <3> QED
      BY <1>6, <1>7, <2>0, <3>1, AuditPasses
  <2> QED
    BY <2>1, <2>2
<1> QED
  BY <1>4, <1>5, <1>8, <1>9, <1>10, <1>11 DEF AutomotiveInv

LEMMA RecordCheckpointKeeps ==
  ASSUME AutomotiveInv, NEW now \in DeadlineTimes, RecordCheckpoint(now)
  PROVE  AutomotiveInv'
<1>1. PICK s, r, w : s = observed /\ r = audit /\ w = watchdog
  OBVIOUS
<1>2. /\ s \in Seq(Observation) /\ AuditKeeps(AuditRing, r.entries, r.head, r.count, s)
      /\ DeadlinesTell(deadlines, s) /\ WatchdogTells(w, s)
  BY <1>1 DEF AutomotiveInv
<1>3. PICK overrun \in BOOLEAN : overrun <=> WouldTrigger(now)
  BY Zenon
<1>4. PICK armed \in BOOLEAN : armed <=> w.armed
  BY Zenon
<1>5. overrun => armed
  BY <1>1, <1>3, <1>4, Zenon DEF WouldTrigger
<1>6. now \in Nat /\ now >= w.last
  BY <1>1, AutomotiveAssumption DEF RecordCheckpoint
<1>7. PICK k : k = IF overrun THEN "WatchdogViolation" ELSE "Checkpoint"
  OBVIOUS
<1>8. PICK x : x = IF armed THEN now - w.last ELSE 0
  OBVIOUS
<1>9. PICK e : e = [kind |-> k, detail |-> x]
  OBVIOUS
<1>10. x \in Int
  BY <1>2, <1>6, <1>8 DEF WatchdogTells
<1>11. e \in Observation /\ e.kind = k
  BY <1>7, <1>9, <1>10 DEF Observation
<1>12. observed' = Append(s, e) /\ deadlines' = deadlines
  <2>1. observed' = Append(observed, [kind |-> IF WouldTrigger(now) THEN "WatchdogViolation" ELSE "Checkpoint",
                                      detail |-> IF watchdog.armed THEN now - watchdog.last ELSE 0])
        /\ deadlines' = deadlines
    BY Zenon DEF RecordCheckpoint
  <2>2. k = IF WouldTrigger(now) THEN "WatchdogViolation" ELSE "Checkpoint"
    BY <1>3, <1>7, Zenon
  <2>3. x = IF watchdog.armed THEN now - watchdog.last ELSE 0
    BY <1>1, <1>4, <1>8, Zenon
  <2> QED
    BY <1>1, <1>9, <2>1, <2>2, <2>3, Zenon
<1>13. /\ watchdog'.last = now /\ watchdog'.checkpoints = w.checkpoints + 1
       /\ watchdog'.worst = IF armed /\ now - w.last > w.worst THEN now - w.last ELSE w.worst
       /\ watchdog'.violations = IF overrun THEN w.violations + 1 ELSE w.violations
  <2>1. PICK a, c, t : /\ a = (IF w.armed /\ now - w.last > w.worst THEN now - w.last ELSE w.worst)
                       /\ c = (IF WouldTrigger(now) THEN w.violations + 1 ELSE w.violations)
                       /\ t = TRUE
    BY Zenon
  <2>2. watchdog' = [last |-> now, armed |-> t, checkpoints |-> w.checkpoints + 1, worst |-> a, violations |-> c]
    BY <1>1, <2>1, Zenon DEF RecordCheckpoint, CheckpointRecorded
  <2>3. /\ watchdog'.last = now /\ watchdog'.checkpoints = w.checkpoints + 1 /\ watchdog'.worst = a
        /\ watchdog'.violations = c
    BY <2>2
  <2>4. a = IF armed /\ now - w.last > w.worst THEN now - w.last ELSE w.worst
    BY <1>4, <2>1, Zenon
  <2>5. c = IF overrun THEN w.violations + 1 ELSE w.violations
    BY <1>3, <2>1, Zenon
  <2> QED
    BY <2>3, <2>4, <2>5
<1>14. WatchdogTells(watchdog', Append(s, e))
  BY <1>2, <1>6, <1>7, <1>8, <1>9, <1>11, <1>13, CheckpointTold
<1>15. DeadlinesTell(deadlines, Append(s, e))
  <2>1. k \notin MarginKinds
    BY <1>7 DEF MarginKinds
  <2> QED
    BY <1>2, <1>11, <2>1, OtherTold
<1>16. Append(s, e) \in Seq(Observation)
  BY <1>2, <1>11
<1>17. AuditKeeps(AuditRing, audit'.entries, audit'.head, audit'.count, Append(s, e))
  <2>0. AuditRing \in Nat \ {0}
    BY AutomotiveAssumption
  <2>1. audit' = IF overrun THEN Audited("WatchdogViolation", now - w.last) ELSE r
    BY <1>1, <1>3, Zenon DEF RecordCheckpoint
  <2>2. CASE overrun
    <3>1. e.kind \in LateKinds /\ k = "WatchdogViolation" /\ x = now - w.last
      BY <1>5, <1>7, <1>8, <1>11, <2>2 DEF LateKinds
    <3>2. PICK c : c = [r.entries EXCEPT ![r.head] = e]
      OBVIOUS
    <3>3. audit' = [entries |-> c, head |-> (r.head + 1) % AuditRing, count |-> r.count + 1]
      BY <1>1, <1>9, <2>1, <2>2, <3>1, <3>2 DEF Audited
    <3>4. PICK h, t : h = (r.head + 1) % AuditRing /\ t = r.count + 1
      OBVIOUS
    <3>5. audit' = [entries |-> c, head |-> h, count |-> t]
      BY <3>3, <3>4
    <3>6. audit'.entries = c /\ audit'.head = h /\ audit'.count = t
      BY <3>5
    <3>7. AuditKeeps(AuditRing, c, h, t, Append(s, e))
      BY <1>2, <1>11, <2>0, <3>1, <3>2, <3>4, AuditGrows
    <3> QED
      BY <3>6, <3>7
  <2>3. CASE ~overrun
    <3>1. e.kind \notin LateKinds /\ audit' = r
      BY <1>7, <1>11, <2>1, <2>3 DEF LateKinds
    <3> QED
      BY <1>2, <1>11, <2>0, <3>1, AuditPasses
  <2> QED
    BY <2>2, <2>3
<1> QED
  BY <1>12, <1>14, <1>15, <1>16, <1>17 DEF AutomotiveInv

LEMMA AutomotiveSteps ==
  ASSUME AutomotiveInv, [AutomotiveNext]_automotiveVars
  PROVE  AutomotiveInv'
<1>1. ASSUME AutomotiveReset
      PROVE  AutomotiveInv'
  BY <1>1, AutomotiveFresh DEF AutomotiveReset, AutomotiveInv
<1>2. CASE UNCHANGED automotiveVars
  BY <1>2 DEF automotiveVars, AutomotiveInv
<1> QED
  BY <1>1, <1>2, RecordDeadlineKeeps, RecordCheckpointKeeps DEF AutomotiveNext

LEMMA AuditIsComplete == AutomotiveInv => AuditComplete
<1> SUFFICES ASSUME AutomotiveInv
             PROVE  AuditComplete
  OBVIOUS
<1>1. PICK R \in Nat \ {0} : R = AuditRing
  BY AutomotiveAssumption
<1>2. PICK s, cells, h, c : s = observed /\ cells = audit.entries /\ h = audit.head /\ c = audit.count
  OBVIOUS
<1>3. s \in Seq(Observation) /\ AuditKeeps(R, cells, h, c, s)
  BY <1>1, <1>2 DEF AutomotiveInv
<1>4. Late = LateIn(s) /\ \A n : LaterThan(n) = AfterIn(s, n)
  BY <1>2 DEF Late, Positions, LateIn, LateKinds, LaterThan, AfterIn
<1>5. h \in 0 .. R - 1 /\ c = Cardinality(LateIn(s)) /\ c \in Nat /\ (c < R => h = c) /\ (c = R => h = 0)
  BY <1>3, LateCounted DEF AuditKeeps
<1>6. AuditCount = IF c < R THEN c ELSE R
  <2>1. AuditCount = CHOOSE x \in {c, R} : \A y \in {c, R} : x <= y
    BY <1>1, <1>2 DEF AuditCount, Min
  <2> QED
    BY <1>5, <2>1
<1>7. ASSUME NEW n \in LateIn(s), Cardinality(AfterIn(s, n)) < AuditCount
      PROVE  AuditGet(AuditCount - 1 - Cardinality(AfterIn(s, n))) = s[n]
  <2>1. PICK k \in Nat : k = Cardinality(AfterIn(s, n)) /\ k < c
    BY <1>5, LateCounted, <1>3
  <2>2. k < R /\ k < AuditCount
    BY <1>5, <1>6, <1>7, <2>1
  <2>3. cells[CellBack(R, h, k)] = s[n]
    BY <1>3, <2>1, <2>2 DEF AuditKeeps
  <2>4. PICK a \in Nat : a = (IF c <= R THEN 0 ELSE h) + (AuditCount - 1 - k) /\ a < 2 * R
    BY <1>5, <1>6, <2>1, <2>2
  <2>5. AuditGet(AuditCount - 1 - k) = cells[a % R]
    <3>1. PICK m : m = AuditCount - 1 - k
      OBVIOUS
    <3>2. AuditGet(m) = cells[((IF c <= R THEN 0 ELSE h) + m) % R]
      BY <1>1, <1>2 DEF AuditGet
    <3> QED
      BY <2>4, <3>1, <3>2
  <2>6. a % R = IF a < R THEN a ELSE a - R
    BY <2>4, ModSmall
  <2>7. a % R = CellBack(R, h, k)
    <3>1. CellBack(R, h, k) = IF h > k THEN h - 1 - k ELSE h - 1 - k + R
      BY DEF CellBack
    <3>2. CASE c < R
      <4>1. a = h - 1 - k /\ h > k /\ a < R
        BY <1>5, <1>6, <2>1, <2>4, <3>2
      <4> QED
        BY <2>6, <3>1, <4>1
    <3>3. CASE c = R
      <4>1. a = R - 1 - k /\ h = 0 /\ a < R /\ ~(h > k)
        BY <1>5, <1>6, <2>1, <2>4, <3>3
      <4> QED
        BY <2>6, <3>1, <4>1
    <3>4. CASE c > R
      <4>1. a = h + R - 1 - k /\ h \in 0 .. R - 1
        BY <1>5, <1>6, <2>1, <2>4, <3>4
      <4> QED
        BY <2>1, <2>6, <3>1, <4>1
    <3> QED
      BY <1>5, <3>2, <3>3, <3>4
  <2> QED
    BY <2>1, <2>3, <2>5, <2>7
<1> QED
  BY <1>2, <1>4, <1>5, <1>7 DEF AuditComplete

LEMMA ExtremesAreSeen == AutomotiveInv => ExtremesSeen
<1> SUFFICES ASSUME AutomotiveInv
             PROVE  ExtremesSeen
  OBVIOUS
<1>1. PICK s, D, E : /\ s = observed /\ D = DetailsIn(s, MarginKinds)
                     /\ E = {0} \cup DetailsIn(s, IntervalKinds)
  OBVIOUS
<1>2. s \in Seq(Observation) /\ DeadlinesTell(deadlines, s) /\ WatchdogTells(watchdog, s)
  BY <1>1 DEF AutomotiveInv
<1>3. /\ Details({"Hit", "DeadlineMiss"}) = D
      /\ {0} \cup Details({"Checkpoint", "WatchdogViolation"}) = E
  BY <1>1 DEF Details, Positions, DetailsIn, MarginKinds, IntervalKinds
<1>4. D \subseteq Int /\ E \subseteq Int
  BY <1>1, <1>2, DetailsAreInt
<1>5. ASSUME D # {}
      PROVE  deadlines.worst = Min(D) /\ deadlines.best = Max(D)
  <2>1. PICK lo, hi : lo = deadlines.worst /\ hi = deadlines.best
    OBVIOUS
  <2>2. lo \in D /\ hi \in D /\ \A d \in D : lo <= d /\ d <= hi
    BY <1>1, <1>2, <1>5, <2>1 DEF DeadlinesTell, Bounds
  <2>3. \A x \in D : (\A y \in D : x <= y) => x = lo
    BY <1>4, <2>2
  <2>4. \A x \in D : (\A y \in D : x >= y) => x = hi
    BY <1>4, <2>2
  <2>5. (\A y \in D : lo <= y) /\ (\A y \in D : hi >= y)
    BY <1>4, <2>2
  <2>6. Min(D) = lo
    BY <2>2, <2>3, <2>5 DEF Min
  <2>7. Max(D) = hi
    BY <2>2, <2>4, <2>5 DEF Max
  <2> QED
    BY <2>1, <2>6, <2>7
<1>6. watchdog.worst = Max(E)
  <2>1. PICK hi : hi = watchdog.worst
    OBVIOUS
  <2>2. hi \in E /\ \A d \in E : d <= hi
    BY <1>1, <1>2, <2>1 DEF WatchdogTells, Bounds
  <2>3. \A x \in E : (\A y \in E : x >= y) => x = hi
    BY <1>4, <2>2
  <2>4. \A y \in E : hi >= y
    BY <1>4, <2>2
  <2>5. Max(E) = hi
    BY <2>2, <2>3, <2>4 DEF Max
  <2> QED
    BY <2>1, <2>5
<1> QED
  BY <1>3, <1>5, <1>6 DEF ExtremesSeen

\* A rate that neither wraps nor is rounded down is 0 only without a miss.
LEMMA RateTells ==
  ASSUME NEW m \in Nat, NEW t \in Nat, NEW S \in Nat \ {0}, NEW M \in Nat \ {0},
         t <= S, m * S < M, m <= t
  PROVE  IF t = 0 THEN m = 0 ELSE (((m * S) % M) \div t > 0 <=> m # 0)
<1>1. PICK p \in Nat : p = m * S
  OBVIOUS
<1>2. m = 0 => p = 0
  BY <1>1
<1>3. m # 0 => p >= S
  <2> SUFFICES ASSUME m # 0
               PROVE  p >= S
    OBVIOUS
  <2>1. PICK k \in Nat : m = k + 1
    <3>1. m - 1 \in Nat /\ m = (m - 1) + 1
      OBVIOUS
    <3> QED
      BY <3>1
  <2>2. p = k * S + S
    BY <1>1, <2>1
  <2>3. k * S \in Nat
    OBVIOUS
  <2> QED
    BY <2>2, <2>3
<1>4. p < M
  BY <1>1
<1>5. p % M = p
  BY <1>4, ModSmall
<1>6. CASE t = 0
  BY <1>6
<1>7. CASE t # 0
  <2>1. PICK q \in Nat, r \in 0 .. t - 1 : p = t * q + r /\ q = p \div t
    <3>1. p \div t \in Nat /\ p % t \in 0 .. t - 1 /\ p = t * (p \div t) + (p % t)
      BY <1>7
    <3> QED
      BY <3>1
  <2>2. q = 0 => p < t
    BY <2>1
  <2>3. q # 0 => p # 0
    <3> SUFFICES ASSUME q # 0
                 PROVE  p # 0
      OBVIOUS
    <3>1. PICK j \in Nat : q = j + 1
      <4>1. q - 1 \in Nat /\ q = (q - 1) + 1
        OBVIOUS
      <4> QED
        BY <4>1
    <3>2. p = t * j + t + r
      BY <2>1, <3>1
    <3>3. t * j \in Nat
      OBVIOUS
    <3> QED
      BY <1>7, <2>1, <3>2, <3>3
  <2>4. q # 0 <=> m # 0
    BY <1>2, <1>3, <2>2, <2>3
  <2>5. ((m * S) % M) \div t = q
    BY <1>1, <1>5, <2>1
  <2> QED
    BY <1>7, <2>4, <2>5
<1> QED
  BY <1>6, <1>7

LEMMA GateIsExact == AutomotiveInv => GateExact
<1> SUFFICES ASSUME AutomotiveInv, deadlines.total <= RateScale, deadlines.misses * RateScale < RateMod
             PROVE  ComplianceViolations(0, 0, 0) = {} <=> Late = {}
  BY DEF GateExact
<1>1. PICK s, d, w : s = observed /\ d = deadlines /\ w = watchdog
  OBVIOUS
<1>2. DeadlinesTell(d, s) /\ WatchdogTells(w, s)
  BY <1>1 DEF AutomotiveInv
<1>3. PICK m \in Nat, t \in Nat : m = d.misses /\ t = d.total /\ m <= t
  BY <1>2 DEF DeadlinesTell
<1>4. PICK S \in Nat \ {0}, M \in Nat \ {0} : S = RateScale /\ M = RateMod
  BY AutomotiveAssumption
<1>5. IF t = 0 THEN m = 0 ELSE (((m * S) % M) \div t > 0 <=> m # 0)
  BY <1>1, <1>3, <1>4, RateTells
<1>6. PICK q : q = ((m * S) % M) \div t
  OBVIOUS
<1>7. MissRate(d) = IF t = 0 THEN 0 ELSE q
  BY <1>3, <1>4, <1>6 DEF MissRate
<1>8. MissRate(d) > 0 <=> m # 0
  BY <1>5, <1>6, <1>7
<1>9. w.violations \in Nat /\ w.checkpoints \in Nat
  BY <1>2 DEF WatchdogTells
<1>10. ComplianceViolations(0, 0, 0) = {} <=> ~(MissRate(d) > 0) /\ w.violations = 0
  BY <1>1, <1>9 DEF ComplianceViolations
<1>11. (m # 0 <=> Happened(s, "DeadlineMiss")) /\ (w.violations # 0 <=> Happened(s, "WatchdogViolation"))
  BY <1>2, <1>3 DEF DeadlinesTell, WatchdogTells
<1>12. Late = {} <=> ~Happened(s, "DeadlineMiss") /\ ~Happened(s, "WatchdogViolation")
  BY <1>1 DEF Late, Positions, Happened
<1> QED
  BY <1>8, <1>10, <1>11, <1>12

LEMMA OverloadRunsAlone == SupportSpec => AutomotiveSpec
<1>1. SupportInit => AutomotiveInit
  BY DEF SupportInit, OverloadInit
<1>2. [SupportNext]_SupportVars => [AutomotiveNext]_automotiveVars
  <2>1. OverloadNext => [AutomotiveNext]_automotiveVars
    BY DEF OverloadNext, AdapterEvaluate, IsomorphismCheck, ResetAll, AutomotiveNext
  <2> QED
    BY <2>1 DEF SupportNext, SupportVars, Rest, overloadVars
<1> QED
  BY <1>1, <1>2, PTL DEF SupportSpec, AutomotiveSpec

LEMMA AuditKept == SupportSpec => []AuditFaithful
<1>1. AutomotiveInit => AutomotiveInv
  BY AutomotiveFresh DEF AutomotiveInit, AutomotiveInv
<1>2. AutomotiveInv => AuditFaithful
  BY AuditIsComplete, ExtremesAreSeen, GateIsExact DEF AuditFaithful
<1> QED
  BY <1>1, <1>2, OverloadRunsAlone, AutomotiveSteps, PTL DEF AutomotiveSpec

----------------------------------------------------------------------------
(* Sums, and the first of the largest *)

\* Adding up the terms one by one, from a.
SumTo(m, a, term) == CHOOSE g : g = [n \in 0 .. m |-> IF n = 0 THEN a ELSE g[n - 1] + term[n]]

LEMMA SumIs ==
  ASSUME NEW m \in Nat, NEW a \in Nat, NEW term, \A n \in 1 .. m : term[n] \in Nat
  PROVE  /\ SumTo(m, a, term) \in [0 .. m -> Nat] /\ SumTo(m, a, term)[0] = a
         /\ \A n \in 1 .. m : SumTo(m, a, term)[n] = SumTo(m, a, term)[n - 1] + term[n]
<1> DEFINE Step == [p \in (1 .. m) \X Nat |-> p[2] + term[p[1]]]
           Body(g) == [n \in 0 .. m |-> IF n = 0 THEN a ELSE g[n - 1] + term[n]]
<1>1. Step \in Stepping(m, Nat)
  BY DEF Stepping
<1>2. PICK f : Recurs(f, m, Nat, a, Step)
  <2> HIDE DEF Step
  <2> QED
    BY <1>1, RecursionExists
<1>3. f \in [0 .. m -> Nat] /\ f[0] = a /\ \A n \in 1 .. m : f[n] = Step[<<n, f[n - 1]>>]
  BY <1>2 DEF Recurs
<1>4. ASSUME NEW n \in 1 .. m
      PROVE  f[n] = f[n - 1] + term[n]
  <2>1. f[n - 1] \in Nat
    BY <1>3
  <2> QED
    BY <1>3, <2>1
<1>5. f = Body(f)
  <2> HIDE DEF Step
  <2> QED
    BY <1>3, <1>4
<1>6. PICK P : P = Body(P) /\ SumTo(m, a, term) = P
  <2> DEFINE Q == CHOOSE g : g = Body(g)
  <2>1. Q = Body(Q)
    <3> HIDE DEF Body
    <3> QED
      BY <1>5
  <2>2. SumTo(m, a, term) = Q
    BY DEF SumTo
  <2> HIDE DEF Q, Body
  <2> QED
    BY <2>1, <2>2
<1>7. P[0] = a /\ \A n \in 1 .. m : P[n] = P[n - 1] + term[n]
  <2>1. 0 \in 0 .. m /\ \A n \in 1 .. m : n \in 0 .. m /\ n # 0
    OBVIOUS
  <2> QED
    BY <1>6, <2>1
<1> DEFINE Good == {n \in 0 .. m : P[n] \in Nat}
<1>8. 0 .. m \subseteq Good
  <2>1. 0 \in Good
    BY <1>7
  <2>2. ASSUME NEW n \in 1 .. m, n - 1 \in Good
        PROVE  n \in Good
    BY <1>7, <2>2
  <2> HIDE DEF Good
  <2> QED
    BY <2>1, <2>2, InductionUpTo
<1>9. P \in [0 .. m -> Nat]
  <2>1. P = [n \in 0 .. m |-> P[n]]
    BY <1>6
  <2> QED
    BY <1>8, <2>1
<1> QED
  BY <1>6, <1>7, <1>9

\* The first of the largest values from i to m.
FirstLargest(f, i, m, k) ==
  /\ k \in i .. m
  /\ \A j \in i .. m : f[k] >= f[j]
  /\ \A j \in i .. k - 1 : f[j] < f[k]

LEMMA FirstLargestExists ==
  ASSUME NEW m \in Nat, NEW i \in 1 .. m, NEW f, \A j \in 1 .. m : f[j] \in Nat
  PROVE  \E k : FirstLargest(f, i, m, k)
<1> DEFINE Good == {n \in 0 .. m : n < i \/ \E k : FirstLargest(f, i, n, k)}
<1>1. 0 \in Good
  OBVIOUS
<1>2. ASSUME NEW n \in 1 .. m, n - 1 \in Good
      PROVE  n \in Good
  <2>1. CASE n < i
    BY <2>1
  <2>2. CASE n = i
    <3>1. f[n] \in Nat /\ i .. n = {n} /\ i .. n - 1 = {}
      BY <2>2
    <3>2. FirstLargest(f, i, n, n)
      BY <2>2, <3>1 DEF FirstLargest
    <3> QED
      BY <3>2
  <2>3. CASE n > i
    <3>1. PICK k : FirstLargest(f, i, n - 1, k)
      BY <1>2, <2>3
    <3>2. k \in i .. n - 1 /\ f[k] \in Nat /\ f[n] \in Nat
      BY <3>1 DEF FirstLargest
    <3>3. \A j \in i .. n : j \in i .. n - 1 \/ j = n
      OBVIOUS
    <3>4. \A j \in i .. n - 1 : f[j] \in Nat /\ f[k] >= f[j]
      BY <3>1 DEF FirstLargest
    <3>5. CASE f[n] > f[k]
      <4>1. FirstLargest(f, i, n, n)
        BY <2>3, <3>2, <3>3, <3>4, <3>5 DEF FirstLargest
      <4> QED
        BY <4>1
    <3>6. CASE ~(f[n] > f[k])
      <4>1. f[k] >= f[n]
        BY <3>2, <3>6
      <4>2. FirstLargest(f, i, n, k)
        BY <3>1, <3>2, <3>3, <3>4, <4>1 DEF FirstLargest
      <4> QED
        BY <4>2
    <3> QED
      BY <3>5, <3>6
  <2> QED
    BY <2>1, <2>2, <2>3
<1>3. 0 .. m \subseteq Good
  <2> HIDE DEF Good
  <2> QED
    BY <1>1, <1>2, InductionUpTo
<1>4. m \in Good
  BY <1>3
<1> QED
  BY <1>4

----------------------------------------------------------------------------
(* Regression: what is counted *)

LEMMA SubsystemFacts == Len(SubsystemNames) = 7 /\ Subsystems = 1 .. 7
BY DEF Subsystems, SubsystemNames

LEMMA AddedIsNat ==
  ASSUME NEW t \in Seq(Nat)
  PROVE  Added(t) \in Nat
<1>1. PICK m \in Nat : m = Len(t)
  OBVIOUS
<1>2. \A n \in 1 .. m : t[n] \in Nat
  BY <1>1
<1>3. Added(t) = SumTo(m, 0, t)[m]
  BY <1>1 DEF Added, SumTo
<1>4. SumTo(m, 0, t) \in [0 .. m -> Nat]
  BY <1>2, SumIs
<1> QED
  BY <1>3, <1>4

Event == [kind : Nat, aux : Nat]
RegressionInv == traced \in Seq(Event) /\ baseline \in Seq(Event)

\* What a snapshot holds of a subsystem.
Counts(a) == \A s \in Subsystems : a.count[s] \in Nat /\ a.aux[s] \in Nat

LEMMA SnapshotCounts ==
  ASSUME NEW run \in Seq(Event)
  PROVE  Counts(Snapshot(run)) /\ Snapshot(run).digest = run
<1> DEFINE a == Snapshot(run)
<1>1. ASSUME NEW s \in Subsystems
      PROVE  a.count[s] \in Nat /\ a.aux[s] \in Nat
  <2> DEFINE N == {n \in DOMAIN run : SubsystemOf(run[n].kind) = s}
             t == [n \in DOMAIN run |-> IF SubsystemOf(run[n].kind) = s THEN run[n].aux ELSE 0]
  <2>1. IsFiniteSet(1 .. Len(run)) /\ DOMAIN run = 1 .. Len(run) /\ Len(run) \in Nat
    BY FS_Interval
  <2>2. N \subseteq 1 .. Len(run)
    BY <2>1
  <2>3. Cardinality(N) \in Nat
    <3> HIDE DEF N
    <3> QED
      BY <2>1, <2>2, FS_Subset, FS_CardinalityType
  <2>4. ASSUME NEW n \in 1 .. Len(run)
        PROVE  t[n] \in Nat
    <3>1. n \in DOMAIN run /\ run[n] \in Event
      BY <2>1
    <3>2. run[n].aux \in Nat
      BY <3>1 DEF Event
    <3>3. t[n] = IF SubsystemOf(run[n].kind) = s THEN run[n].aux ELSE 0
      BY <3>1, Zenon
    <3> HIDE DEF t
    <3> QED
      BY <3>2, <3>3
  <2>5. t = [n \in 1 .. Len(run) |-> t[n]]
    BY <2>1
  <2>6. t \in Seq(Nat)
    <3> HIDE DEF t
    <3> QED
      BY <2>1, <2>4, <2>5
  <2>7. Added(t) \in Nat
    <3> HIDE DEF t
    <3> QED
      BY <2>6, AddedIsNat
  <2>8. a.count[s] = Cardinality(N) /\ a.aux[s] = Added(t)
    BY Zenon DEF Snapshot
  <2> HIDE DEF a, N, t
  <2> QED
    BY <2>3, <2>7, <2>8
<1>2. a.digest = run
  BY DEF Snapshot
<1> QED
  BY <1>1, <1>2 DEF Counts

----------------------------------------------------------------------------
(* Regression: the ranking keeps the suspects and puts the most blamed in front *)

\* The ids that a list of suspects names.
Ids(q) == {q[k].id : k \in DOMAIN q}

\* q with two of its places exchanged.
Swapped(q, i, j) == [q EXCEPT ![i] = q[j], ![j] = q[i]]

\* Lists of the same length that name the same ids, out of the entries E.
Arranged(E, m, D) == {q \in [1 .. m -> E] : Ids(q) = D}

LEMMA SwapArranges ==
  ASSUME NEW m \in Nat, NEW E, NEW D, NEW q \in Arranged(E, m, D), NEW i \in 1 .. m, NEW j \in 1 .. m
  PROVE  /\ Swapped(q, i, j) \in Arranged(E, m, D)
         /\ Swapped(q, i, j)[i] = q[j] /\ Swapped(q, i, j)[j] = q[i]
         /\ \A k \in 1 .. m : k # i /\ k # j => Swapped(q, i, j)[k] = q[k]
<1> DEFINE r == Swapped(q, i, j)
<1>1. q \in [1 .. m -> E] /\ DOMAIN q = 1 .. m /\ Ids(q) = D
  BY DEF Arranged
<1>2. r \in [1 .. m -> E] /\ DOMAIN r = 1 .. m
  BY <1>1 DEF Swapped
<1>3. r[i] = q[j] /\ r[j] = q[i] /\ \A k \in 1 .. m : k # i /\ k # j => r[k] = q[k]
  BY <1>1 DEF Swapped
<1>4. \A k \in 1 .. m : \E l \in 1 .. m : r[k] = q[l]
  BY <1>3
<1>5. \A l \in 1 .. m : \E k \in 1 .. m : r[k] = q[l]
  <2>1. ASSUME NEW l \in 1 .. m
        PROVE  \E k \in 1 .. m : r[k] = q[l]
    <3>1. CASE l = i
      BY <1>3, <3>1
    <3>2. CASE l = j
      BY <1>3, <3>2
    <3>3. CASE l # i /\ l # j
      BY <1>3, <3>3
    <3> QED
      BY <3>1, <3>2, <3>3
  <2> QED
    BY <2>1
<1>6. Ids(r) = D
  <2> HIDE DEF r
  <2>1. Ids(r) = {r[k].id : k \in 1 .. m} /\ Ids(q) = {q[k].id : k \in 1 .. m}
    BY <1>1, <1>2 DEF Ids
  <2>2. \A k \in 1 .. m : \E l \in 1 .. m : r[k].id = q[l].id
    BY <1>4
  <2>3. \A l \in 1 .. m : \E k \in 1 .. m : r[k].id = q[l].id
    BY <1>5
  <2>4. ASSUME NEW x \in Ids(r)
        PROVE  x \in Ids(q)
    <3>1. PICK k \in 1 .. m : x = r[k].id
      BY <2>1
    <3> QED
      BY <2>1, <2>2, <3>1
  <2>5. ASSUME NEW x \in Ids(q)
        PROVE  x \in Ids(r)
    <3>1. PICK l \in 1 .. m : x = q[l].id
      BY <2>1
    <3> QED
      BY <2>1, <2>3, <3>1
  <2>6. Ids(r) = Ids(q)
    BY <2>1, <2>4, <2>5, Zenon DEF Ids
  <2> QED
    BY <1>1, <2>6
<1> QED
  BY <1>2, <1>3, <1>6 DEF Arranged

LEMMA SelectedSwaps ==
  ASSUME NEW m \in Nat, NEW E, \A e \in E : e.blame \in Nat, NEW q \in [1 .. m -> E], Len(q) = m,
         NEW n \in 1 .. m
  PROVE  \E k : /\ FirstLargest([j \in 1 .. m |-> q[j].blame], n, m, k)
                /\ Selected(q, n) = Swapped(q, n, k)
<1> DEFINE f == [j \in 1 .. m |-> q[j].blame]
           Foremost(k) == /\ k \in n .. m
                          /\ \A j \in n .. m : q[k].blame >= q[j].blame
                          /\ \A j \in n .. k - 1 : q[j].blame < q[k].blame
           best == CHOOSE k \in n .. m : /\ \A j \in n .. m : q[k].blame >= q[j].blame
                                         /\ \A j \in n .. k - 1 : q[j].blame < q[k].blame
<1>1. \A j \in 1 .. m : f[j] = q[j].blame /\ f[j] \in Nat
  OBVIOUS
<1>2. \A k : Foremost(k) <=> FirstLargest(f, n, m, k)
  <2>1. ASSUME NEW k
        PROVE  Foremost(k) <=> FirstLargest(f, n, m, k)
    <3>1. CASE k \in n .. m
      <4>1. k \in 1 .. m /\ n .. m \subseteq 1 .. m /\ n .. k - 1 \subseteq 1 .. m
        BY <3>1
      <4>2. f[k] = q[k].blame
        BY <1>1, <4>1
      <4>3. (\A j \in n .. m : q[k].blame >= q[j].blame) <=> (\A j \in n .. m : f[k] >= f[j])
        <5> HIDE DEF f
        <5> QED
          BY <1>1, <4>1, <4>2
      <4>4. (\A j \in n .. k - 1 : q[j].blame < q[k].blame) <=> (\A j \in n .. k - 1 : f[j] < f[k])
        <5> HIDE DEF f
        <5> QED
          BY <1>1, <4>1, <4>2
      <4> HIDE DEF f
      <4> QED
        BY <4>3, <4>4 DEF FirstLargest
    <3>2. CASE k \notin n .. m
      BY <3>2, Zenon DEF FirstLargest
    <3> QED
      BY <3>1, <3>2
  <2> QED
    BY <2>1
<1>3. \E k : Foremost(k)
  <2> HIDE DEF f
  <2>1. \E k : FirstLargest(f, n, m, k)
    BY <1>1, FirstLargestExists
  <2> HIDE DEF Foremost
  <2> QED
    BY <1>2, <2>1
<1>4. Foremost(best)
  BY <1>3, Zenon
<1>5. Selected(q, n) = Swapped(q, n, best)
  BY Zenon DEF Selected, Swapped
<1>6. FirstLargest(f, n, m, best)
  <2> HIDE DEF f, Foremost, best
  <2> QED
    BY <1>2, <1>4
<1> HIDE DEF best
<1> QED
  BY <1>5, <1>6, Zenon

LEMMA LenIs ==
  ASSUME NEW m \in Nat, NEW E, NEW q \in [1 .. m -> E]
  PROVE  q \in Seq(E) /\ Len(q) = m /\ DOMAIN q = 1 .. m
OBVIOUS

LEMMA RankingArranges ==
  ASSUME NEW m \in Nat, NEW E, \A e \in E : e.blame \in Nat, NEW D, NEW q \in Arranged(E, m, D)
  PROVE  /\ Ranked(q) \in Arranged(E, m, D)
         /\ \A k \in 1 .. m : Ranked(q)[1].blame >= Ranked(q)[k].blame
<1> DEFINE S == Arranged(E, m, D)
           Step == [p \in (1 .. m) \X S |-> Selected(p[2], p[1])]
           Body(g) == [n \in 0 .. m |-> IF n = 0 THEN q ELSE Selected(g[n - 1], n)]
           TopsAll(r) == \A k \in 1 .. m : r[1].blame >= r[k].blame
<1>1. ASSUME NEW r \in S
      PROVE  r \in [1 .. m -> E] /\ Len(r) = m
  <2>1. r \in [1 .. m -> E]
    BY DEF Arranged
  <2> QED
    BY <2>1, LenIs
<1>2. ASSUME NEW r \in S, NEW n \in 1 .. m
      PROVE  Selected(r, n) \in S /\ (n = 1 \/ TopsAll(r) => TopsAll(Selected(r, n)))
  <2> DEFINE f == [j \in 1 .. m |-> r[j].blame]
  <2>1. r \in [1 .. m -> E] /\ Len(r) = m
    BY <1>1
  <2>2. PICK k : FirstLargest(f, n, m, k) /\ Selected(r, n) = Swapped(r, n, k)
    <3> HIDE DEF TopsAll, S
    <3> QED
      BY <2>1, SelectedSwaps
  <2>3. k \in n .. m /\ k \in 1 .. m /\ \A j \in n .. m : f[k] >= f[j]
    <3> HIDE DEF f
    <3> QED
      BY <2>2 DEF FirstLargest
  <2>4. \A j \in 1 .. m : f[j] = r[j].blame /\ f[j] \in Nat
    BY <2>1
  <2>5. PICK s : s = Selected(r, n)
    OBVIOUS
  <2> HIDE DEF f, S
  <2>6. /\ s \in S /\ s[n] = r[k] /\ s[k] = r[n]
        /\ \A l \in 1 .. m : l # n /\ l # k => s[l] = r[l]
    <3>1. s = Swapped(r, n, k)
      BY <2>2, <2>5
    <3>2. r \in Arranged(E, m, D)
      BY <1>2 DEF S
    <3>3. /\ Swapped(r, n, k) \in Arranged(E, m, D)
          /\ Swapped(r, n, k)[n] = r[k] /\ Swapped(r, n, k)[k] = r[n]
          /\ \A l \in 1 .. m : l # n /\ l # k => Swapped(r, n, k)[l] = r[l]
      BY <2>3, <3>2, SwapArranges
    <3> QED
      BY <3>1, <3>3, Zenon DEF S
  <2>7. ASSUME n = 1 \/ TopsAll(r)
        PROVE  TopsAll(s)
    <3>0. \A j \in 1 .. m : r[j].blame \in Nat
      BY <2>4
    <3>1. CASE n = 1
      <4>1. \A j \in 1 .. m : f[k] >= f[j]
        BY <2>3, <3>1
      <4>2. s[1].blame = f[k]
        BY <2>3, <2>4, <2>6, <3>1
      <4>3. ASSUME NEW l \in 1 .. m
            PROVE  \E j \in 1 .. m : s[l].blame = f[j]
        <5>1. CASE l = n
          BY <2>3, <2>4, <2>6, <5>1
        <5>2. CASE l = k
          BY <2>4, <2>6, <5>2
        <5>3. CASE l # n /\ l # k
          BY <2>4, <2>6, <5>3
        <5> QED
          BY <5>1, <5>2, <5>3
      <4> QED
        BY <4>1, <4>2, <4>3
    <3>2. CASE n # 1
      <4>1. 1 \in 1 .. m /\ 1 # n /\ 1 # k
        BY <2>3, <3>2
      <4>2. s[1] = r[1]
        BY <2>6, <4>1
      <4>3. TopsAll(r)
        BY <2>7, <3>2
      <4>4. ASSUME NEW l \in 1 .. m
            PROVE  \E j \in 1 .. m : s[l].blame = r[j].blame
        <5>1. CASE l = n
          BY <2>3, <2>6, <5>1
        <5>2. CASE l = k
          BY <2>6, <5>2
        <5>3. CASE l # n /\ l # k
          BY <2>6, <5>3
        <5> QED
          BY <5>1, <5>2, <5>3
      <4> QED
        BY <4>2, <4>3, <4>4
    <3> QED
      BY <3>1, <3>2
  <2> HIDE DEF TopsAll
  <2> QED
    BY <2>5, <2>6, <2>7
<1>3. Len(q) = m /\ q \in S
  BY <1>1
<1> HIDE DEF S, TopsAll
<1>4. Step \in Stepping(m, S)
  BY <1>2 DEF Stepping
<1>5. PICK f : Recurs(f, m, S, q, Step)
  <2> HIDE DEF Step
  <2> QED
    BY <1>3, <1>4, RecursionExists
<1>6. f \in [0 .. m -> S] /\ f[0] = q /\ \A n \in 1 .. m : f[n] = Step[<<n, f[n - 1]>>]
  BY <1>5 DEF Recurs
<1>7. ASSUME NEW n \in 1 .. m
      PROVE  f[n] = Selected(f[n - 1], n)
  <2>1. f[n - 1] \in S
    BY <1>6
  <2> QED
    BY <1>6, <2>1
<1>8. f = Body(f)
  <2> HIDE DEF Step
  <2> QED
    BY <1>6, <1>7
<1>9. PICK P : P = Body(P) /\ Ranked(q) = P[m]
  <2> DEFINE Q == CHOOSE g : g = Body(g)
  <2>1. Q = Body(Q)
    <3> HIDE DEF Body
    <3> QED
      BY <1>8
  <2>2. Ranked(q) = Q[m]
    BY <1>3 DEF Ranked
  <2> HIDE DEF Q, Body
  <2> QED
    BY <2>1, <2>2
<1>10. P[0] = q /\ \A n \in 1 .. m : P[n] = Selected(P[n - 1], n)
  <2>1. 0 \in 0 .. m /\ \A n \in 1 .. m : n \in 0 .. m /\ n # 0
    OBVIOUS
  <2> QED
    BY <1>9, <2>1
<1> DEFINE Good == {n \in 0 .. m : P[n] \in S /\ (n = 0 \/ TopsAll(P[n]))}
<1>11. 0 .. m \subseteq Good
  <2>1. 0 \in Good
    BY <1>3, <1>10
  <2>2. ASSUME NEW n \in 1 .. m, n - 1 \in Good
        PROVE  n \in Good
    <3>1. P[n - 1] \in S /\ (n = 1 \/ TopsAll(P[n - 1])) /\ P[n] = Selected(P[n - 1], n)
      BY <1>10, <2>2
    <3>2. P[n] \in S /\ TopsAll(P[n])
      BY <1>2, <3>1
    <3> QED
      BY <3>2
  <2> HIDE DEF Good
  <2> QED
    BY <2>1, <2>2, InductionUpTo
<1>12. m \in Good
  BY <1>11
<1>13. CASE m = 0
  BY <1>9, <1>12, <1>13 DEF S
<1>14. CASE m # 0
  <2>1. Ranked(q) \in S /\ TopsAll(Ranked(q))
    BY <1>9, <1>12, <1>14
  <2> QED
    BY <2>1 DEF S, TopsAll
<1> QED
  BY <1>13, <1>14

----------------------------------------------------------------------------
(* Regression: the suspects *)

LEMMA DeltaFacts ==
  ASSUME NEW a, NEW b, Counts(a), Counts(b)
  PROVE  /\ \A s \in Subsystems : Magnitude(CountDelta(a, b, s)) \in Nat
         /\ TotalDelta(a, b) \in Nat
<1>1. ASSUME NEW s \in Subsystems
      PROVE  Magnitude(CountDelta(a, b, s)) \in Nat
  <2>1. a.count[s] \in Nat /\ b.count[s] \in Nat
    BY DEF Counts
  <2> QED
    BY <2>1 DEF CountDelta, Magnitude
<1> DEFINE t == [s \in Subsystems |-> Magnitude(CountDelta(a, b, s))]
<1>2. t \in [1 .. 7 -> Nat]
  BY <1>1, SubsystemFacts
<1>3. TotalDelta(a, b) = Added(t)
  BY Zenon DEF TotalDelta
<1> HIDE DEF t
<1>4. t \in Seq(Nat)
  <2>1. PICK n \in Nat : n = 7
    OBVIOUS
  <2>2. t \in [1 .. n -> Nat]
    BY <1>2, <2>1
  <2> QED
    BY <2>2, LenIs
<1> QED
  BY <1>1, <1>3, <1>4, AddedIsNat

\* The larger change has the larger share, as long as a percent is a whole event.
LEMMA SharesOrder ==
  ASSUME NEW x \in Nat, NEW y \in Nat, x < y, NEW d \in 1 .. 100
  PROVE  (x * 100) \div d < (y * 100) \div d
<1>1. PICK p \in Nat : p = (x * 100) \div d
  OBVIOUS
<1>2. PICK q \in Nat : q = (y * 100) \div d
  OBVIOUS
<1>3. PICK u \in 0 .. d - 1 : x * 100 = d * p + u
  BY <1>1
<1>4. PICK v \in 0 .. d - 1 : y * 100 = d * q + v
  BY <1>2
<1>5. x * 100 + 100 <= y * 100
  OBVIOUS
<1>6. d * p + d <= d * q + v
  BY <1>3, <1>4, <1>5
<1>7. d * p < d * q
  BY <1>4, <1>6
<1>8. p < q
  BY <1>7
<1> QED
  BY <1>1, <1>2, <1>8

LEMMA BlameOrders ==
  ASSUME NEW a, NEW b, Counts(a), Counts(b)
  PROVE  /\ \A s \in Subsystems : Blame(a, b, s) \in Nat
         /\ TotalDelta(a, b) <= 100 =>
              \A s, r \in Subsystems : Blame(a, b, s) <= Blame(a, b, r) =>
                Magnitude(CountDelta(a, b, s)) <= Magnitude(CountDelta(a, b, r))
<1>1. PICK t \in Nat : t = TotalDelta(a, b)
  BY DeltaFacts
<1>2. PICK d \in Nat \ {0} : d = IF t > 0 THEN t ELSE 1
  BY <1>1
<1>3. \A s \in Subsystems : Magnitude(CountDelta(a, b, s)) \in Nat
  BY DeltaFacts
<1>4. ASSUME NEW s \in Subsystems
      PROVE  Blame(a, b, s) = (Magnitude(CountDelta(a, b, s)) * 100) \div d
  BY <1>1, <1>2, Zenon DEF Blame
<1>5. ASSUME NEW s \in Subsystems
      PROVE  Blame(a, b, s) \in Nat
  <2>1. PICK x \in Nat : x = Magnitude(CountDelta(a, b, s))
    BY <1>3
  <2>2. (x * 100) \div d \in Nat
    BY <1>2
  <2> QED
    BY <1>4, <2>1, <2>2
<1>6. ASSUME t <= 100, NEW s \in Subsystems, NEW r \in Subsystems, Blame(a, b, s) <= Blame(a, b, r)
      PROVE  Magnitude(CountDelta(a, b, s)) <= Magnitude(CountDelta(a, b, r))
  <2>1. PICK x \in Nat : x = Magnitude(CountDelta(a, b, s))
    BY <1>3
  <2>2. PICK y \in Nat : y = Magnitude(CountDelta(a, b, r))
    BY <1>3
  <2>3. d \in 1 .. 100
    BY <1>2, <1>6
  <2>4. PICK p \in Nat : p = Blame(a, b, s)
    BY <1>5
  <2>5. PICK q \in Nat : q = Blame(a, b, r)
    BY <1>5
  <2>6. p = (x * 100) \div d /\ q = (y * 100) \div d
    BY <1>4, <2>1, <2>2, <2>4, <2>5, Zenon
  <2>7. y < x => q < p
    BY <2>3, <2>6, SharesOrder
  <2>8. p <= q
    BY <1>6, <2>4, <2>5
  <2> QED
    BY <2>1, <2>2, <2>7, <2>8
<1> QED
  BY <1>1, <1>5, <1>6

Suspect(a, b, s) == [id |-> s, blame |-> Blame(a, b, s)]
Blamed(a, b) == {Suspect(a, b, s) : s \in Subsystems}

LEMMA EntryFacts ==
  ASSUME NEW a, NEW b, Counts(a), Counts(b), NEW e \in Blamed(a, b)
  PROVE  e.id \in Subsystems /\ e.blame = Blame(a, b, e.id) /\ e.blame \in Nat
<1>1. PICK s \in Subsystems : e = Suspect(a, b, s)
  BY DEF Blamed
<1>2. e.id = s /\ e.blame = Blame(a, b, s)
  BY <1>1 DEF Suspect
<1> QED
  BY <1>2, BlameOrders

\* What the list of suspects names when it is not cut.
LEMMA SuspectsAreChanged ==
  ASSUME NEW a, NEW b, Counts(a), Counts(b), Cardinality(Changed(a, b)) <= MaxSuspects
  PROVE  \E m \in Nat : m = Cardinality(Changed(a, b))
                        /\ Suspects(a, b) \in Arranged(Blamed(a, b), m, Changed(a, b))
<1>0. PICK C : C = Changed(a, b)
  OBVIOUS
<1>a. PICK top \in Nat : top = Len(SubsystemNames) /\ Subsystems = 1 .. top
  BY SubsystemFacts
<1> DEFINE S == Seq(Blamed(a, b))
           Step == [p \in (1 .. top) \X S |->
                      IF p[1] \in C /\ Len(p[2]) < MaxSuspects
                      THEN Append(p[2], [id |-> p[1], blame |-> Blame(a, b, p[1])]) ELSE p[2]]
           Body(g) == [s \in 0 .. top |->
                         IF s = 0 THEN <<>>
                         ELSE IF s \in Changed(a, b) /\ Len(g[s - 1]) < MaxSuspects
                              THEN Append(g[s - 1], [id |-> s, blame |-> Blame(a, b, s)])
                              ELSE g[s - 1]]
           CutTo(n) == {s \in C : s <= n}
<1>1. PICK M \in Nat : M = MaxSuspects
  BY RegressionAssumption
<1>2. \A s \in C : s \in 1 .. top
  BY <1>0, <1>a DEF Changed
<1>3. IsFiniteSet(C) /\ Cardinality(C) \in Nat
  <2>1. IsFiniteSet(1 .. top)
    BY FS_Interval
  <2>2. C \in SUBSET (1 .. top)
    BY <1>2
  <2> QED
    BY <2>1, <2>2, FS_Subset, FS_CardinalityType
<1>4. ASSUME NEW n \in 0 .. top
      PROVE  IsFiniteSet(CutTo(n)) /\ Cardinality(CutTo(n)) \in Nat
             /\ Cardinality(CutTo(n)) <= Cardinality(C) /\ CutTo(n) \subseteq C
  <2>1. CutTo(n) \subseteq C
    OBVIOUS
  <2> HIDE DEF CutTo
  <2> QED
    BY <1>3, <2>1, FS_Subset, FS_CardinalityType
<1>5. ASSUME NEW n \in 1 .. top, NEW q \in S
      PROVE  Append(q, [id |-> n, blame |-> Blame(a, b, n)]) \in S
             /\ Step[<<n, q>>] = IF n \in C /\ Len(q) < MaxSuspects
                                 THEN Append(q, [id |-> n, blame |-> Blame(a, b, n)]) ELSE q
  <2>1. PICK e : e = [id |-> n, blame |-> Blame(a, b, n)]
    OBVIOUS
  <2>2. e \in Blamed(a, b)
    BY <1>a, <2>1 DEF Blamed, Suspect
  <2>3. Append(q, e) \in S
    BY <2>2
  <2>4. <<n, q>> \in (1 .. top) \X S /\ <<n, q>>[1] = n /\ <<n, q>>[2] = q
    OBVIOUS
  <2> HIDE DEF S
  <2>5. Step[<<n, q>>] = IF n \in C /\ Len(q) < MaxSuspects
                         THEN Append(q, [id |-> n, blame |-> Blame(a, b, n)]) ELSE q
    BY <2>4, Zenon
  <2> QED
    BY <2>1, <2>3, <2>5, Zenon
<1>6. <<>> \in S
  OBVIOUS
<1>7. Step \in Stepping(top, S)
  <2>1. ASSUME NEW p \in (1 .. top) \X S
        PROVE  Step[p] \in S
    <3> HIDE DEF Step, S
    <3>1. PICK n \in 1 .. top, q \in S : p = <<n, q>>
      BY <2>1
    <3>2. Step[<<n, q>>] \in S
      <4>1. CASE n \in C /\ Len(q) < MaxSuspects
        BY <1>5, <4>1, Zenon
      <4>2. CASE ~(n \in C /\ Len(q) < MaxSuspects)
        BY <1>5, <4>2, Zenon
      <4> QED
        BY <4>1, <4>2
    <3> QED
      BY <3>1, <3>2
  <2>2. Step = [p \in (1 .. top) \X S |-> Step[p]]
    BY Zenon
  <2> HIDE DEF Step, S
  <2> QED
    BY <2>1, <2>2, Zenon DEF Stepping
<1>8. PICK f : Recurs(f, top, S, <<>>, Step)
  <2> HIDE DEF Step, S
  <2> QED
    BY <1>6, <1>7, RecursionExists
<1> HIDE DEF S
<1>9. f \in [0 .. top -> S] /\ f[0] = <<>> /\ \A n \in 1 .. top : f[n] = Step[<<n, f[n - 1]>>]
  <2> HIDE DEF Step
  <2> QED
    BY <1>8 DEF Recurs
<1>10. ASSUME NEW n \in 1 .. top
       PROVE  f[n] = IF n \in C /\ Len(f[n - 1]) < MaxSuspects
                     THEN Append(f[n - 1], [id |-> n, blame |-> Blame(a, b, n)]) ELSE f[n - 1]
  <2> HIDE DEF Step
  <2>1. f[n - 1] \in S
    BY <1>9
  <2> QED
    BY <1>5, <1>9, <2>1
<1>11. f = Body(f)
  <2>1. f = [n \in 0 .. top |-> f[n]]
    BY <1>9
  <2>2. ASSUME NEW n \in 0 .. top
        PROVE  f[n] = IF n = 0 THEN <<>>
                      ELSE IF n \in Changed(a, b) /\ Len(f[n - 1]) < MaxSuspects
                           THEN Append(f[n - 1], [id |-> n, blame |-> Blame(a, b, n)])
                           ELSE f[n - 1]
    <3>1. CASE n = 0
      BY <1>9, <3>1, Zenon
    <3>2. CASE n # 0
      <4>1. n \in 1 .. top
        BY <3>2
      <4> QED
        BY <1>0, <1>10, <3>2, <4>1, Zenon
    <3> QED
      BY <3>1, <3>2, Zenon
  <2> QED
    BY <2>1, <2>2, Zenon
<1>12. PICK P : P = Body(P) /\ Suspects(a, b) = P[top]
  <2> DEFINE Q == CHOOSE g : g = Body(g)
  <2>1. Q = Body(Q)
    <3> HIDE DEF Body
    <3> QED
      BY <1>11
  <2>2. Suspects(a, b) = Q[top]
    BY <1>a, Zenon DEF Suspects
  <2> HIDE DEF Q, Body
  <2> QED
    BY <2>1, <2>2
<1>13. ASSUME NEW n \in 1 .. top
       PROVE  P[n] = IF n \in C /\ Len(P[n - 1]) < MaxSuspects
                     THEN Append(P[n - 1], [id |-> n, blame |-> Blame(a, b, n)]) ELSE P[n - 1]
  <2>1. n \in 0 .. top /\ n # 0
    OBVIOUS
  <2>2. Body(P)[n] = IF n \in Changed(a, b) /\ Len(P[n - 1]) < MaxSuspects
                     THEN Append(P[n - 1], [id |-> n, blame |-> Blame(a, b, n)]) ELSE P[n - 1]
    BY <2>1, Zenon
  <2> HIDE DEF Body
  <2> QED
    BY <1>0, <1>12, <2>2, Zenon
<1>14. P[0] = <<>>
  <2>1. 0 \in 0 .. top
    OBVIOUS
  <2>2. Body(P)[0] = <<>>
    BY <2>1, Zenon
  <2> HIDE DEF Body
  <2> QED
    BY <1>12, <2>2, Zenon
<1> HIDE DEF Body, Step, CutTo
<1> DEFINE ListsTo(n, q) == q \in S /\ Len(q) = Cardinality(CutTo(n)) /\ Ids(q) = CutTo(n)
           Good == {n \in 0 .. top : ListsTo(n, P[n])}
<1>15. 0 .. top \subseteq Good
  <2>1. 0 \in Good
    <3>1. CutTo(0) = {}
      BY <1>2 DEF CutTo
    <3>2. Cardinality(CutTo(0)) = 0
      BY <3>1, FS_EmptySet
    <3>3. Ids(<<>>) = {} /\ Len(<<>>) = 0
      BY DEF Ids
    <3>4. ListsTo(0, P[0])
      BY <1>6, <1>14, <3>1, <3>2, <3>3, Zenon
    <3>5. 0 \in 0 .. top
      OBVIOUS
    <3> HIDE DEF ListsTo
    <3> QED
      BY <3>4, <3>5
  <2>2. ASSUME NEW n \in 1 .. top, n - 1 \in Good
        PROVE  n \in Good
    <3>1. PICK q : q = P[n - 1]
      OBVIOUS
    <3>2. q \in S /\ Len(q) = Cardinality(CutTo(n - 1)) /\ Ids(q) = CutTo(n - 1) /\ n - 1 \in 0 .. top
      BY <2>2, <3>1
    <3>3. CASE n \notin C
      <4>1. CutTo(n) = CutTo(n - 1)
        BY <1>2, <3>3 DEF CutTo
      <4>2. P[n] = q
        BY <1>13, <3>1, <3>3, Zenon
      <4> QED
        BY <3>2, <4>1, <4>2
    <3>4. CASE n \in C
      <4>0. n \notin CutTo(n - 1) /\ n \in CutTo(n)
        BY <3>4 DEF CutTo
      <4>1. n \notin CutTo(n - 1) /\ CutTo(n) = CutTo(n - 1) \cup {n} /\ n \in CutTo(n)
        <5>1. \A s \in C : s <= n <=> s <= n - 1 \/ s = n
          BY <1>2
        <5>2. CutTo(n) = CutTo(n - 1) \cup {n}
          BY <3>4, <5>1, Zenon DEF CutTo
        <5> QED
          BY <4>0, <5>2
      <4>2. Cardinality(CutTo(n)) = Cardinality(CutTo(n - 1)) + 1
        BY <1>4, <3>2, <4>1, FS_AddElement
      <4>3. Cardinality(CutTo(n)) <= M
        <5>1. n \in 0 .. top
          OBVIOUS
        <5>2. Cardinality(CutTo(n)) <= Cardinality(C) /\ Cardinality(CutTo(n)) \in Nat
          BY <1>4, <5>1
        <5>3. Cardinality(C) <= M
          BY <1>0, <1>1
        <5> QED
          BY <1>3, <5>2, <5>3
      <4>4. Len(q) < MaxSuspects
        BY <1>1, <1>4, <3>2, <4>2, <4>3
      <4>5. PICK e : e = [id |-> n, blame |-> Blame(a, b, n)]
        OBVIOUS
      <4>6. P[n] = Append(q, e)
        BY <1>13, <3>1, <3>4, <4>4, <4>5, Zenon
      <4>7. Append(q, e) \in S
        BY <1>5, <3>2, <4>5
      <4>8. e.id = n
        BY <4>5
      <4>9. Ids(Append(q, e)) = Ids(q) \cup {e.id}
        <5>1. q \in Seq(Blamed(a, b)) /\ Len(q) \in Nat
          BY <3>2 DEF S
        <5>2. /\ DOMAIN Append(q, e) = 1 .. Len(q) + 1 /\ DOMAIN q = 1 .. Len(q)
              /\ \A k \in 1 .. Len(q) : Append(q, e)[k] = q[k]
              /\ Append(q, e)[Len(q) + 1] = e
          BY <5>1
        <5>3. \A k \in 1 .. Len(q) + 1 : k \in 1 .. Len(q) \/ k = Len(q) + 1
          BY <5>1
        <5>4. Len(q) + 1 \in 1 .. Len(q) + 1 /\ 1 .. Len(q) \subseteq 1 .. Len(q) + 1
          BY <5>1
        <5>5. PICK w : w = Append(q, e)
          OBVIOUS
        <5>6. PICK l : l = Len(q) + 1
          OBVIOUS
        <5>7. /\ DOMAIN w = 1 .. l /\ DOMAIN q = 1 .. Len(q)
              /\ \A k \in 1 .. Len(q) : w[k] = q[k]
              /\ w[l] = e
              /\ \A k \in 1 .. l : k \in 1 .. Len(q) \/ k = l
              /\ l \in 1 .. l /\ 1 .. Len(q) \subseteq 1 .. l
          BY <5>2, <5>3, <5>4, <5>5, <5>6, Zenon
        <5>8. ASSUME NEW x \in Ids(w)
              PROVE  x \in Ids(q) \cup {e.id}
          BY <5>7, <5>8, Zenon DEF Ids
        <5>9. ASSUME NEW x \in Ids(q) \cup {e.id}
              PROVE  x \in Ids(w)
          BY <5>7, <5>9, Zenon DEF Ids
        <5> QED
          BY <5>5, <5>8, <5>9, Zenon
      <4>10. Len(Append(q, e)) = Len(q) + 1
        BY <3>2 DEF S
      <4>11. Len(P[n]) = Cardinality(CutTo(n))
        BY <3>2, <4>2, <4>6, <4>10, Zenon
      <4>12. Ids(P[n]) = CutTo(n)
        BY <3>2, <4>1, <4>6, <4>8, <4>9, Zenon
      <4>13. ListsTo(n, P[n])
        BY <4>6, <4>7, <4>11, <4>12, Zenon
      <4>14. n \in 0 .. top
        OBVIOUS
      <4> HIDE DEF ListsTo
      <4> QED
        BY <4>13, <4>14
    <3> QED
      BY <3>3, <3>4
  <2> HIDE DEF Good
  <2> QED
    BY <2>1, <2>2, InductionUpTo
<1>16. PICK q : q = P[top] /\ ListsTo(top, q)
  BY <1>15
<1>17. CutTo(top) = C
  BY <1>2 DEF CutTo
<1>18. q \in S /\ Len(q) = Cardinality(C) /\ Ids(q) = C
  BY <1>16, <1>17
<1>19. q \in [1 .. Cardinality(C) -> Blamed(a, b)]
  BY <1>18 DEF S
<1>20. Suspects(a, b) \in Arranged(Blamed(a, b), Cardinality(C), C)
  BY <1>12, <1>16, <1>18, <1>19 DEF Arranged
<1> QED
  BY <1>0, <1>3, <1>20

LEMMA SameRunUnchanged ==
  ASSUME NEW a, Counts(a)
  PROVE  Changed(a, a) = {}
<1>1. ASSUME NEW s \in Subsystems
      PROVE  CountDelta(a, a, s) = 0 /\ AuxDelta(a, a, s) = 0
  <2>1. a.count[s] \in Nat /\ a.aux[s] \in Nat
    BY DEF Counts
  <2> QED
    BY <2>1 DEF CountDelta, AuxDelta
<1> QED
  BY <1>1 DEF Changed

LEMMA RanksChanges == RegressionInv => ReportRanksChanges
<1> SUFFICES ASSUME RegressionInv
             PROVE  ReportRanksChanges
  OBVIOUS
<1>1. PICK a, b : a = Snapshot(baseline) /\ b = Snapshot(traced)
  OBVIOUS
<1>2. Counts(a) /\ Counts(b) /\ a.digest = baseline /\ b.digest = traced
  BY <1>1, SnapshotCounts DEF RegressionInv
<1>3. PICK list : list = Report.suspects
  OBVIOUS
<1>4. Suspected = Ids(list)
  BY <1>3, Zenon DEF Suspected, Ids
<1> SUFFICES ASSUME Cardinality(Changed(a, b)) <= MaxSuspects
             PROVE  /\ Ids(list) = Changed(a, b) /\ Len(list) = Cardinality(Ids(list))
                    /\ Ids(list) # {} /\ TotalDelta(a, b) <= 100 =>
                         \A s \in Ids(list) : Magnitude(CountDelta(a, b, s))
                                                <= Magnitude(CountDelta(a, b, list[1].id))
  BY <1>1, <1>3, <1>4, Zenon DEF ReportRanksChanges
<1>5. CASE a.digest = b.digest
  <2>1. a = b
    BY <1>1, <1>2, <1>5
  <2>2. Changed(a, b) = {}
    BY <1>2, <2>1, SameRunUnchanged
  <2>3. list = <<>>
    BY <1>1, <1>3, <1>5 DEF Report, Localize
  <2>4. Ids(list) = {} /\ Len(list) = 0
    BY <2>3 DEF Ids
  <2>5. Cardinality({}) = 0
    BY FS_EmptySet
  <2> QED
    BY <2>2, <2>4, <2>5
<1>6. CASE a.digest # b.digest
  <2> DEFINE E == Blamed(a, b)
             D == Changed(a, b)
  <2>1. PICK m \in Nat : m = Cardinality(D) /\ Suspects(a, b) \in Arranged(E, m, D)
    BY <1>2, SuspectsAreChanged
  <2>2. list = Ranked(Suspects(a, b))
    BY <1>1, <1>3, <1>6 DEF Report, Localize
  <2>3. \A e \in E : e.id \in Subsystems /\ e.blame = Blame(a, b, e.id) /\ e.blame \in Nat
    BY <1>2, EntryFacts
  <2>4. list \in Arranged(E, m, D) /\ \A k \in 1 .. m : list[1].blame >= list[k].blame
    <3> HIDE DEF E, D
    <3> QED
      BY <2>1, <2>2, <2>3, RankingArranges
  <2> HIDE DEF E, D
  <2>5. list \in [1 .. m -> E] /\ Ids(list) = D
    BY <2>4 DEF Arranged
  <2>6. Len(list) = m /\ DOMAIN list = 1 .. m
    BY <2>5, LenIs
  <2>7. ASSUME TotalDelta(a, b) <= 100, NEW s \in Ids(list)
        PROVE  Magnitude(CountDelta(a, b, s)) <= Magnitude(CountDelta(a, b, list[1].id))
    <3>1. PICK k \in 1 .. m : s = list[k].id
      BY <2>6, <2>7 DEF Ids
    <3>2. 1 \in 1 .. m
      BY <3>1
    <3>3. list[1] \in E /\ list[k] \in E
      BY <2>5, <3>1, <3>2
    <3>4. PICK r : r = list[1].id
      OBVIOUS
    <3>5. s \in Subsystems /\ r \in Subsystems /\ list[1].blame = Blame(a, b, r) /\ list[k].blame = Blame(a, b, s)
      BY <2>3, <3>1, <3>3, <3>4
    <3>6. Blame(a, b, s) <= Blame(a, b, r)
      <4>1. list[1].blame >= list[k].blame
        BY <2>4, <3>1
      <4>2. list[1].blame \in Nat /\ list[k].blame \in Nat
        BY <2>3, <3>3
      <4> QED
        BY <3>5, <4>1, <4>2
    <3>7. Magnitude(CountDelta(a, b, s)) <= Magnitude(CountDelta(a, b, r))
      BY <1>2, <2>7, <3>5, <3>6, BlameOrders
    <3> QED
      BY <3>4, <3>7
  <2> QED
    BY <2>1, <2>5, <2>6, <2>7 DEF D
<1> QED
  BY <1>5, <1>6

LEMMA RegressionStarts == RegressionInit => RegressionInv
BY DEF RegressionInit, RegressionInv

LEMMA RegressionSteps == RegressionInv /\ [RegressionNext]_regressionVars => RegressionInv'
<1> SUFFICES ASSUME RegressionInv, [RegressionNext]_regressionVars
             PROVE  RegressionInv'
  OBVIOUS
<1>1. ASSUME NEW kind \in TracedKinds, NEW aux \in AuxValues, TraceOne(kind, aux)
      PROVE  RegressionInv'
  <2>1. kind \in Nat /\ aux \in Nat
    BY RegressionAssumption
  <2>2. [kind |-> kind, aux |-> aux] \in Event
    BY <2>1 DEF Event
  <2> QED
    BY <1>1, <2>2 DEF TraceOne, RegressionInv
<1>2. CASE TakeBaseline
  BY <1>2 DEF TakeBaseline, RegressionInv
<1>3. CASE UNCHANGED regressionVars
  BY <1>3 DEF regressionVars, RegressionInv
<1> QED
  BY <1>1, <1>2, <1>3 DEF RegressionNext

LEMMA RegressionRunsAlone == SupportSpec => RegressionSpec
<1>1. SupportInit => RegressionInit
  BY DEF SupportInit
<1>2. [SupportNext]_SupportVars => [RegressionNext]_regressionVars
  BY DEF SupportNext, SupportVars, Rest
<1> QED
  BY <1>1, <1>2, PTL DEF SupportSpec, RegressionSpec

LEMMA ChangesRanked == SupportSpec => []ReportRanksChanges
BY RegressionStarts, RegressionSteps, RanksChanges, RegressionRunsAlone, PTL DEF RegressionSpec

----------------------------------------------------------------------------
(* Latencies: powers of two and bins *)

PowTo(m) == CHOOSE g : g = [n \in 0 .. m |-> IF n = 0 THEN 1 ELSE 2 * g[n - 1]]

LEMMA PowIs ==
  ASSUME NEW m \in Nat
  PROVE  /\ PowTo(m) \in [0 .. m -> Nat] /\ PowTo(m)[0] = 1
         /\ \A n \in 1 .. m : PowTo(m)[n] = 2 * PowTo(m)[n - 1]
<1> DEFINE Step == [p \in (1 .. m) \X Nat |-> 2 * p[2]]
           Body(g) == [n \in 0 .. m |-> IF n = 0 THEN 1 ELSE 2 * g[n - 1]]
<1>1. Step \in Stepping(m, Nat)
  BY DEF Stepping
<1>2. PICK f : Recurs(f, m, Nat, 1, Step)
  <2> HIDE DEF Step
  <2> QED
    BY <1>1, RecursionExists
<1>3. f \in [0 .. m -> Nat] /\ f[0] = 1 /\ \A n \in 1 .. m : f[n] = Step[<<n, f[n - 1]>>]
  BY <1>2 DEF Recurs
<1>4. ASSUME NEW n \in 1 .. m
      PROVE  f[n] = 2 * f[n - 1]
  <2>1. f[n - 1] \in Nat
    BY <1>3
  <2> QED
    BY <1>3, <2>1
<1>5. f = Body(f)
  <2> HIDE DEF Step
  <2> QED
    BY <1>3, <1>4
<1>6. PICK P : P = Body(P) /\ PowTo(m) = P
  <2> DEFINE Q == CHOOSE g : g = Body(g)
  <2>1. Q = Body(Q)
    <3> HIDE DEF Body
    <3> QED
      BY <1>5
  <2>2. PowTo(m) = Q
    BY DEF PowTo
  <2> HIDE DEF Q, Body
  <2> QED
    BY <2>1, <2>2
<1>7. P[0] = 1 /\ \A n \in 1 .. m : P[n] = 2 * P[n - 1]
  <2>1. 0 \in 0 .. m /\ \A n \in 1 .. m : n \in 0 .. m /\ n # 0
    OBVIOUS
  <2> QED
    BY <1>6, <2>1
<1> DEFINE Good == {n \in 0 .. m : P[n] \in Nat}
<1>8. 0 .. m \subseteq Good
  <2>1. 0 \in Good
    BY <1>7
  <2>2. ASSUME NEW n \in 1 .. m, n - 1 \in Good
        PROVE  n \in Good
    BY <1>7, <2>2
  <2> HIDE DEF Good
  <2> QED
    BY <2>1, <2>2, InductionUpTo
<1>9. P \in [0 .. m -> Nat]
  <2>1. P = [n \in 0 .. m |-> P[n]]
    BY <1>6
  <2> QED
    BY <1>8, <2>1
<1> QED
  BY <1>6, <1>7, <1>9

LEMMA Pow2Doubles ==
  /\ Pow2(0) = 1
  /\ \A k \in Nat : Pow2(k) \in Nat /\ Pow2(k + 1) = 2 * Pow2(k)
<1>1. ASSUME NEW k \in Nat
      PROVE  Pow2(k) = PowTo(k)[k] /\ Pow2(k) \in Nat
  <2>1. Pow2(k) = PowTo(k)[k]
    BY DEF Pow2, PowTo
  <2>2. PowTo(k) \in [0 .. k -> Nat] /\ k \in 0 .. k
    BY PowIs
  <2> QED
    BY <2>1, <2>2
<1>2. Pow2(0) = 1
  BY <1>1, PowIs
<1>3. ASSUME NEW k \in Nat
      PROVE  Pow2(k + 1) = 2 * Pow2(k)
  <2>1. PICK P : P = PowTo(k)
    OBVIOUS
  <2>2. PICK Q : Q = PowTo(k + 1)
    OBVIOUS
  <2>3. P[0] = 1 /\ \A n \in 1 .. k : P[n] = 2 * P[n - 1]
    BY <2>1, PowIs
  <2>4. k + 1 \in Nat
    OBVIOUS
  <2>5. Q[0] = 1 /\ \A n \in 1 .. k + 1 : Q[n] = 2 * Q[n - 1]
    BY <2>2, <2>4, PowIs
  <2> DEFINE Good == {n \in 0 .. k : Q[n] = P[n]}
  <2>6. 0 .. k \subseteq Good
    <3>1. 0 \in Good
      BY <2>3, <2>5
    <3>2. ASSUME NEW n \in 1 .. k, n - 1 \in Good
          PROVE  n \in Good
      <4>1. n \in 1 .. k + 1
        OBVIOUS
      <4> QED
        BY <2>3, <2>5, <3>2, <4>1
    <3> HIDE DEF Good
    <3> QED
      BY <3>1, <3>2, InductionUpTo
  <2>7. Q[k] = P[k]
    BY <2>6
  <2>8. Q[k + 1] = 2 * Q[k]
    BY <2>5
  <2> QED
    BY <1>1, <2>1, <2>2, <2>4, <2>7, <2>8
<1> QED
  BY <1>1, <1>2, <1>3

LEMMA Pow2Rises ==
  ASSUME NEW m \in Nat
  PROVE  Pow2(m) >= m + 1 /\ \A k \in 0 .. m : Pow2(k) <= Pow2(m)
<1> DEFINE Good == {n \in 0 .. m : Pow2(n) >= n + 1 /\ \A k \in 0 .. n : Pow2(k) <= Pow2(n)}
<1>1. \A k \in Nat : Pow2(k) \in Nat
  BY Pow2Doubles
<1>2. 0 \in Good
  BY Pow2Doubles
<1>3. ASSUME NEW n \in 1 .. m, n - 1 \in Good
      PROVE  n \in Good
  <2>1. PICK p \in Nat : p = Pow2(n - 1)
    BY <1>1
  <2>2. Pow2(n) = 2 * p
    <3>1. n - 1 \in Nat /\ (n - 1) + 1 = n
      OBVIOUS
    <3> QED
      BY <2>1, <3>1, Pow2Doubles
  <2>3. p >= n /\ \A k \in 0 .. n - 1 : Pow2(k) <= p
    BY <1>3, <2>1
  <2>4. ASSUME NEW k \in 0 .. n
        PROVE  Pow2(k) <= Pow2(n)
    <3>1. CASE k = n
      BY <1>1, <3>1
    <3>2. CASE k # n
      <4>1. k \in 0 .. n - 1 /\ Pow2(k) \in Nat
        BY <1>1, <3>2
      <4> QED
        BY <2>1, <2>2, <2>3, <4>1
    <3> QED
      BY <3>1, <3>2
  <2> QED
    BY <2>1, <2>2, <2>3, <2>4
<1>4. 0 .. m \subseteq Good
  <2> HIDE DEF Good
  <2> QED
    BY <1>2, <1>3, InductionUpTo
<1> QED
  BY <1>4

LEMMA Log2Brackets ==
  ASSUME NEW x \in Nat \ {0}
  PROVE  Log2(x) \in 0 .. x /\ Pow2(Log2(x)) <= x /\ x < Pow2(Log2(x) + 1)
<1> DEFINE K == {k \in 0 .. x : Pow2(k) <= x}
<1>1. 0 \in K
  BY Pow2Doubles
<1>2. PICK k \in K : \A j \in K : j <= k
  <2>1. K \subseteq 0 .. x /\ K # {}
    BY <1>1
  <2> HIDE DEF K
  <2> QED
    BY <2>1, MaxExists
<1>3. k \in 0 .. x /\ Pow2(k) <= x /\ k + 1 \in Nat
  BY <1>2
<1>4. x < Pow2(k + 1)
  <2>1. Pow2(k + 1) \in Nat
    BY <1>3, Pow2Doubles
  <2>2. CASE k = x
    <3>1. Pow2(k + 1) >= (k + 1) + 1
      BY <1>3, Pow2Rises
    <3> QED
      BY <2>1, <2>2, <3>1
  <2>3. CASE k # x
    <3>1. k + 1 \in 0 .. x /\ ~(k + 1 <= k)
      BY <1>3, <2>3
    <3>2. k + 1 \notin K
      BY <1>2, <3>1
    <3> QED
      BY <2>1, <3>1, <3>2
  <2> QED
    BY <2>2, <2>3
<1>5. \E j \in 0 .. x : Pow2(j) <= x /\ x < Pow2(j + 1)
  BY <1>3, <1>4
<1> QED
  BY <1>5, Zenon DEF Log2

LEMMA Pow2Orders ==
  ASSUME NEW i \in Nat, NEW j \in Nat, Pow2(i) <= Pow2(j)
  PROVE  i <= j
<1> SUFFICES ASSUME ~(i <= j)
             PROVE  FALSE
  OBVIOUS
<1>1. j + 1 \in 0 .. i
  OBVIOUS
<1>2. Pow2(j + 1) <= Pow2(i)
  BY <1>1, Pow2Rises
<1>3. Pow2(j + 1) = 2 * Pow2(j) /\ Pow2(j) \in Nat /\ Pow2(i) \in Nat
  BY Pow2Doubles
<1>4. Pow2(j) >= j + 1
  BY Pow2Rises
<1> QED
  BY <1>2, <1>3, <1>4

\* The bin that a latency inside the bins' range is counted in.
BinOf(ns) == Clamped(Log2(ns + 1))

\* A latency lies within its bin's powers of two.
LEMMA BinBounds ==
  ASSUME NEW ns \in Nat, ns < HistMax
  PROVE  /\ BinOf(ns) \in Bins
         /\ \A j \in Nat : ns + 1 <= Pow2(j) => BinOf(ns) <= j
         /\ \A j \in Nat : BinOf(ns) <= j => ns + 1 < 2 * Pow2(j)
<1>1. PICK x \in Nat \ {0} : x = ns + 1
  OBVIOUS
<1>2. PICK b : b = Log2(x)
  OBVIOUS
<1>3. b \in Nat /\ Pow2(b) <= x /\ x < Pow2(b + 1)
  BY <1>2, Log2Brackets
<1>4. PICK B \in Nat \ {0}, M \in {HistMax} : B = HistBins /\ M = HistMax /\ M = Pow2(B - 1)
  BY HftAssumption
<1>5. ASSUME NEW j \in Nat, x <= Pow2(j)
      PROVE  b <= j
  <2>1. Pow2(b) \in Nat /\ Pow2(j) \in Nat
    BY <1>3, Pow2Doubles
  <2>2. Pow2(b) <= Pow2(j)
    BY <1>3, <1>5, <2>1
  <2> QED
    BY <1>3, <2>2, Pow2Orders
<1>6. ASSUME NEW j \in Nat, b <= j
      PROVE  x < 2 * Pow2(j)
  <2>1. b + 1 \in 0 .. j + 1 /\ j + 1 \in Nat
    BY <1>3, <1>6
  <2>2. Pow2(b + 1) <= Pow2(j + 1)
    BY <2>1, Pow2Rises
  <2>3. Pow2(j + 1) = 2 * Pow2(j) /\ Pow2(b + 1) \in Nat /\ Pow2(j) \in Nat
    BY <1>3, Pow2Doubles
  <2> QED
    BY <1>3, <2>2, <2>3
<1>7. b <= B - 1
  <2>1. B - 1 \in Nat /\ x <= M
    <3>1. M \in Nat
      BY <1>4, Pow2Doubles
    <3> QED
      BY <1>1, <1>4, <3>1
  <2> QED
    BY <1>4, <1>5, <2>1
<1>8. BinOf(ns) = b
  BY <1>1, <1>2, <1>3, <1>4, <1>7 DEF BinOf, Clamped
<1>9. b \in Bins
  BY <1>3, <1>4, <1>7 DEF Bins
<1> QED
  BY <1>1, <1>5, <1>6, <1>8, <1>9

\* The samples counted in bin b, and up to it.
InBin(s, b) == {n \in DOMAIN s : s[n] < HistMax /\ BinOf(s[n]) = b}
UpToBin(s, b) == {n \in DOMAIN s : s[n] < HistMax /\ BinOf(s[n]) <= b}

\* The histogram counts each latency in its bin.
CountsEach(h, s) ==
  /\ h.bins \in [Bins -> Nat] /\ h.total = Len(s)
  /\ \A b \in Bins : h.bins[b] = Cardinality(InBin(s, b))
HftInv == latencies \in Seq(Nat) /\ CountsEach(schedHist, latencies)

LEMMA SamplesFinite ==
  ASSUME NEW s \in Seq(Nat), NEW N \in SUBSET DOMAIN s
  PROVE  IsFiniteSet(N) /\ Cardinality(N) \in Nat
<1>1. DOMAIN s = 1 .. Len(s) /\ Len(s) \in Nat
  OBVIOUS
<1>2. IsFiniteSet(1 .. Len(s))
  BY <1>1, FS_Interval
<1> QED
  BY <1>1, <1>2, FS_Subset, FS_CardinalityType

LEMMA CumulativeCounts ==
  ASSUME NEW h, NEW s \in Seq(Nat), CountsEach(h, s), NEW b \in Bins
  PROVE  Cumulative(h, b) = Cardinality(UpToBin(s, b))
<1>1. PICK B \in Nat \ {0} : B = HistBins
  BY HftAssumption
<1>2. Bins = 0 .. B - 1 /\ b \in Nat
  BY <1>1 DEF Bins
<1>3. PICK t : t = h.bins
  OBVIOUS
<1>4. t \in [Bins -> Nat] /\ \A k \in Bins : t[k] = Cardinality(InBin(s, k))
  BY <1>3 DEF CountsEach
<1>5. \A k \in 0 .. b : k \in Bins
  BY <1>1, <1>2
<1>6. PICK P : P = SumTo(b, t[0], t)
  OBVIOUS
<1>7. P[0] = t[0] /\ \A k \in 1 .. b : P[k] = P[k - 1] + t[k]
  <2>1. t[0] \in Nat /\ \A k \in 1 .. b : t[k] \in Nat
    BY <1>2, <1>4, <1>5
  <2>2. PICK a \in Nat : a = t[0]
    BY <2>1
  <2>3. /\ SumTo(b, a, t)[0] = a
        /\ \A k \in 1 .. b : SumTo(b, a, t)[k] = SumTo(b, a, t)[k - 1] + t[k]
    BY <1>2, <2>1, SumIs
  <2> QED
    BY <1>6, <2>2, <2>3, Zenon
<1>8. Cumulative(h, b) = P[b]
  BY <1>3, <1>6 DEF Cumulative, SumTo
<1>9. \A n \in DOMAIN s : s[n] \in Nat
  OBVIOUS
<1>10. \A n \in DOMAIN s : s[n] < HistMax => BinOf(s[n]) \in 0 .. B - 1
  BY <1>2, <1>9, BinBounds
<1> DEFINE Good == {k \in 0 .. b : P[k] = Cardinality(UpToBin(s, k))}
<1>11. 0 .. b \subseteq Good
  <2>1. 0 \in Good
    <3>1. UpToBin(s, 0) = InBin(s, 0)
      <4>1. \A n \in DOMAIN s : s[n] < HistMax => (BinOf(s[n]) <= 0 <=> BinOf(s[n]) = 0)
        BY <1>10
      <4> QED
        BY <4>1, Zenon DEF UpToBin, InBin
    <3>2. 0 \in Bins /\ 0 \in 0 .. b
      BY <1>2, <1>5
    <3> QED
      BY <1>4, <1>7, <3>1, <3>2
  <2>2. ASSUME NEW k \in 1 .. b, k - 1 \in Good
        PROVE  k \in Good
    <3>1. \A n \in DOMAIN s : s[n] < HistMax => (BinOf(s[n]) <= k - 1 => BinOf(s[n]) <= k)
      BY <1>10
    <3>2. \A n \in DOMAIN s : s[n] < HistMax => (BinOf(s[n]) <= k /\ ~(BinOf(s[n]) <= k - 1) <=> BinOf(s[n]) = k)
      BY <1>10
    <3>3. UpToBin(s, k - 1) \in SUBSET UpToBin(s, k)
      BY <3>1, Zenon DEF UpToBin
    <3>4. UpToBin(s, k) \ UpToBin(s, k - 1) = InBin(s, k)
      BY <3>2, Zenon DEF UpToBin, InBin
    <3>5. IsFiniteSet(UpToBin(s, k))
      <4>1. UpToBin(s, k) \in SUBSET DOMAIN s
        BY DEF UpToBin
      <4> QED
        BY <4>1, SamplesFinite
    <3>6. PICK x \in Nat : x = Cardinality(UpToBin(s, k))
      BY <3>5, FS_CardinalityType
    <3>7. PICK y \in Nat : y = Cardinality(UpToBin(s, k - 1))
      BY <3>3, <3>5, FewerLeft
    <3>8. Cardinality(InBin(s, k)) = x - y
      BY <3>3, <3>4, <3>5, <3>6, <3>7, FewerLeft
    <3>9. k \in Bins /\ P[k - 1] = y
      BY <1>5, <2>2, <3>7
    <3> QED
      BY <1>4, <1>7, <3>6, <3>8, <3>9
  <2> HIDE DEF Good
  <2> QED
    BY <1>2, <2>1, <2>2, InductionUpTo
<1> QED
  BY <1>2, <1>8, <1>11

----------------------------------------------------------------------------
(* Latencies: what a rank reads *)

LEMMA LeastOf ==
  ASSUME NEW S, S \subseteq Nat, S # {}
  PROVE  Min(S) \in S /\ \A x \in S : Min(S) <= x
<1>1. \E k \in S : \A j \in S : k <= j
  BY MinExists
<1> QED
  BY <1>1, Zenon DEF Min

\* The samples of at most ns.
AtMost(s, ns) == {n \in DOMAIN s : s[n] <= ns}

LEMMA SampleSets ==
  ASSUME NEW s \in Seq(Nat), NEW A \in SUBSET DOMAIN s, NEW B \in SUBSET DOMAIN s
  PROVE  /\ Cardinality(A) \in Nat /\ Cardinality(B) \in Nat
         /\ A \subseteq B => Cardinality(A) <= Cardinality(B)
<1>1. IsFiniteSet(A) /\ IsFiniteSet(B) /\ Cardinality(A) \in Nat /\ Cardinality(B) \in Nat
  BY SamplesFinite
<1>2. ASSUME A \subseteq B
      PROVE  Cardinality(A) <= Cardinality(B)
  BY <1>1, <1>2, FS_Subset
<1> QED
  BY <1>1, <1>2

\* A nonempty set of samples has a largest.
LEMMA LargestSample ==
  ASSUME NEW s \in Seq(Nat), NEW N \in SUBSET DOMAIN s, N # {}
  PROVE  \E n \in N : \A k \in N : s[k] <= s[n]
<1>1. PICK m \in Nat : m = Len(s)
  OBVIOUS
<1>2. \A n \in 1 .. m : s[n] \in Nat /\ n \in DOMAIN s
  BY <1>1
<1>3. \A n \in N : n \in 1 .. m
  BY <1>1
<1> DEFINE f == [n \in 1 .. m |-> IF n \in N THEN s[n] + 1 ELSE 0]
<1>4. \A n \in 1 .. m : f[n] \in Nat /\ (n \in N => f[n] = s[n] + 1) /\ (n \notin N => f[n] = 0)
  BY <1>2
<1> HIDE DEF f
<1>5. PICK x : x \in N
  OBVIOUS
<1>6. x \in 1 .. m /\ 1 \in 1 .. m
  BY <1>3, <1>5
<1>7. PICK k : FirstLargest(f, 1, m, k)
  BY <1>4, <1>6, FirstLargestExists
<1>8. k \in 1 .. m /\ \A j \in 1 .. m : f[k] >= f[j]
  BY <1>7 DEF FirstLargest
<1>9. k \in N
  <2>1. f[k] >= f[x] /\ f[x] = s[x] + 1 /\ s[x] \in Nat
    BY <1>2, <1>4, <1>5, <1>6, <1>8
  <2> QED
    BY <1>4, <1>8, <2>1
<1>10. ASSUME NEW j \in N
       PROVE  s[j] <= s[k]
  <2>1. j \in 1 .. m
    BY <1>3
  <2>2. f[k] >= f[j] /\ f[j] = s[j] + 1 /\ f[k] = s[k] + 1 /\ s[j] \in Nat /\ s[k] \in Nat
    BY <1>2, <1>4, <1>8, <1>9, <2>1
  <2> QED
    BY <2>2
<1> QED
  BY <1>9, <1>10

\* The latencies that some t of the samples do not exceed.
Reaching(s, t) == {ns \in ToSet(s) : Cardinality(AtMost(s, ns)) >= t}

\* The least of them is the latency of rank t.
LEMMA RankIsReached ==
  ASSUME NEW s \in Seq(Nat), NEW t \in 1 .. Len(s)
  PROVE  /\ Min(Reaching(s, t)) \in Nat
         /\ Cardinality(AtMost(s, Min(Reaching(s, t)))) >= t
         /\ \A ns \in Reaching(s, t) : Min(Reaching(s, t)) <= ns
<1>1. PICK m \in Nat : m = Len(s) /\ DOMAIN s = 1 .. m /\ t \in 1 .. m
  OBVIOUS
<1>2. \A n \in 1 .. m : s[n] \in Nat
  BY <1>1
<1>3. PICK k \in DOMAIN s : \A j \in DOMAIN s : s[j] <= s[k]
  <2>1. DOMAIN s \in SUBSET DOMAIN s /\ DOMAIN s # {}
    BY <1>1
  <2> QED
    BY <2>1, LargestSample
<1>4. AtMost(s, s[k]) = DOMAIN s
  BY <1>3 DEF AtMost
<1>5. Cardinality(DOMAIN s) = m
  <2>1. Cardinality(1 .. m) = IF 1 > m THEN 0 ELSE m - 1 + 1
    BY FS_Interval
  <2>2. m >= 1
    BY <1>1
  <2> QED
    BY <1>1, <2>1, <2>2
<1>6. ToSet(s) = {s[n] : n \in DOMAIN s}
  BY DEF ToSet
<1>7. s[k] \in Reaching(s, t)
  BY <1>1, <1>3, <1>4, <1>5, <1>6 DEF Reaching
<1>8. Reaching(s, t) \subseteq Nat
  BY <1>1, <1>2, <1>6 DEF Reaching
<1>9. PICK R : R = Reaching(s, t)
  OBVIOUS
<1>10. PICK a : a = Min(R)
  OBVIOUS
<1>11. a \in R /\ \A x \in R : a <= x
  BY <1>7, <1>8, <1>9, <1>10, LeastOf
<1>12. a \in Nat /\ Cardinality(AtMost(s, a)) >= t
  BY <1>8, <1>9, <1>11 DEF Reaching
<1> QED
  BY <1>9, <1>10, <1>11, <1>12

\* What a rank reads is at most the latency of that rank, and no more than four times below
\* it inside the bins' range.
ReadFits(read, actual) ==
  /\ read \in Nat /\ read <= actual
  /\ \/ actual <= 4 * read
     \/ actual >= HistMax /\ read = HistMax

LEMMA RankReads ==
  ASSUME NEW h, NEW s \in Seq(Nat), CountsEach(h, s), NEW t \in 1 .. Len(s)
  PROVE  ReadFits(LowerOfRank(h, t), Min(Reaching(s, t)))
<1>1. PICK a \in Nat : a = Min(Reaching(s, t))
  BY RankIsReached
<1>2. Cardinality(AtMost(s, a)) >= t /\ \A ns \in Reaching(s, t) : a <= ns
  BY <1>1, RankIsReached
<1>3. PICK B \in Nat \ {0}, M \in Nat : B = HistBins /\ M = HistMax /\ M = Pow2(B - 1)
  BY HftAssumption, Pow2Doubles
<1>4. Bins = 0 .. B - 1
  BY <1>3 DEF Bins
<1>5. \A n \in DOMAIN s : s[n] \in Nat
  OBVIOUS
<1>6. t \in Nat /\ t >= 1
  OBVIOUS
<1>7. \A x : AtMost(s, x) \in SUBSET DOMAIN s
  BY DEF AtMost
<1>8. \A b : UpToBin(s, b) \in SUBSET DOMAIN s
  BY DEF UpToBin
<1> DEFINE reached == {b \in Bins : Cumulative(h, b) >= t}
<1>9. \A b \in Bins : Cumulative(h, b) = Cardinality(UpToBin(s, b))
  BY CumulativeCounts
<1>10. LowerOfRank(h, t) = IF reached = {} THEN HistMax ELSE BinLower(Min(reached))
  BY Zenon DEF LowerOfRank
<1>11. CASE reached = {}
  <2>1. LowerOfRank(h, t) = M
    BY <1>3, <1>10, <1>11
  <2>2. B - 1 \in Bins
    BY <1>4
  <2>3. ~(Cardinality(UpToBin(s, B - 1)) >= t)
    BY <1>9, <1>11, <2>2
  <2>4. ~(a < M)
    <3> SUFFICES ASSUME a < M
                 PROVE  FALSE
      OBVIOUS
    <3>1. ASSUME NEW n \in AtMost(s, a)
          PROVE  n \in UpToBin(s, B - 1)
      <4>1. n \in DOMAIN s /\ s[n] <= a /\ s[n] \in Nat
        BY <1>5, <3>1 DEF AtMost
      <4>2. s[n] < M
        BY <4>1
      <4>3. BinOf(s[n]) \in Bins
        BY <1>3, <4>1, <4>2, BinBounds
      <4>4. BinOf(s[n]) <= B - 1
        BY <1>4, <4>3
      <4> QED
        BY <1>3, <4>1, <4>2, <4>4 DEF UpToBin
    <3>2. AtMost(s, a) \subseteq UpToBin(s, B - 1)
      BY <3>1
    <3>3. /\ Cardinality(AtMost(s, a)) \in Nat /\ Cardinality(UpToBin(s, B - 1)) \in Nat
          /\ Cardinality(AtMost(s, a)) <= Cardinality(UpToBin(s, B - 1))
      BY <1>7, <1>8, <3>2, SampleSets
    <3> QED
      BY <1>2, <1>6, <2>3, <3>3
  <2> QED
    BY <1>1, <1>3, <2>1, <2>4 DEF ReadFits
<1>12. CASE reached # {}
  <2>1. PICK b : b = Min(reached)
    OBVIOUS
  <2>2. b \in reached /\ \A x \in reached : b <= x
    <3>1. reached \subseteq Nat
      BY <1>4
    <3> HIDE DEF reached
    <3> QED
      BY <1>12, <2>1, <3>1, LeastOf
  <2>3. b \in Bins /\ b \in 0 .. B - 1 /\ Cardinality(UpToBin(s, b)) >= t
    BY <1>4, <1>9, <2>2
  <2>4. b # 0 => ~(Cardinality(UpToBin(s, b - 1)) >= t)
    <3> SUFFICES ASSUME b # 0
                 PROVE  ~(Cardinality(UpToBin(s, b - 1)) >= t)
      OBVIOUS
    <3>1. b - 1 \in Bins /\ ~(b <= b - 1)
      BY <1>4, <2>3
    <3>2. b - 1 \notin reached
      BY <2>2, <3>1
    <3> QED
      BY <1>9, <3>1, <3>2
  <2>5. LowerOfRank(h, t) = BinLower(b)
    BY <1>10, <1>12, <2>1
  <2> HIDE DEF reached
  <2>6. UpToBin(s, b) # {}
    <3>1. Cardinality({}) = 0
      BY FS_EmptySet
    <3>2. UpToBin(s, b) = {} => Cardinality(UpToBin(s, b)) = 0
      BY <3>1, Zenon
    <3> QED
      BY <1>6, <2>3, <3>2
  <2>7. PICK n \in UpToBin(s, b) : \A k \in UpToBin(s, b) : s[k] <= s[n]
    BY <1>8, <2>6, LargestSample
  <2>8. n \in DOMAIN s /\ s[n] \in Nat /\ s[n] < M /\ BinOf(s[n]) <= b
    BY <1>3, <1>5, <2>7 DEF UpToBin
  <2>9. a <= s[n]
    <3>1. UpToBin(s, b) \subseteq AtMost(s, s[n])
      BY <2>7 DEF UpToBin, AtMost
    <3>2. /\ Cardinality(AtMost(s, s[n])) \in Nat /\ Cardinality(UpToBin(s, b)) \in Nat
          /\ Cardinality(UpToBin(s, b)) <= Cardinality(AtMost(s, s[n]))
      BY <1>7, <1>8, <3>1, SampleSets
    <3>3. Cardinality(AtMost(s, s[n])) >= t
      BY <1>6, <2>3, <3>2
    <3>4. s[n] \in ToSet(s)
      BY <2>8 DEF ToSet
    <3>5. s[n] \in Reaching(s, t)
      BY <3>3, <3>4 DEF Reaching
    <3> QED
      BY <1>2, <3>5
  <2>10. \A j \in Nat : BinOf(s[n]) <= j => s[n] + 1 < 2 * Pow2(j)
    BY <1>3, <2>8, BinBounds
  <2>11. s[n] + 1 < 2 * Pow2(b) /\ b \in Nat
    BY <2>3, <2>8, <2>10
  <2>12. CASE b = 0
    <3>0. Pow2(b) = 1
      BY <2>12, Pow2Doubles
    <3>1. s[n] = 0
      BY <2>8, <2>11, <3>0
    <3>2. LowerOfRank(h, t) = 0
      BY <2>5, <2>12 DEF BinLower
    <3> QED
      BY <1>1, <2>8, <2>9, <3>1, <3>2 DEF ReadFits
  <2>13. CASE b # 0
    <3>0. b - 1 \in Nat
      BY <2>11, <2>13
    <3>1. PICK p \in Nat : p = Pow2(b - 1)
      BY <3>0, Pow2Doubles
    <3>2. Pow2(b) = 2 * p
      <4>1. b - 1 \in Nat /\ (b - 1) + 1 = b
        BY <2>11, <2>13
      <4> QED
        BY <3>1, <4>1, Pow2Doubles
    <3>3. LowerOfRank(h, t) = p
      BY <2>5, <2>13, <3>1 DEF BinLower
    <3>4. a <= 4 * p
      BY <2>8, <2>9, <2>11, <3>2
    <3>5. p <= M
      <4>1. b - 1 \in 0 .. B - 1 /\ B - 1 \in Nat
        BY <2>3, <2>13
      <4> QED
        BY <1>3, <3>1, <4>1, Pow2Rises
    <3>6. p <= a
      <4> SUFFICES ASSUME ~(p <= a)
                   PROVE  FALSE
        OBVIOUS
      <4>1. ASSUME NEW k \in AtMost(s, a)
            PROVE  k \in UpToBin(s, b - 1)
        <5>1. k \in DOMAIN s /\ s[k] <= a /\ s[k] \in Nat
          BY <1>5, <4>1 DEF AtMost
        <5>2. s[k] < M /\ s[k] + 1 <= p
          BY <3>5, <5>1
        <5>3. b - 1 \in Nat
          BY <2>11, <2>13
        <5>4. BinOf(s[k]) <= b - 1
          BY <1>3, <3>1, <5>1, <5>2, <5>3, BinBounds
        <5> QED
          BY <1>3, <5>1, <5>2, <5>4 DEF UpToBin
      <4>2. AtMost(s, a) \subseteq UpToBin(s, b - 1)
        BY <4>1
      <4>3. /\ Cardinality(AtMost(s, a)) \in Nat /\ Cardinality(UpToBin(s, b - 1)) \in Nat
            /\ Cardinality(AtMost(s, a)) <= Cardinality(UpToBin(s, b - 1))
        BY <1>7, <1>8, <4>2, SampleSets
      <4> QED
        BY <1>2, <1>6, <2>4, <2>13, <4>3
    <3> QED
      BY <1>1, <3>3, <3>4, <3>6 DEF ReadFits
  <2> QED
    BY <2>12, <2>13
<1> QED
  BY <1>11, <1>12

LEMMA FractionRank ==
  ASSUME NEW T \in Nat \ {0}, NEW num \in Nat \ {0}, NEW den \in Nat, num < den
  PROVE  (T * num) \div den \in 0 .. T
<1>1. PICK q \in Nat : q = (T * num) \div den
  OBVIOUS
<1>2. PICK r \in 0 .. den - 1 : T * num = den * q + r
  BY <1>1
<1>3. den * q <= T * num
  BY <1>2
<1>4. T * num <= T * den
  OBVIOUS
<1>5. q <= T
  <2> SUFFICES ASSUME q >= T + 1
               PROVE  FALSE
    OBVIOUS
  <2>1. den * q >= den * (T + 1)
    OBVIOUS
  <2>2. den * (T + 1) = T * den + den
    OBVIOUS
  <2>3. den * q <= T * den
    BY <1>3, <1>4
  <2> QED
    BY <2>1, <2>2, <2>3
<1> QED
  BY <1>1, <1>5

LEMMA RankInRange ==
  ASSUME NEW h, NEW T \in Nat \ {0}, h.total = T, NEW num \in Nat \ {0}, NEW den \in Nat, num < den
  PROVE  Rank(h, num, den) \in 1 .. T
<1>1. PICK t \in 0 .. T : t = (T * num) \div den
  BY FractionRank
<1>2. Rank(h, num, den) = IF t = 0 /\ num > 0 /\ T > 0 THEN 1 ELSE t
  BY <1>1, Zenon DEF Rank
<1> QED
  BY <1>1, <1>2

LEMMA PercentilesAreHonest == HftInv => PercentilesHonest
<1> SUFFICES ASSUME HftInv, latencies # <<>>, NEW k \in DOMAIN GateFractions
             PROVE  LET actual == RankedLatency(Rank(schedHist, GateFractions[k][1], GateFractions[k][2]))
                        read == GateActual(k, schedHist)
                    IN  /\ read <= actual
                        /\ actual < HistMax => actual <= 4 * read
                        /\ \A limit \in 1 .. HistMax - 1 :
                             LET limits == [p99 |-> limit, p99_9 |-> limit, p99_99 |-> limit, jitter |-> 0]
                             IN  IF k \in GateViolations(limits, schedHist, schedJitter)
                                 THEN actual > limit ELSE actual <= 4 * limit
  BY Zenon DEF PercentilesHonest
<1>1. PICK s \in Seq(Nat) : s = latencies
  BY DEF HftInv
<1>2. CountsEach(schedHist, s)
  BY <1>1 DEF HftInv
<1>3. PICK T \in Nat \ {0} : T = Len(s) /\ schedHist.total = T
  BY <1>1, <1>2 DEF CountsEach
<1>4. PICK num, den : num = GateFractions[k][1] /\ den = GateFractions[k][2]
  OBVIOUS
<1>5. k \in {"p99", "p99_9", "p99_99"}
  BY DEF GateFractions
<1>6. num \in Nat \ {0} /\ den \in Nat /\ num < den
  BY <1>4, <1>5 DEF GateFractions
<1>7. PICK t : t = Rank(schedHist, num, den)
  OBVIOUS
<1>8. t \in 1 .. T
  BY <1>3, <1>6, <1>7, RankInRange
<1>9. PICK a : a = RankedLatency(t)
  OBVIOUS
<1>10. a = Min(Reaching(s, t))
  BY <1>1, <1>9, Zenon DEF RankedLatency, Reaching, AtMost
<1>11. PICK r : r = GateActual(k, schedHist)
  OBVIOUS
<1>12. r = LowerOfRank(schedHist, t)
  <2>1. CASE k = "p99"
    <3>1. GateFractions[k] = <<99, 100>>
      BY <2>1 DEF GateFractions
    <3>2. num = 99 /\ den = 100
      BY <1>4, <3>1
    <3>3. schedHist.total # 0
      BY <1>3
    <3>4. Percentile(schedHist, 99) = LowerOfRank(schedHist, Rank(schedHist, IF 99 > 100 THEN 100 ELSE 99, 100))
      BY <3>3, Zenon DEF Percentile
    <3>5. (IF 99 > 100 THEN 100 ELSE 99) = num
      BY <3>2
    <3>6. Rank(schedHist, IF 99 > 100 THEN 100 ELSE 99, 100) = t
      BY <1>7, <3>2, <3>5
    <3>7. GateActual(k, schedHist) = Percentile(schedHist, 99)
      BY <2>1, Zenon DEF GateActual
    <3> QED
      BY <1>11, <3>4, <3>6, <3>7
  <2>2. CASE k # "p99"
    BY <1>4, <1>7, <1>11, <2>2, Zenon DEF GateActual
  <2> QED
    BY <2>1, <2>2
<1>13. ReadFits(r, a)
  <2>1. t \in 1 .. Len(s)
    BY <1>3, <1>8
  <2> QED
    BY <1>2, <1>10, <1>12, <2>1, RankReads, Zenon
<1>14. a \in Nat
  <2>1. t \in 1 .. Len(s)
    BY <1>3, <1>8
  <2> QED
    BY <1>10, <2>1, RankIsReached
<1>15. PICK M \in Nat : M = HistMax
  BY HftAssumption, Pow2Doubles
<1>16. r \in Nat /\ r <= a /\ (a <= 4 * r \/ (a >= M /\ r = M))
  BY <1>13, <1>15 DEF ReadFits
<1>17. r <= a /\ (a < M => a <= 4 * r)
  BY <1>14, <1>15, <1>16
<1>18. ASSUME NEW limit \in 1 .. M - 1, NEW limits,
              limits = [p99 |-> limit, p99_9 |-> limit, p99_99 |-> limit, jitter |-> 0]
       PROVE  IF k \in GateViolations(limits, schedHist, schedJitter)
              THEN a > limit ELSE a <= 4 * limit
  <2>0. limit \in 1 .. M - 1
    OBVIOUS
  <2>1. limits[k] = limit /\ limits.jitter = 0
    BY <1>5, <1>18
  <2>2. k \in GateViolations(limits, schedHist, schedJitter) <=> limits[k] > 0 /\ GateActual(k, schedHist) > limits[k]
    <3>1. ~(limits.jitter > 0)
      BY <2>1
    <3>2. GateViolations(limits, schedHist, schedJitter) =
            {j \in DOMAIN GateFractions : limits[j] > 0 /\ GateActual(j, schedHist) > limits[j]}
      BY <3>1 DEF GateViolations
    <3> QED
      BY <3>2
  <2>3. k \in GateViolations(limits, schedHist, schedJitter) <=> r > limit
    BY <1>11, <2>0, <2>1, <2>2
  <2>4. r > limit => a > limit
    BY <1>14, <1>16, <2>0
  <2>5. ~(r > limit) => a <= 4 * limit
    BY <1>14, <1>15, <1>16, <2>0
  <2> QED
    BY <2>3, <2>4, <2>5
<1> QED
  BY <1>4, <1>7, <1>9, <1>11, <1>15, <1>17, <1>18, Zenon

LEMMA HftStarts ==
  ASSUME NEW h, h = EmptyHistogram
  PROVE  CountsEach(h, <<>>)
<1>1. h.bins = [b \in Bins |-> 0] /\ h.total = 0
  BY DEF EmptyHistogram
<1>2. InBin(<<>>, 0) = {} /\ \A b : InBin(<<>>, b) = {}
  BY DEF InBin
<1>3. Cardinality({}) = 0
  BY FS_EmptySet
<1>4. \A b \in Bins : h.bins[b] = 0
  BY <1>1
<1>5. \A b \in Bins : Cardinality(InBin(<<>>, b)) = 0
  BY <1>2, <1>3, Zenon
<1>6. Len(<<>>) = 0
  OBVIOUS
<1> QED
  BY <1>1, <1>4, <1>5, <1>6 DEF CountsEach

LEMMA RecordCounts ==
  ASSUME NEW h, NEW s \in Seq(Nat), CountsEach(h, s), NEW ns \in Nat
  PROVE  CountsEach(RecordedIn(h, ns), Append(s, ns))
<1>1. PICK p : p = Append(s, ns)
  OBVIOUS
<1>2. PICK m \in Nat : m = Len(s) /\ DOMAIN s = 1 .. m
  OBVIOUS
<1>3. p \in Seq(Nat) /\ Len(p) = m + 1 /\ DOMAIN p = 1 .. m + 1 /\ p[m + 1] = ns
      /\ \A n \in 1 .. m : p[n] = s[n]
  BY <1>1, <1>2
<1>4. PICK bins : bins = h.bins
  OBVIOUS
<1>5. bins \in [Bins -> Nat] /\ h.total = m /\ \A b \in Bins : bins[b] = Cardinality(InBin(s, b))
  BY <1>2, <1>4 DEF CountsEach
<1>6. PICK q : q = RecordedIn(h, ns)
  OBVIOUS
<1>7. q.total = m + 1
  BY <1>5, <1>6 DEF RecordedIn
<1>8. q.bins = IF ns >= HistMax THEN bins ELSE [bins EXCEPT ![BinOf(ns)] = @ + 1]
  BY <1>4, <1>6 DEF RecordedIn, BinOf
<1>9. PICK M \in Nat : M = HistMax
  BY HftAssumption, Pow2Doubles
<1>10. \A n \in 1 .. m + 1 : n \in 1 .. m \/ n = m + 1
  OBVIOUS
<1>11. m + 1 \notin 1 .. m /\ m + 1 \in 1 .. m + 1 /\ \A n \in 1 .. m : n \in 1 .. m + 1
  OBVIOUS
<1>12. CASE ns >= M
  <2>1. \A b : InBin(p, b) = InBin(s, b)
    <3>1. ~(p[m + 1] < HistMax)
      BY <1>3, <1>9, <1>12
    <3>2. \A n \in 1 .. m + 1 : p[n] < HistMax => n \in 1 .. m
      BY <1>10, <3>1
    <3> QED
      BY <1>2, <1>3, <1>11, <3>2, Zenon DEF InBin
  <2>2. q.bins = bins
    BY <1>8, <1>9, <1>12
  <2> QED
    BY <1>1, <1>3, <1>5, <1>6, <1>7, <2>1, <2>2 DEF CountsEach
<1>13. CASE ~(ns >= M)
  <2>1. PICK c : c = BinOf(ns)
    OBVIOUS
  <2>2. ns < M
    BY <1>13
  <2>3. c \in Bins
    BY <1>9, <2>1, <2>2, BinBounds
  <2>4. q.bins = [bins EXCEPT ![c] = bins[c] + 1]
    BY <1>8, <1>9, <1>13, <2>1
  <2>5. \A b \in Bins : q.bins[b] = IF b = c THEN bins[b] + 1 ELSE bins[b]
    BY <1>5, <2>3, <2>4
  <2>6. q.bins \in [Bins -> Nat]
    BY <1>5, <2>3, <2>4
  <2>7. ASSUME NEW b \in Bins
        PROVE  q.bins[b] = Cardinality(InBin(p, b))
    <3>0. b \in Bins
      OBVIOUS
    <3>1. IsFiniteSet(InBin(s, b)) /\ Cardinality(InBin(s, b)) \in Nat
      <4>1. InBin(s, b) \in SUBSET DOMAIN s
        BY DEF InBin
      <4> QED
        BY <4>1, SamplesFinite
    <3>2. CASE b = c
      <4>1. InBin(p, b) = InBin(s, b) \cup {m + 1}
        <5>1. p[m + 1] < HistMax /\ BinOf(p[m + 1]) = b
          BY <1>3, <1>9, <2>1, <2>2, <3>2
        <5> QED
          BY <1>2, <1>3, <1>10, <1>11, <5>1, Zenon DEF InBin
      <4>2. m + 1 \notin InBin(s, b)
        BY <1>2, <1>11 DEF InBin
      <4>3. Cardinality(InBin(p, b)) = Cardinality(InBin(s, b)) + 1
        BY <3>1, <4>1, <4>2, FS_AddElement
      <4> QED
        BY <1>5, <2>5, <3>0, <3>2, <4>3
    <3>3. CASE b # c
      <4>1. InBin(p, b) = InBin(s, b)
        <5>1. BinOf(p[m + 1]) # b
          BY <1>3, <2>1, <3>3
        <5> QED
          BY <1>2, <1>3, <1>10, <1>11, <5>1, Zenon DEF InBin
      <4> QED
        BY <1>5, <2>5, <3>0, <3>3, <4>1
    <3> QED
      BY <3>2, <3>3
  <2> QED
    BY <1>1, <1>3, <1>6, <1>7, <2>6, <2>7 DEF CountsEach
<1> QED
  BY <1>12, <1>13

LEMMA HftSteps == HftInv /\ [HftNext]_hftVars => HftInv'
<1> SUFFICES ASSUME HftInv, [HftNext]_hftVars
             PROVE  HftInv'
  OBVIOUS
<1>1. CASE HftReset
  <2>1. schedHist' = EmptyHistogram /\ latencies' = <<>>
    BY <1>1 DEF HftReset
  <2>2. CountsEach(schedHist', <<>>)
    BY <2>1, HftStarts
  <2> QED
    BY <2>1, <2>2 DEF HftInv, CountsEach, InBin, BinOf
<1>2. ASSUME NEW ns \in Latencies, RecordPollLatency(ns)
      PROVE  HftInv'
  <2>1. ns \in Nat
    BY HftAssumption
  <2>2. PICK s \in Seq(Nat), h \in {schedHist} : s = latencies /\ h = schedHist /\ CountsEach(h, s)
    BY DEF HftInv
  <2>3. schedHist' = RecordedIn(h, ns) /\ latencies' = Append(s, ns)
    BY <1>2, <2>2 DEF RecordPollLatency
  <2>4. CountsEach(RecordedIn(h, ns), Append(s, ns)) /\ Append(s, ns) \in Seq(Nat)
    BY <2>1, <2>2, RecordCounts
  <2> QED
    BY <2>3, <2>4 DEF HftInv
<1>3. CASE JitterRecompute
  BY <1>3 DEF JitterRecompute, HftInv
<1>4. CASE UNCHANGED hftVars
  BY <1>4 DEF hftVars, HftInv
<1> QED
  BY <1>1, <1>2, <1>3, <1>4 DEF HftNext

LEMMA HftRunsAlone == SupportSpec => HftSpec
<1>1. SupportInit => HftInit
  BY DEF SupportInit
<1>2. [SupportNext]_SupportVars => [HftNext]_hftVars
  BY DEF SupportNext, SupportVars, Rest
<1> QED
  BY <1>1, <1>2, PTL DEF SupportSpec, HftSpec

LEMMA PercentilesKept == SupportSpec => []PercentilesHonest
<1>1. HftInit => HftInv
  <2> SUFFICES ASSUME HftInit
               PROVE  HftInv
    OBVIOUS
  <2>1. CountsEach(schedHist, <<>>)
    BY HftStarts DEF HftInit
  <2> QED
    BY <2>1 DEF HftInit, HftInv
<1> QED
  BY <1>1, HftSteps, PercentilesAreHonest, HftRunsAlone, PTL DEF HftSpec

----------------------------------------------------------------------------
(* Reports *)

\* What a report tells is so: rings and ledgers give their newest entries over wraps and
\* stopped counters, the audit, the deadlines and the watchdog tell the same misses,
\* percentiles read from bins bound the latencies they stand for, and the suspects of a
\* regression are those that changed, the one that changed most in front.
THEOREM ReportsAreFaithful == SupportSpec => []ReportsFaithful
<1>1. RingsKeepLatest /\ AuditFaithful /\ PercentilesHonest /\ ReportRanksChanges => ReportsFaithful
  BY DEF ReportsFaithful
<1> QED
  BY <1>1, RingsTellLatest, AuditKept, PercentilesKept, ChangesRanked, PTL

====
