---- MODULE SharedProofs ----
(***************************************************************************)
(* Theorems about the channel, for every capacity, number of slots and of  *)
(* permits, and every size of the token, and about the structures built    *)
(* for other threads: a read of the seqlock that reports 1 is whole,       *)
(* nothing is reclaimed under a reader, and the lock-free ring is the      *)
(* queue of what it accepted; and about all that the specification of      *)
(* MCChannel runs side by side.                                            *)
(***************************************************************************)
EXTENDS MCChannel, ProofLemmas

----------------------------------------------------------------------------
(* Operators on one slot *)

\* The cells in use are finitely many.
LEMMA UsedFinite ==
  ASSUME NEW c
  PROVE  IsFiniteSet(UsedCells(c)) /\ Cardinality(UsedCells(c)) \in Nat
<1>1. IsFiniteSet(Cells)
  BY FS_Interval, ChannelAssumption DEF Cells
<1>2. UsedCells(c) \in SUBSET Cells
  BY DEF UsedCells
<1> QED BY <1>1, <1>2, FS_Subset, FS_CardinalityType

LEMMA FreshSlotOK ==
  ASSUME NEW g \in 0 .. MaxGen, NEW n \in 0 .. MaxCapacity, NEW b \in BOOLEAN, b => n > 0
  PROVE  SlotOK(FreshSlot(g, b, n))
<1> DEFINE c == FreshSlot(g, b, n)
<1>1. 0 \in Cells /\ 1 \in Tokens /\ 0 \in 0 .. TokenMod - 1 /\ 0 \in 0 .. MaxCapacity
  BY ChannelAssumption DEF Cells, Tokens
<1>2. c \in ChannelSlot
  BY <1>1 DEF FreshSlot, ChannelSlot, ChannelStates
<1>3. c.alive = b /\ c.capacity = n /\ c.len = 0 /\ c.reserved = 0
      /\ c.tokens = [k \in Cells |-> 0]
  BY DEF FreshSlot
<1> HIDE DEF c
<1>4. UsedCells(c) = {}
  BY <1>3 DEF UsedCells
<1>5. SlotOK(c)
  BY <1>2, <1>3, <1>4, FS_EmptySet DEF SlotOK
<1> QED BY <1>5 DEF c

\* Reserving takes one unit of capacity and one free cell.
LEMMA ReservedOK ==
  ASSUME NEW c, SlotOK(c), HasRoom(c), NEW t \in Tokens, ~Holds(c, t),
         NEW k \in Cells, c.tokens[k] = 0
  PROVE  /\ SlotOK(Reserved(c, t, k))
         /\ Reserved(c, t, k).gen = c.gen /\ Reserved(c, t, k).alive = c.alive
         /\ \A u : Holds(Reserved(c, t, k), u) <=> Holds(c, u) \/ u = t
<1> DEFINE d == Reserved(c, t, k)
           cells == [c.tokens EXCEPT ![k] = t]
           n == c.reserved + 1
           next == NextToken(t)
<1>1. c \in ChannelSlot /\ c.tokens \in [Cells -> 0 .. TokenMod - 1]
      /\ c.len \in Nat /\ c.reserved \in Nat /\ c.capacity \in 0 .. MaxCapacity
  BY ChannelAssumption DEF SlotOK, ChannelSlot
<1>2. t \in 0 .. TokenMod - 1 /\ t # 0 /\ next \in Tokens
  BY ChannelAssumption DEF Tokens, NextToken
<1>3. cells \in [Cells -> 0 .. TokenMod - 1] /\ cells[k] = t
      /\ \A j \in Cells \ {k} : cells[j] = c.tokens[j]
  BY <1>1, <1>2
<1>4. c.len + n <= c.capacity /\ n \in 0 .. MaxCapacity
  BY <1>1, ChannelAssumption DEF HasRoom, SlotOK
<1>5. d = [c EXCEPT !.tokens = cells, !.nextToken = next, !.reserved = n]
  BY <1>1 DEF Reserved, ChannelSlot
<1> HIDE DEF d, cells, n, next
<1>6. d \in ChannelSlot /\ d.tokens = cells /\ d.reserved = n /\ d.len = c.len
      /\ d.capacity = c.capacity /\ d.alive = c.alive /\ d.gen = c.gen
  BY <1>1, <1>2, <1>3, <1>4, <1>5, Zenon DEF ChannelSlot
<1>7. UsedCells(d) = UsedCells(c) \cup {k} /\ k \notin UsedCells(c)
  BY <1>2, <1>3, <1>6 DEF UsedCells
<1>8. Cardinality(UsedCells(d)) = c.reserved + 1
  <2>1. IsFiniteSet(UsedCells(c)) /\ Cardinality(UsedCells(c)) = c.reserved
    BY UsedFinite DEF SlotOK
  <2> QED BY <1>7, <2>1, FS_AddElement
<1>9. \A i, j \in Cells : cells[i] = cells[j] /\ cells[i] # 0 => i = j
  BY <1>2, <1>3 DEF SlotOK, Holds
<1>10. SlotOK(d)
  BY <1>4, <1>6, <1>8, <1>9 DEF SlotOK, n
<1>11. \A u : Holds(d, u) <=> Holds(c, u) \/ u = t
  BY <1>2, <1>3, <1>6 DEF Holds
<1> QED BY <1>6, <1>10, <1>11 DEF d

\* Consuming a token frees its cell and a unit of capacity, and no other token.
LEMMA ReleasedOK ==
  ASSUME NEW c, SlotOK(c), NEW t, Holds(c, t)
  PROVE  /\ SlotOK(Released(c, t))
         /\ Released(c, t).len + Released(c, t).reserved < Released(c, t).capacity
         /\ Released(c, t).gen = c.gen /\ Released(c, t).alive = c.alive
         /\ \A u : u # t => (Holds(Released(c, t), u) <=> Holds(c, u))
<1> DEFINE d == Released(c, t)
           cells == Without(c.tokens, t)
           n == IF c.reserved > 0 THEN c.reserved - 1 ELSE c.reserved
<1>1. c \in ChannelSlot /\ c.tokens \in [Cells -> 0 .. TokenMod - 1]
      /\ c.len \in Nat /\ c.reserved \in 0 .. MaxCapacity /\ c.capacity \in 0 .. MaxCapacity
  BY ChannelAssumption DEF SlotOK, ChannelSlot
<1>2. PICK k \in Cells : c.tokens[k] = t
  BY DEF Holds
<1>3. t # 0
  BY DEF Holds
<1>4. \A j \in Cells : c.tokens[j] = t => j = k
  BY <1>2, <1>3 DEF SlotOK
<1>5. cells = [j \in Cells |-> IF j = k THEN 0 ELSE c.tokens[j]]
  <2>1. \A j \in Cells : (c.tokens[j] = t /\ \A i \in Cells : i < j => c.tokens[i] # t) <=> j = k
    <3>1. ASSUME NEW i \in Cells, i < k PROVE c.tokens[i] # t
      BY <1>4, <3>1, ChannelAssumption DEF Cells
    <3> QED BY <1>2, <1>4, <3>1
  <2> QED BY <2>1, Zenon DEF Without
<1>6. cells \in [Cells -> 0 .. TokenMod - 1] /\ cells[k] = 0
      /\ \A j \in Cells \ {k} : cells[j] = c.tokens[j]
  BY <1>1, <1>5, ChannelAssumption
<1>7. d = [c EXCEPT !.tokens = cells, !.reserved = n]
  BY <1>1 DEF Released, ChannelSlot
<1> DEFINE used == UsedCells(c)
<1>8. k \in used
  BY <1>2, <1>3 DEF UsedCells
<1>9. Cardinality(used \ {k}) = c.reserved - 1 /\ Cardinality(used \ {k}) \in Nat
  BY <1>8, UsedFinite, FS_RemoveElement, FS_CardinalityType DEF SlotOK
<1> HIDE DEF used
<1>10. n = c.reserved - 1 /\ n \in 0 .. MaxCapacity /\ c.len + n < c.capacity
  <2>1. c.len + c.reserved <= c.capacity
    BY DEF SlotOK
  <2> QED BY <1>1, <1>9, <2>1, ChannelAssumption
<1> HIDE DEF d, cells, n
<1>11. d \in ChannelSlot /\ d.tokens = cells /\ d.reserved = n /\ d.len = c.len
       /\ d.capacity = c.capacity /\ d.alive = c.alive /\ d.gen = c.gen
  BY <1>1, <1>6, <1>7, <1>10, Zenon DEF ChannelSlot
<1>12. UsedCells(d) = used \ {k}
  BY <1>6, <1>11 DEF UsedCells, used
<1>13. \A i, j \in Cells : cells[i] = cells[j] /\ cells[i] # 0 => i = j
  BY <1>6 DEF SlotOK
<1>14. SlotOK(d)
  <2>1. d.alive => d.capacity > 0
    BY <1>11 DEF SlotOK
  <2>2. d.len + d.reserved <= d.capacity /\ d.reserved = Cardinality(UsedCells(d))
    BY <1>1, <1>9, <1>10, <1>11, <1>12
  <2> QED BY <1>11, <1>13, <2>1, <2>2 DEF SlotOK
<1>15. \A u : u # t => (Holds(d, u) <=> Holds(c, u))
  <2> SUFFICES ASSUME NEW u, u # t PROVE Holds(d, u) <=> Holds(c, u)
    OBVIOUS
  <2> QED BY <1>2, <1>6, <1>11 DEF Holds
<1>16. d.len + d.reserved < d.capacity
  BY <1>10, <1>11
<1> QED BY <1>11, <1>14, <1>15, <1>16 DEF d

\* A message takes the unit of capacity its permit gave back.
LEMMA SentOK ==
  ASSUME NEW c, SlotOK(c), c.len + c.reserved < c.capacity, NEW v \in Values
  PROVE  /\ SlotOK(Sent(c, v))
         /\ Sent(c, v).gen = c.gen /\ Sent(c, v).alive = c.alive
         /\ Sent(c, v).tokens = c.tokens
<1> DEFINE d == Sent(c, v)
           written == [c.queue EXCEPT ![WriteCell(c)] = v]
           n == c.len + 1
<1>1. c \in ChannelSlot /\ c.queue \in [Cells -> Values \cup {NoValue}]
      /\ c.len \in 0 .. MaxCapacity /\ c.reserved \in 0 .. MaxCapacity
      /\ c.capacity \in 0 .. MaxCapacity
  BY DEF SlotOK, ChannelSlot
<1>2. written \in [Cells -> Values \cup {NoValue}]
  BY <1>1
<1>3. n \in 0 .. MaxCapacity /\ n + c.reserved <= c.capacity
  BY <1>1, ChannelAssumption
<1>4. d = c \/ d = [c EXCEPT !.queue = written, !.len = n]
  BY <1>1 DEF Sent, ChannelSlot
<1> HIDE DEF d, written, n
<1>5. CASE d = c
  BY <1>5 DEF d
<1>6. CASE d = [c EXCEPT !.queue = written, !.len = n]
  <2>1. d \in ChannelSlot /\ d.tokens = c.tokens /\ d.reserved = c.reserved /\ d.len = n
        /\ d.capacity = c.capacity /\ d.alive = c.alive /\ d.gen = c.gen
    BY <1>1, <1>2, <1>3, <1>6, Zenon DEF ChannelSlot
  <2>2. UsedCells(d) = UsedCells(c)
    BY <2>1 DEF UsedCells
  <2>3. SlotOK(d)
    BY <1>3, <2>1, <2>2 DEF SlotOK
  <2> QED BY <2>1, <2>3 DEF d
<1> QED BY <1>4, <1>5, <1>6

----------------------------------------------------------------------------
(* The invariant *)

\* A step that replaces one slot by one that is fine keeps every slot fine.
LEMMA SlotsKept ==
  ASSUME ChannelInv, NEW s \in ChannelSlots, NEW c, SlotOK(c),
         channels' = [channels EXCEPT ![s] = c]
  PROVE  /\ \A r \in ChannelSlots : SlotOK(channels'[r])
         /\ channels' \in [ChannelSlots -> ChannelSlot]
         /\ channels'[s] = c /\ \A r \in ChannelSlots \ {s} : channels'[r] = channels[r]
<1>1. c \in ChannelSlot
  BY DEF SlotOK
<1>2. channels'[s] = c /\ \A r \in ChannelSlots \ {s} : channels'[r] = channels[r]
  BY DEF ChannelInv, TypeOK
<1>3. \A r \in ChannelSlots : SlotOK(channels'[r])
  <2> TAKE r \in ChannelSlots
  <2> QED BY <1>2, Zenon DEF ChannelInv
<1> QED BY <1>1, <1>2, <1>3 DEF ChannelInv, TypeOK

\* A step that touches no permit and keeps generation, life and tokens of the slots.
LEMMA PermitsKept ==
  ASSUME ChannelInv, UNCHANGED permits,
         \A s \in ChannelSlots : channels'[s].gen = channels[s].gen
                                 /\ (channels[s].alive => channels'[s].alive
                                       /\ channels'[s].tokens = channels[s].tokens)
  PROVE  \A p \in Permits : PermitOK(p)'
<1> TAKE p \in Permits
<1>1. PermitOK(p) /\ permits[p].channel.slot \in ChannelSlots
  BY DEF ChannelInv, TypeOK, Permit, ChannelHandles
<1> QED BY <1>1 DEF PermitOK, Holds

LEMMA ChannelInit == Init => ChannelInv
<1> SUFFICES ASSUME Init PROVE ChannelInv
  OBVIOUS
<1>1. \A s \in ChannelSlots : channels[s] = FreshSlot(0, FALSE, 0)
  BY DEF Init
<1>2. SlotOK(FreshSlot(0, FALSE, 0))
  <2>1. 0 \in 0 .. MaxGen /\ 0 \in 0 .. MaxCapacity
    BY ChannelAssumption
  <2> QED BY <2>1, FreshSlotOK, Zenon
<1>3. \A s \in ChannelSlots : SlotOK(channels[s]) /\ channels[s] \in ChannelSlot
  BY <1>1, <1>2 DEF SlotOK
<1>4. channels \in [ChannelSlots -> ChannelSlot]
  BY <1>3 DEF Init
<1>5. SpentPermit \in Permit
  BY ChannelAssumption DEF SpentPermit, Permit, ChannelHandles, ChannelSlots
<1>6. passed = NoValue /\ permits \in [Permits -> Permit]
  BY <1>5 DEF Init
<1>7. \A p \in Permits : permits[p].consumed
  BY DEF Init, SpentPermit
<1> QED BY <1>3, <1>4, <1>6, <1>7 DEF ChannelInv, TypeOK, PermitOK

\* The handle of a permit names a slot and a generation.
LEMMA HandleType ==
  ASSUME NEW h \in ChannelHandles
  PROVE  h.slot \in ChannelSlots /\ h.gen \in 0 .. MaxGen
BY DEF ChannelHandles

LEMMA CreateStep ==
  ASSUME ChannelInv, NEW n \in 1 .. MaxCapacity, Create(n)
  PROVE  ChannelInv'
<1>1. PICK s \in ChannelSlots : ~channels[s].alive /\ UNCHANGED <<permits, passed>>
        /\ channels' = [channels EXCEPT ![s] = FreshSlot(channels[s].gen, TRUE, n)]
  BY DEF Create
<1>2. channels[s].gen \in 0 .. MaxGen
  BY DEF ChannelInv, TypeOK, ChannelSlot
<1>3. SlotOK(FreshSlot(channels[s].gen, TRUE, n))
  <2>1. n \in 0 .. MaxCapacity /\ n > 0
    BY ChannelAssumption
  <2> QED BY <1>2, <2>1, FreshSlotOK, Zenon
<1>4. /\ \A r \in ChannelSlots : SlotOK(channels'[r])
      /\ channels' \in [ChannelSlots -> ChannelSlot]
      /\ channels'[s] = FreshSlot(channels[s].gen, TRUE, n)
      /\ \A r \in ChannelSlots \ {s} : channels'[r] = channels[r]
  BY <1>1, <1>3, SlotsKept
<1>5. \A r \in ChannelSlots : channels'[r].gen = channels[r].gen
        /\ (channels[r].alive => channels'[r].alive /\ channels'[r].tokens = channels[r].tokens)
  BY <1>1, <1>4 DEF FreshSlot
<1>6. \A p \in Permits : PermitOK(p)'
  BY <1>1, <1>5, PermitsKept
<1> QED BY <1>1, <1>4, <1>6 DEF ChannelInv, TypeOK

\* Closing an end and receiving: the slot gives up messages and keeps its permits.
Drained(c, st, hd, n) == [c EXCEPT !.state = st, !.head = hd, !.len = n]

LEMMA DrainedOK ==
  ASSUME NEW c, SlotOK(c), NEW st \in ChannelStates, NEW hd \in Cells,
         NEW n \in 0 .. MaxCapacity, n <= c.len
  PROVE  /\ SlotOK(Drained(c, st, hd, n))
         /\ Drained(c, st, hd, n).gen = c.gen
         /\ Drained(c, st, hd, n).alive = c.alive
         /\ Drained(c, st, hd, n).tokens = c.tokens
<1> DEFINE d == Drained(c, st, hd, n)
<1> HIDE DEF d
<1>1. c \in ChannelSlot
  BY DEF SlotOK
<1>2. d \in ChannelSlot /\ d.tokens = c.tokens /\ d.reserved = c.reserved /\ d.len = n
      /\ d.capacity = c.capacity /\ d.alive = c.alive /\ d.gen = c.gen
  BY <1>1, Zenon DEF ChannelSlot, d, Drained
<1>3. UsedCells(d) = UsedCells(c)
  BY <1>2 DEF UsedCells
<1>4. c.len \in Nat /\ c.reserved \in Nat /\ c.capacity \in Nat /\ n \in Nat
  BY <1>1, ChannelAssumption DEF ChannelSlot
<1>5. d.len + d.reserved <= d.capacity
  BY <1>2, <1>4 DEF SlotOK
<1>6. SlotOK(d)
  BY <1>2, <1>3, <1>5 DEF SlotOK
<1> QED BY <1>2, <1>6 DEF d

LEMMA EndsStep ==
  ASSUME ChannelInv, NEW h \in ChannelHandles,
         CloseSender(h) \/ CloseReceiver(h) \/ TryRecv(h)
  PROVE  ChannelInv'
<1> DEFINE s == h.slot
           c == channels[s]
<1>1. s \in ChannelSlots /\ SlotOK(c) /\ c \in ChannelSlot /\ c.alive
      /\ channels \in [ChannelSlots -> ChannelSlot]
  BY HandleType DEF ChannelInv, TypeOK, CloseSender, CloseReceiver, TryRecv, Resolves
<1>2. c.len \in 0 .. MaxCapacity /\ c.head \in Cells /\ c.state \in ChannelStates
      /\ c.capacity \in 1 .. MaxCapacity /\ 0 \in Cells /\ 0 \in 0 .. MaxCapacity
  <2>1. 0 \in Cells /\ 0 \in 0 .. MaxCapacity
    BY ChannelAssumption DEF Cells
  <2> HIDE DEF c
  <2>2. c.capacity \in 0 .. MaxCapacity /\ c.capacity > 0
    BY <1>1 DEF SlotOK, ChannelSlot
  <2> QED BY <1>1, <2>1, <2>2 DEF ChannelSlot
<1>3. PICK st \in ChannelStates, hd \in Cells, n \in 0 .. MaxCapacity :
        n <= c.len
        /\ channels' = [channels EXCEPT ![s] = [c EXCEPT !.state = st, !.head = hd, !.len = n]]
  <2>1. CASE CloseSender(h)
    <3>1. PICK st \in ChannelStates : channels' = [channels EXCEPT ![s].state = st]
      BY <2>1 DEF CloseSender, ChannelStates
    <3>2. [c EXCEPT !.state = st] = [c EXCEPT !.state = st, !.head = c.head, !.len = c.len]
      BY <1>1 DEF ChannelSlot
    <3>3. channels' = [channels EXCEPT ![s] =
                         [c EXCEPT !.state = st, !.head = c.head, !.len = c.len]]
      BY <3>1, <3>2
    <3>4. c.len <= c.len
      BY <1>2
    <3> QED BY <1>2, <3>3, <3>4
  <2>2. CASE CloseReceiver(h)
    <3>1. PICK st \in ChannelStates :
            channels' = [channels EXCEPT ![s].state = st, ![s].len = 0, ![s].head = 0]
      BY <2>2 DEF CloseReceiver, ChannelStates
    <3>2. channels' = [channels EXCEPT ![s] = [c EXCEPT !.state = st, !.head = 0, !.len = 0]]
      BY <1>1, <3>1 DEF ChannelSlot
    <3>3. 0 <= c.len
      BY <1>2
    <3> QED BY <1>2, <3>2, <3>3
  <2>3. CASE TryRecv(h)
    <3> DEFINE hd == (c.head + 1) % c.capacity
               n == c.len - 1
    <3>1. channels' = [channels EXCEPT ![s].head = hd, ![s].len = n]
      BY <1>1, <2>3 DEF TryRecv
    <3>2. n \in 0 .. MaxCapacity /\ n <= c.len
      BY <1>2, <2>3, ChannelAssumption DEF TryRecv
    <3>3. hd \in Cells
      BY <1>2, ChannelAssumption DEF Cells
    <3> HIDE DEF hd, n
    <3>4. [c EXCEPT !.head = hd, !.len = n] = [c EXCEPT !.state = c.state, !.head = hd, !.len = n]
      BY <1>1 DEF ChannelSlot
    <3>5. channels' = [channels EXCEPT ![s] = [c EXCEPT !.state = c.state, !.head = hd, !.len = n]]
      BY <1>1, <3>1, <3>4
    <3> QED BY <1>2, <3>2, <3>3, <3>5
  <2> QED BY <2>1, <2>2, <2>3
<1> DEFINE d == Drained(c, st, hd, n)
<1>4. SlotOK(d) /\ d.gen = c.gen /\ d.alive = c.alive /\ d.tokens = c.tokens
  <2>1. SlotOK(c) /\ n <= c.len
    BY <1>1, <1>3
  <2> HIDE DEF c
  <2> QED BY <2>1, DrainedOK
<1>5. channels' = [channels EXCEPT ![s] = d]
  BY <1>3 DEF Drained
<1> HIDE DEF d, s
<1>6. /\ \A r \in ChannelSlots : SlotOK(channels'[r])
      /\ channels' \in [ChannelSlots -> ChannelSlot]
      /\ channels'[s] = d /\ \A r \in ChannelSlots \ {s} : channels'[r] = channels[r]
  BY <1>1, <1>4, <1>5, SlotsKept
<1>7. UNCHANGED permits /\ passed' \in Values \cup {NoValue}
  <2>1. passed \in Values \cup {NoValue} /\ NoValue \in Values \cup {NoValue}
    BY DEF ChannelInv, TypeOK
  <2>2. CASE CloseSender(h)
    BY <2>1, <2>2 DEF CloseSender
  <2>3. CASE CloseReceiver(h)
    BY <2>1, <2>3 DEF CloseReceiver
  <2>4. CASE TryRecv(h)
    <3>1. c.queue[c.head] \in Values \cup {NoValue}
      BY <1>1, <1>2 DEF ChannelSlot, c
    <3> QED BY <2>4, <3>1 DEF TryRecv, s, c
  <2> QED BY <2>2, <2>3, <2>4
<1>8. \A r \in ChannelSlots : channels'[r].gen = channels[r].gen
        /\ (channels[r].alive => channels'[r].alive /\ channels'[r].tokens = channels[r].tokens)
  <2> TAKE r \in ChannelSlots
  <2>1. CASE r = s
    BY <1>1, <1>4, <1>6, <2>1
  <2>2. CASE r # s
    BY <1>6, <2>2
  <2> QED BY <2>1, <2>2
<1>9. \A p \in Permits : PermitOK(p)'
  BY <1>7, <1>8, PermitsKept
<1> QED BY <1>6, <1>7, <1>9 DEF ChannelInv, TypeOK

LEMMA ReserveStep ==
  ASSUME ChannelInv, NEW p \in Permits, NEW h \in ChannelHandles, TryReserve(p, h)
  PROVE  ChannelInv'
<1> DEFINE s == h.slot
           c == channels[s]
<1>1. s \in ChannelSlots /\ SlotOK(c) /\ c.alive /\ c.gen = h.gen /\ HasRoom(c)
      /\ permits[p].consumed
  BY HandleType DEF ChannelInv, TryReserve, Resolves
<1>2. PICK t \in Tokens, k \in Cells :
        /\ ~Holds(c, t)
        /\ c.tokens[k] = 0
        /\ channels' = [channels EXCEPT ![s] = Reserved(c, t, k)]
        /\ permits' = [permits EXCEPT ![p] = [channel |-> h, token |-> t, consumed |-> FALSE]]
        /\ UNCHANGED passed
  BY DEF TryReserve, Allocated
<1> DEFINE d == Reserved(c, t, k)
<1> HIDE DEF s, c, d
<1>3. SlotOK(d) /\ d.gen = c.gen /\ d.alive = c.alive
      /\ \A u : Holds(d, u) <=> Holds(c, u) \/ u = t
  BY <1>1, <1>2, ReservedOK DEF d
<1>4. /\ \A r \in ChannelSlots : SlotOK(channels'[r])
      /\ channels' \in [ChannelSlots -> ChannelSlot]
      /\ channels'[s] = d /\ \A r \in ChannelSlots \ {s} : channels'[r] = channels[r]
  BY <1>1, <1>2, <1>3, SlotsKept DEF d
<1>5. [channel |-> h, token |-> t, consumed |-> FALSE] \in Permit
  BY DEF Permit, Tokens
<1>6. /\ permits' \in [Permits -> Permit]
      /\ permits'[p] = [channel |-> h, token |-> t, consumed |-> FALSE]
      /\ \A q \in Permits \ {p} : permits'[q] = permits[q]
  BY <1>2, <1>5 DEF ChannelInv, TypeOK
<1>7. ASSUME NEW q \in Permits PROVE PermitOK(q)'
  <2>1. CASE q = p
    <3>1. Holds(d, t) /\ h.gen <= d.gen /\ d.alive
      BY <1>1, <1>3, HandleType, ChannelAssumption
    <3>2. ASSUME NEW r \in Permits \ {p}, ~permits[r].consumed, permits[r].channel = h
          PROVE  permits[r].token # t
      <4>1. PermitOK(r)
        BY DEF ChannelInv
      <4> QED BY <1>1, <1>2, <3>2, <4>1 DEF PermitOK, s, c
    <3> QED BY <1>1, <1>4, <1>6, <2>1, <3>1, <3>2 DEF PermitOK, s
  <2>2. CASE q # p
    <3>1. PermitOK(q) /\ permits[q].channel.slot \in ChannelSlots /\ permits'[q] = permits[q]
      BY <1>6, <2>2, HandleType DEF ChannelInv, TypeOK, Permit
    <3>2. channels'[permits[q].channel.slot].gen = channels[permits[q].channel.slot].gen
          /\ (channels[permits[q].channel.slot].alive
                => channels'[permits[q].channel.slot].alive)
          /\ \A u : Holds(channels[permits[q].channel.slot], u)
                      => Holds(channels'[permits[q].channel.slot], u)
      BY <1>3, <1>4, <3>1 DEF c
    <3>3. ASSUME permits[q].channel = h, ~permits[q].consumed
          PROVE  permits[q].token # t
      BY <1>1, <1>2, <3>1, <3>3 DEF PermitOK, s, c
    <3>4. \A r \in Permits \ {q} : \/ permits'[r] = permits[r]
                                     \/ (permits'[r].channel = h /\ permits'[r].token = t)
      BY <1>6
    <3> QED BY <3>1, <3>2, <3>3, <3>4 DEF PermitOK
  <2> QED BY <2>1, <2>2
<1> QED BY <1>2, <1>4, <1>6, <1>7 DEF ChannelInv, TypeOK

\* Sending and aborting free the permit's own token and no other.
LEMMA SettleStep ==
  ASSUME ChannelInv, NEW p \in Permits,
         PermitAbort(p) \/ \E v \in Values : PermitSend(p, v)
  PROVE  ChannelInv'
<1> DEFINE h == permits[p].channel
           s == h.slot
           c == channels[s]
           t == permits[p].token
<1>1. /\ ~permits[p].consumed
      /\ permits' = [permits EXCEPT ![p].consumed = TRUE]
      /\ h \in ChannelHandles /\ s \in ChannelSlots
      /\ permits[p] \in Permit
      /\ passed' \in Values \cup {NoValue}
  BY HandleType DEF PermitAbort, PermitSend, ChannelInv, TypeOK, Permit
<1>2. [permits[p] EXCEPT !.consumed = TRUE] \in Permit
  BY <1>1, Zenon DEF Permit
<1>3. /\ permits' \in [Permits -> Permit]
      /\ permits'[p].consumed
      /\ \A q \in Permits \ {p} : permits'[q] = permits[q]
  BY <1>1, <1>2 DEF ChannelInv, TypeOK, Permit
<1>4. CASE ~Valid(p)
  <2>1. channels' = channels
    BY <1>4 DEF PermitAbort, PermitSend
  <2>2. ASSUME NEW q \in Permits PROVE PermitOK(q)'
    <3>1. PermitOK(q)
      BY DEF ChannelInv
    <3> QED BY <1>3, <2>1, <3>1 DEF PermitOK, Holds
  <2> QED BY <1>1, <1>3, <2>1, <2>2 DEF ChannelInv, TypeOK
<1>5. CASE Valid(p)
  <2>1. SlotOK(c) /\ c.alive /\ c.gen = h.gen /\ Holds(c, t)
    BY <1>1, <1>5 DEF Valid, Resolves, ChannelInv
  <2>2. \/ channels' = [channels EXCEPT ![s] = Released(c, t)]
        \/ \E v \in Values : channels' = [channels EXCEPT ![s] = Sent(Released(c, t), v)]
    BY <1>5 DEF PermitAbort, PermitSend
  <2> DEFINE d == Released(c, t)
  <2> HIDE DEF c, d, t, s, h
  <2>3. SlotOK(d) /\ d.gen = c.gen /\ d.alive = c.alive /\ d.len + d.reserved < d.capacity
        /\ \A u : u # t => (Holds(d, u) <=> Holds(c, u))
    BY <2>1, ReleasedOK DEF d
  <2>4. PICK e : SlotOK(e) /\ e.gen = d.gen /\ e.alive = d.alive /\ e.tokens = d.tokens
                 /\ channels' = [channels EXCEPT ![s] = e]
    BY <2>2, <2>3, SentOK DEF d
  <2>5. /\ \A r \in ChannelSlots : SlotOK(channels'[r])
        /\ channels' \in [ChannelSlots -> ChannelSlot]
        /\ channels'[s] = e /\ \A r \in ChannelSlots \ {s} : channels'[r] = channels[r]
    BY <1>1, <2>4, SlotsKept
  <2>6. ASSUME NEW q \in Permits PROVE PermitOK(q)'
    <3>1. CASE q = p
      BY <1>3, <3>1 DEF PermitOK
    <3>2. CASE q # p
      <4> DEFINE g == permits[q].channel
      <4>1. PermitOK(q) /\ PermitOK(p) /\ g \in ChannelHandles /\ g.slot \in ChannelSlots
            /\ permits'[q] = permits[q]
        BY <1>3, <3>2, HandleType DEF ChannelInv, TypeOK, Permit
      <4>2. channels'[g.slot].gen = channels[g.slot].gen
            /\ (channels[g.slot].alive => channels'[g.slot].alive)
        BY <2>3, <2>4, <2>5, <4>1 DEF c
      <4>3. ASSUME ~permits[q].consumed, g.gen = channels[g.slot].gen
            PROVE  Holds(channels'[g.slot], permits[q].token)
        <5>1. Holds(channels[g.slot], permits[q].token)
          BY <4>1, <4>3 DEF PermitOK
        <5>2. CASE g.slot # s
          BY <2>5, <4>1, <5>1, <5>2
        <5>3. CASE g.slot = s
          <6>1. g = h
            BY <1>1, <2>1, <4>1, <4>3, <5>3 DEF ChannelHandles, c, s
          <6>2. permits[q].token # t
            BY <1>1, <3>2, <4>1, <4>3, <6>1 DEF PermitOK, h, t
          <6>3. Holds(d, permits[q].token)
            BY <2>3, <5>1, <5>3, <6>2 DEF c
          <6> QED BY <2>4, <2>5, <5>3, <6>3 DEF Holds
        <5> QED BY <5>2, <5>3
      <4>4. \A r \in Permits : permits'[r] = permits[r] \/ permits'[r].consumed
        BY <1>3
      <4> QED BY <4>1, <4>2, <4>3, <4>4 DEF PermitOK
    <3> QED BY <3>1, <3>2
  <2> QED BY <1>1, <1>3, <2>5, <2>6 DEF ChannelInv, TypeOK
<1> QED BY <1>4, <1>5

\* A reset outdates every permit still in the producers' hands.
LEMMA ResetStep ==
  ASSUME ChannelInv, Reset
  PROVE  ChannelInv'
<1> DEFINE gen(s) == IF channels[s].alive THEN channels[s].gen + 1 ELSE channels[s].gen
<1>1. \A s \in ChannelSlots : channels'[s] = FreshSlot(gen(s), FALSE, channels[s].capacity)
                               /\ channels'[s].gen = gen(s)
  BY DEF Reset, FreshSlot
<1>2. ASSUME NEW s \in ChannelSlots
      PROVE  gen(s) \in 0 .. MaxGen /\ channels[s].gen \in 0 .. MaxGen
             /\ channels[s].capacity \in 0 .. MaxCapacity
  BY ChannelAssumption DEF Reset, ChannelInv, TypeOK, ChannelSlot
<1> HIDE DEF gen
<1>3. ASSUME NEW s \in ChannelSlots PROVE SlotOK(channels'[s])
  <2>1. SlotOK(FreshSlot(gen(s), FALSE, channels[s].capacity))
    BY <1>2, FreshSlotOK, Zenon
  <2> QED BY <1>1, <2>1
<1>4. channels' \in [ChannelSlots -> ChannelSlot]
  BY <1>3 DEF Reset, SlotOK
<1>5. UNCHANGED <<permits, passed>>
  BY DEF Reset
<1>6. ASSUME NEW p \in Permits PROVE PermitOK(p)'
  <2> DEFINE h == permits[p].channel
  <2>1. PermitOK(p) /\ h \in ChannelHandles /\ h.slot \in ChannelSlots /\ h.gen \in 0 .. MaxGen
    BY HandleType DEF ChannelInv, TypeOK, Permit
  <2>2. channels'[h.slot].gen = gen(h.slot)
    BY <1>1, <2>1
  <2>3. ~permits[p].consumed => h.gen < gen(h.slot)
    BY <1>2, <2>1, ChannelAssumption DEF PermitOK, gen
  <2>4. ~permits[p].consumed => h.gen <= gen(h.slot) /\ h.gen # gen(h.slot)
    BY <1>2, <2>1, <2>3, ChannelAssumption
  <2> QED BY <1>5, <2>2, <2>4 DEF PermitOK
<1> QED BY <1>3, <1>4, <1>5, <1>6 DEF ChannelInv, TypeOK

LEMMA ChannelStep == ChannelInv /\ [Next]_vars => ChannelInv'
<1> SUFFICES ASSUME ChannelInv, [Next]_vars PROVE ChannelInv'
  OBVIOUS
<1>1. CASE Next
  BY <1>1, CreateStep, EndsStep, ReserveStep, SettleStep, ResetStep DEF Next
<1>2. CASE UNCHANGED vars
  <2>1. ASSUME NEW p \in Permits PROVE PermitOK(p)'
    <3>1. PermitOK(p)
      BY DEF ChannelInv
    <3> QED BY <1>2, <3>1 DEF vars, PermitOK, Holds
  <2>2. ASSUME NEW s \in ChannelSlots PROVE SlotOK(channels'[s])
    BY <1>2 DEF vars, ChannelInv
  <2> QED BY <1>2, <2>1, <2>2 DEF vars, ChannelInv, TypeOK
<1> QED BY <1>1, <1>2

LEMMA ChannelInvariant == Spec => []ChannelInv
BY ChannelInit, ChannelStep, PTL DEF Spec

\* Messages and outstanding permits together never exceed the capacity of a channel,
\* and the count of permits is exact, for every capacity and every order of calls.
THEOREM CapacityTheorem == Spec => []CapacityKept
<1>1. ChannelInv => CapacityKept
  BY DEF ChannelInv, SlotOK, CapacityKept
<1> QED BY <1>1, ChannelInvariant, PTL

\* An unused permit of a channel that exists stands for a reservation of its own,
\* however often the tokens wrapped.
THEOREM PermitTheorem == Spec => []PermitsHonoured
<1>1. ChannelInv => PermitsHonoured
  <2> SUFFICES ASSUME ChannelInv, NEW p \in Permits,
                      ~permits[p].consumed, Resolves(permits[p].channel)
               PROVE  /\ Valid(p)
                      /\ \A q \in Permits \ {p} :
                           ~permits[q].consumed /\ permits[q].channel = permits[p].channel =>
                             permits[q].token # permits[p].token
    BY DEF PermitsHonoured
  <2>1. PermitOK(p)
    BY DEF ChannelInv
  <2> QED BY <2>1 DEF PermitOK, Valid, Resolves
<1> QED BY <1>1, ChannelInvariant, PTL

----------------------------------------------------------------------------
(* Refinement: what one slot stands for *)

\* An index that ran past the end of the ring by less than its size wraps once.
LEMMA Wraps ==
  ASSUME NEW size \in Nat \ {0}, NEW hd \in Nat, NEW n \in Nat, hd < size, n < size
  PROVE  (hd + n) % size = IF hd + n < size THEN hd + n ELSE (hd + n) - size
OBVIOUS

\* So cells at different distances from the head are different, and moving the head on by
\* one brings each cell one nearer.
LEMMA WrapsApart ==
  ASSUME NEW size \in Nat \ {0}, NEW hd \in Nat, NEW m \in Nat, NEW n \in Nat,
         hd < size, m < n, n < size
  PROVE  (hd + m) % size # (hd + n) % size
<1>1. m < size
  OBVIOUS
<1>2. (hd + n) % size = IF hd + n < size THEN hd + n ELSE (hd + n) - size
  BY Wraps
<1>3. (hd + m) % size = IF hd + m < size THEN hd + m ELSE (hd + m) - size
  BY <1>1, Wraps
<1> QED BY <1>2, <1>3

LEMMA WrapsOn ==
  ASSUME NEW size \in Nat \ {0}, NEW hd \in Nat, NEW n \in Nat, hd < size, n + 1 < size
  PROVE  (((hd + 1) % size) + n) % size = (hd + (n + 1)) % size
<1>1. PICK x \in Nat : x = (hd + 1) % size /\ x = IF hd + 1 < size THEN hd + 1 ELSE (hd + 1) - size
  <2>1. 1 < size
    OBVIOUS
  <2>2. (hd + 1) % size = IF hd + 1 < size THEN hd + 1 ELSE (hd + 1) - size
    BY <2>1, Wraps
  <2> QED BY <2>2
<1>2. x < size /\ n < size
  BY <1>1
<1>3. (x + n) % size = IF x + n < size THEN x + n ELSE (x + n) - size
  BY <1>2, Wraps
<1>4. (hd + (n + 1)) % size = IF hd + (n + 1) < size THEN hd + (n + 1)
                              ELSE (hd + (n + 1)) - size
  <2>1. n + 1 \in Nat
    OBVIOUS
  <2> QED BY <2>1, Wraps
<1> QED BY <1>1, <1>3, <1>4

Message == Values \cup {NoValue}

\* The ring buffer read from its head is a sequence of messages.
LEMMA QueueSeq ==
  ASSUME NEW c, SlotOK(c)
  PROVE  /\ QueueOf(c) \in Seq(Message) /\ Len(QueueOf(c)) = c.len
         /\ \A n \in 1 .. c.len : QueueOf(c)[n] = c.queue[(c.head + (n - 1)) % c.capacity]
<1>1. /\ c.len \in Nat /\ c.head \in Nat /\ c.capacity \in 0 .. MaxCapacity /\ c.reserved \in Nat
      /\ c.len + c.reserved <= c.capacity /\ c.queue \in [Cells -> Message]
  BY ChannelAssumption DEF SlotOK, ChannelSlot, Cells, Message
<1>2. ASSUME NEW n \in 1 .. c.len
      PROVE  c.queue[(c.head + (n - 1)) % c.capacity] \in Message
  <2>1. c.head + n - 1 \in Nat /\ c.capacity \in Nat \ {0} /\ c.capacity <= MaxCapacity
    BY <1>1, ChannelAssumption
  <2>2. (c.head + n - 1) % c.capacity \in Cells
    BY <2>1, ChannelAssumption DEF Cells
  <2> QED BY <1>1, <2>2
<1>3. QueueOf(c) \in [1 .. c.len -> Message]
      /\ \A n \in 1 .. c.len : QueueOf(c)[n] = c.queue[(c.head + (n - 1)) % c.capacity]
  BY <1>2 DEF QueueOf
<1>4. QueueOf(c) \in Seq(Message)
  BY <1>1, <1>3, SeqDef
<1>5. Len(QueueOf(c)) = c.len
  <2>1. Len(QueueOf(c)) \in Nat /\ 1 .. Len(QueueOf(c)) = 1 .. c.len
    BY <1>3, <1>4, LenProperties
  <2> QED BY <1>1, <2>1
<1> QED BY <1>3, <1>4, <1>5

LEMMA QueueEmpty ==
  ASSUME NEW c, SlotOK(c)
  PROVE  QueueOf(c) = <<>> <=> c.len = 0
<1>1. /\ QueueOf(c) \in Seq(Message) /\ Len(QueueOf(c)) = c.len
      /\ <<>> \in Seq(Message) /\ Len(<<>>) = 0
  BY QueueSeq, EmptySeq
<1>2. CASE c.len = 0
  BY <1>1, <1>2, EmptySeq
<1> QED BY <1>1, <1>2

\* Two slots with the same ring stand for the same messages.
LEMMA QueueSame ==
  ASSUME NEW c, NEW d, d.len = c.len, d.head = c.head, d.queue = c.queue,
         d.capacity = c.capacity
  PROVE  QueueOf(d) = QueueOf(c)
BY DEF QueueOf

\* Writing the cell behind the last message appends to the sequence.
LEMMA QueueAppends ==
  ASSUME NEW c, NEW d, NEW v \in Values, SlotOK(c), SlotOK(d), c.head < c.capacity,
         c.len < c.capacity, d.len = c.len + 1, d.head = c.head, d.capacity = c.capacity,
         d.queue = [c.queue EXCEPT ![WriteCell(c)] = v]
  PROVE  QueueOf(d) = Append(QueueOf(c), v)
<1>1. /\ c.len \in Nat /\ c.head \in Nat /\ c.capacity \in Nat /\ c.capacity <= MaxCapacity
      /\ c.queue \in [Cells -> Message] /\ MaxCapacity \in Nat
  BY ChannelAssumption DEF SlotOK, ChannelSlot, Cells, Message
<1> DEFINE q == QueueOf(c)
           r == QueueOf(d)
           a == Append(QueueOf(c), v)
<1>2. /\ q \in Seq(Message) /\ Len(q) = c.len
      /\ \A n \in 1 .. c.len : q[n] = c.queue[(c.head + (n - 1)) % c.capacity]
  BY QueueSeq
<1>9. /\ r \in Seq(Message) /\ Len(r) = d.len
      /\ \A n \in 1 .. d.len : r[n] = d.queue[(d.head + (n - 1)) % d.capacity]
  BY QueueSeq
<1>3. /\ a \in Seq(Message) /\ Len(a) = c.len + 1 /\ a[c.len + 1] = v
      /\ \A n \in 1 .. c.len : a[n] = q[n]
  BY <1>2, AppendProperties DEF Message
<1> HIDE DEF q, r, a
<1>4. WriteCell(c) \in Cells /\ WriteCell(c) = (c.head + c.len) % c.capacity
  <2>1. (c.head + c.len) % c.capacity \in 0 .. c.capacity - 1
    BY <1>1
  <2> QED BY <1>1, <2>1 DEF WriteCell, Cells
<1>5. d.queue[WriteCell(c)] = v /\ \A x \in Cells \ {WriteCell(c)} : d.queue[x] = c.queue[x]
  BY <1>1, <1>4
<1>6. ASSUME NEW n \in 1 .. c.len + 1 PROVE r[n] = a[n]
  <2>0. r[n] = d.queue[(c.head + (n - 1)) % c.capacity]
    BY <1>9
  <2>1. CASE n = c.len + 1
    <3>1. n - 1 = c.len
      BY <1>1, <2>1
    <3> QED BY <1>3, <1>4, <1>5, <2>0, <2>1, <3>1
  <2>2. CASE n # c.len + 1
    <3>1. n \in 1 .. c.len
      BY <1>1, <2>2
    <3>2. PICK x : x = (c.head + (n - 1)) % c.capacity
      OBVIOUS
    <3>3. n - 1 \in Nat /\ n - 1 < c.len /\ c.capacity \in Nat \ {0}
      BY <1>1, <3>1
    <3>4. x \in Cells
      <4>1. c.head + (n - 1) \in Nat
        BY <1>1, <3>3
      <4>2. x \in 0 .. c.capacity - 1
        BY <3>2, <3>3, <4>1
      <4> QED BY <1>1, <4>2 DEF Cells
    <3>5. x # WriteCell(c)
      <4>1. (c.head + (n - 1)) % c.capacity # (c.head + c.len) % c.capacity
        BY <1>1, <3>3, WrapsApart
      <4> QED BY <1>4, <3>2, <4>1
    <3> QED BY <1>2, <1>3, <1>5, <2>0, <3>1, <3>2, <3>4, <3>5
  <2> QED BY <2>1, <2>2
<1>7. Len(r) = Len(a) /\ 1 .. Len(r) = 1 .. c.len + 1
  BY <1>3, <1>9
<1>8. \A n \in 1 .. Len(r) : r[n] = a[n]
  BY <1>6, <1>7
<1>10. r = a
  BY <1>3, <1>7, <1>8, <1>9, SeqEqual
<1> QED BY <1>10 DEF r, a

\* Moving the head on by one leaves the tail of the sequence.
LEMMA QueueTail ==
  ASSUME NEW c, NEW d, SlotOK(c), SlotOK(d), c.head < c.capacity, c.len > 0,
         d.len = c.len - 1, d.head = (c.head + 1) % c.capacity, d.capacity = c.capacity,
         d.queue = c.queue
  PROVE  QueueOf(d) = Tail(QueueOf(c)) /\ c.queue[c.head] = Head(QueueOf(c))
<1>1. /\ c.len \in Nat \ {0} /\ c.head \in Nat /\ c.capacity \in Nat \ {0}
      /\ c.len <= c.capacity
  <2>1. c.len \in Nat /\ c.head \in Nat /\ c.capacity \in Nat /\ c.reserved \in Nat
    BY ChannelAssumption DEF SlotOK, ChannelSlot, Cells
  <2> QED BY <2>1 DEF SlotOK
<1> DEFINE q == QueueOf(c)
           r == QueueOf(d)
           b == Tail(QueueOf(c))
<1>2. /\ q \in Seq(Message) /\ Len(q) = c.len /\ q # <<>>
      /\ \A n \in 1 .. c.len : q[n] = c.queue[(c.head + (n - 1)) % c.capacity]
  BY <1>1, QueueSeq, QueueEmpty
<1>7. /\ r \in Seq(Message) /\ Len(r) = d.len
      /\ \A n \in 1 .. d.len : r[n] = d.queue[(d.head + (n - 1)) % d.capacity]
  BY QueueSeq
<1>3. /\ b \in Seq(Message) /\ Len(b) = c.len - 1
      /\ \A n \in 1 .. c.len - 1 : b[n] = q[n + 1]
  BY <1>2, HeadTailProperties
<1>4. Head(q) = q[1]
  BY <1>2
<1> HIDE DEF q, r, b
<1>5. ASSUME NEW n \in 1 .. c.len - 1 PROVE r[n] = b[n]
  <2>1. r[n] = c.queue[(((c.head + 1) % c.capacity) + (n - 1)) % c.capacity]
    BY <1>7
  <2>2. n - 1 \in Nat /\ (n - 1) + 1 < c.capacity /\ (n - 1) + 1 = n
    BY <1>1
  <2>3. (((c.head + 1) % c.capacity) + (n - 1)) % c.capacity = (c.head + ((n - 1) + 1)) % c.capacity
    BY <1>1, <2>2, WrapsOn
  <2>4. n + 1 \in 1 .. c.len /\ (n + 1) - 1 = n /\ b[n] = q[n + 1]
    BY <1>1, <1>3
  <2>5. q[n + 1] = c.queue[(c.head + ((n + 1) - 1)) % c.capacity]
    BY <1>2, <2>4
  <2> QED BY <2>1, <2>2, <2>3, <2>4, <2>5
<1>6. q[1] = c.queue[c.head]
  <2>1. 1 \in 1 .. c.len /\ c.head + (1 - 1) = c.head /\ c.head % c.capacity = c.head
    BY <1>1
  <2> QED BY <1>2, <2>1
<1> QED BY <1>3, <1>4, <1>5, <1>6, <1>7, SeqEqual DEF q, r, b

\* The permits granted are the tokens in use.
LEMMA GrantedHolds ==
  ASSUME NEW c, SlotOK(c)
  PROVE  /\ \A u : u \in GrantedOf(c) <=> Holds(c, u)
         /\ GrantedOf(c) \subseteq Tokens
<1>1. c.tokens \in [Cells -> 0 .. TokenMod - 1]
  BY DEF SlotOK, ChannelSlot
<1>2. \A u : u \in GrantedOf(c) <=> Holds(c, u)
  BY DEF GrantedOf, UsedCells, Holds
<1>3. GrantedOf(c) \subseteq Tokens
  BY <1>1, ChannelAssumption DEF GrantedOf, UsedCells, Tokens
<1> QED BY <1>2, <1>3

\* There are no more of them than "reserved" says.
LEMMA GrantedCount ==
  ASSUME NEW c, SlotOK(c)
  PROVE  Cardinality(GrantedOf(c)) \in Nat /\ Cardinality(GrantedOf(c)) <= c.reserved
<1> DEFINE f == [k \in UsedCells(c) |-> c.tokens[k]]
<1>1. f \in Surjection(UsedCells(c), GrantedOf(c))
  BY DEF Surjection, GrantedOf
<1> HIDE DEF f
<1>2. IsFiniteSet(GrantedOf(c)) /\ Cardinality(GrantedOf(c)) <= Cardinality(UsedCells(c))
  BY <1>1, UsedFinite, FS_Surjection
<1> QED BY <1>2, FS_CardinalityType DEF SlotOK

\* A token that is released is in use nowhere any more.
LEMMA GrantedReleased ==
  ASSUME NEW c, SlotOK(c), NEW t, Holds(c, t)
  PROVE  GrantedOf(Released(c, t)) = GrantedOf(c) \ {t}
<1>1. SlotOK(Released(c, t)) /\ \A u : u # t => (Holds(Released(c, t), u) <=> Holds(c, u))
  BY ReleasedOK
<1>2. ~Holds(Released(c, t), t)
  <2>1. c.tokens \in [Cells -> 0 .. TokenMod - 1] /\ c \in ChannelSlot
    BY DEF SlotOK, ChannelSlot
  <2>2. Released(c, t).tokens = Without(c.tokens, t)
    BY <2>1 DEF Released, ChannelSlot
  <2>3. ASSUME NEW k \in Cells, Without(c.tokens, t)[k] = t PROVE FALSE
    <3>1. t # 0
      BY DEF Holds
    <3>2. Without(c.tokens, t)[k] = IF c.tokens[k] = t /\ \A j \in Cells : j < k => c.tokens[j] # t
                                    THEN 0 ELSE c.tokens[k]
      BY DEF Without
    <3>3. c.tokens[k] = t
      BY <2>3, <3>1, <3>2
    <3>4. \A j \in Cells : j < k => c.tokens[j] # t
      <4>1. \A j \in Cells : c.tokens[j] = t => j = k
        BY <3>1, <3>3 DEF SlotOK
      <4> QED BY <4>1, ChannelAssumption DEF Cells
    <3> QED BY <2>3, <3>1, <3>2, <3>3, <3>4
  <2> QED BY <2>2, <2>3 DEF Holds
<1>3. \A u : u \in GrantedOf(Released(c, t)) <=> u \in GrantedOf(c) \ {t}
  BY <1>1, <1>2, GrantedHolds
<1> QED BY <1>3

LEMMA GrantedReserved ==
  ASSUME NEW c, SlotOK(c), HasRoom(c), NEW t \in Tokens, ~Holds(c, t),
         NEW k \in Cells, c.tokens[k] = 0
  PROVE  GrantedOf(Reserved(c, t, k)) = GrantedOf(c) \cup {t}
<1>1. SlotOK(Reserved(c, t, k))
      /\ \A u : Holds(Reserved(c, t, k), u) <=> Holds(c, u) \/ u = t
  BY ReservedOK
<1>2. \A u : u \in GrantedOf(Reserved(c, t, k)) <=> u \in GrantedOf(c) \cup {t}
  BY <1>1, GrantedHolds
<1> QED BY <1>2

LEMMA GrantedSame ==
  ASSUME NEW c, NEW d, d.tokens = c.tokens
  PROVE  GrantedOf(d) = GrantedOf(c)
BY DEF GrantedOf, UsedCells

----------------------------------------------------------------------------
(* Refinement: what one step does *)

Rings == \A s \in ChannelSlots : RingOK(channels[s])

\* The abstract variables, slot by slot.
LEMMA MapsRead ==
  ASSUME NEW s \in ChannelSlots
  PROVE  /\ Capacities[s] = CapacityOf(channels[s]) /\ OpenEnds[s] = EndsOf(channels[s])
         /\ Queues[s] = QueueOf(channels[s]) /\ Grants[s] = GrantedOf(channels[s])
BY DEF Capacities, OpenEnds, Queues, Grants

\* A step that replaces one slot moves each abstract variable in that slot at most.
LEMMA MapsMove ==
  ASSUME ChannelInv, Rings, NEW s \in ChannelSlots, NEW d, RingOK(d),
         channels' = [channels EXCEPT ![s] = d]
  PROVE  /\ Rings'
         /\ Capacities' = [Capacities EXCEPT ![s] = CapacityOf(d)]
         /\ OpenEnds' = [OpenEnds EXCEPT ![s] = EndsOf(d)]
         /\ Queues' = [Queues EXCEPT ![s] = QueueOf(d)]
         /\ Grants' = [Grants EXCEPT ![s] = GrantedOf(d)]
         /\ CapacityOf(d) = CapacityOf(channels[s]) => UNCHANGED Capacities
         /\ EndsOf(d) = EndsOf(channels[s]) => UNCHANGED OpenEnds
         /\ QueueOf(d) = QueueOf(channels[s]) => UNCHANGED Queues
         /\ GrantedOf(d) = GrantedOf(channels[s]) => UNCHANGED Grants
<1>1. channels'[s] = d /\ \A r \in ChannelSlots \ {s} : channels'[r] = channels[r]
  BY DEF ChannelInv, TypeOK
<1>2. Rings'
  BY <1>1 DEF Rings
<1>3. /\ Capacities' = [Capacities EXCEPT ![s] = CapacityOf(d)]
      /\ CapacityOf(d) = CapacityOf(channels[s]) => UNCHANGED Capacities
  <2>1. /\ Capacities = [r \in ChannelSlots |-> CapacityOf(channels[r])]
        /\ Capacities' = [r \in ChannelSlots |-> CapacityOf(channels'[r])]
    BY DEF Capacities
  <2>2. \A r \in ChannelSlots :
          CapacityOf(channels'[r]) = IF r = s THEN CapacityOf(d) ELSE CapacityOf(channels[r])
    BY <1>1
  <2> QED BY <2>1, <2>2
<1>4. /\ OpenEnds' = [OpenEnds EXCEPT ![s] = EndsOf(d)]
      /\ EndsOf(d) = EndsOf(channels[s]) => UNCHANGED OpenEnds
  <2>1. /\ OpenEnds = [r \in ChannelSlots |-> EndsOf(channels[r])]
        /\ OpenEnds' = [r \in ChannelSlots |-> EndsOf(channels'[r])]
    BY DEF OpenEnds
  <2>2. \A r \in ChannelSlots :
          EndsOf(channels'[r]) = IF r = s THEN EndsOf(d) ELSE EndsOf(channels[r])
    BY <1>1
  <2> QED BY <2>1, <2>2
<1>5. /\ Queues' = [Queues EXCEPT ![s] = QueueOf(d)]
      /\ QueueOf(d) = QueueOf(channels[s]) => UNCHANGED Queues
  <2>1. /\ Queues = [r \in ChannelSlots |-> QueueOf(channels[r])]
        /\ Queues' = [r \in ChannelSlots |-> QueueOf(channels'[r])]
    BY DEF Queues
  <2>2. \A r \in ChannelSlots :
          QueueOf(channels'[r]) = IF r = s THEN QueueOf(d) ELSE QueueOf(channels[r])
    BY <1>1
  <2> QED BY <2>1, <2>2
<1>6. /\ Grants' = [Grants EXCEPT ![s] = GrantedOf(d)]
      /\ GrantedOf(d) = GrantedOf(channels[s]) => UNCHANGED Grants
  <2>1. /\ Grants = [r \in ChannelSlots |-> GrantedOf(channels[r])]
        /\ Grants' = [r \in ChannelSlots |-> GrantedOf(channels'[r])]
    BY DEF Grants
  <2>2. \A r \in ChannelSlots :
          GrantedOf(channels'[r]) = IF r = s THEN GrantedOf(d) ELSE GrantedOf(channels[r])
    BY <1>1
  <2> QED BY <2>1, <2>2
<1> QED BY <1>2, <1>3, <1>4, <1>5, <1>6

Stuttered == UNCHANGED <<Capacities, OpenEnds, Queues, Grants, passed>>

LEMMA CreateRefines ==
  ASSUME FifoInv, NEW n \in 1 .. MaxCapacity, Create(n)
  PROVE  Rings' /\ \E s \in ChannelSlots : Abstract!Create(s, n)
<1>1. PICK s \in ChannelSlots : ~channels[s].alive /\ UNCHANGED passed
        /\ channels' = [channels EXCEPT ![s] = FreshSlot(channels[s].gen, TRUE, n)]
  BY DEF Create
<1> DEFINE c == channels[s]
           d == FreshSlot(channels[s].gen, TRUE, n)
<1>2. SlotOK(c) /\ RingOK(c) /\ c.gen \in 0 .. MaxGen /\ n \in 0 .. MaxCapacity /\ n > 0
  BY ChannelAssumption DEF FifoInv, ChannelInv, TypeOK, ChannelSlot
<1>3. SlotOK(d)
  BY <1>2, FreshSlotOK, Zenon
<1>4. d.alive /\ d.capacity = n /\ d.len = 0 /\ d.head = 0 /\ d.state = "Open"
      /\ d.tokens = [k \in Cells |-> 0]
  BY DEF FreshSlot
<1> HIDE DEF c, d
<1>5. c.len = 0 /\ UsedCells(c) = {} /\ UsedCells(d) = {} /\ ~c.alive
  BY <1>1, <1>2, <1>4 DEF RingOK, UsedCells, c
<1>6. CapacityOf(c) = 0 /\ CapacityOf(d) = n
  BY <1>4, <1>5 DEF CapacityOf
<1>7. EndsOf(d) = {"sender", "receiver"}
  BY <1>4 DEF EndsOf, Ends
<1>8. QueueOf(d) = QueueOf(c)
  BY <1>2, <1>3, <1>4, <1>5, QueueEmpty
<1>9. GrantedOf(d) = GrantedOf(c)
  BY <1>5 DEF GrantedOf
<1>10. RingOK(d) /\ channels' = [channels EXCEPT ![s] = d]
  BY <1>1, <1>2, <1>4 DEF RingOK, d
<1>11. /\ Rings' /\ Capacities' = [Capacities EXCEPT ![s] = n]
       /\ OpenEnds' = [OpenEnds EXCEPT ![s] = {"sender", "receiver"}]
       /\ UNCHANGED <<Queues, Grants>>
  <2>1. ChannelInv /\ Rings
    BY DEF FifoInv, Rings
  <2>2. /\ Rings'
        /\ Capacities' = [Capacities EXCEPT ![s] = CapacityOf(d)]
        /\ OpenEnds' = [OpenEnds EXCEPT ![s] = EndsOf(d)]
        /\ QueueOf(d) = QueueOf(channels[s]) => UNCHANGED Queues
        /\ GrantedOf(d) = GrantedOf(channels[s]) => UNCHANGED Grants
    BY <1>10, <2>1, MapsMove
  <2> QED BY <1>6, <1>7, <1>8, <1>9, <2>2 DEF c
<1>12. Abstract!Create(s, n)
  BY <1>1, <1>6, <1>11, MapsRead, Zenon DEF Abstract!Create, c
<1> QED BY <1>11, <1>12

\* The slot a handle resolves to.
LEMMA SlotFacts ==
  ASSUME FifoInv, NEW h \in ChannelHandles, Resolves(h)
  PROVE  /\ h.slot \in ChannelSlots /\ ChannelInv /\ Rings
         /\ SlotOK(channels[h.slot]) /\ channels[h.slot] \in ChannelSlot
         /\ channels[h.slot].alive /\ channels[h.slot].head < channels[h.slot].capacity
         /\ channels[h.slot].capacity > 0
         /\ channels \in [ChannelSlots -> ChannelSlot]
BY HandleType DEF FifoInv, Rings, RingOK, ChannelInv, TypeOK, SlotOK, Resolves

\* The ends open in each state of a channel that exists.
LEMMA EndsByState ==
  ASSUME NEW c, c.alive
  PROVE  /\ c.state = "Open" => EndsOf(c) = {"sender", "receiver"}
         /\ c.state = "SenderClosed" => EndsOf(c) = {"receiver"}
         /\ c.state = "ReceiverClosed" => EndsOf(c) = {"sender"}
         /\ c.state = "FullyClosed" => EndsOf(c) = {}
BY DEF EndsOf, Ends

LEMMA CloseSenderRefines ==
  ASSUME FifoInv, NEW h \in ChannelHandles, CloseSender(h)
  PROVE  Rings' /\ Abstract!CloseSender(h.slot)
<1>1. PICK s \in ChannelSlots : s = h.slot
  BY HandleType
<1> DEFINE c == channels[s]
           st == IF c.state = "Open" THEN "SenderClosed" ELSE "FullyClosed"
           d == [c EXCEPT !.state = st]
<1>2. /\ ChannelInv /\ Rings /\ c \in ChannelSlot /\ c.alive /\ c.head < c.capacity
      /\ channels \in [ChannelSlots -> ChannelSlot]
      /\ c.state \in {"Open", "ReceiverClosed"}
  BY <1>1, SlotFacts DEF CloseSender
<1>3. channels' = [channels EXCEPT ![s] = d] /\ UNCHANGED passed
  BY <1>1, <1>2 DEF CloseSender, ChannelSlot
<1>4. /\ d.alive = c.alive /\ d.capacity = c.capacity /\ d.len = c.len /\ d.head = c.head
      /\ d.queue = c.queue /\ d.tokens = c.tokens /\ d.state = st
  BY <1>2 DEF ChannelSlot
<1> HIDE DEF c, d
<1>5. CapacityOf(d) = CapacityOf(c) /\ QueueOf(d) = QueueOf(c) /\ GrantedOf(d) = GrantedOf(c)
  BY <1>4, QueueSame, GrantedSame DEF CapacityOf
<1>6. "sender" \in EndsOf(c) /\ EndsOf(d) = EndsOf(c) \ {"sender"}
  BY <1>2, <1>4, EndsByState
<1>7. RingOK(d)
  BY <1>2, <1>4 DEF RingOK
<1>8. /\ Rings' /\ OpenEnds' = [OpenEnds EXCEPT ![s] = EndsOf(d)]
      /\ UNCHANGED <<Capacities, Queues, Grants>>
  BY <1>2, <1>3, <1>5, <1>7, MapsMove DEF c
<1>9. OpenEnds[s] = EndsOf(c)
  BY MapsRead DEF c
<1>10. Abstract!CloseSender(s)
  BY <1>3, <1>6, <1>8, <1>9, Zenon DEF Abstract!CloseSender
<1> QED BY <1>1, <1>8, <1>10

LEMMA CloseReceiverRefines ==
  ASSUME FifoInv, NEW h \in ChannelHandles, CloseReceiver(h)
  PROVE  Rings' /\ Abstract!CloseReceiver(h.slot)
<1>1. PICK s \in ChannelSlots : s = h.slot
  BY HandleType
<1> DEFINE c == channels[s]
           st == IF c.state = "Open" THEN "ReceiverClosed" ELSE "FullyClosed"
           d == [c EXCEPT !.state = st, !.len = 0, !.head = 0]
<1>2. /\ ChannelInv /\ Rings /\ c \in ChannelSlot /\ c.alive /\ c.capacity > 0
      /\ channels \in [ChannelSlots -> ChannelSlot]
      /\ c.state \in {"Open", "SenderClosed"}
  BY <1>1, SlotFacts DEF CloseReceiver
<1>3. channels' = [channels EXCEPT ![s] = d] /\ UNCHANGED passed
  BY <1>1, <1>2 DEF CloseReceiver, ChannelSlot
<1>4. /\ d.alive = c.alive /\ d.capacity = c.capacity /\ d.len = 0 /\ d.head = 0
      /\ d.tokens = c.tokens /\ d.state = st
  BY <1>2 DEF ChannelSlot
<1> HIDE DEF c, d
<1>5. CapacityOf(d) = CapacityOf(c) /\ GrantedOf(d) = GrantedOf(c)
  BY <1>4, GrantedSame DEF CapacityOf
<1>6. "receiver" \in EndsOf(c) /\ EndsOf(d) = EndsOf(c) \ {"receiver"}
  BY <1>2, <1>4, EndsByState
<1>7. RingOK(d)
  BY <1>2, <1>4 DEF RingOK
<1>8. QueueOf(d) = <<>>
  <2>1. SlotOK(channels'[s]) /\ channels'[s] = d
    BY <1>2, <1>3, EndsStep DEF ChannelInv
  <2> QED BY <1>4, <2>1, QueueEmpty
<1>9. /\ Rings' /\ OpenEnds' = [OpenEnds EXCEPT ![s] = EndsOf(d)]
      /\ Queues' = [Queues EXCEPT ![s] = QueueOf(d)]
      /\ UNCHANGED <<Capacities, Grants>>
  BY <1>2, <1>3, <1>5, <1>7, MapsMove DEF c
<1>10. OpenEnds[s] = EndsOf(c)
  BY MapsRead DEF c
<1>11. Abstract!CloseReceiver(s)
  BY <1>3, <1>6, <1>8, <1>9, <1>10, Zenon DEF Abstract!CloseReceiver
<1> QED BY <1>1, <1>9, <1>11

LEMMA RecvRefines ==
  ASSUME FifoInv, NEW h \in ChannelHandles, TryRecv(h)
  PROVE  Rings' /\ Abstract!Receive(h.slot)
<1>1. PICK s \in ChannelSlots : s = h.slot
  BY HandleType
<1> DEFINE c == channels[s]
           d == [c EXCEPT !.head = (c.head + 1) % c.capacity, !.len = c.len - 1]
<1>2. /\ ChannelInv /\ Rings /\ c \in ChannelSlot /\ SlotOK(c) /\ c.alive
      /\ c.head < c.capacity /\ c.capacity > 0 /\ c.len > 0
      /\ channels \in [ChannelSlots -> ChannelSlot]
  BY <1>1, SlotFacts DEF TryRecv
<1>3. channels' = [channels EXCEPT ![s] = d] /\ passed' = c.queue[c.head]
  BY <1>1, <1>2 DEF TryRecv, ChannelSlot
<1>4. /\ d.alive = c.alive /\ d.capacity = c.capacity /\ d.len = c.len - 1
      /\ d.head = (c.head + 1) % c.capacity
      /\ d.queue = c.queue /\ d.tokens = c.tokens /\ d.state = c.state
  BY <1>2 DEF ChannelSlot
<1>5. SlotOK(d)
  <2>1. SlotOK(channels'[s]) /\ channels'[s] = d
    BY <1>2, <1>3, EndsStep DEF ChannelInv
  <2> QED BY <2>1
<1> HIDE DEF c, d
<1>6. CapacityOf(d) = CapacityOf(c) /\ GrantedOf(d) = GrantedOf(c) /\ EndsOf(d) = EndsOf(c)
  BY <1>4, GrantedSame DEF CapacityOf, EndsOf, Ends
<1>7. RingOK(d)
  <2>1. c.head \in Nat /\ c.capacity \in Nat \ {0}
    BY <1>2, ChannelAssumption DEF ChannelSlot, Cells
  <2>2. d.head < d.capacity
    BY <1>4, <2>1
  <2> QED BY <1>2, <1>4, <2>2 DEF RingOK
<1>8. QueueOf(d) = Tail(QueueOf(c)) /\ c.queue[c.head] = Head(QueueOf(c))
      /\ QueueOf(c) # <<>>
  BY <1>2, <1>4, <1>5, QueueTail, QueueEmpty
<1>9. /\ Rings' /\ Queues' = [Queues EXCEPT ![s] = QueueOf(d)]
      /\ UNCHANGED <<Capacities, OpenEnds, Grants>>
  BY <1>2, <1>3, <1>6, <1>7, MapsMove DEF c
<1>10. Queues[s] = QueueOf(c)
  BY MapsRead DEF c
<1>11. Abstract!Receive(s)
  BY <1>3, <1>8, <1>9, <1>10, Zenon DEF Abstract!Receive
<1> QED BY <1>1, <1>9, <1>11

\* The instance has its own copy of the definition.
LEMMA SameCardinality == \A S : Abstract!Cardinality(S) = Cardinality(S)
BY DEF Cardinality, Abstract!Cardinality

LEMMA ReserveRefines ==
  ASSUME FifoInv, NEW p \in Permits, NEW h \in ChannelHandles, TryReserve(p, h)
  PROVE  Rings' /\ \E t \in Tokens : Abstract!Grant(h.slot, t)
<1>1. PICK s \in ChannelSlots : s = h.slot
  BY HandleType
<1> DEFINE c == channels[s]
<1>2. /\ ChannelInv /\ Rings /\ c \in ChannelSlot /\ SlotOK(c) /\ c.alive
      /\ c.head < c.capacity /\ c.state = "Open" /\ HasRoom(c)
  BY <1>1, SlotFacts DEF TryReserve
<1>3. PICK t \in Tokens, k \in Cells :
        /\ ~Holds(c, t) /\ c.tokens[k] = 0
        /\ channels' = [channels EXCEPT ![s] = Reserved(c, t, k)]
        /\ UNCHANGED passed
  BY <1>1 DEF TryReserve, Allocated
<1> DEFINE d == Reserved(c, t, k)
<1>4. /\ d.alive = c.alive /\ d.capacity = c.capacity /\ d.len = c.len /\ d.head = c.head
      /\ d.queue = c.queue /\ d.state = c.state
  BY <1>2 DEF ChannelSlot, Reserved
<1>5. GrantedOf(d) = GrantedOf(c) \cup {t}
  <2> HIDE DEF c
  <2> QED BY <1>2, <1>3, GrantedReserved
<1> HIDE DEF c, d
<1>6. CapacityOf(d) = CapacityOf(c) /\ QueueOf(d) = QueueOf(c) /\ EndsOf(d) = EndsOf(c)
  BY <1>4, QueueSame DEF CapacityOf, EndsOf, Ends
<1>7. RingOK(d)
  BY <1>2, <1>4 DEF RingOK
<1>8. channels' = [channels EXCEPT ![s] = d]
  BY <1>3 DEF d
<1>9. /\ Rings' /\ Grants' = [Grants EXCEPT ![s] = GrantedOf(d)]
      /\ UNCHANGED <<Capacities, OpenEnds, Queues>>
  BY <1>2, <1>6, <1>7, <1>8, MapsMove DEF c
<1>10. /\ OpenEnds[s] = {"sender", "receiver"} /\ Capacities[s] = c.capacity
       /\ Queues[s] = QueueOf(c) /\ Grants[s] = GrantedOf(c)
  BY <1>2, MapsRead, EndsByState DEF c, CapacityOf
<1>11. t \notin Grants[s] /\ Len(Queues[s]) + Cardinality(Grants[s]) < Capacities[s]
  <2>1. c.len \in Nat /\ c.reserved \in Nat /\ c.capacity \in Nat
        /\ c.len + c.reserved < c.capacity
    BY <1>2, ChannelAssumption DEF ChannelSlot, HasRoom
  <2>2. /\ Len(QueueOf(c)) = c.len /\ t \notin GrantedOf(c)
        /\ Cardinality(GrantedOf(c)) \in Nat /\ Cardinality(GrantedOf(c)) <= c.reserved
    BY <1>2, <1>3, QueueSeq, GrantedHolds, GrantedCount
  <2> QED BY <1>10, <2>1, <2>2
<1>12. Abstract!Grant(s, t)
  BY <1>3, <1>5, <1>9, <1>10, <1>11, SameCardinality, Zenon DEF Abstract!Grant
<1> QED BY <1>1, <1>9, <1>12

\* A permit that is sent through or aborted leaves the set of those granted; a message
\* reaches the queue unless nobody is there to receive it.
LEMMA SettleRefines ==
  ASSUME FifoInv, NEW p \in Permits, PermitAbort(p) \/ \E v \in Values : PermitSend(p, v)
  PROVE  /\ Rings'
         /\ \/ Stuttered
            \/ \E s \in ChannelSlots, t \in Tokens :
                 Abstract!GiveBack(s, t) \/ \E v \in Values : Abstract!Send(s, t, v)
<1>1. CASE ~Valid(p)
  <2>1. channels' = channels /\ passed' = passed
    BY <1>1 DEF PermitAbort, PermitSend
  <2> QED BY <2>1 DEF FifoInv, Rings, Stuttered, Capacities, OpenEnds, Queues, Grants
<1>2. CASE Valid(p)
  <2>1. PICK h \in ChannelHandles : h = permits[p].channel
    BY DEF FifoInv, ChannelInv, TypeOK, Permit
  <2>2. PICK s \in ChannelSlots : s = h.slot
    BY HandleType
  <2> DEFINE t == permits[p].token
  <2> DEFINE c == channels[s]
             d == Released(c, t)
  <2>3. /\ ChannelInv /\ Rings /\ c \in ChannelSlot /\ SlotOK(c) /\ c.alive
        /\ c.head < c.capacity /\ Holds(c, t)
    BY <1>2, <2>1, <2>2, SlotFacts DEF Valid
  <2>4. /\ d.alive = c.alive /\ d.capacity = c.capacity /\ d.len = c.len /\ d.head = c.head
        /\ d.queue = c.queue /\ d.state = c.state
    BY <2>3 DEF ChannelSlot, Released
  <2> HIDE DEF c, d, t
  <2>5. SlotOK(d) /\ d.len + d.reserved < d.capacity /\ d \in ChannelSlot
        /\ GrantedOf(d) = GrantedOf(c) \ {t} /\ t \in GrantedOf(c) /\ t \in Tokens
    BY <2>3, ReleasedOK, GrantedReleased, GrantedHolds DEF d, SlotOK
  <2>6. CapacityOf(d) = CapacityOf(c) /\ QueueOf(d) = QueueOf(c) /\ EndsOf(d) = EndsOf(c)
    BY <2>4, QueueSame DEF CapacityOf, EndsOf, Ends
  <2>7. /\ Queues[s] = QueueOf(c) /\ Grants[s] = GrantedOf(c) /\ OpenEnds[s] = EndsOf(c)
    BY MapsRead DEF c
  <2>8. ASSUME channels' = [channels EXCEPT ![s] = d], UNCHANGED passed
        PROVE  Rings' /\ Abstract!GiveBack(s, t)
    <3>1. RingOK(d)
      BY <2>3, <2>4 DEF RingOK
    <3>2. /\ Rings' /\ Grants' = [Grants EXCEPT ![s] = GrantedOf(d)]
          /\ UNCHANGED <<Capacities, OpenEnds, Queues>>
      BY <2>3, <2>6, <2>8, <3>1, MapsMove DEF c
    <3> QED BY <2>5, <2>7, <2>8, <3>2, Zenon DEF Abstract!GiveBack
  <2>9. ASSUME NEW v \in Values, channels' = [channels EXCEPT ![s] = Sent(d, v)], passed' = v
        PROVE  Rings' /\ Abstract!Send(s, t, v)
    <3> DEFINE e == Sent(d, v)
    <3>1. SlotOK(e) /\ e.alive = d.alive /\ e.tokens = d.tokens
      BY <2>5, SentOK
    <3>2. e.capacity = d.capacity /\ e.head = d.head /\ e.state = d.state
      BY <2>5 DEF Sent, ChannelSlot
    <3>3. IF c.state \in {"ReceiverClosed", "FullyClosed"} THEN e = d
          ELSE e.len = d.len + 1 /\ e.queue = [d.queue EXCEPT ![WriteCell(d)] = v]
      <4>1. d.len \in Nat /\ d.reserved \in Nat /\ d.capacity \in Nat
        BY <2>5, ChannelAssumption DEF ChannelSlot
      <4>2. ~(d.len >= d.capacity)
        BY <2>5, <4>1
      <4> QED BY <2>4, <2>5, <4>2 DEF Sent, ChannelSlot
    <3>4. d.head < d.capacity /\ d.len < d.capacity
      <4>1. d.len \in Nat /\ d.reserved \in Nat /\ d.capacity \in Nat
        BY <2>5, ChannelAssumption DEF ChannelSlot
      <4> QED BY <2>3, <2>4, <2>5, <4>1
    <3> HIDE DEF e
    <3>5. QueueOf(e) = IF "receiver" \in EndsOf(c) THEN Append(QueueOf(c), v) ELSE QueueOf(c)
      <4>1. c.state \in ChannelStates
        BY <2>3 DEF ChannelSlot
      <4>2. CASE c.state \in {"ReceiverClosed", "FullyClosed"}
        BY <2>3, <2>6, <3>3, <4>2, EndsByState
      <4>3. CASE c.state \in {"Open", "SenderClosed"}
        <5>1. QueueOf(e) = Append(QueueOf(d), v)
          BY <2>5, <3>1, <3>2, <3>3, <3>4, <4>3, QueueAppends
        <5> QED BY <2>3, <2>6, <4>3, <5>1, EndsByState
      <4> QED BY <4>1, <4>2, <4>3 DEF ChannelStates
    <3>6. CapacityOf(e) = CapacityOf(c) /\ EndsOf(e) = EndsOf(c)
          /\ GrantedOf(e) = GrantedOf(c) \ {t}
      BY <2>4, <2>5, <3>1, <3>2, GrantedSame DEF CapacityOf, EndsOf, Ends
    <3>7. RingOK(e) /\ channels' = [channels EXCEPT ![s] = e]
      BY <2>3, <2>4, <2>9, <3>1, <3>2, <3>4 DEF RingOK, e
    <3>8. /\ Rings' /\ Grants' = [Grants EXCEPT ![s] = GrantedOf(e)]
          /\ Queues' = [Queues EXCEPT ![s] = QueueOf(e)]
          /\ UNCHANGED <<Capacities, OpenEnds>>
      BY <2>3, <3>6, <3>7, MapsMove DEF c
    <3> QED BY <2>5, <2>7, <2>9, <3>5, <3>6, <3>8, Zenon DEF Abstract!Send
  <2>10. \/ channels' = [channels EXCEPT ![s] = d] /\ UNCHANGED passed
         \/ \E v \in Values : channels' = [channels EXCEPT ![s] = Sent(d, v)] /\ passed' = v
    BY <1>2, <2>1, <2>2 DEF PermitAbort, PermitSend, c, d, t
  <2> QED BY <2>5, <2>8, <2>9, <2>10
<1> QED BY <1>1, <1>2

LEMMA ResetRefines ==
  ASSUME FifoInv, Reset
  PROVE  Rings' /\ Abstract!Reset
<1>1. /\ channels' = [s \in ChannelSlots |->
                        FreshSlot(IF channels[s].alive THEN channels[s].gen + 1
                                  ELSE channels[s].gen, FALSE, channels[s].capacity)]
      /\ UNCHANGED passed
  BY DEF Reset
<1>2. ASSUME NEW s \in ChannelSlots
      PROVE  LET d == channels'[s]
             IN  /\ RingOK(d) /\ CapacityOf(d) = 0 /\ EndsOf(d) = {} /\ QueueOf(d) = <<>>
                 /\ GrantedOf(d) = {}
  <2>1. PICK d : d = channels'[s]
    OBVIOUS
  <2>2. ~d.alive /\ d.len = 0 /\ d.tokens = [k \in Cells |-> 0]
    BY <1>1, <2>1 DEF FreshSlot
  <2>3. SlotOK(d)
    BY <2>1, ResetStep DEF FifoInv, ChannelInv
  <2>4. UsedCells(d) = {}
    BY <2>2 DEF UsedCells
  <2>5. RingOK(d) /\ CapacityOf(d) = 0 /\ EndsOf(d) = {} /\ GrantedOf(d) = {}
    BY <2>2, <2>4 DEF RingOK, CapacityOf, EndsOf, GrantedOf
  <2>6. QueueOf(d) = <<>>
    BY <2>2, <2>3, QueueEmpty
  <2> QED BY <2>1, <2>5, <2>6
<1>3. Rings'
  BY <1>2 DEF Rings
<1>4. Capacities' = [c \in ChannelSlots |-> 0]
  BY <1>2 DEF Capacities, CapacityOf
<1>5. OpenEnds' = [c \in ChannelSlots |-> {}]
  BY <1>2 DEF OpenEnds, EndsOf
<1>6. Queues' = [c \in ChannelSlots |-> <<>>]
  BY <1>2 DEF Queues
<1>7. Grants' = [c \in ChannelSlots |-> {}]
  BY <1>2 DEF Grants
<1> QED BY <1>1, <1>3, <1>4, <1>5, <1>6, <1>7, Zenon DEF Abstract!Reset

LEMMA FifoInit == Init => Rings /\ Abstract!Init
<1> SUFFICES ASSUME Init PROVE Rings /\ Abstract!Init
  OBVIOUS
<1>1. ChannelInv /\ passed = NoValue
  BY ChannelInit DEF Init
<1>2. ASSUME NEW s \in ChannelSlots
      PROVE  LET c == channels[s]
             IN  /\ RingOK(c) /\ CapacityOf(c) = 0 /\ EndsOf(c) = {} /\ QueueOf(c) = <<>>
                 /\ GrantedOf(c) = {}
  <2>1. PICK c : c = channels[s]
    OBVIOUS
  <2>2. ~c.alive /\ c.len = 0 /\ c.tokens = [k \in Cells |-> 0]
    BY <2>1 DEF Init, FreshSlot
  <2>3. SlotOK(c)
    BY <1>1, <2>1 DEF ChannelInv
  <2>4. UsedCells(c) = {}
    BY <2>2 DEF UsedCells
  <2>5. RingOK(c) /\ CapacityOf(c) = 0 /\ EndsOf(c) = {} /\ GrantedOf(c) = {}
    BY <2>2, <2>4 DEF RingOK, CapacityOf, EndsOf, GrantedOf
  <2>6. QueueOf(c) = <<>>
    BY <2>2, <2>3, QueueEmpty
  <2> QED BY <2>1, <2>5, <2>6
<1>3. Rings
  BY <1>2 DEF Rings
<1>4. /\ Capacities = [s \in ChannelSlots |-> 0] /\ OpenEnds = [s \in ChannelSlots |-> {}]
      /\ Queues = [s \in ChannelSlots |-> <<>>] /\ Grants = [s \in ChannelSlots |-> {}]
  BY <1>2 DEF Capacities, OpenEnds, Queues, Grants
<1> QED BY <1>1, <1>3, <1>4, Zenon DEF Abstract!Init

LEMMA FifoStep ==
  ASSUME FifoInv, [Next]_vars
  PROVE  Rings' /\ (Abstract!Next \/ UNCHANGED Abstract!vars)
<1>1. ASSUME NEW n \in 1 .. MaxCapacity, Create(n) PROVE Rings' /\ Abstract!Next
  BY <1>1, CreateRefines DEF Abstract!Next
<1>2. ASSUME NEW h \in ChannelHandles, CloseSender(h) \/ CloseReceiver(h) \/ TryRecv(h)
      PROVE  Rings' /\ Abstract!Next
  BY <1>2, HandleType, CloseSenderRefines, CloseReceiverRefines, RecvRefines
     DEF Abstract!Next
<1>3. ASSUME NEW h \in ChannelHandles, NEW p \in Permits, TryReserve(p, h)
      PROVE  Rings' /\ Abstract!Next
  BY <1>3, HandleType, ReserveRefines DEF Abstract!Next
<1>4. ASSUME NEW p \in Permits, PermitAbort(p) \/ \E v \in Values : PermitSend(p, v)
      PROVE  Rings' /\ (Abstract!Next \/ UNCHANGED Abstract!vars)
  BY <1>4, SettleRefines DEF Abstract!Next, Abstract!vars, Stuttered
<1>5. CASE Reset
  BY <1>5, ResetRefines DEF Abstract!Next
<1>6. CASE UNCHANGED vars
  BY <1>6 DEF vars, FifoInv, Rings, Abstract!vars, Capacities, OpenEnds, Queues, Grants
<1> QED BY <1>1, <1>2, <1>3, <1>4, <1>5, <1>6 DEF Next

\* The ring buffer with its wrapping tokens implements a bounded FIFO with permits: for
\* every capacity, whatever the order of the calls, a message comes out once and in the
\* order sent, each through a permit granted when there was room (mpsc.c).
THEOREM ChannelImplementsFifo == Spec => ImplementsBoundedFifo
<1>1. ChannelInv /\ Rings /\ [Next]_vars => Rings' /\ [Abstract!Next]_Abstract!vars
  BY FifoStep DEF FifoInv, Rings
<1>2. Init => Rings /\ Abstract!Init
  BY FifoInit
<1> QED BY <1>1, <1>2, ChannelInvariant, PTL DEF Spec, ImplementsBoundedFifo, Abstract!Spec

----------------------------------------------------------------------------
(* The seqlock *)

\* The writer has stored its version in the words from "writing" up, and the sequence is
\* odd exactly while it is at work.
BlockInv ==
  /\ writing = 0 => block.sequence % 2 = 0 /\ \A w \in WordIndex : block.data[w] = Complete
  /\ writing # 0 => block.sequence % 2 = 1 /\ Complete < MaxWrites
  /\ writing # 0 => \A w \in WordIndex :
       block.data[w] = IF w >= writing THEN Complete + 1 ELSE Complete

\* A reader that has copied the words below "word" since it read the even sequence s1.
Copied(q) ==
  /\ q.s1 % 2 = 0 /\ q.s1 <= block.sequence /\ q.since <= q.s1 \div 2
  /\ block.sequence = q.s1 => \A w \in WordIndex : w < q.word => q.copy[w] = q.s1 \div 2

\* A copy of one version.
Whole(q) == \E v \in q.since .. MaxWrites : q.copy = [w \in WordIndex |-> v]

\* What holds of a reader at each place of the loop.  At the loop condition without a
\* retry, and so with an initialized s2, the copy was taken under one sequence.
ReaderInv(q) ==
  /\ q.since <= Complete
  /\ q.pc # "idle" => q.result = 0 /\ q.retries < MaxRetries
  /\ q.pc = "copy" => Copied(q) /\ q.word <= Words
  /\ q.pc = "second" => Copied(q) /\ q.word = Words + 1
  /\ q.pc = "test" /\ q.retries = 0 => Whole(q)
  /\ q.pc = "idle" /\ q.result = 1 => Whole(q)

SeqInv ==
  /\ SeqlockTypeOK
  /\ BlockInv
  /\ \A r \in SeqReaders : ReaderInv(readers[r])

\* The sequences are even and odd numbers, and "Complete" counts the even ones.
LEMMA Halves ==
  ASSUME NEW n \in Nat
  PROVE  /\ n \div 2 \in Nat
         /\ n % 2 \in {0, 1}
         /\ n = 2 * (n \div 2) + (n % 2)
  BY SMT

LEMMA NoReadType == NoRead \in Reader
  BY SeqlockAssumption, SMT DEF NoRead, Reader, Sequences, Versions, WordIndex

\* A record of a reader's locals, field by field.
LEMMA ReaderFields ==
  ASSUME NEW q \in Reader
  PROVE  /\ q.pc \in {"idle", "first", "copy", "second", "test"}
         /\ q.s1 \in Sequences /\ q.s2 \in Sequences /\ q.word \in 1 .. Words + 1
         /\ q.copy \in [WordIndex -> Versions] /\ q.retries \in 0 .. MaxRetries
         /\ q.result \in {0, 1} /\ q.since \in Versions
         /\ q = [pc |-> q.pc, s1 |-> q.s1, s2 |-> q.s2, word |-> q.word, copy |-> q.copy,
                 retries |-> q.retries, result |-> q.result, since |-> q.since]
  BY Zenon DEF Reader

LEMMA SeqlockInitInv == SeqlockInit => SeqInv
<1> SUFFICES ASSUME SeqlockInit PROVE SeqInv
  OBVIOUS
<1>1. SeqlockTypeOK
  BY NoReadType, SeqlockAssumption DEF SeqlockInit, SeqlockTypeOK, Sequences, Versions, WordIndex
<1>2. BlockInv
  BY SMT DEF SeqlockInit, BlockInv, Complete, WordIndex
<1>3. NoRead.since = 0 /\ NoRead.pc = "idle" /\ NoRead.result = 0
  BY Zenon DEF NoRead
<1>4. Complete = 0
  BY SMT DEF SeqlockInit, Complete
<1>5. ASSUME NEW r \in SeqReaders PROVE ReaderInv(readers[r])
  <2>1. readers[r] = NoRead
    BY Zenon DEF SeqlockInit
  <2>2. QED
    BY <1>3, <1>4, <2>1 DEF ReaderInv
<1>6. QED
  BY <1>1, <1>2, <1>5 DEF SeqInv

----------------------------------------------------------------------------
(* The writer: every step moves the sequence on or leaves it odd, and what a *)
(* reader copied under an even one stays what it is.                         *)

\* Sequence and version before a write, during it, and how far a sequence goes.
LEMMA BlockFields ==
  ASSUME SeqInv
  PROVE  /\ block.sequence \in Sequences /\ block.data \in [WordIndex -> Versions]
         /\ block.sequence \in Nat /\ Complete \in Versions
         /\ block.sequence = 2 * Complete + (block.sequence % 2)
         /\ block = [sequence |-> block.sequence, data |-> block.data]
         /\ writing \in 0 .. Words + 1
<1>1. /\ block.sequence \in Sequences /\ block.data \in [WordIndex -> Versions]
      /\ writing \in 0 .. Words + 1
      /\ block = [sequence |-> block.sequence, data |-> block.data]
  BY DEF SeqInv, SeqlockTypeOK
<1>2. block.sequence \in Nat /\ block.sequence <= 2 * MaxWrites
  BY <1>1, SeqlockAssumption DEF Sequences
<1>3. QED
  BY <1>1, <1>2, Halves, SeqlockAssumption, SMT DEF Complete, Versions

\* A reader's part of the invariant survives a step of the writer.
LEMMA WriterKeepsReaders ==
  ASSUME SeqInv, UNCHANGED readers,
         block'.sequence \in Nat, Complete <= Complete', Complete' \in Nat,
         \/ block'.sequence > block.sequence
         \/ block'.sequence = block.sequence /\ block.sequence % 2 = 1
  PROVE  \A r \in SeqReaders : ReaderInv(readers[r])'
<1> SUFFICES ASSUME NEW r \in SeqReaders PROVE ReaderInv(readers[r])'
  OBVIOUS
<1> DEFINE q == readers[r]
<1>1. q \in Reader /\ ReaderInv(q) /\ q' = q
  BY DEF SeqInv, SeqlockTypeOK
<1>2. q.s1 \in Nat /\ q.since \in Nat
  BY <1>1, ReaderFields, SeqlockAssumption DEF Sequences, Versions
<1>3. Complete \in Nat /\ block.sequence \in Nat
  BY BlockFields, SeqlockAssumption DEF Versions
<1>4. Copied(q) => Copied(q)'
  <2>1. SUFFICES ASSUME Copied(q) PROVE Copied(q)'
    OBVIOUS
  <2>2. q.s1 % 2 = 0 /\ q.s1 <= block.sequence /\ q.since <= q.s1 \div 2
    BY <2>1 DEF Copied
  <2>3. q.s1 <= block'.sequence /\ block'.sequence # q.s1
    BY <1>2, <1>3, <2>2, SMT
  <2>4. QED
    BY <1>1, <2>2, <2>3 DEF Copied
<1>5. Whole(q) => Whole(q)'
  BY <1>1 DEF Whole
<1>6. q.since <= Complete'
  BY <1>1, <1>2, <1>3 DEF ReaderInv
<1>7. QED
  BY <1>1, <1>4, <1>5, <1>6 DEF ReaderInv

LEMMA WriteBeginInv ==
  ASSUME SeqInv, WriteBegin
  PROVE  SeqInv'
<1>1. /\ block' = [sequence |-> block.sequence + 1, data |-> block.data]
      /\ writing = 0 /\ writing' = Words + 1 /\ readers' = readers /\ Complete < MaxWrites
  BY BlockFields DEF WriteBegin
<1>2. block.sequence % 2 = 0 /\ \A w \in WordIndex : block.data[w] = Complete
  BY <1>1 DEF SeqInv, BlockInv
<1>3. /\ block'.sequence = 2 * Complete + 1 /\ block'.sequence \in Nat
      /\ block'.sequence > block.sequence /\ Complete \in Nat
  BY <1>1, <1>2, BlockFields, SeqlockAssumption, SMT DEF Versions
<1>4. Complete' = Complete /\ block'.sequence % 2 = 1
  BY <1>3, SMT DEF Complete
<1>5. SeqlockTypeOK'
  <2>1. block'.sequence \in Sequences /\ block'.data \in [WordIndex -> Versions]
    BY <1>1, <1>3, BlockFields, SeqlockAssumption, SMT DEF Sequences
  <2>2. writing' \in 0 .. Words + 1
    BY <1>1, SeqlockAssumption
  <2>3. QED
    BY <1>1, <2>1, <2>2 DEF SeqInv, SeqlockTypeOK
<1>6. BlockInv'
  <2>1. \A w \in WordIndex : ~(w >= Words + 1) /\ block'.data[w] = Complete'
    BY <1>1, <1>2, <1>4, SeqlockAssumption DEF WordIndex
  <2>2. QED
    BY <1>1, <1>4, <2>1, SeqlockAssumption DEF BlockInv
<1>7. \A r \in SeqReaders : ReaderInv(readers[r])'
  BY <1>1, <1>3, <1>4, WriterKeepsReaders
<1>8. QED
  BY <1>5, <1>6, <1>7 DEF SeqInv

LEMMA WriteWordInv ==
  ASSUME SeqInv, WriteWord
  PROVE  SeqInv'
<1> DEFINE w0 == writing - 1
<1>1. /\ block' = [sequence |-> block.sequence,
                   data |-> [block.data EXCEPT ![w0] = Complete + 1]]
      /\ writing > 1 /\ writing' = writing - 1 /\ readers' = readers
  BY BlockFields DEF WriteWord
<1>2. /\ block.sequence % 2 = 1 /\ Complete < MaxWrites
      /\ \A w \in WordIndex : block.data[w] = IF w >= writing THEN Complete + 1 ELSE Complete
  BY <1>1 DEF SeqInv, BlockInv
<1>3. w0 \in WordIndex /\ Complete \in Nat /\ Complete + 1 \in Versions /\ Complete' = Complete
  <2>1. w0 \in WordIndex
    BY <1>1, BlockFields, SeqlockAssumption, SMT DEF WordIndex
  <2>2. Complete \in Nat /\ Complete + 1 \in Versions
    BY <1>2, BlockFields, SeqlockAssumption, SMT DEF Versions
  <2>3. Complete' = Complete
    BY <1>1 DEF Complete
  <2>4. QED
    BY <2>1, <2>2, <2>3
<1>4. block'.data \in [WordIndex -> Versions] /\ block'.sequence = block.sequence
  BY <1>1, <1>3, BlockFields
<1>5. SeqlockTypeOK'
  BY <1>1, <1>4, BlockFields, SeqlockAssumption DEF SeqInv, SeqlockTypeOK
<1>6. BlockInv'
  <2>1. ASSUME NEW w \in WordIndex
        PROVE  block'.data[w] = IF w >= writing' THEN Complete' + 1 ELSE Complete'
    <3>1. CASE w = w0
      BY <1>1, <1>3, <3>1, BlockFields
    <3>2. CASE w # w0
      <4>1. block'.data[w] = block.data[w]
        BY <1>1, <3>2, BlockFields
      <4>2. w >= writing' <=> w >= writing
        BY <1>1, <3>2, BlockFields, SeqlockAssumption DEF WordIndex
      <4>3. QED
        BY <1>2, <1>3, <4>1, <4>2
    <3>3. QED
      BY <3>1, <3>2
  <2>2. writing' # 0
    BY <1>1, BlockFields, SeqlockAssumption
  <2>3. QED
    BY <1>2, <1>3, <1>4, <2>1, <2>2 DEF BlockInv
<1>7. \A r \in SeqReaders : ReaderInv(readers[r])'
  BY <1>1, <1>2, <1>3, <1>4, BlockFields, WriterKeepsReaders
<1>8. QED
  BY <1>5, <1>6, <1>7 DEF SeqInv

LEMMA WriteEndInv ==
  ASSUME SeqInv, WriteEnd
  PROVE  SeqInv'
<1>1. /\ block' = [sequence |-> block.sequence + 1, data |-> block.data]
      /\ writing = 1 /\ writing' = 0 /\ readers' = readers
  BY BlockFields DEF WriteEnd
<1>2. /\ block.sequence % 2 = 1 /\ Complete < MaxWrites
      /\ \A w \in WordIndex : block.data[w] = Complete + 1
  BY <1>1 DEF SeqInv, BlockInv, WordIndex
<1>3. /\ block'.sequence = 2 * (Complete + 1) /\ block'.sequence \in Nat
      /\ block'.sequence > block.sequence /\ Complete \in Nat
  BY <1>1, <1>2, BlockFields, SeqlockAssumption, SMT DEF Versions
<1>4. Complete' = Complete + 1 /\ block'.sequence % 2 = 0
  BY <1>3, SMT DEF Complete
<1>5. SeqlockTypeOK'
  <2>1. block'.sequence \in Sequences /\ block'.data \in [WordIndex -> Versions]
    BY <1>1, <1>2, <1>3, BlockFields, SeqlockAssumption, SMT DEF Sequences
  <2>2. writing' \in 0 .. Words + 1
    BY <1>1, SeqlockAssumption
  <2>3. QED
    BY <1>1, <2>1, <2>2 DEF SeqInv, SeqlockTypeOK
<1>6. BlockInv'
  BY <1>1, <1>2, <1>4 DEF BlockInv
<1>7. \A r \in SeqReaders : ReaderInv(readers[r])'
  BY <1>1, <1>3, <1>4, WriterKeepsReaders
<1>8. QED
  BY <1>5, <1>6, <1>7 DEF SeqInv

----------------------------------------------------------------------------
(* A reader: nothing else moves, so its new locals must be what the place   *)
(* they are at asks for.                                                    *)

LEMMA ReaderMoves ==
  ASSUME SeqInv, NEW r \in SeqReaders, NEW q \in Reader, ReaderInv(q), Becomes(r, q)
  PROVE  SeqInv'
<1>1. /\ readers' = [readers EXCEPT ![r] = q] /\ block' = block /\ writing' = writing
      /\ readers \in [SeqReaders -> Reader]
  BY DEF Becomes, SeqInv, SeqlockTypeOK
<1>2. SeqlockTypeOK'
  BY <1>1 DEF SeqInv, SeqlockTypeOK
<1>3. BlockInv'
  BY <1>1 DEF SeqInv, BlockInv, Complete
<1>4. ASSUME NEW p \in SeqReaders PROVE ReaderInv(readers[p])'
  <2>1. ReaderInv(readers'[p])
    BY <1>1 DEF SeqInv
  <2>2. QED
    BY <1>1, <2>1 DEF ReaderInv, Copied, Whole, Complete
<1>5. QED
  BY <1>2, <1>3, <1>4 DEF SeqInv


LEMMA ReadCallInv ==
  ASSUME SeqInv, NEW r \in SeqReaders, ReadCall(r)
  PROVE  SeqInv'
<1>1. PICK garbage \in Sequences :
        Becomes(r, [NoRead EXCEPT !.pc = "first", !.s2 = garbage, !.since = Complete])
  BY DEF ReadCall
<1> DEFINE q == [NoRead EXCEPT !.pc = "first", !.s2 = garbage, !.since = Complete]
<1>2. Complete \in Versions
  BY BlockFields
<1>3. q \in Reader
  BY <1>2, NoReadType, Zenon DEF Reader
<1>4. q.pc = "first" /\ q.result = 0 /\ q.since = Complete /\ q.retries = 0
  BY Zenon DEF NoRead
<1>5. ReaderInv(q)
  BY <1>2, <1>4, SeqlockAssumption DEF ReaderInv, Versions
<1>6. QED
  BY <1>1, <1>3, <1>5, ReaderMoves

\* Giving up answers 0; a retry leaves a count above 0 behind.
LEMMA RetriedInv ==
  ASSUME NEW q \in Reader, q.pc \in {"first", "second"}, q.result = 0, q.since <= Complete,
         q.retries < MaxRetries
  PROVE  Retried(q, "test") \in Reader /\ ReaderInv(Retried(q, "test"))
<1> DEFINE n == Retried(q, "test")
           gone == [q EXCEPT !.pc = "idle", !.retries = @ + 1, !.result = 0]
           again == [q EXCEPT !.pc = "test", !.retries = @ + 1]
<1>1. q.retries + 1 \in 0 .. MaxRetries /\ q.retries + 1 # 0
  BY ReaderFields, SeqlockAssumption
<1>2. CASE q.retries + 1 >= MaxRetries
  <2>1. n = gone
    BY <1>2, Zenon DEF Retried
  <2>2. gone \in Reader
    BY <1>1, Zenon DEF Reader
  <2>3. gone.pc = "idle" /\ gone.result = 0 /\ gone.since = q.since
    BY Zenon DEF Reader
  <2>4. ReaderInv(gone)
    BY <2>3 DEF ReaderInv
  <2>5. QED
    BY <2>1, <2>2, <2>4
<1>3. CASE ~(q.retries + 1 >= MaxRetries)
  <2>1. n = again
    BY <1>3, Zenon DEF Retried
  <2>2. again \in Reader
    BY <1>1, Zenon DEF Reader
  <2>3. /\ again.pc = "test" /\ again.result = q.result /\ again.since = q.since
        /\ again.retries = q.retries + 1
    BY Zenon DEF Reader
  <2>4. again.retries < MaxRetries
    BY <1>3, <1>1, <2>3, ReaderFields, SeqlockAssumption
  <2>5. ReaderInv(again)
    BY <1>1, <2>3, <2>4 DEF ReaderInv
  <2>6. QED
    BY <2>1, <2>2, <2>5
<1>4. QED
  BY <1>2, <1>3

\* The locals of a reader that is in the loop.
LEMMA InLoop ==
  ASSUME SeqInv, NEW r \in SeqReaders
  PROVE  readers[r] \in Reader /\ ReaderInv(readers[r])
  BY DEF SeqInv, SeqlockTypeOK

LEMMA ReadFirstInv ==
  ASSUME SeqInv, NEW r \in SeqReaders, ReadFirst(r)
  PROVE  SeqInv'
<1> DEFINE q == readers[r]
           locals == [q EXCEPT !.s1 = block.sequence, !.word = 1]
           copying == [locals EXCEPT !.pc = "copy"]
<1>1. /\ q \in Reader /\ q.pc = "first"
      /\ Becomes(r, IF IsOdd(block.sequence) THEN Retried(locals, "test") ELSE copying)
  BY InLoop DEF ReadFirst
<1>2. q.result = 0 /\ q.retries < MaxRetries /\ q.since <= Complete
  BY <1>1, InLoop DEF ReaderInv
<1>3. 1 \in 1 .. Words + 1 /\ block.sequence \in Sequences
  BY BlockFields, SeqlockAssumption
<1>4. locals \in Reader
  BY <1>1, <1>3, Zenon DEF Reader
<1>5. /\ locals.pc = "first" /\ locals.result = q.result /\ locals.since = q.since
      /\ locals.retries = q.retries /\ locals.s1 = block.sequence /\ locals.word = 1
  BY <1>1, Zenon DEF Reader
<1>6. CASE IsOdd(block.sequence)
  BY <1>1, <1>2, <1>4, <1>5, <1>6, RetriedInv, ReaderMoves
<1>7. CASE ~IsOdd(block.sequence)
  <2>1. copying \in Reader
    BY <1>4, Zenon DEF Reader
  <2>2. /\ copying.pc = "copy" /\ copying.result = q.result /\ copying.since = q.since
        /\ copying.retries = q.retries /\ copying.s1 = block.sequence /\ copying.word = 1
    BY <1>4, <1>5, Zenon DEF Reader
  <2>3. block.sequence % 2 = 0
    BY <1>7, Halves, BlockFields DEF IsOdd
  <2>4. Copied(copying)
    BY <1>2, <2>2, <2>3, BlockFields DEF Copied, Complete, WordIndex
  <2>5. ReaderInv(copying)
    BY <1>2, <2>2, <2>4, SeqlockAssumption DEF ReaderInv
  <2>6. QED
    BY <1>1, <1>7, <2>1, <2>5, ReaderMoves
<1>8. QED
  BY <1>6, <1>7

LEMMA ReadWordInv ==
  ASSUME SeqInv, NEW r \in SeqReaders, ReadWord(r)
  PROVE  SeqInv'
<1> DEFINE q == readers[r]
           w == q.word
           copy == [q.copy EXCEPT ![w] = block.data[w]]
           pc == IF w = Words THEN "second" ELSE "copy"
           n == [q EXCEPT !.copy[w] = block.data[w], !.word = w + 1, !.pc = pc]
<1>1. q \in Reader /\ q.pc = "copy" /\ Becomes(r, n)
  BY InLoop DEF ReadWord
<1>2. /\ q.result = 0 /\ q.retries < MaxRetries /\ q.since <= Complete
      /\ Copied(q) /\ w <= Words
  BY <1>1, InLoop DEF ReaderInv
<1>3. /\ w \in WordIndex /\ w + 1 \in 1 .. Words + 1 /\ w \in Nat
      /\ pc \in {"idle", "first", "copy", "second", "test"}
  BY <1>1, <1>2, ReaderFields, SeqlockAssumption DEF WordIndex
<1>4. q.copy \in [WordIndex -> Versions] /\ copy \in [WordIndex -> Versions]
  BY <1>1, <1>3, ReaderFields, BlockFields
<1>5. n \in Reader
  BY <1>1, <1>3, <1>4, Zenon DEF Reader
<1>6. /\ n.pc = pc /\ n.result = q.result /\ n.since = q.since /\ n.retries = q.retries
      /\ n.s1 = q.s1 /\ n.word = w + 1 /\ n.copy = copy
  BY <1>1, Zenon DEF Reader
<1>7. Copied(n)
  <2>1. n.s1 % 2 = 0 /\ n.s1 <= block.sequence /\ n.since <= n.s1 \div 2
    BY <1>2, <1>6 DEF Copied
  <2>2. ASSUME block.sequence = n.s1, NEW v \in WordIndex, v < n.word
        PROVE  n.copy[v] = n.s1 \div 2
    <3>1. block.data[w] = q.s1 \div 2
      BY <1>3, <1>6, <2>1, <2>2, BlockFields DEF SeqInv, BlockInv, Complete
    <3>2. CASE v = w
      BY <1>4, <1>6, <3>1, <3>2
    <3>3. CASE v # w
      <4>1. v < w
        BY <1>3, <1>6, <2>2, <3>3 DEF WordIndex
      <4>2. QED
        BY <1>2, <1>4, <1>6, <2>2, <3>3, <4>1 DEF Copied
    <3>4. QED
      BY <3>2, <3>3
  <2>3. QED
    BY <2>1, <2>2 DEF Copied
<1>8. (n.pc = "second" /\ n.word = Words + 1) \/ (n.pc = "copy" /\ n.word <= Words)
  <2>1. n.pc = (IF w = Words THEN "second" ELSE "copy") /\ n.word = w + 1
    BY <1>6
  <2> HIDE DEF n
  <2>2. w \in Nat /\ w <= Words /\ Words \in Nat
    BY <1>2, <1>3, SeqlockAssumption
  <2>3. QED
    BY <2>1, <2>2, SMT
<1>9. n.result = 0 /\ n.retries < MaxRetries /\ n.since <= Complete
  BY <1>2, <1>6
<1>10. ReaderInv(n)
  <2> HIDE DEF n
  <2>1. QED
    BY <1>7, <1>8, <1>9 DEF ReaderInv
<1>11. QED
  BY <1>1, <1>5, <1>10, ReaderMoves

LEMMA ReadSecondInv ==
  ASSUME SeqInv, NEW r \in SeqReaders, ReadSecond(r)
  PROVE  SeqInv'
<1> DEFINE q == readers[r]
           locals == [q EXCEPT !.s2 = block.sequence]
           tested == [locals EXCEPT !.pc = "test"]
<1>1. /\ q \in Reader /\ q.pc = "second"
      /\ Becomes(r, IF locals.s1 # locals.s2 THEN Retried(locals, "test") ELSE tested)
  BY InLoop DEF ReadSecond
<1>2. /\ q.result = 0 /\ q.retries < MaxRetries /\ q.since <= Complete
      /\ Copied(q) /\ q.word = Words + 1
  BY <1>1, InLoop DEF ReaderInv
<1>3. locals \in Reader
  BY <1>1, BlockFields, Zenon DEF Reader
<1>4. /\ locals.pc = "second" /\ locals.result = q.result /\ locals.since = q.since
      /\ locals.retries = q.retries /\ locals.s1 = q.s1 /\ locals.s2 = block.sequence
      /\ locals.copy = q.copy
  BY <1>1, Zenon DEF Reader
<1>5. CASE locals.s1 # locals.s2
  BY <1>1, <1>2, <1>3, <1>4, <1>5, RetriedInv, ReaderMoves
<1>6. CASE locals.s1 = locals.s2
  <2>1. tested \in Reader
    BY <1>3, Zenon DEF Reader
  <2>2. /\ tested.pc = "test" /\ tested.result = q.result /\ tested.since = q.since
        /\ tested.retries = q.retries /\ tested.copy = q.copy
    BY <1>3, <1>4, Zenon DEF Reader
  <2>3. block.sequence = q.s1
    BY <1>4, <1>6
  <2>4. \A w \in WordIndex : w < q.word /\ q.copy[w] = Complete
    BY <1>2, <2>3, SeqlockAssumption DEF Copied, WordIndex, Complete
  <2>5. Whole(tested)
    <3>1. Complete \in q.since .. MaxWrites
      BY <1>1, <1>2, ReaderFields, BlockFields, SeqlockAssumption DEF Versions
    <3>2. q.copy = [w \in WordIndex |-> Complete]
      BY <1>1, <2>4, ReaderFields
    <3>3. QED
      BY <2>2, <3>1, <3>2 DEF Whole
  <2>6. ReaderInv(tested)
    BY <1>2, <2>2, <2>5 DEF ReaderInv
  <2>7. QED
    BY <1>1, <1>6, <2>1, <2>6, ReaderMoves
<1>7. QED
  BY <1>5, <1>6

\* Without a retry the loop ended in a reading of s2; the garbage of the call is gone.
LEMMA ReadTestInv ==
  ASSUME SeqInv, NEW r \in SeqReaders, ReadTest(r)
  PROVE  SeqInv'
<1> DEFINE q == readers[r]
           answer == IF q.retries = 0 THEN 1 ELSE 0
           again == [q EXCEPT !.pc = "first"]
           gone == [q EXCEPT !.pc = "idle", !.result = answer]
<1>1. q \in Reader /\ q.pc = "test" /\ Becomes(r, IF q.s1 # q.s2 THEN again ELSE gone)
  BY InLoop DEF ReadTest
<1>2. /\ q.result = 0 /\ q.retries < MaxRetries /\ q.since <= Complete
      /\ q.retries = 0 => Whole(q)
  BY <1>1, InLoop DEF ReaderInv
<1>3. CASE q.s1 # q.s2
  <2>1. again \in Reader
    BY <1>1, Zenon DEF Reader
  <2>2. /\ again.pc = "first" /\ again.result = q.result /\ again.since = q.since
        /\ again.retries = q.retries
    BY <1>1, Zenon DEF Reader
  <2>3. ReaderInv(again)
    BY <1>2, <2>2 DEF ReaderInv
  <2>4. QED
    BY <1>1, <1>3, <2>1, <2>3, ReaderMoves
<1>4. CASE q.s1 = q.s2
  <2>1. gone \in Reader
    <3>1. answer \in {0, 1}
      OBVIOUS
    <3>2. QED
      BY <1>1, <3>1, Zenon DEF Reader
  <2>2. gone.pc = "idle" /\ gone.result = answer /\ gone.since = q.since /\ gone.copy = q.copy
    BY <1>1, Zenon DEF Reader
  <2>3. ReaderInv(gone)
    BY <1>2, <2>2 DEF ReaderInv, Whole
  <2>4. QED
    BY <1>1, <1>4, <2>1, <2>3, ReaderMoves
<1>5. QED
  BY <1>3, <1>4

----------------------------------------------------------------------------

LEMMA SeqStepInv == SeqInv /\ [SeqlockNext]_seqlockVars => SeqInv'
<1> SUFFICES ASSUME SeqInv, [SeqlockNext]_seqlockVars PROVE SeqInv'
  OBVIOUS
<1>1. CASE WriteBegin \/ WriteWord \/ WriteEnd
  BY <1>1, WriteBeginInv, WriteWordInv, WriteEndInv
<1>2. ASSUME NEW r \in SeqReaders,
             ReadCall(r) \/ ReadFirst(r) \/ ReadWord(r) \/ ReadSecond(r) \/ ReadTest(r)
      PROVE  SeqInv'
  BY <1>2, ReadCallInv, ReadFirstInv, ReadWordInv, ReadSecondInv, ReadTestInv
<1>3. CASE UNCHANGED seqlockVars
  BY <1>3 DEF seqlockVars, SeqInv, SeqlockTypeOK, BlockInv, ReaderInv, Copied, Whole, Complete
<1>4. QED
  BY <1>1, <1>2, <1>3 DEF SeqlockNext

\* A read that reports 1 has one whole version, no older than its call, although the loop
\* condition may compare with an s2 that was never read (seqlock_ebr_spike.c:187).
THEOREM SeqlockSafe == SeqlockSpec => []AcceptedReadIsWhole
<1>1. SeqInv => AcceptedReadIsWhole
  BY DEF SeqInv, ReaderInv, Whole, AcceptedReadIsWhole
<1>2. QED
  BY SeqlockInitInv, SeqStepInv, <1>1, PTL DEF SeqlockSpec

----------------------------------------------------------------------------
(* Reclamation *)

\* The ring an item waits in, and what a reader that may hold it can still announce.  An
\* item is deferred under the epoch d, whatever stale epoch the reader announces.  Leaving
\* d takes that no reader announces d + 1, leaving d + 1 that none announces d + 2, and
\* the advance that reclaims the ring of d that none announces d.
After(d, e) == IF d + e >= 3 THEN d + e - 3 ELSE d + e

HolderBehind(r, d) ==
  /\ epoch = After(d, 1) => announced[r] # After(d, 1)
  /\ epoch = After(d, 2) => announced[r] # After(d, 1) /\ announced[r] # After(d, 2)

\* The inductive invariant.  NoReclaimUnderReader alone does not say why the third
\* advance finds no holder of the ring it reclaims.
EbrInv ==
  /\ EbrTypeOK
  /\ NoReclaimUnderReader
  /\ linked \cap InDefer = {}
  /\ \A r \in EbrReaders : announced[r] = Inactive => held[r] = {}
  /\ \A r \in EbrReaders : \A d \in Epochs :
       held[r] \cap deferred[d] # {} => HolderBehind(r, d)

\* The modelled arithmetic of epochs is addition modulo 3.
LEMMA ReclaimedIsNext ==
  ASSUME epoch \in Epochs
  PROVE  ReclaimEpoch = After(epoch, 1) /\ (epoch + 1) % 3 = After(epoch, 1)
  BY SMT DEF ReclaimEpoch, After, Epochs

\* In the initial state nothing is deferred and nobody is inside.
LEMMA EbrInitInv == EbrInit => EbrInv
  BY DEF EbrInit, EbrInv, EbrTypeOK, NoReclaimUnderReader, InDefer, Epochs, Inactive, HolderBehind

\* Loading the epoch changes nothing the invariant speaks of.
LEMMA EnterLoadInv ==
  ASSUME EbrInv, NEW r \in EbrReaders, EnterLoad(r)
  PROVE  EbrInv'
<1>1. EbrTypeOK'
  BY DEF EbrInv, EbrTypeOK, EnterLoad, Epochs
<1>2. QED
  BY <1>1 DEF EbrInv, EnterLoad, NoReclaimUnderReader, InDefer, HolderBehind

\* A reader that announces its epoch, however stale, finds only what is linked, and
\* nothing linked is deferred.
LEMMA EnterStoreInv ==
  ASSUME EbrInv, NEW r \in EbrReaders, EnterStore(r)
  PROVE  EbrInv'
<1>1. EbrTypeOK'
  BY DEF EbrInv, EbrTypeOK, EnterStore, Inactive, Epochs
<1>2. /\ epoch' = epoch /\ deferred' = deferred /\ linked' = linked /\ InDefer' = InDefer
      /\ held'[r] = linked
      /\ \A q \in EbrReaders \ {r} : held'[q] = held[q] /\ announced'[q] = announced[q]
      /\ announced'[r] \in Epochs
  BY DEF EbrInv, EbrTypeOK, EnterStore, InDefer, Inactive, Epochs
<1>3. \A d \in Epochs : held'[r] \cap deferred'[d] = {}
  BY <1>2 DEF EbrInv, InDefer
<1>4. announced'[r] # Inactive
  BY <1>2 DEF Epochs, Inactive
<1>5. NoReclaimUnderReader' /\ (linked \cap InDefer = {})'
  BY <1>2 DEF EbrInv, NoReclaimUnderReader
<1>6. \A q \in EbrReaders : announced'[q] = Inactive => held'[q] = {}
  BY <1>2, <1>4 DEF EbrInv, Inactive
<1>7. \A q \in EbrReaders : \A d \in Epochs :
        held'[q] \cap deferred'[d] # {} => HolderBehind(q, d)'
  BY <1>2, <1>3 DEF EbrInv, HolderBehind
<1>8. QED
  BY <1>1, <1>5, <1>6, <1>7 DEF EbrInv, Inactive

\* A reader that leaves holds nothing.
LEMMA LeaveInv ==
  ASSUME EbrInv, NEW r \in EbrReaders, Leave(r)
  PROVE  EbrInv'
<1>1. EbrTypeOK'
  BY DEF EbrInv, EbrTypeOK, Leave, Inactive, Epochs
<1>2. /\ epoch' = epoch /\ deferred' = deferred /\ linked' = linked /\ InDefer' = InDefer
      /\ held'[r] = {}
      /\ \A q \in EbrReaders \ {r} : held'[q] = held[q] /\ announced'[q] = announced[q]
  BY DEF EbrInv, EbrTypeOK, Leave, InDefer
<1>3. QED
  BY <1>1, <1>2 DEF EbrInv, NoReclaimUnderReader, HolderBehind, Inactive

\* An item deferred now waits in the ring of the present epoch, of which the invariant
\* asks nothing.
LEMMA DeferInv ==
  ASSUME EbrInv, NEW x \in Items, Defer(x)
  PROVE  EbrInv'
<1>1. EbrTypeOK'
  BY DEF EbrInv, EbrTypeOK, Defer, Epochs
<1>2. /\ epoch' = epoch /\ announced' = announced /\ held' = held
      /\ linked' = linked \ {x}
      /\ \A d \in Epochs : deferred'[d] = IF d = epoch THEN deferred[d] \cup {x} ELSE deferred[d]
  BY DEF EbrInv, EbrTypeOK, Defer, Epochs
<1>3. InDefer' = InDefer \cup {x}
  BY <1>2 DEF EbrInv, EbrTypeOK, InDefer, Epochs
<1>4. NoReclaimUnderReader' /\ (linked \cap InDefer = {})'
  BY <1>2, <1>3 DEF EbrInv, NoReclaimUnderReader
<1>5. ASSUME NEW q \in EbrReaders, NEW d \in Epochs, held'[q] \cap deferred'[d] # {}
      PROVE  HolderBehind(q, d)'
  <2>1. CASE d = epoch
    BY <1>2, <2>1, SMT DEF EbrInv, EbrTypeOK, HolderBehind, After, Epochs
  <2>2. CASE d # epoch
    BY <1>2, <1>5, <2>2 DEF EbrInv, HolderBehind
  <2>3. QED
    BY <2>1, <2>2
<1>6. QED
  BY <1>1, <1>2, <1>4, <1>5 DEF EbrInv

\* An item linked again is in no ring.
LEMMA LinkInv ==
  ASSUME EbrInv, NEW x \in Items, Link(x)
  PROVE  EbrInv'
<1>1. EbrTypeOK'
  BY DEF EbrInv, EbrTypeOK, Link, Inactive, Epochs
<1>2. /\ epoch' = epoch /\ announced' = announced /\ deferred' = deferred
      /\ InDefer' = InDefer /\ linked' = linked \cup {x} /\ x \notin InDefer
      /\ \A q \in EbrReaders :
           held'[q] = IF announced[q] = Inactive THEN held[q] ELSE held[q] \cup {x}
  BY DEF Link, InDefer
<1>3. NoReclaimUnderReader' /\ (linked \cap InDefer = {})'
  BY <1>2 DEF EbrInv, NoReclaimUnderReader
<1>4. \A q \in EbrReaders : \A d \in Epochs :
        held'[q] \cap deferred'[d] # {} => held[q] \cap deferred[d] # {}
  BY <1>2 DEF InDefer
<1>5. QED
  BY <1>1, <1>2, <1>3, <1>4 DEF EbrInv, HolderBehind, Inactive

\* The epoch advances: the ring behind it has no holder left, and in each other ring the
\* readers that hold something are one step further behind.
LEMMA TryAdvanceInv ==
  ASSUME EbrInv, TryAdvance
  PROVE  EbrInv'
<1> DEFINE n == After(epoch, 1)
<1>1. /\ n \in Epochs /\ n # epoch /\ epoch \in Epochs
      /\ epoch = After(n, 2)
  BY SMT DEF EbrInv, EbrTypeOK, After, Epochs
<1>2. /\ epoch' = n /\ announced' = announced /\ linked' = linked /\ held' = held
      /\ \A d \in Epochs : deferred'[d] = IF d = n THEN {} ELSE deferred[d]
      /\ \A q \in EbrReaders : announced[q] # n
  BY <1>1, ReclaimedIsNext DEF EbrInv, EbrTypeOK, TryAdvance, Quiesced
<1>3. EbrTypeOK'
  BY <1>1, <1>2 DEF EbrInv, EbrTypeOK, TryAdvance
<1>4. \A q \in EbrReaders : held[q] \cap deferred[n] = {}
  <2>1. SUFFICES ASSUME NEW q \in EbrReaders, held[q] \cap deferred[n] # {}
                 PROVE  FALSE
    OBVIOUS
  <2>2. announced[q] # After(n, 1) /\ announced[q] # After(n, 2)
    BY <1>1, <2>1 DEF EbrInv, HolderBehind
  <2>3. announced[q] = Inactive
    BY <1>1, <1>2, <2>2, SMT DEF EbrInv, EbrTypeOK, After, Epochs, Inactive
  <2>4. QED
    BY <2>1, <2>3 DEF EbrInv
<1>5. InDefer' \subseteq InDefer /\ \A x \in InDefer : x \in deferred[n] \/ x \in InDefer'
  BY <1>1, <1>2 DEF InDefer
<1>6. NoReclaimUnderReader' /\ (linked \cap InDefer = {})'
  BY <1>2, <1>4, <1>5 DEF EbrInv, NoReclaimUnderReader
<1>7. ASSUME NEW q \in EbrReaders, NEW d \in Epochs, held'[q] \cap deferred'[d] # {}
      PROVE  HolderBehind(q, d)'
  <2>1. d # n /\ held[q] \cap deferred[d] # {}
    BY <1>2, <1>7
  <2>2. HolderBehind(q, d)
    BY <2>1 DEF EbrInv
  <2>3. announced[q] # n
    BY <1>2
  <2>4. QED
    BY <1>1, <1>2, <2>1, <2>2, <2>3, SMT DEF HolderBehind, After, Epochs
<1>8. QED
  BY <1>2, <1>3, <1>6, <1>7 DEF EbrInv, Inactive

\* Every step keeps the invariant.
LEMMA EbrStepInv == EbrInv /\ [EbrNext]_ebrVars => EbrInv'
<1> SUFFICES ASSUME EbrInv, [EbrNext]_ebrVars PROVE EbrInv'
  OBVIOUS
<1>1. ASSUME NEW r \in EbrReaders, EnterLoad(r) \/ EnterStore(r) \/ Leave(r) PROVE EbrInv'
  BY <1>1, EnterLoadInv, EnterStoreInv, LeaveInv
<1>2. ASSUME NEW x \in Items, Defer(x) \/ Link(x) PROVE EbrInv'
  BY <1>2, DeferInv, LinkInv
<1>3. CASE TryAdvance
  BY <1>3, TryAdvanceInv
<1>4. CASE UNCHANGED ebrVars
  BY <1>4 DEF ebrVars, EbrInv, EbrTypeOK, NoReclaimUnderReader, InDefer, HolderBehind
<1>5. QED
  BY <1>1, <1>2, <1>3, <1>4 DEF EbrNext

\* No item a reader may have found is reclaimed before the reader leaves, although the
\* advance looks at the readers of one epoch out of three (seqlock_ebr_spike.c:377-379)
\* and readers announce epochs that are no longer current.
THEOREM ReclamationSafe == EbrSpec => []NoReclaimUnderReader
<1>1. EbrInv => NoReclaimUnderReader
  BY DEF EbrInv
<1>2. QED
  BY EbrInitInv, EbrStepInv, <1>1, PTL DEF EbrSpec
----------------------------------------------------------------------------
(* The lock-free ring: positions and cells *)

\* next_pow2 and its clamp give no cell, or as many as divide the positions.
LEMMA RoundedUpFits ==
  ASSUME NEW n \in Requests
  PROVE  RoundedUp(n) = 0 \/ (RoundedUp(n) \in 1 .. RingMax /\ PosMod % RoundedUp(n) = 0)
<1> DEFINE powers == {p \in 1 .. RingMax : IsPower(p) /\ p >= n}
<1>1. CASE n > PosMod \div 2
  BY <1>1 DEF RoundedUp
<1>2. CASE ~(n > PosMod \div 2) /\ powers = {}
  <2>1. RoundedUp(n) = RingMax
    BY <1>2 DEF RoundedUp
  <2>2. RingMax \in 1 .. RingMax /\ RingMax \in 1 .. 2 * RingMax
    BY LockFreeAssumption
  <2> QED
    BY <2>1, <2>2, LockFreeAssumption
<1>3. CASE ~(n > PosMod \div 2) /\ powers # {}
  <2>1. powers \subseteq Nat
    OBVIOUS
  <2>2. RoundedUp(n) = CHOOSE p \in powers : \A q \in powers : p <= q
    BY <1>3 DEF RoundedUp
  <2>3. \A p \in powers : p \in 1 .. RingMax /\ p \in 1 .. 2 * RingMax /\ IsPower(p)
    BY LockFreeAssumption
  <2> HIDE DEF powers
  <2>4. PICK p \in powers : \A q \in powers : ~ (<<q, p>> \in OpToRel(<, Nat))
    BY <1>3, <2>1, NatLessThanWellFounded, WFMin
  <2>5. \A q \in powers : p <= q
    <3> SUFFICES ASSUME NEW q \in powers, q < p
                 PROVE  FALSE
      BY <2>1
    <3>1. q \in Nat /\ p \in Nat
      BY <2>1
    <3>2. <<q, p>> \in OpToRel(<, Nat)
      BY <3>1 DEF OpToRel
    <3> QED
      BY <2>4, <3>2
  <2>6. RoundedUp(n) \in powers
    BY <2>2, <2>5
  <2> QED
    BY <2>3, <2>6, LockFreeAssumption
<1> QED
  BY <1>1, <1>2, <1>3

\* The position k places after d.
Pos(d, k) == (d + k) % PosMod

LEMMA PosFacts ==
  ASSUME NEW d \in Positions, NEW k \in 0 .. RingMax
  PROVE  /\ Pos(d, k) \in Positions /\ PosMod \in Nat \ {0} /\ RingMax < PosMod
         /\ Pos(d, k) = IF d + k < PosMod THEN d + k ELSE d + k - PosMod
<1>1. /\ PosMod \in Nat \ {0} /\ RingMax \in Nat /\ RingMax < PosMod /\ d + k \in Nat
      /\ d + k < 2 * PosMod /\ d < PosMod
  BY LockFreeAssumption DEF Positions
<1>2. PICK a \in Nat : a = d + k /\ a < 2 * PosMod
  BY <1>1
<1>3. a % PosMod = IF a < PosMod THEN a ELSE a - PosMod
  BY <1>1, <1>2, ModSmall
<1> QED
  BY <1>1, <1>2, <1>3 DEF Pos, Positions

\* Within a lap positions are one after the other.
LEMMA PosNext ==
  ASSUME NEW d \in Positions, NEW k \in 0 .. RingMax - 1
  PROVE  /\ Pos(d, 0) = d
         /\ (Pos(d, k) + 1) % PosMod = Pos(d, k + 1)
         /\ Pos(Pos(d, 1), k) = Pos(d, k + 1)
<1> USE LockFreeAssumption
<1>1. k + 1 \in 0 .. RingMax /\ 1 \in 0 .. RingMax /\ 0 \in 0 .. RingMax /\ k \in 0 .. RingMax
  OBVIOUS
<1>2. /\ PosMod \in Nat \ {0} /\ RingMax < PosMod /\ d \in Nat /\ d < PosMod
      /\ Pos(d, k) \in Positions /\ Pos(d, 1) \in Positions
      /\ Pos(d, 0) = d
      /\ Pos(d, k) = (IF d + k < PosMod THEN d + k ELSE d + k - PosMod)
      /\ Pos(d, 1) = (IF d + 1 < PosMod THEN d + 1 ELSE d + 1 - PosMod)
      /\ Pos(d, k + 1) = (IF d + (k + 1) < PosMod THEN d + (k + 1) ELSE d + (k + 1) - PosMod)
  BY <1>1, PosFacts DEF Positions
<1>3. /\ Pos(Pos(d, k), 1) =
           (IF Pos(d, k) + 1 < PosMod THEN Pos(d, k) + 1 ELSE Pos(d, k) + 1 - PosMod)
      /\ Pos(Pos(d, 1), k) =
           (IF Pos(d, 1) + k < PosMod THEN Pos(d, 1) + k ELSE Pos(d, 1) + k - PosMod)
  BY <1>1, <1>2, PosFacts
<1>4. Pos(Pos(d, k), 1) = Pos(d, k + 1) /\ Pos(Pos(d, 1), k) = Pos(d, k + 1)
  BY <1>2, <1>3
<1>5. Pos(Pos(d, k), 1) = (Pos(d, k) + 1) % PosMod
  BY DEF Pos
<1> QED
  BY <1>2, <1>4, <1>5

LEMMA DifferenceType ==
  ASSUME NEW a \in Positions, NEW b \in Positions
  PROVE  SignedDiff(a, b) \in Int
<1>1. a \in Int /\ b \in Int /\ PosMod \in Nat \ {0} /\ a - b \in Int
  BY LockFreeAssumption DEF Positions
<1>2. (a - b) % PosMod \in Int
  BY <1>1
<1> QED
  BY <1>1, <1>2 DEF SignedDiff

\* What the signed differences of the code tell apart: a cell that waits for the position,
\* one that waits for the lap before, and one that is not ready.
LEMMA Differences ==
  ASSUME NEW d \in Positions, NEW c \in 2 .. RingMax
  PROVE  /\ \A a \in Positions : SignedDiff(a, a) = 0
         /\ SignedDiff(Pos(d, 1), Pos(d, c)) < 0
         /\ SignedDiff(d, Pos(d, 1)) < 0
<1> USE LockFreeAssumption
<1>1. c \in 0 .. RingMax /\ 1 \in 0 .. RingMax /\ PosMod \in Nat \ {0} /\ 2 * RingMax < PosMod
  OBVIOUS
<1>2. /\ d \in Nat /\ d < PosMod
      /\ Pos(d, 1) = (IF d + 1 < PosMod THEN d + 1 ELSE d + 1 - PosMod)
      /\ Pos(d, c) = (IF d + c < PosMod THEN d + c ELSE d + c - PosMod)
      /\ Pos(d, 1) \in Positions /\ Pos(d, c) \in Positions
  <2>1. d \in Nat /\ d < PosMod
    BY <1>1 DEF Positions
  <2>2. PICK one : one = 1 /\ one \in 0 .. RingMax
    BY <1>1
  <2>3. /\ Pos(d, one) \in Positions
        /\ Pos(d, one) = (IF d + one < PosMod THEN d + one ELSE d + one - PosMod)
    BY <2>2, PosFacts, Zenon
  <2>4. /\ Pos(d, c) \in Positions
        /\ Pos(d, c) = (IF d + c < PosMod THEN d + c ELSE d + c - PosMod)
    BY <1>1, PosFacts, Zenon
  <2> QED
    BY <2>1, <2>2, <2>3, <2>4
<1>3. \A x \in 0 .. PosMod - 1 : x % PosMod = x /\ (x - PosMod) % PosMod = x
  BY <1>1
<1>4. \A a \in Positions : SignedDiff(a, a) = 0
  <2> SUFFICES ASSUME NEW a \in Positions
               PROVE  SignedDiff(a, a) = 0
    OBVIOUS
  <2>1. a - a = 0 /\ 0 % PosMod = 0
    BY <1>1, <1>3 DEF Positions
  <2> QED
    BY <1>1, <2>1 DEF SignedDiff
<1>5. (Pos(d, 1) - Pos(d, c)) % PosMod = PosMod - (c - 1)
  <2>1. \/ Pos(d, 1) - Pos(d, c) = (PosMod - (c - 1)) - PosMod
        \/ Pos(d, 1) - Pos(d, c) = PosMod - (c - 1)
    BY <1>1, <1>2
  <2>2. PosMod - (c - 1) \in 0 .. PosMod - 1
    BY <1>1
  <2> QED
    BY <1>3, <2>1, <2>2
<1>6. (d - Pos(d, 1)) % PosMod = PosMod - 1
  <2>1. \/ d - Pos(d, 1) = (PosMod - 1) - PosMod
        \/ d - Pos(d, 1) = PosMod - 1
    BY <1>1, <1>2
  <2>2. PosMod - 1 \in 0 .. PosMod - 1
    BY <1>1
  <2> QED
    BY <1>3, <2>1, <2>2
<1>7. ~ (PosMod - (c - 1) < PosMod \div 2) /\ ~ (PosMod - 1 < PosMod \div 2)
  BY <1>1
<1> QED
  BY <1>1, <1>4, <1>5, <1>6, <1>7 DEF SignedDiff

\* The cells of a lap are different, and the next lap begins where this one did.
LEMMA LapCells ==
  ASSUME NEW d \in Positions, NEW c \in 2 .. RingMax, PosMod % c = 0
  PROVE  /\ \A k \in 0 .. c : Pos(d, k) % c \in 0 .. c - 1
         /\ \A j, k \in 0 .. c - 1 : j # k => Pos(d, j) % c # Pos(d, k) % c
         /\ Pos(d, c) % c = Pos(d, 0) % c
<1> USE LockFreeAssumption
<1>1. /\ PosMod \in Nat \ {0} /\ c \in Nat \ {0} /\ c < PosMod /\ d \in Nat /\ d < PosMod
  BY DEF Positions
<1>2. ASSUME NEW k \in 0 .. c
      PROVE  Pos(d, k) % c = (d + k) % c /\ (d + k) % c \in 0 .. c - 1
  <2>1. PICK a \in Nat : a = d + k /\ a < 2 * PosMod
    BY <1>1
  <2>2. (a % PosMod) % c = a % c
    <3>1. PosMod % c = 0 /\ a < 2 * PosMod
      BY <2>1
    <3> QED
      BY ONLY <1>1, <3>1, WrapKeepsCell, a \in Nat, Zenon
  <2>3. a % c \in 0 .. c - 1
    BY <1>1, <2>1, ModOf
  <2> QED
    BY <2>1, <2>2, <2>3 DEF Pos
<1>3. ASSUME NEW j \in 0 .. c - 1, NEW k \in 0 .. c - 1, j < k
      PROVE  (d + j) % c # (d + k) % c
  <2>1. PICK a \in Nat : a = d + j
    BY <1>1
  <2>2. PICK b \in Nat : b = d + k
    BY <1>1
  <2>3. a < b /\ b < a + c
    BY <1>1, <1>3, <2>1, <2>2
  <2>4. a % c # b % c
    BY <1>1, <2>3, LapApart, Zenon
  <2> QED
    BY <2>1, <2>2, <2>4
<1>4. \A j, k \in 0 .. c - 1 : j # k => (d + j) % c # (d + k) % c
  BY <1>3
<1>5. (d + c) % c = (d + 0) % c
  <2>1. (d + c) % c = d % c
    BY <1>1, AddLap, Zenon
  <2>2. d + 0 = d
    BY <1>1
  <2> QED
    BY <2>1, <2>2
<1>6. \A k \in 0 .. c - 1 : k \in 0 .. c
  OBVIOUS
<1>7. 0 \in 0 .. c /\ c \in 0 .. c
  OBVIOUS
<1> QED
  BY <1>2, <1>4, <1>5, <1>6, <1>7

----------------------------------------------------------------------------
(* The lock-free ring: its invariant *)

\* The cells with positions by their distance from the dequeue position d: n values of the
\* backlog b are ready, and the rest of the lap is free.
Lap(r, b) ==
  \A k \in 0 .. r.capacity - 1 :
    LET cell == Pos(r.dequeuePos, k) % r.capacity
    IN  IF k < Len(b)
        THEN r.sequence[cell] = Pos(r.dequeuePos, k + 1) /\ r.value[cell] = b[k + 1]
        ELSE r.sequence[cell] = Pos(r.dequeuePos, k)

LEMMA LapMeans ==
  ASSUME RingTypeOK
  PROVE  (\A k \in 0 .. ring.capacity - 1 : CellOK(k)) <=> Lap(ring, backlog)
<1> USE LockFreeAssumption
<1> SUFFICES ASSUME NEW k \in 0 .. ring.capacity - 1
             PROVE  (Pos(ring.dequeuePos, k) + 1) % PosMod = Pos(ring.dequeuePos, k + 1)
  BY DEF CellOK, CellAt, Pos, Lap
<1>1. k \in 0 .. RingMax - 1 /\ ring.dequeuePos \in Positions
  BY DEF RingTypeOK
<1> QED
  BY <1>1, PosNext

\* The invariant, with the cells as Lap has them.
LEMMA LapInvMeans ==
  ASSUME RingTypeOK
  PROVE  LapInv <=> (ring.alive /\ ring.capacity >= 2 =>
           /\ PosMod % ring.capacity = 0
           /\ ring.len = Len(backlog) /\ Len(backlog) <= ring.capacity
           /\ ring.enqueuePos = Pos(ring.dequeuePos, Len(backlog))
           /\ Lap(ring, backlog))
BY LapMeans DEF LapInv, Pos

LEMMA LapInvMeansNext ==
  ASSUME RingTypeOK'
  PROVE  LapInv' <=> (ring'.alive /\ ring'.capacity >= 2 =>
           /\ PosMod % ring'.capacity = 0
           /\ ring'.len = Len(backlog') /\ Len(backlog') <= ring'.capacity
           /\ ring'.enqueuePos = Pos(ring'.dequeuePos, Len(backlog'))
           /\ Lap(ring', backlog'))
<1> USE LockFreeAssumption
<1>1. (\A k \in 0 .. ring'.capacity - 1 : CellOK(k)') <=> Lap(ring', backlog')
  <2> SUFFICES ASSUME NEW k \in 0 .. ring'.capacity - 1
               PROVE  (Pos(ring'.dequeuePos, k) + 1) % PosMod = Pos(ring'.dequeuePos, k + 1)
    BY DEF CellOK, CellAt, Pos, Lap
  <2>1. k \in 0 .. RingMax - 1 /\ ring'.dequeuePos \in Positions
    BY DEF RingTypeOK
  <2> QED
    BY <2>1, PosNext
<1> QED
  BY <1>1 DEF LapInv, Pos

\* What an operation on a queue of two cells or more starts from.
LEMMA RingFacts ==
  ASSUME LapInv, ring.alive, ring.capacity >= 2
  PROVE  /\ ring.capacity \in 2 .. RingMax /\ PosMod % ring.capacity = 0
         /\ ring.dequeuePos \in Positions
         /\ Len(backlog) \in 0 .. ring.capacity /\ backlog \in Seq(Payloads)
         /\ ring.len = Len(backlog)
         /\ ring.enqueuePos = Pos(ring.dequeuePos, Len(backlog))
         /\ Lap(ring, backlog)
<1>1. RingTypeOK
  BY DEF LapInv
<1>2. ring.capacity \in 2 .. RingMax
  BY <1>1, LockFreeAssumption DEF RingTypeOK
<1>3. Len(backlog) \in Nat
  BY <1>1 DEF RingTypeOK
<1> QED
  BY <1>1, <1>2, <1>3, LapInvMeans DEF RingTypeOK

\* A queue of fewer cells keeps to its types.
LEMMA SmallLap ==
  ASSUME RingTypeOK', ring'.capacity < 2
  PROVE  LapInv'
<1>1. ~(ring'.capacity >= 2)
  BY LockFreeAssumption DEF RingTypeOK
<1> QED
  BY <1>1, LapInvMeansNext

LEMMA RingInitLap == RingInit => LapInv
<1> SUFFICES ASSUME RingInit
             PROVE  LapInv
  OBVIOUS
<1>1. 0 \in Positions /\ 0 \in 0 .. RingMax
  BY LockFreeAssumption DEF Positions
<1>2. RingTypeOK
  BY <1>1 DEF RingInit, RingTypeOK
<1> QED
  BY <1>2 DEF RingInit, LapInv

LEMMA QueueInitLap ==
  ASSUME LapInv, NEW n \in Requests, QueueInit(n)
  PROVE  LapInv'
<1> USE LockFreeAssumption
<1> DEFINE cap == RoundedUp(n)
<1>1. /\ cap \in 0 .. RingMax /\ RingMax < PosMod
      /\ cap >= 2 => PosMod % cap = 0 /\ cap \in 2 .. RingMax
  BY RoundedUpFits
<1> HIDE DEF cap
<1>2. ring' = [sequence |-> [k \in RingCells |-> IF k < cap THEN k ELSE 0],
               value |-> [k \in RingCells |-> NoPayload],
               capacity |-> cap, enqueuePos |-> 0, dequeuePos |-> 0, len |-> 0, alive |-> TRUE]
  BY DEF QueueInit, cap
<1>3. backlog' = <<>>
  BY DEF QueueInit
<1>4. 0 \in Positions /\ RingCells \subseteq Positions
  BY <1>1 DEF Positions, RingCells
<1>5. RingTypeOK'
  BY <1>1, <1>2, <1>3, <1>4 DEF RingTypeOK
<1>6. CASE cap < 2
  BY <1>2, <1>5, <1>6, SmallLap
<1>7. CASE cap >= 2
  <2>1. Lap(ring', backlog')
    <3> SUFFICES ASSUME NEW k \in 0 .. cap - 1
                 PROVE  ring'.sequence[Pos(0, k) % cap] = Pos(0, k)
      BY <1>2, <1>3 DEF Lap
    <3>1. k \in 0 .. RingMax /\ k \in RingCells
      BY <1>1, <1>7 DEF RingCells
    <3>2. Pos(0, k) = k
      BY <1>1, <1>4, <3>1, PosFacts
    <3>3. k % cap = k
      <4>1. k = cap * 0 + k /\ k \in Nat /\ cap \in Nat \ {0}
        BY <1>1, <1>7
      <4> QED
        BY <4>1, ModIs
    <3>4. ring'.sequence[k] = k
      BY <1>1, <1>2, <3>1
    <3> QED
      BY <3>2, <3>3, <3>4
  <2>2. Pos(0, 0) = 0
    BY <1>1, <1>4, PosFacts
  <2> QED
    BY <1>1, <1>2, <1>3, <1>5, <1>7, <2>1, <2>2, LapInvMeansNext
<1> QED
  BY <1>1, <1>6, <1>7

LEMMA QueueDestroyLap ==
  ASSUME LapInv, QueueDestroy
  PROVE  LapInv'
<1>1. RingTypeOK /\ 0 \in Positions
  BY LockFreeAssumption DEF LapInv, Positions
<1>2. RingTypeOK'
  <2>1. ring' = [ring EXCEPT !.alive = FALSE, !.len = 0] /\ backlog' = <<>>
    BY DEF QueueDestroy
  <2>2. backlog' \in Seq(Payloads)
    BY <2>1
  <2> QED
    BY <1>1, <2>1, <2>2 DEF RingTypeOK
<1>3. ring'.alive = FALSE
  BY <1>1 DEF QueueDestroy, RingTypeOK
<1> QED
  BY <1>2, <1>3, LapInvMeansNext


LEMMA EnqueueLap ==
  ASSUME LapInv, NEW v \in Payloads, Enqueue(v), ring.capacity >= 2
  PROVE  LapInv'
<1> USE LockFreeAssumption
<1> DEFINE c == ring.capacity
           d == ring.dequeuePos
           n == Len(backlog)
           cell == Pos(d, n) % c
<1>1. RingTypeOK /\ ring.alive
  BY DEF LapInv, Enqueue
<1>2. /\ c \in 2 .. RingMax /\ PosMod % c = 0 /\ d \in Positions /\ n \in 0 .. c
      /\ backlog \in Seq(Payloads) /\ ring.len = n /\ ring.enqueuePos = Pos(d, n)
      /\ Lap(ring, backlog)
  BY <1>1, RingFacts
<1>3. /\ \A k \in 0 .. c : Pos(d, k) % c \in 0 .. c - 1
      /\ \A j, k \in 0 .. c - 1 : j # k => Pos(d, j) % c # Pos(d, k) % c
      /\ Pos(d, c) % c = Pos(d, 0) % c
  BY <1>2, LapCells
<1>4. n < c
  <2> SUFFICES ASSUME n = c
               PROVE  FALSE
    BY <1>2
  <2>1. 0 \in 0 .. c - 1 /\ 0 < n /\ 0 + 1 = 1
    BY <1>2
  <2>2. ring.sequence[Pos(d, 0) % c] = Pos(d, 1)
    BY <1>2, <2>1 DEF Lap
  <2>3. SignedDiff(Pos(d, 1), Pos(d, c)) < 0
    BY <1>2, Differences
  <2>4. SignedDiff(ring.sequence[Pos(d, c) % c], Pos(d, c)) >= 0
    BY <1>2 DEF Enqueue, CellAt
  <2>5. SignedDiff(Pos(d, 1), Pos(d, c)) >= 0
    BY <1>3, <2>2, <2>4
  <2>6. SignedDiff(Pos(d, 1), Pos(d, c)) \in Int
    <3>1. Pos(d, 1) \in Positions /\ Pos(d, c) \in Positions
      BY <1>2, PosFacts
    <3> QED
      BY <3>1, DifferenceType
  <2> QED
    BY <2>3, <2>5, <2>6
<1>5. n \in 0 .. c - 1 /\ n \in 0 .. RingMax - 1 /\ n + 1 \in 0 .. c /\ c \in 0 .. RingMax
  BY <1>2, <1>4
<1>6. ring.sequence[cell] = Pos(d, n)
  BY <1>2, <1>5 DEF Lap
<1>7. /\ Pos(d, n) \in Positions /\ SignedDiff(ring.sequence[cell], Pos(d, n)) = 0
      /\ (Pos(d, n) + 1) % PosMod = Pos(d, n + 1) /\ Pos(d, n + 1) \in Positions
  <2>1. n \in 0 .. RingMax /\ n + 1 \in 0 .. RingMax
    BY <1>5
  <2>2. Pos(d, n) \in Positions /\ Pos(d, n + 1) \in Positions
    BY <1>2, <2>1, PosFacts
  <2>3. (Pos(d, n) + 1) % PosMod = Pos(d, n + 1)
    BY <1>2, <1>5, PosNext
  <2>4. SignedDiff(Pos(d, n), Pos(d, n)) = 0
    BY <1>2, <2>2, Differences
  <2> QED
    BY <1>6, <2>2, <2>3, <2>4
<1>8. (n + 1) % PosMod = n + 1 /\ n + 1 \in Positions
  <2>1. PosMod \in Nat \ {0} /\ n + 1 \in 0 .. PosMod - 1
    BY <1>2, <1>4
  <2> QED
    BY <2>1 DEF Positions
<1>9. /\ ring' = [ring EXCEPT !.enqueuePos = Pos(d, n + 1), !.value[cell] = v,
                             !.sequence[cell] = Pos(d, n + 1), !.len = n + 1]
      /\ backlog' = Append(backlog, v)
  <2>1. /\ ring' = [ring EXCEPT
                      !.enqueuePos = IF SignedDiff(ring.sequence[cell], Pos(d, n)) = 0
                                     THEN (@ + 1) % PosMod ELSE @,
                      !.value[cell] = v, !.sequence[cell] = (Pos(d, n) + 1) % PosMod,
                      !.len = (@ + 1) % PosMod]
        /\ backlog' = Append(backlog, v)
    BY <1>2 DEF Enqueue, CellAt
  <2> HIDE DEF cell, n
  <2> QED
    BY <1>2, <1>7, <1>8, <2>1
<1>10. cell \in 0 .. c - 1 /\ cell \in RingCells
  BY <1>2, <1>3, <1>5 DEF RingCells
<1> HIDE DEF cell
<1>11. /\ ring'.sequence = [ring.sequence EXCEPT ![cell] = Pos(d, n + 1)]
       /\ ring'.value = [ring.value EXCEPT ![cell] = v]
       /\ ring'.capacity = c /\ ring'.enqueuePos = Pos(d, n + 1) /\ ring'.dequeuePos = d
       /\ ring'.len = n + 1 /\ ring'.alive = ring.alive
  BY <1>1, <1>9 DEF RingTypeOK
<1>12. RingTypeOK'
  <2>1. backlog' \in Seq(Payloads)
    BY <1>2, <1>9
  <2>2. ring' \in [sequence : [RingCells -> Positions],
                   value : [RingCells -> Payloads \cup {NoPayload}],
                   capacity : 0 .. RingMax, enqueuePos : Positions, dequeuePos : Positions,
                   len : Positions, alive : BOOLEAN]
    BY <1>1, <1>7, <1>8, <1>9, <1>10 DEF RingTypeOK
  <2> QED
    BY <2>1, <2>2 DEF RingTypeOK
<1>13. Len(backlog') = n + 1 /\ \A k \in 0 .. n : backlog'[k + 1] = IF k = n THEN v ELSE backlog[k + 1]
  BY <1>2, <1>9
<1>14. Lap(ring', backlog')
  <2> SUFFICES ASSUME NEW k \in 0 .. c - 1
               PROVE  IF k < n + 1
                      THEN /\ ring'.sequence[Pos(d, k) % c] = Pos(d, k + 1)
                           /\ ring'.value[Pos(d, k) % c] = backlog'[k + 1]
                      ELSE ring'.sequence[Pos(d, k) % c] = Pos(d, k)
    BY <1>11, <1>13 DEF Lap
  <2>1. Pos(d, k) % c \in RingCells
    <3>1. k \in 0 .. c
      BY <1>2
    <3> QED
      BY <1>2, <1>3, <3>1 DEF RingCells
  <2>2. CASE k = n
    <3>1. Pos(d, k) % c = cell
      BY <2>2 DEF cell
    <3>2. ring'.sequence[cell] = Pos(d, n + 1) /\ ring'.value[cell] = v
      BY <1>1, <1>10, <1>11 DEF RingTypeOK
    <3>3. backlog'[k + 1] = v
      BY <1>5, <1>13, <2>2
    <3> QED
      BY <1>5, <2>2, <3>1, <3>2, <3>3
  <2>3. CASE k # n
    <3>1. Pos(d, k) % c # cell
      BY <1>3, <1>5, <2>3 DEF cell
    <3>2. /\ ring'.sequence[Pos(d, k) % c] = ring.sequence[Pos(d, k) % c]
          /\ ring'.value[Pos(d, k) % c] = ring.value[Pos(d, k) % c]
      BY <1>1, <1>11, <2>1, <3>1 DEF RingTypeOK
    <3>3. IF k < n
          THEN /\ ring.sequence[Pos(d, k) % c] = Pos(d, k + 1)
               /\ ring.value[Pos(d, k) % c] = backlog[k + 1]
          ELSE ring.sequence[Pos(d, k) % c] = Pos(d, k)
      BY <1>2 DEF Lap
    <3>4. k < n + 1 <=> k < n
      BY <1>5, <2>3
    <3>5. k < n => backlog'[k + 1] = backlog[k + 1]
      BY <1>5, <1>13, <2>3
    <3> QED
      BY <3>2, <3>3, <3>4, <3>5
  <2> QED
    BY <2>2, <2>3
<1> QED
  BY <1>2, <1>4, <1>11, <1>12, <1>13, <1>14, LapInvMeansNext

LEMMA DequeueLap ==
  ASSUME LapInv, Dequeue, ring.capacity >= 2
  PROVE  LapInv'
<1> USE LockFreeAssumption
<1> DEFINE c == ring.capacity
           d == ring.dequeuePos
           n == Len(backlog)
           cell == Pos(d, 0) % c
<1>1. RingTypeOK /\ ring.alive
  BY DEF LapInv, Dequeue
<1>2. /\ c \in 2 .. RingMax /\ PosMod % c = 0 /\ d \in Positions /\ n \in 0 .. c
      /\ backlog \in Seq(Payloads) /\ ring.len = n /\ ring.enqueuePos = Pos(d, n)
      /\ Lap(ring, backlog)
  BY <1>1, RingFacts
<1>3. /\ \A k \in 0 .. c : Pos(d, k) % c \in 0 .. c - 1
      /\ \A j, k \in 0 .. c - 1 : j # k => Pos(d, j) % c # Pos(d, k) % c
      /\ Pos(d, c) % c = Pos(d, 0) % c
  BY <1>2, LapCells
<1>4. /\ 0 \in 0 .. RingMax - 1 /\ 1 \in 0 .. RingMax /\ c \in 0 .. RingMax /\ 0 \in 0 .. c - 1
      /\ 0 \in 0 .. c /\ 0 + 1 = 1 /\ c \in Nat
  BY <1>2
<1>5. Pos(d, 0) = d /\ (d + 1) % PosMod = Pos(d, 1) /\ Pos(d, 1) \in Positions
      /\ (d + c) % PosMod = Pos(d, c) /\ Pos(d, c) \in Positions
  <2>1. Pos(d, 0) = d /\ (Pos(d, 0) + 1) % PosMod = Pos(d, 0 + 1)
    BY <1>2, <1>4, PosNext
  <2> QED
    BY <1>2, <1>4, <2>1, PosFacts DEF Pos
<1>6. n > 0
  <2> SUFFICES ASSUME n = 0
               PROVE  FALSE
    BY <1>2
  <2>1. ring.sequence[Pos(d, 0) % c] = Pos(d, 0)
    BY <1>2, <1>4 DEF Lap
  <2>2. SignedDiff(ring.sequence[d % c], Pos(d, 1)) >= 0
    BY <1>5 DEF Dequeue, CellAt
  <2>3. SignedDiff(d, Pos(d, 1)) >= 0
    BY <1>5, <2>1, <2>2
  <2>4. SignedDiff(d, Pos(d, 1)) < 0
    BY <1>2, Differences
  <2>5. SignedDiff(d, Pos(d, 1)) \in Int
    BY <1>2, <1>5, DifferenceType
  <2> QED
    BY <2>3, <2>4, <2>5
<1>7. (n - 1) % PosMod = n - 1 /\ n - 1 \in Positions /\ n - 1 \in 0 .. RingMax - 1
      /\ (n - 1) + 1 = n
  <2>1. PosMod \in Nat \ {0} /\ n - 1 \in 0 .. PosMod - 1
    BY <1>2, <1>6
  <2>2. n - 1 \in 0 .. RingMax - 1 /\ (n - 1) + 1 = n
    BY <1>2, <1>6
  <2> QED
    BY <2>1, <2>2 DEF Positions
<1>8. /\ ring' = [ring EXCEPT !.sequence[cell] = Pos(d, c), !.dequeuePos = Pos(d, 1),
                             !.len = n - 1]
      /\ backlog' = Tail(backlog)
  <2>1. ring' = [ring EXCEPT !.sequence[d % c] = (d + c) % PosMod,
                             !.dequeuePos = (@ + 1) % PosMod, !.len = (@ - 1) % PosMod]
    BY DEF Dequeue, CellAt, Recycled
  <2>2. backlog' = Tail(backlog)
    BY <1>2, <1>6 DEF Dequeue
  <2>3. cell = d % c
    BY <1>5
  <2> HIDE DEF cell, n
  <2> QED
    BY <1>2, <1>5, <1>7, <2>1, <2>2, <2>3
<1>9. cell \in 0 .. c - 1 /\ cell \in RingCells
  BY <1>2, <1>3, <1>4 DEF RingCells
<1> HIDE DEF cell
<1>10. /\ ring'.sequence = [ring.sequence EXCEPT ![cell] = Pos(d, c)]
       /\ ring'.value = ring.value /\ ring'.capacity = c
       /\ ring'.enqueuePos = ring.enqueuePos /\ ring'.dequeuePos = Pos(d, 1)
       /\ ring'.len = n - 1 /\ ring'.alive = ring.alive
  BY <1>1, <1>8 DEF RingTypeOK
<1>11. RingTypeOK'
  <2>1. backlog' \in Seq(Payloads)
    BY <1>2, <1>6, <1>8
  <2>2. ring' \in [sequence : [RingCells -> Positions],
                   value : [RingCells -> Payloads \cup {NoPayload}],
                   capacity : 0 .. RingMax, enqueuePos : Positions, dequeuePos : Positions,
                   len : Positions, alive : BOOLEAN]
    BY <1>1, <1>5, <1>7, <1>8, <1>9 DEF RingTypeOK
  <2> QED
    BY <2>1, <2>2 DEF RingTypeOK
<1>12. Len(backlog') = n - 1 /\ \A k \in 0 .. n - 2 : backlog'[k + 1] = backlog[k + 2]
  <2>1. /\ Len(Tail(backlog)) = Len(backlog) - 1
        /\ \A j \in 1 .. Len(backlog) - 1 : Tail(backlog)[j] = backlog[j + 1]
    BY <1>2, <1>6
  <2>2. \A k \in 0 .. n - 2 : k + 1 \in 1 .. n - 1 /\ (k + 1) + 1 = k + 2
    BY <1>2
  <2> QED BY <1>2, <1>8, <2>1, <2>2
<1>13. Lap(ring', backlog')
  <2> SUFFICES ASSUME NEW k \in 0 .. c - 1
               PROVE  IF k < n - 1
                      THEN /\ ring'.sequence[Pos(d, k + 1) % c] = Pos(d, (k + 1) + 1)
                           /\ ring.value[Pos(d, k + 1) % c] = backlog'[k + 1]
                      ELSE ring'.sequence[Pos(d, k + 1) % c] = Pos(d, k + 1)
    <3>1. \A k \in 0 .. c - 1 : Pos(Pos(d, 1), k) = Pos(d, k + 1)
      <4>1. \A k \in 0 .. c - 1 : k \in 0 .. RingMax - 1
        BY <1>2
      <4> QED
        BY <1>2, <4>1, PosNext
    <3>2. \A k \in 0 .. c - 1 : k < n - 1 =>
            k + 1 \in 0 .. c - 1 /\ Pos(Pos(d, 1), k + 1) = Pos(d, (k + 1) + 1)
      <4>1. \A k \in 0 .. c - 1 : k < n - 1 => k + 1 \in 0 .. c - 1
        BY <1>2
      <4> QED
        BY <3>1, <4>1
    <3> QED
      BY <1>10, <1>12, <3>1, <3>2 DEF Lap
  <2>1. CASE k = c - 1
    <3>1. k + 1 = c /\ ~ (k < n - 1)
      BY <1>2, <2>1
    <3>2. Pos(d, k + 1) % c = cell
      BY <1>3, <3>1 DEF cell
    <3>3. ring'.sequence[cell] = Pos(d, c)
      BY <1>1, <1>9, <1>10 DEF RingTypeOK
    <3> QED
      BY <3>1, <3>2, <3>3
  <2>2. CASE k # c - 1
    <3>1. k + 1 \in 0 .. c - 1 /\ k + 1 # 0 /\ k + 1 \in 0 .. c
      BY <1>2, <2>2
    <3>2. Pos(d, k + 1) % c # cell /\ Pos(d, k + 1) % c \in RingCells
      BY <1>2, <1>3, <1>4, <3>1 DEF cell, RingCells
    <3>3. ring'.sequence[Pos(d, k + 1) % c] = ring.sequence[Pos(d, k + 1) % c]
      BY <1>1, <1>10, <3>2 DEF RingTypeOK
    <3>4. IF k + 1 < n
          THEN /\ ring.sequence[Pos(d, k + 1) % c] = Pos(d, (k + 1) + 1)
               /\ ring.value[Pos(d, k + 1) % c] = backlog[(k + 1) + 1]
          ELSE ring.sequence[Pos(d, k + 1) % c] = Pos(d, k + 1)
      BY <1>2, <3>1 DEF Lap
    <3>5. (k + 1 < n <=> k < n - 1) /\ (k + 1) + 1 = k + 2
      BY <1>2
    <3>6. k < n - 1 => backlog'[k + 1] = backlog[k + 2]
      BY <1>2, <1>12
    <3> QED
      BY <3>3, <3>4, <3>5, <3>6
  <2> QED
    BY <2>1, <2>2
<1>14. Pos(Pos(d, 1), n - 1) = Pos(d, n)
  <2>1. Pos(Pos(d, 1), n - 1) = Pos(d, (n - 1) + 1)
    BY <1>2, <1>7, PosNext
  <2> QED
    BY <1>7, <2>1
<1>15. n - 1 <= c
  BY <1>2
<1> QED
  BY <1>2, <1>10, <1>11, <1>12, <1>13, <1>14, <1>15, LapInvMeansNext

LEMMA LapStutter == LapInv /\ UNCHANGED ringVars => LapInv'
  BY DEF LapInv, RingTypeOK, CellOK, CellAt, ringVars

\* A queue of one cell takes what it is given, and its positions still wrap.
LEMMA OneCellLap ==
  ASSUME LapInv, ring.capacity = 1, Dequeue \/ \E v \in Payloads : Enqueue(v)
  PROVE  LapInv'
<1> USE LockFreeAssumption
<1>1. RingTypeOK
  BY DEF LapInv
<1>2. \A pos \in Positions : CellAt(pos) \in RingCells
  BY DEF CellAt, Positions, RingCells
<1>3. \A n \in Int : n % PosMod \in Positions
  BY DEF Positions
<1>4. /\ ring.dequeuePos + 1 \in Int /\ ring.dequeuePos + ring.capacity \in Int
      /\ ring.enqueuePos + 1 \in Int /\ ring.len + 1 \in Int /\ ring.len - 1 \in Int
      /\ ring.dequeuePos \in Positions /\ ring.enqueuePos \in Positions
  <2>1. /\ ring.dequeuePos \in Positions /\ ring.enqueuePos \in Positions
        /\ ring.len \in Positions /\ ring.capacity = 1
    BY <1>1 DEF RingTypeOK
  <2> QED
    BY <2>1 DEF Positions
<1>5. ASSUME Dequeue
      PROVE  RingTypeOK' /\ ring'.capacity = 1
  <2> DEFINE pos == ring.dequeuePos
             cell == CellAt(pos)
  <2>1. /\ ring' = [ring EXCEPT !.sequence[cell] = Recycled(pos),
                                !.dequeuePos = (@ + 1) % PosMod, !.len = (@ - 1) % PosMod]
        /\ backlog' = IF backlog = <<>> THEN backlog ELSE Tail(backlog)
    BY <1>5 DEF Dequeue
  <2>2. cell \in RingCells /\ Recycled(pos) \in Positions
    BY <1>2, <1>3, <1>4, Zenon DEF Recycled
  <2>3. (ring.dequeuePos + 1) % PosMod \in Positions /\ (ring.len - 1) % PosMod \in Positions
    BY <1>3, <1>4, Zenon
  <2>4. backlog' \in Seq(Payloads)
    BY <1>1, <2>1 DEF RingTypeOK
  <2> HIDE DEF cell, pos
  <2> QED
    BY <1>1, <2>1, <2>2, <2>3, <2>4 DEF RingTypeOK
<1>6. ASSUME NEW v \in Payloads, Enqueue(v)
      PROVE  RingTypeOK' /\ ring'.capacity = 1
  <2> DEFINE pos == ring.enqueuePos
             cell == CellAt(pos)
             next == IF SignedDiff(ring.sequence[cell], pos) = 0 THEN (pos + 1) % PosMod ELSE pos
  <2>1. /\ ring' = [ring EXCEPT !.enqueuePos = next, !.value[cell] = v,
                                !.sequence[cell] = (pos + 1) % PosMod,
                                !.len = (@ + 1) % PosMod]
        /\ backlog' = Append(backlog, v)
    BY <1>1, <1>6 DEF Enqueue, RingTypeOK
  <2>2. cell \in RingCells
    BY <1>1, <1>2 DEF RingTypeOK
  <2>3. (pos + 1) % PosMod \in Positions /\ next \in Positions /\ (ring.len + 1) % PosMod \in Positions
    BY <1>3, <1>4, Zenon
  <2>4. backlog' \in Seq(Payloads)
    BY <1>1, <1>6, <2>1 DEF RingTypeOK
  <2> HIDE DEF cell, pos, next
  <2> QED
    BY <1>1, <1>6, <2>1, <2>2, <2>3, <2>4 DEF RingTypeOK
<1> QED
  BY <1>5, <1>6, SmallLap

LEMMA RingStepLap == LapInv /\ [RingNext]_ringVars => LapInv'
<1> SUFFICES ASSUME LapInv, [RingNext]_ringVars
             PROVE  LapInv'
  OBVIOUS
<1>1. CASE \E n \in Requests : QueueInit(n)
  BY <1>1, QueueInitLap
<1>2. CASE QueueDestroy
  BY <1>2, QueueDestroyLap
<1>3. CASE Dequeue \/ \E v \in Payloads : Enqueue(v)
  <2>1. ring.capacity = 1 \/ ring.capacity >= 2
    <3>1. ring.capacity \in 0 .. RingMax /\ RingMax \in Nat
      BY LockFreeAssumption DEF LapInv, RingTypeOK
    <3>2. ring.capacity > 0
      BY <1>3 DEF Enqueue, Dequeue
    <3> QED
      BY <3>1, <3>2
  <2> QED
    BY <1>3, <2>1, OneCellLap, EnqueueLap, DequeueLap
<1>4. CASE UNCHANGED ringVars
  BY <1>4, LapStutter
<1> QED
  BY <1>1, <1>2, <1>3, <1>4 DEF RingNext

LEMMA LapInvariant == RingSpec => []LapInv
BY RingStepLap, RingInitLap, PTL DEF RingSpec

\* The ring is the queue of what it accepted, across the wrap of the positions and the
\* reuse of cells, for every size of the array and every request: also after requests of one
\* cell, or of so many that the capacity wraps to none, whenever it has two cells or more.
THEOREM RingIsQueue == RingSpec => []RingHoldsBacklog
<1>1. LapInv => RingHoldsBacklog
  <2> SUFFICES ASSUME LapInv, ring.alive, ring.capacity >= 2
               PROVE  RingHoldsBacklog
    BY DEF RingHoldsBacklog
  <2> DEFINE c == ring.capacity
             d == ring.dequeuePos
             n == Len(backlog)
  <2>1. /\ c \in 2 .. RingMax /\ PosMod % c = 0 /\ d \in Positions /\ n \in 0 .. c
        /\ backlog \in Seq(Payloads) /\ ring.len = n /\ ring.enqueuePos = Pos(d, n)
        /\ Lap(ring, backlog)
    BY RingFacts
  <2>2. ASSUME NEW k \in 1 .. n
        PROVE  /\ ring.value[CellAt((d + k - 1) % PosMod)] = backlog[k]
               /\ ring.sequence[CellAt((d + k - 1) % PosMod)] =
                  (((d + k - 1) % PosMod) + 1) % PosMod
    <3>1. PICK j \in 0 .. c - 1 : j = k - 1
      BY <2>1
    <3>2. j < n /\ j + 1 = k /\ j \in 0 .. RingMax - 1
      BY LockFreeAssumption, <2>1, <3>1
    <3>3. ring.sequence[Pos(d, j) % c] = Pos(d, j + 1) /\ ring.value[Pos(d, j) % c] = backlog[j + 1]
      BY <2>1, <3>2 DEF Lap
    <3>4. (Pos(d, j) + 1) % PosMod = Pos(d, j + 1)
      BY <2>1, <3>2, PosNext
    <3>5. (d + k - 1) % PosMod = Pos(d, j)
      <4>1. d \in Nat
        BY <2>1 DEF Positions
      <4>2. d + k - 1 = d + j
        BY <2>1, <3>1, <4>1
      <4> QED
        BY <4>2 DEF Pos
    <3> QED
      BY <3>2, <3>3, <3>4, <3>5 DEF CellAt
  <2>3. CASE n < c
    <3>1. n \in 0 .. c - 1 /\ n \in 0 .. RingMax
      BY LockFreeAssumption, <2>1, <2>3
    <3>2. ring.sequence[Pos(d, n) % c] = Pos(d, n) /\ Pos(d, n) \in Positions
      BY <2>1, <3>1, PosFacts DEF Lap
    <3>3. SignedDiff(Pos(d, n), Pos(d, n)) = 0
      BY <2>1, <3>2, Differences
    <3> QED
      BY <2>1, <2>2, <2>3, <3>2, <3>3 DEF RingHoldsBacklog, CellAt, Pos
  <2>4. CASE n = c
    <3>1. 0 \in 0 .. c - 1 /\ 0 < n /\ 0 + 1 = 1
      BY <2>1, <2>4
    <3>2. ring.sequence[Pos(d, 0) % c] = Pos(d, 1)
      BY <2>1, <3>1 DEF Lap
    <3>3. Pos(d, c) % c = Pos(d, 0) % c
      BY <2>1, LapCells
    <3>4. SignedDiff(Pos(d, 1), Pos(d, c)) < 0
      BY <2>1, Differences
    <3>5. SignedDiff(ring.sequence[CellAt(ring.enqueuePos)], ring.enqueuePos) # 0
      BY <2>1, <2>4, <3>2, <3>3, <3>4 DEF CellAt
    <3> QED
      BY <2>1, <2>2, <2>4, <3>5 DEF RingHoldsBacklog, Pos
  <2> QED
    BY <2>1, <2>3, <2>4
<1> QED
  BY <1>1, LapInvariant, PTL

----------------------------------------------------------------------------
(* The channel and the structures beside it *)

LEMMA SharedInvariant == SharedSpec => [](ChannelInv /\ LapInv /\ SeqInv /\ EbrInv)
<1> DEFINE Inv == ChannelInv /\ LapInv /\ SeqInv /\ EbrInv
           shared == <<vars, ringVars, seqlockVars, ebrVars, subject>>
<1>1. SharedInit => Inv
  BY ChannelInit, RingInitLap, SeqlockInitInv, EbrInitInv DEF SharedInit
<1>2. Inv /\ [SharedNext]_shared => Inv'
  <2>1. ChannelInv /\ [Next]_vars => ChannelInv'
    BY ChannelStep
  <2>2. LapInv /\ [RingNext]_ringVars => LapInv'
    BY RingStepLap
  <2>3. [SharedNext]_shared =>
          [Next]_vars /\ [RingNext]_ringVars /\ [SeqlockNext]_seqlockVars /\ [EbrNext]_ebrVars
    BY DEF SharedNext
  <2> QED
    BY <2>1, <2>2, <2>3, SeqStepInv, EbrStepInv
<1> QED
  BY <1>1, <1>2, PTL DEF SharedSpec

\* Tokens, positions and epochs wrap, ends and readers come and go, and every variable of
\* the channel, the lock-free ring, the seqlock and the epochs stays in its range.
THEOREM SharedTypes == SharedSpec => []SharedTypeOK
<1>1. ChannelInv /\ LapInv /\ SeqInv /\ EbrInv => SharedTypeOK
  BY DEF ChannelInv, LapInv, SeqInv, EbrInv, SharedTypeOK
<1> QED
  BY <1>1, SharedInvariant, PTL

====
