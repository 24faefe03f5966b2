---- MODULE Channel ----
(***************************************************************************)
(* src/channel/mpsc.c: the bounded two-phase channel.  A producer reserves *)
(* capacity and gets a permit, which it later sends through or aborts,     *)
(* whatever was closed meanwhile; the consumer takes messages from a ring  *)
(* buffer.  The runtime is single-threaded: each call is one step, and     *)
(* what interleaves is the order in which producers and consumer call.     *)
(*                                                                         *)
(* A call the code rejects without changing anything is left out.  That    *)
(* the region of a new channel is open is the caller's business: the       *)
(* channel records it and never looks at it again.                         *)
(***************************************************************************)
EXTENDS Naturals, FiniteSets

CONSTANTS
  MaxChannels,   \* ASX_MAX_CHANNELS
  MaxCapacity,   \* ASX_CHANNEL_MAX_CAPACITY
  TokenMod,      \* 2^32: permit tokens are uint32_t, and 0 is no token
  MaxGen,        \* bound on the resets of a slot: generations do not wrap here
  Permits,       \* the asx_send_permit structures of the producers
  Values,        \* the messages sent
  NoValue        \* what a cell of the ring buffer holds before its first message

ChannelSlots == 0 .. MaxChannels - 1
Cells == 0 .. MaxCapacity - 1
Tokens == 1 .. TokenMod - 1
ChannelHandles == [slot : ChannelSlots, gen : 0 .. MaxGen]

ASSUME ChannelAssumption ==
  /\ MaxChannels \in Nat \ {0} /\ MaxCapacity \in Nat \ {0} /\ MaxGen \in Nat
  /\ TokenMod \in Nat /\ TokenMod > MaxCapacity + 1
  /\ NoValue \notin Values

VARIABLES
  channels,      \* g_channels
  permits,       \* the producers' permit structures
  passed         \* the value a send took or a receive returned last
vars == <<channels, permits, passed>>

ChannelStates == {"Open", "SenderClosed", "ReceiverClosed", "FullyClosed"}

ChannelSlot ==
  [state : ChannelStates, gen : 0 .. MaxGen, alive : BOOLEAN, capacity : 0 .. MaxCapacity,
   queue : [Cells -> Values \cup {NoValue}], head : Cells, len : 0 .. MaxCapacity,
   reserved : 0 .. MaxCapacity, nextToken : Tokens, tokens : [Cells -> 0 .. TokenMod - 1]]

Permit == [channel : ChannelHandles, token : 0 .. TokenMod - 1, consumed : BOOLEAN]

TypeOK ==
  /\ channels \in [ChannelSlots -> ChannelSlot]
  /\ permits \in [Permits -> Permit]
  /\ passed \in Values \cup {NoValue}

----------------------------------------------------------------------------
FreshSlot(gen, alive, capacity) ==
  [state |-> "Open", gen |-> gen, alive |-> alive, capacity |-> capacity,
   queue |-> [k \in Cells |-> NoValue], head |-> 0, len |-> 0, reserved |-> 0,
   nextToken |-> 1, tokens |-> [k \in Cells |-> 0]]

\* A permit structure that holds nothing.
SpentPermit == [channel |-> [slot |-> 0, gen |-> 0], token |-> 0, consumed |-> TRUE]

Init ==
  /\ channels = [s \in ChannelSlots |-> FreshSlot(0, FALSE, 0)]
  /\ permits = [p \in Permits |-> SpentPermit]
  /\ passed = NoValue

\* channel_slot_lookup
Resolves(h) == channels[h.slot].alive /\ channels[h.slot].gen = h.gen

\* asx_channel_create takes the first slot not alive.
Create(n) ==
  \E s \in ChannelSlots :
    /\ ~channels[s].alive
    /\ \A r \in ChannelSlots : r < s => channels[r].alive
    /\ channels' = [channels EXCEPT ![s] = FreshSlot(@.gen, TRUE, n)]
    /\ UNCHANGED <<permits, passed>>

CloseSender(h) ==
  /\ Resolves(h)
  /\ channels[h.slot].state \in {"Open", "ReceiverClosed"}
  /\ channels' = [channels EXCEPT ![h.slot].state =
                    IF @ = "Open" THEN "SenderClosed" ELSE "FullyClosed"]
  /\ UNCHANGED <<permits, passed>>

\* Discards the messages and leaves the permits.
CloseReceiver(h) ==
  /\ Resolves(h)
  /\ channels[h.slot].state \in {"Open", "SenderClosed"}
  /\ channels' = [channels EXCEPT
                    ![h.slot].state = IF @ = "Open" THEN "ReceiverClosed" ELSE "FullyClosed",
                    ![h.slot].len = 0, ![h.slot].head = 0]
  /\ UNCHANGED <<permits, passed>>

----------------------------------------------------------------------------
(* Reserving *)

\* channel_token_find
Holds(c, token) == token # 0 /\ \E k \in Cells : c.tokens[k] = token

NextToken_NoWrap(token) == token + 1
NextToken(token) == IF token + 1 = TokenMod THEN 1 ELSE token + 1

\* How far channel_token_allocate counts from next_token before it tries token.
Distance(c, token) ==
  IF token >= c.nextToken THEN token - c.nextToken ELSE token + TokenMod - 1 - c.nextToken

Allocated_NoSkip(c, token) == token = c.nextToken

\* channel_token_allocate: the first token from next_token on that is not in use.
Allocated(c, token) ==
  /\ ~Holds(c, token)
  /\ \A t \in Tokens : Distance(c, t) < Distance(c, token) => Holds(c, t)

HasRoom_IgnoresPermits(c) == c.len < c.capacity

HasRoom(c) == c.len + c.reserved < c.capacity

Reserved(c, token, k) ==
  [c EXCEPT !.tokens[k] = token, !.nextToken = NextToken(token), !.reserved = @ + 1]

\* The token goes to the first free cell of permit_tokens.
TryReserve(p, h) ==
  /\ permits[p].consumed
  /\ Resolves(h)
  /\ channels[h.slot].state = "Open"
  /\ HasRoom(channels[h.slot])
  /\ \E token \in Tokens, k \in Cells :
       /\ Allocated(channels[h.slot], token)
       /\ channels[h.slot].tokens[k] = 0
       /\ \A j \in Cells : j < k => channels[h.slot].tokens[j] # 0
       /\ channels' = [channels EXCEPT ![h.slot] = Reserved(@, token, k)]
       /\ permits' = [permits EXCEPT ![p] =
                        [channel |-> h, token |-> token, consumed |-> FALSE]]
       /\ UNCHANGED passed

----------------------------------------------------------------------------
(* Settling a permit *)

\* The first cell that holds the token is freed.
Without(tokens, token) ==
  [k \in Cells |-> IF tokens[k] = token /\ \A j \in Cells : j < k => tokens[j] # token
                   THEN 0 ELSE tokens[k]]

Released_KeepsReserved(c, token) == [c EXCEPT !.tokens = Without(@, token)]

\* channel_token_consume of a token in use.
Released(c, token) ==
  [c EXCEPT !.tokens = Without(@, token), !.reserved = IF @ > 0 THEN @ - 1 ELSE @]

WriteCell_FullRing(c) == (c.head + c.len) % MaxCapacity
WriteCell(c) == (c.head + c.len) % c.capacity

\* A message for a channel whose receiver is gone is dropped.
Sent(c, v) ==
  IF c.state \in {"ReceiverClosed", "FullyClosed"} \/ c.len >= c.capacity THEN c
  ELSE [c EXCEPT !.queue[WriteCell(c)] = v, !.len = @ + 1]

\* Does a permit still stand for a reservation?
Valid(p) ==
  Resolves(permits[p].channel)
  /\ Holds(channels[permits[p].channel.slot], permits[p].token)

\* asx_send_permit_send and _abort: a permit no longer valid is only marked consumed.
PermitSend(p, v) ==
  /\ ~permits[p].consumed
  /\ permits' = [permits EXCEPT ![p].consumed = TRUE]
  /\ IF Valid(p)
     THEN /\ channels' = [channels EXCEPT ![permits[p].channel.slot] =
                            Sent(Released(@, permits[p].token), v)]
          /\ passed' = v
     ELSE UNCHANGED <<channels, passed>>

PermitAbort(p) ==
  /\ ~permits[p].consumed
  /\ permits' = [permits EXCEPT ![p].consumed = TRUE]
  /\ channels' = IF Valid(p)
                 THEN [channels EXCEPT ![permits[p].channel.slot] =
                         Released(@, permits[p].token)]
                 ELSE channels
  /\ UNCHANGED passed

----------------------------------------------------------------------------
(* Receiving *)

TryRecv(h) ==
  /\ Resolves(h)
  /\ channels[h.slot].len > 0
  /\ channels' = [channels EXCEPT
                    ![h.slot].head = (@ + 1) % channels[h.slot].capacity,
                    ![h.slot].len = @ - 1]
  /\ passed' = channels[h.slot].queue[channels[h.slot].head]
  /\ UNCHANGED permits

\* asx_channel_try_recv answers ASX_E_DISCONNECTED: no message can come any more.
Disconnected(c) ==
  /\ c.len = 0
  /\ \/ c.state \in {"ReceiverClosed", "FullyClosed"}
     \/ c.state = "SenderClosed" /\ c.reserved = 0

\* asx_channel_reset
Reset ==
  /\ \A s \in ChannelSlots : channels[s].alive => channels[s].gen < MaxGen
  /\ channels' = [s \in ChannelSlots |->
                    FreshSlot(IF channels[s].alive THEN channels[s].gen + 1
                              ELSE channels[s].gen, FALSE, channels[s].capacity)]
  /\ UNCHANGED <<permits, passed>>

----------------------------------------------------------------------------
Next ==
  \/ \E n \in 1 .. MaxCapacity : Create(n)
  \/ \E h \in ChannelHandles :
       \/ CloseSender(h) \/ CloseReceiver(h) \/ TryRecv(h)
       \/ \E p \in Permits : TryReserve(p, h)
  \/ \E p \in Permits : PermitAbort(p) \/ \E v \in Values : PermitSend(p, v)
  \/ Reset

Spec == Init /\ [][Next]_vars

\* The consumer keeps receiving, and a producer sends or aborts a permit it holds.
FairSpec ==
  /\ Spec
  /\ \A h \in ChannelHandles : WF_vars(TryRecv(h))
  /\ \A p \in Permits : WF_vars(PermitAbort(p) \/ \E v \in Values : PermitSend(p, v))

----------------------------------------------------------------------------
(* Properties *)

UsedCells(c) == {k \in Cells : c.tokens[k] # 0}

\* Messages and permits together fit the capacity (mpsc.c:14), and "reserved" counts
\* the tokens in use, whichever of send, abort, close and reset came in between: so a
\* permit never finds the ring full.
CapacityKept ==
  \A s \in ChannelSlots :
    /\ channels[s].len + channels[s].reserved <= channels[s].capacity
    /\ channels[s].reserved = Cardinality(UsedCells(channels[s]))

\* While its channel exists, an unused permit stands for a reservation of its own,
\* though tokens wrap and return: no send or abort takes the reservation of another.
PermitsHonoured ==
  \A p \in Permits : ~permits[p].consumed /\ Resolves(permits[p].channel) =>
    /\ Valid(p)
    /\ \A q \in Permits \ {p} :
         ~permits[q].consumed /\ permits[q].channel = permits[p].channel =>
           permits[q].token # permits[p].token

\* The consumer of a channel whose senders closed learns that it is over
\* (asx_channel_try_recv, ASX_E_DISCONNECTED), after the messages still to come.
CloseReachesReceiver ==
  \A s \in ChannelSlots :
    channels[s].alive /\ channels[s].state = "SenderClosed" ~>
      ~channels[s].alive \/ Disconnected(channels[s])

----------------------------------------------------------------------------
(* The inductive invariant *)

\* One slot: its counts fit, "reserved" is exact, and no token is in use twice.
SlotOK(c) ==
  /\ c \in ChannelSlot
  /\ c.alive => c.capacity > 0
  /\ c.len + c.reserved <= c.capacity
  /\ c.reserved = Cardinality(UsedCells(c))
  /\ \A j, k \in Cells : c.tokens[j] = c.tokens[k] /\ c.tokens[j] # 0 => j = k

\* An unused permit is of a past generation of its slot, or of the present one, which
\* then is alive and holds its token.
PermitOK(p) ==
  LET h == permits[p].channel
      c == channels[h.slot]
  IN  ~permits[p].consumed =>
        /\ h.gen <= c.gen
        /\ h.gen = c.gen => c.alive /\ Holds(c, permits[p].token)
        /\ \A q \in Permits \ {p} : ~permits[q].consumed /\ permits[q].channel = h =>
             permits[q].token # permits[p].token \/ h.gen # c.gen

ChannelInv ==
  /\ TypeOK
  /\ \A s \in ChannelSlots : SlotOK(channels[s])
  /\ \A p \in Permits : PermitOK(p)

\* The refinement needs as well that the ring of a channel starts within its capacity,
\* and that a slot nobody uses is empty.
RingOK(c) ==
  /\ c.alive => c.head < c.capacity
  /\ ~c.alive => c.len = 0 /\ UsedCells(c) = {}

FifoInv == ChannelInv /\ \A s \in ChannelSlots : RingOK(channels[s])

----------------------------------------------------------------------------
(* Refinement *)

Ends(c) ==
  {"sender", "receiver"} \
    (CASE c.state = "Open" -> {}
       [] c.state = "SenderClosed" -> {"sender"}
       [] c.state = "ReceiverClosed" -> {"receiver"}
       [] c.state = "FullyClosed" -> {"sender", "receiver"})

CapacityOf(c) == IF c.alive THEN c.capacity ELSE 0
EndsOf(c) == IF c.alive THEN Ends(c) ELSE {}
QueueOf(c) == [n \in 1 .. c.len |-> c.queue[(c.head + (n - 1)) % c.capacity]]
GrantedOf(c) == {c.tokens[k] : k \in UsedCells(c)}

Capacities == [s \in ChannelSlots |-> CapacityOf(channels[s])]
OpenEnds == [s \in ChannelSlots |-> EndsOf(channels[s])]
Queues == [s \in ChannelSlots |-> QueueOf(channels[s])]
Grants == [s \in ChannelSlots |-> GrantedOf(channels[s])]

Abstract == INSTANCE BoundedFifo WITH
  Channels <- ChannelSlots, PermitNames <- Tokens,
  capacity <- Capacities, ends <- OpenEnds, queue <- Queues, granted <- Grants

\* The ring buffer with its tokens is a bounded FIFO with permits: messages come out
\* once and in the order sent, each through a permit granted when there was room.
ImplementsBoundedFifo == Abstract!Spec

====
