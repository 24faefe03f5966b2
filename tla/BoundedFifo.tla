---- MODULE BoundedFifo ----
(***************************************************************************)
(* What a bounded two-phase channel promises: a sender first obtains a     *)
(* permit and later turns it into a message or gives it back, messages     *)
(* come out in the order they were sent, and permits and messages together *)
(* never exceed the capacity.  No ring buffer, no tokens, no handles.      *)
(***************************************************************************)
EXTENDS Naturals, Sequences, FiniteSets

CONSTANTS Channels, Values, PermitNames, MaxCapacity, NoValue

VARIABLES
  capacity,  \* capacity[c]: 0 for a channel that does not exist
  ends,      \* ends[c]: the ends still open
  queue,     \* queue[c]: the messages sent and not received
  granted,   \* granted[c]: the permits neither used nor given back
  passed     \* the message that went in or came out last
vars == <<capacity, ends, queue, granted, passed>>

Init ==
  /\ capacity = [c \in Channels |-> 0]
  /\ ends = [c \in Channels |-> {}]
  /\ queue = [c \in Channels |-> <<>>]
  /\ granted = [c \in Channels |-> {}]
  /\ passed = NoValue

Create(c, n) ==
  /\ capacity[c] = 0
  /\ capacity' = [capacity EXCEPT ![c] = n]
  /\ ends' = [ends EXCEPT ![c] = {"sender", "receiver"}]
  /\ UNCHANGED <<queue, granted, passed>>

Grant(c, p) ==
  /\ ends[c] = {"sender", "receiver"}
  /\ p \notin granted[c]
  /\ Len(queue[c]) + Cardinality(granted[c]) < capacity[c]
  /\ granted' = [granted EXCEPT ![c] = @ \cup {p}]
  /\ UNCHANGED <<capacity, ends, queue, passed>>

\* A permit outlives the sender's end, and its message the receiver's interest.
Send(c, p, v) ==
  /\ p \in granted[c]
  /\ granted' = [granted EXCEPT ![c] = @ \ {p}]
  /\ queue' = [queue EXCEPT ![c] = IF "receiver" \in ends[c] THEN Append(@, v) ELSE @]
  /\ passed' = v
  /\ UNCHANGED <<capacity, ends>>

GiveBack(c, p) ==
  /\ p \in granted[c]
  /\ granted' = [granted EXCEPT ![c] = @ \ {p}]
  /\ UNCHANGED <<capacity, ends, queue, passed>>

Receive(c) ==
  /\ queue[c] # <<>>
  /\ queue' = [queue EXCEPT ![c] = Tail(@)]
  /\ passed' = Head(queue[c])
  /\ UNCHANGED <<capacity, ends, granted>>

CloseSender(c) ==
  /\ "sender" \in ends[c]
  /\ ends' = [ends EXCEPT ![c] = @ \ {"sender"}]
  /\ UNCHANGED <<capacity, queue, granted, passed>>

CloseReceiver(c) ==
  /\ "receiver" \in ends[c]
  /\ ends' = [ends EXCEPT ![c] = @ \ {"receiver"}]
  /\ queue' = [queue EXCEPT ![c] = <<>>]
  /\ UNCHANGED <<capacity, granted, passed>>

Reset ==
  /\ capacity' = [c \in Channels |-> 0]
  /\ ends' = [c \in Channels |-> {}]
  /\ queue' = [c \in Channels |-> <<>>]
  /\ granted' = [c \in Channels |-> {}]
  /\ UNCHANGED passed

Next ==
  \/ Reset
  \/ \E c \in Channels :
       \/ \E n \in 1 .. MaxCapacity : Create(c, n)
       \/ \E p \in PermitNames :
            Grant(c, p) \/ GiveBack(c, p) \/ \E v \in Values : Send(c, p, v)
       \/ Receive(c) \/ CloseSender(c) \/ CloseReceiver(c)

Spec == Init /\ [][Next]_vars

====
