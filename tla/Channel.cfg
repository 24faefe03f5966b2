CONSTANTS
  MaxChannels = 1
  MaxCapacity = 3
  TokenMod = 5
  MaxGen = 1
  Permits = {p1, p2}
  Values = {a, b}
  NoValue = NoValue
  RingMax = 4
  Requests = {1, 2, 3, 5, 9}
  PosMod = 16
  BacklogMax = 5
  Payloads = {a, b}
  NoPayload = NoPayload
  SeqReaders = {r1}
  Words = 2
  MaxRetries = 3
  MaxWrites = 3
  EbrReaders = {r1, r2}
  Items = {x, y}
  DeferCapacity = 1
SPECIFICATION SharedSpec
INVARIANTS
  SharedTypeOK
  CapacityKept
  PermitsHonoured
  RingHoldsBacklog
  AcceptedReadIsWhole
  NoReclaimUnderReader
PROPERTIES
  CloseReachesReceiver
  ImplementsBoundedFifo
  DeferredReclaimed
CHECK_DEADLOCK FALSE
