CONSTANTS
  RingMax = 4
  Requests = {1, 2}
  PosMod = 16
  BacklogMax = 5
  Payloads = {a, b}
  NoPayload = NoPayload
SPECIFICATION RingSpec
PROPERTY FullRefuses
