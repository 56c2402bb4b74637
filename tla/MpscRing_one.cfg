SPECIFICATION Spec
CONSTANTS
  p1 = p1
  p2 = p2
  a = a
  b = b
  NoPayload = NoPayload
  Producers <- MCOne
  Payloads <- MCPayloads
  CAP = 4
INVARIANTS
  NoDataRace
PROPERTIES
  RingIsFifo
