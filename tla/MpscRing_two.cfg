SPECIFICATION Spec
CONSTANTS
  p1 = p1
  p2 = p2
  a = a
  b = b
  NoPayload = NoPayload
  Producers <- MCTwo
  Payloads <- MCPayloads
  CAP = 3
INVARIANTS
  NoDataRace
