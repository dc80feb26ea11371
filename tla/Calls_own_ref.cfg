SPECIFICATION Spec
CONSTANTS
  a1 = a1
  a2 = a2
  b1 = b1
  Actor = {a1, a2, b1}
  Type <- TwoTypes
  Msg = {r1, w1, w2}
  ReadOnly = {r1}
  MaxConcurrentReads = 1
  MaxKills = 1
  Debug = TRUE
  None = None
CHECK_DEADLOCK FALSE
INVARIANTS
  HandlersKnowTheirActor
