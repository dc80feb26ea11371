SPECIFICATION FairSpec
CONSTANTS
  Msg = {r1, c1, v1}
  ReadOnly = {r1, c1}
  Call = {c1, v1}
  Infallible = {}
  Peer = {p1}
  Stop = Stop
  None = None
  Recovery = Recovery
  MaxConcurrentReads = 1
  HookResult <- AnyHookResult
PROPERTIES
  CallsAnswered
  StopStops
  KillStops
INVARIANTS
  ExclusiveAlone
  AnswersInOrder
