SPECIFICATION Spec
CONSTANTS
  Msg = {c1, w1}
  ReadOnly = {c1}
  Call = {c1}
  Infallible = {}
  Peer = {}
  Stop = Stop
  None = None
  Recovery = Recovery
  MaxConcurrentReads = 1
  HookResult <- AlwaysContinue
INVARIANTS
  HooksDecide
