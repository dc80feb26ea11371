SPECIFICATION Spec
CONSTANTS
  Msg = {r1, r2}
  ReadOnly = {r1, r2}
  Call = {}
  Infallible = {}
  Peer = {}
  Stop = Stop
  None = None
  Recovery = Recovery
  MaxConcurrentReads = 2
  HookResult <- AnyHookResult
INVARIANTS
  LockNeverAsserted
