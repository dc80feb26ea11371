SPECIFICATION Spec
CONSTANTS
  Msg = {r1, r2, c1, w1}
  ReadOnly = {r1, r2, c1}
  Call = {c1}
  Infallible = {}
  Peer = {}
  Stop = Stop
  None = None
  Recovery = Recovery
  MaxConcurrentReads = 2
  HookResult <- AnyHookResult
SYMMETRY ReadSymmetry
INVARIANTS
  TypeOK
  ExclusiveAlone
  SoleOwnerAtStop
  ReadsBounded
  ReadsSeePrefix
  GracefulStop
  CallersOwned
  AnsweredIsOver
  StopsForCause
  NeverWaitsInVain
  WaitForStopWaits
PROPERTIES
  ImplementsService
  ImplementsLife
