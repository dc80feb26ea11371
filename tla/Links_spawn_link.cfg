SPECIFICATION Spec
CONSTANTS
  Actor = {a1, a2}
  Custom = {}
  Op = {"spawn_link"}
  MaxOps = 1
  MaxEnds = 1
  Stop = Stop
  None = None
INVARIANTS
  SpawnLinkTells
