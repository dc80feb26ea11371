SPECIFICATION Spec
CONSTANTS
  Actor = {a1, a2}
  Custom = {}
  Op = {"spawn_child"}
  MaxOps = 1
  MaxEnds = 1
  Stop = Stop
  None = None
INVARIANTS
  SpawnChildTellsNot
