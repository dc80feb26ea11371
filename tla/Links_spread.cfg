SPECIFICATION FairSpec
CONSTANTS
  Actor = {a1, a2, c1}
  Custom = {c1}
  Op = {"link_child", "unlink_child", "link_together", "spawn_child"}
  MaxOps = 2
  MaxEnds = 1
  Stop = Stop
  None = None
INVARIANTS
  NormalDoesNotSpread
  KillsHaveOrigin
PROPERTIES
  DeathHasCause
  DeathSpreads
  ImplementsLife
