SPECIFICATION Spec
CONSTANTS
  Actor = {a1, a2, a3}
  Custom = {}
  Op = {"link_together", "unlink_together", "spawn_link"}
  MaxOps = 3
  MaxEnds = 2
  Stop = Stop
  None = None
SYMMETRY ActorSymmetry
INVARIANTS
  TypeOK
  MutualLinks
  ToldOnce
  HonestReport
  NormalDoesNotSpread
  KillsHaveOrigin
PROPERTIES
  DeathHasCause
