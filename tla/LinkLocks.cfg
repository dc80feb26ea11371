SPECIFICATION FairSpec
CONSTANTS
  Actor = {a1, a2}
  Thread = {t1, t2}
  Op = {"link_child", "unlink_child", "link_together", "unlink_together"}
  MaxCalls = 2
  None = None
CHECK_DEADLOCK FALSE
INVARIANTS
  TypeOK
  CircleOnlyIfOpposed
PROPERTIES
  StuckOnlyIfOpposed
  ImplementsTable
