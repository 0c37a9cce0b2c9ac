\* Three tasks: a holder and two waiters of either kind.
CONSTANTS
  Tasks = {t1, t2, t3}
  None = None
SPECIFICATION FairSpec
INVARIANTS
  Exclusion
  ActivityIsHolders
  NobodyForgotten
  TaskPinned
PROPERTY NoStarvation
