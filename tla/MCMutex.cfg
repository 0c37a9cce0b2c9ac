\* A mutex with two tasks that wait, barge and spin; three owners of groups with
\* one mark.
CONSTANTS
  Tasks = {t1, t2}
  None = None
  Owners = {o1, o2, o3}
  Groups = {g1, g2}
  Marks = {m1}
SPECIFICATION MCSpec
INVARIANTS
  MutualExclusion
  OwnerIsHolder
  NoLostWakeup
  NoUseAfterFree
  ListedIsFreed
PROPERTIES
  ImplementsSemaphore
  StarvesOnlyByBarging
