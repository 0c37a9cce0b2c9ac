\* SRCU: two updaters against a reader that moves between two CPUs, completed
\* wraps at 8.  stop_machine: two users on three CPUs.
CONSTANTS
  Readers = {r1}
  Updaters = {u1, u2}
  None = None
  NCpu = 2
  Wrap = 8
  CWrap = 3
  Users = {s1, s2}
  MCpu = 3
SPECIFICATION MCSpec
INVARIANTS
  GracePeriod
  Frozen
  RanWhereAsked
PROPERTIES
  GracePeriodEnds
  MachineRestarts
