\* Three tasks; two bits on one queue; a count that wraps at 4.
CONSTANTS
  Tasks = {t1, t2, t3}
  Keys = {k1, k2}
  Modes = {"UNINTERRUPTIBLE", "KILLABLE"}
  Signals = {"fatal"}
  None = None
  Wrap = 4
SPECIFICATION MCSpec
SYMMETRY Symmetry
INVARIANTS
  QueueIsWaiters
  NobodyForgotten
  NobodySleepsThrough
