\* What rwsem_is_locked() reads while a releaser is waking readers.
CONSTANTS
  Tasks = {t1, t2}
  None = None
SPECIFICATION Spec
INVARIANT ZeroMeansFree
