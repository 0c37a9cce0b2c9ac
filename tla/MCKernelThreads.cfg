\* Kthread: two creators compete for kthreadd.  Workqueue: a single-threaded one, a
\* delayed work and another one, one task.
CONSTANTS
  Parts = {"kthread", "workqueue"}
  Creators = {c1, c2}
  Nobody = Nobody
  Works = {w1, w2}
  Delayed = {w1}
  Tasks = {t1}
  N = 1
  None = None
  Domains = {"main"}
  Threads = {}
  Callers = {}
  Syncers = {}
  MAX_THREADS = 1
  MaxCookie = 0
SPECIFICATION MCFairSpec
INVARIANTS
  CreateInfoLive
  StopReturnsCode
  CancelOwnsBit
PROPERTIES
  CallsReturn
  FlushReturns
  QueuedIsTaken
