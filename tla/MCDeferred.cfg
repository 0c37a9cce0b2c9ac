\* Async: two callers, two calls in two domains, two threads, one synchronizer.
\* Workqueue: two CPUs, one work that is queued on both, two tasks that flush and
\* cancel.
CONSTANTS
  Parts = {"async", "workqueue"}
  Domains = {"main", "other"}
  Threads = {t1, t2}
  Callers = {a1, a2}
  Syncers = {s1}
  MAX_THREADS = 2
  MaxCookie = 2
  Works = {w1}
  Delayed = {}
  Tasks = {t1, t2}
  N = 2
  None = None
  Creators = {}
  Nobody = Nobody
SPECIFICATION MCSpec
SYMMETRY Symmetry
INVARIANTS
  SyncIsDone
  NoCallForgotten
  NoSyncForgotten
  CancelOwnsBit
  CancelMeansIdle
  BarrierIsAlive
  FlushHandlesAll
