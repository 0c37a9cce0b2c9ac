\* A delayed work that is armed again on another CPU while it is being cancelled.
CONSTANTS
  Parts = {"workqueue"}
  Works = {w1}
  Delayed = {w1}
  Tasks = {t1}
  N = 2
  None = None
  Creators = {}
  Nobody = Nobody
  Domains = {"main"}
  Threads = {}
  Callers = {}
  Syncers = {}
  MAX_THREADS = 1
  MaxCookie = 0
SPECIFICATION MCSpec
INVARIANT CancelOwnsBit
