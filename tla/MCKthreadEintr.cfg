\* A thread that is started and stopped before it runs.
CONSTANTS
  Parts = {"kthread"}
  Creators = {c1}
  Nobody = Nobody
  Domains = {"main"}
  Threads = {}
  Callers = {}
  Syncers = {}
  MAX_THREADS = 1
  MaxCookie = 0
  Works = {}
  Delayed = {}
  Tasks = {}
  N = 1
  None = None
SPECIFICATION MCSpec
INVARIANT EintrMeansNeverWoken
