\* A caller that runs its call itself, and a synchronizer.
CONSTANTS
  Parts = {"async"}
  Domains = {"main"}
  Threads = {i1}
  Callers = {a1}
  Syncers = {s1}
  MAX_THREADS = 1
  MaxCookie = 1
  Works = {}
  Delayed = {}
  Tasks = {}
  N = 1
  None = None
  Creators = {}
  Nobody = Nobody
SPECIFICATION MCSpec
INVARIANT SyncCoversAll
