\* Two tasks contend for one unit; up() may add a second one.
CONSTANTS
  Tasks = {t1, t2}
  None = None
  InitCount = 1
  MaxUnits = 2
SPECIFICATION FairSpec
INVARIANTS
  NoUnitWhileWaiting
PROPERTIES
  ImplementsSemaphore
  NoStarvation
