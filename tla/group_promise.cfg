SPECIFICATION FairSpec
CONSTANTS
  N = 2
  Callers = {c1, c2}
  Sessions = {s1}
  None = None
  Stale = Stale
  CloseMayFail = FALSE
  MaxCloses = 1
PROPERTIES KeepsPromise AcceptEnds
CHECK_DEADLOCK FALSE
