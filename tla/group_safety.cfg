SPECIFICATION Spec
CONSTANTS
  N = 2
  Callers = {c1, c2}
  Sessions = {s1, s2}
  None = None
  Stale = Stale
  CloseMayFail = TRUE
  MaxCloses = 2
SYMMETRY Symmetry
INVARIANTS OneHolder NoSessionLost NoLostWakeup ClosedGroupIsEmpty
CHECK_DEADLOCK FALSE
