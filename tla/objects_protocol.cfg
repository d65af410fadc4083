SPECIFICATION FairSpec
CONSTANTS
  Objects = {1, 2}
  Operations = {o1, o2}
  NoOperation = NoOperation
  Versions = {1, 2}
  Deltas = {1, 2}
  Announced <- MCProtocol
  Runs = {r1}
  SendMayFail = TRUE
  MaxQueue = 1


CHECK_DEADLOCK FALSE
INVARIANT TrackedIsTold
PROPERTIES LegalHistory GoesOnWhenReleased RunEnds
