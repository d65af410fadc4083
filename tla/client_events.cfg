\* The peer may stop sending and the application may stop asking.
CHECK_DEADLOCK FALSE
SPECIFICATION EventsSpec
CONSTANTS
  first = first
  other = other
  r1 = r1
  r2 = r2
  f1 = f1
  f2 = f2
  None = None
  Nobody = Nobody
  Sessions <- TwoSessions
  WireId <- TwoWireIds
  Readers <- TheReaders
  MaxEvents = 2
  MaxArrivals = 2
  MaxPolls = 2
  Operations = {1, 2}
  Frames = {f1, f2}
  Plans <- TwoDetached
  Holders = {1}
  Reads = TRUE
  Cancels = TRUE
  Closes = FALSE
  Reported = {"partial", "result", "drop", "lifecycle", "close"}
  Faults = {"submit", "send"}
SYMMETRY ReadersAreAlike
INVARIANTS
  EveryEventAccounted
  OneReaderKeepsOrder
  ListensWhileBound
  OnlyLatePayloadsDropped
