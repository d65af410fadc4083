\* A closed client stops, and so does a peer that has nothing more to send.
CHECK_DEADLOCK FALSE
SPECIFICATION FairSpec
CONSTANTS
  main = main
  side = side
  waited = waited
  detached = detached
  r1 = r1
  Roles <- TheRoles
  Main <- main
  Events <- TheEvents
  Frames <- TheFrames
  Waited <- TheWaited
  Cancels <- TheWaited
  Readers <- TheReaders
  Windows <- TheWindows
  InitialCredits = 1
  MaxSent = 1
INVARIANTS
  SilenceIsExplained
  FreedIsOver
PROPERTY
  WaitsEnd
