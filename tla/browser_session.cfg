\* A closed client stops, and so does a peer that has nothing more to send.
CHECK_DEADLOCK FALSE
SPECIFICATION Spec
CONSTANTS
  main = main
  side = side
  waited = waited
  detached = detached
  r1 = r1
  Roles <- OneRole
  Main <- main
  Events <- TheEvents
  Frames <- TheFrames
  Waited <- TheWaited
  Cancels <- TheDetached
  Readers <- TheReaders
  Windows <- TheWindows
  InitialCredits = 2
  MaxSent = 2
INVARIANTS
  WaitersAreServed
  EventsKeepTheirOrder
  OnlyEndsVanish
