\* Calls that have ended and a closed session are the end.
CHECK_DEADLOCK FALSE
SPECIFICATION SubmitsSpec
CONSTANTS
  Operations = {1, 2}
  f1 = f1
  f2 = f2
  Frames = {f1, f2}
  None = None
  Plans <- MCTimedPair
  Holders = {}
  Reads = FALSE
  Cancels = FALSE
  Closes = TRUE
  Reported = {"partial", "result", "lifecycle"}
  Faults = {"submit"}
  Submits = {s1, s2, s3, s4}
  Windows = {0, 1, 2}
  Unlimited = 3
INVARIANTS
  FrameIsOwned
  NoForgottenWaiter
PROPERTIES
  TimedSubmitEnds
  CloseEndsWaiting
