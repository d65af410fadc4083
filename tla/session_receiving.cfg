CHECK_DEADLOCK FALSE
SPECIFICATION FairSpec
CONSTANTS
  Calls = {c1, c2}
  o1 = o1
  o2 = o2
  f1 = f1
  f2 = f2
  Ops = {o1, o2}
  Frames = {f1, f2}
  None = None
  Traffic <- MCTraffic
  FaultSets = {{"abort", "release", "send", "encode"}, {"release", "send"}}
  MaxOrphans = 1
INVARIANTS ReceivedInOrder BoundIsUnanswered OneTerminalReply NoEventLost
PROPERTY QueueMoves
