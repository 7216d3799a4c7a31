CONSTANTS
  QueueSize = 6
  IdxMod = 12
  Drivers = {"block", "rng", "gpu"}
SPECIFICATION FairSpec
PROPERTIES PollReturns
CHECK_DEADLOCK FALSE
