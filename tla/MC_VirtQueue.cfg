CONSTANTS
  QueueSize = 6
  IdxMod = 12
  Drivers = {"block", "rng", "gpu"}
SPECIFICATION FairSpec
INVARIANT RingFresh
PROPERTIES CompletionNotMissed PollSeesCompletion PollFindsCompletion
CHECK_DEADLOCK FALSE
