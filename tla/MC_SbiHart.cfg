CONSTANTS
  Harts = {0, 1, 2}
  Targets = {1}
  MaxCalls = 3
SPECIFICATION FairSpec
INVARIANTS TypeOK LockOwner MsipOnlyInTransition StatusIsReal EntryUnlessRaced
PROPERTIES TransitionEnds
CHECK_DEADLOCK FALSE
