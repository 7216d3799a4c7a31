CONSTANTS
  Machines <- MCMachines
  BarListLen = 16
  Q = 2
  Capacity = 2
  Sizes = {0, 1, 2}
SPECIFICATION FairSpec
INVARIANTS DriversBound EventsInOrder GpuSound
PROPERTY IrqCompletes
CHECK_DEADLOCK FALSE
