SPECIFICATION HostRuntimeSpec
CONSTANTS
  Work = {w1}
  MaxHostOp = 2
  MaxResets = 2
  MaxFaults = 1
PROPERTIES
  ResetFailsClosed
CHECK_DEADLOCK FALSE
