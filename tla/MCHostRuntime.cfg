SPECIFICATION HostRuntimeFairSpec
CONSTANTS
  Work = {w1}
  MaxHostOp = 3
  MaxResets = 1
  MaxFaults = 1
INVARIANTS
  HostRuntimeTypeOK
  RunningIsTracked
  TrackedHasBridge
  RetiredAsksAll
  ResetSealed
PROPERTIES
  PublishesOverQuiet
CHECK_DEADLOCK FALSE
PROPERTY ResetEnds
