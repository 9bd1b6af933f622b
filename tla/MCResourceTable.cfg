CONSTANTS
  MaxEntries = 2
  MaxResourceSlots = 2
  MaxHandleGen = 2
  MaxArena = 1
  Kinds = {"file", "socket"}
  StateKinds = {"cache"}
  CloseReasons = {"Requested", "VmReset"}
SPECIFICATION TableSpec
INVARIANTS
  TableTypeOK
  PoolExact
  BegunOnce
PROPERTIES
  SweepHoldsOn
  RollbackIsExact
  ImplementsResourceLifecycle
