CONSTANTS
  MaxPending = 2
  MaxSlots = 2
  MaxGeneration = 1
  MaxTag = 1
  Dues = {"none"}
  Reasons = {"Deadline", "VmReset", "VmDrop"}
  MaxEntries = 1
  MaxResourceSlots = 1
  MaxHandleGen = 1
  MaxArena = 1
  Kinds = {"file"}
  StateKinds = {}
  CloseReasons = {"VmReset", "VmDrop"}
SPECIFICATION FairScopeSpec
CHECK_DEADLOCK FALSE
INVARIANTS
  SweepComesLast
PROPERTIES
  ImplementsScopeLifecycle
  CloseEnds
