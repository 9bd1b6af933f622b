CONSTANTS
  MaxPending = 1
  MaxSlots = 1
  MaxGeneration = 1
  MaxTag = 1
  Dues = {"none", "armed"}
  Reasons = {"Deadline", "VmReset", "VmDrop"}
  MaxEntries = 2
  MaxResourceSlots = 2
  MaxHandleGen = 1
  MaxArena = 1
  Kinds = {"file"}
  StateKinds = {"cache"}
  CloseReasons = {"VmReset", "VmDrop"}
SPECIFICATION ScopeSpec
CHECK_DEADLOCK FALSE
INVARIANTS
  NoFailureLost
  QuiescentIsEmpty
  DropAsksEveryone
