CONSTANTS
  MaxPending = 2
  MaxSlots = 2
  MaxGeneration = 2
  MaxTag = 1
  Reasons = {"Requested", "Deadline"}
SPECIFICATION RegistrySpec
INVARIANTS
  RegistryTypeOK
  FreeListExact
  IdsNeverAlias
  HooksRunOnce
  WorkersKeepSlots
  DriverAskedOnce

PROPERTY ImplementsLifecycle
