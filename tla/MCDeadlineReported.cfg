SPECIFICATION InvocationSpec
CONSTANTS
  Reasons = {"Requested", "Timeout"}
  MaxEmits = 1
  MaxStarts = 1
INVARIANT DeadlineReported
CHECK_DEADLOCK FALSE
