SPECIFICATION InvocationSpec
CONSTANTS
  Reasons = {"Requested", "Timeout"}
  MaxEmits = 1
  MaxStarts = 1
INVARIANT StreamsEndWithInvocation
CHECK_DEADLOCK FALSE
