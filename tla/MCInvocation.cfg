SPECIFICATION InvocationFairSpec
CONSTANTS
  Reasons = {"Requested", "Timeout"}
  MaxEmits = 2
  MaxStarts = 2
INVARIANT EachEmitOnce
INVARIANT TerminalOnce
INVARIANT FusedIsClean
PROPERTY CancelIsFinal
CHECK_DEADLOCK FALSE
PROPERTY CancelEnds
