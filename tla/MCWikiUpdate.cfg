SPECIFICATION Spec
CONSTANTS
  MaxTyped = 2
  MaxOthers = 2
  MaxCalls = 1
PROPERTY SafeUpdateLosesNothing
CHECK_DEADLOCK FALSE
