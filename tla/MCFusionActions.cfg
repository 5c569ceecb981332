SPECIFICATION Spec
CONSTANTS
  Docs = {"doc"}
  None = None
  NoData = NoData
  Slots = 1
  Budgets <- OneAction
INVARIANTS FailureFiled
CHECK_DEADLOCK FALSE
