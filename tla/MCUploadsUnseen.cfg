SPECIFICATION ActionsSpec
CONSTANTS
  None = None
  NoData = NoData
  Files = {"file"}
  Folders = {"folder"}
  Slots = 1
  UploadBudgets <- MCUnseen
  MaxDepth = 2
  MaxDrops = 2
PROPERTY UploadsSeen
CHECK_DEADLOCK FALSE
