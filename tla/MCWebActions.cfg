SPECIFICATION ActionsSpec
CONSTANTS
  None = None
  NoData = NoData
  Files = {"file"}
  Folders = {"folder"}
  Slots = 1
  UploadBudgets <- MCUploads
  MaxDepth = 2
  MaxDrops = 2
INVARIANTS LandedShows OverlayGuarded
PROPERTIES EndsAreSeen
CHECK_DEADLOCK FALSE
