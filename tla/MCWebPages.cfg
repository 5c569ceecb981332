SPECIFICATION PagesSpec
CONSTANTS
  Projects = {"p1", "p2"}
  Docs = {"d1", "d2"}
  Home <- MCHome
  NoAlt = {"p2"}
  None = None
  MaxClicks = 3
  NoData = NoData
  QueryKeys <- MCQueryKeys
  MaxWrites = 2
  MaxFails = 2
  MaxFlips = 1
  MaxTyped = 2
  MaxCalls = 2
  MaxOthers = 1
  GateTabs = {"t1", "t2"}
  Hubs = {"h1", "h2"}
  Access = {"h1", "h2"}
  Target = "h1"
  MaxUser = 2
  MaxLosses = 1
INVARIANTS PermalinkReopens OwnWritesShow OneHubOnScreen
PROPERTIES KeepsForward EditsSurvive PagesCatchUp
CHECK_DEADLOCK FALSE
