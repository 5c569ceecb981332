SPECIFICATION FairSpec
CONSTANTS
  Projects = {"p1", "p2"}
  Docs = {"d1", "d2"}
  Home <- MCHome
  NoAlt = {"p2"}
  None = None
  MaxClicks = 3
PROPERTIES DocumentCompleted
CHECK_DEADLOCK FALSE
