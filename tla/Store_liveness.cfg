SPECIFICATION MCFairSpec
CONSTANTS
  Processes = {"p1", "p2"}
  Commands = {"c1", "c2"}
  Candidates = {"k"}
  Requests <- AllRequests
  PageSize = 1
  MaxAttempts = 1
  MaxSubmits = 3
  MaxForeign = 0
  None = None
  Scenes = {"plain", "shared"}
PROPERTIES AllEnd
CHECK_DEADLOCK FALSE
