SPECIFICATION MCSpec
CONSTANTS
  Scenes = {"trees", "reviews", "routes", "counts", "walk", "acceptance", "attempts", "sessions", "orphans", "identified", "gemini"}
  NoTime = NoTime
INVARIANTS  SensorsConverge
PROPERTIES HistoriesKept
CHECK_DEADLOCK FALSE
