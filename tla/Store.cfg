SPECIFICATION MCSpec
CONSTANTS
  Processes = {"p1", "p2"}
  Commands = {"c1", "c2"}
  Candidates = {"k"}
  Requests <- AllRequests
  PageSize = 1
  MaxAttempts = 1
  MaxSubmits = 4
  MaxForeign = 2
  None = None
  Scenes = {"candidates", "plain", "shared", "run", "latest", "callers", "orders", "peers"}
INVARIANTS CandidatesConsistent CommandOnce SnapshotExact EqualTimeIdOrder AckedDurable
PROPERTIES DeliversInOrder AnswersReplay
CHECK_DEADLOCK FALSE
