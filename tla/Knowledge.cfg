SPECIFICATION MCSpec
CONSTANTS
  Scenes = {"graph", "candidates", "batches", "readers", "lists", "evidence", "scopes", "people", "aliases", "chains", "derivations", "snapshots", "index"}
  Documents <- SomeTexts
  Requests <- Ranked
  Calls = {1}
  MaxJobs = 2
  MaxBytes = 3
  MaxDocument = 2
  MaxPlans = 1
  BatchSize = 2
  MaxAttempts = 2
  Nothing = Nothing
INVARIANTS MemoriesReplay ReviewedReplay TranscriptsHold
PROPERTIES PastKept RefreshKept
CHECK_DEADLOCK FALSE
