SPECIFICATION MCFairSpec
CONSTANTS
  NoTask = NoTask
  NoRevision = NoRevision
  Scenes = {"closing", "sealing", "draining", "ending"}
  N = 2
  Invalid = {2}
  MaxCrashes = 1
  MaxFailures = 0
  MaxLosses = 0
  MaxSeals = 0
  MaxHeartbeats = 0
  J = 7
  Kind <- SpoolKinds
  Nodes <- TreeNodes
  Snapshot <- Contents
  BatchSize = 3
  MaxOutages = 1
  MaxDeaths = 2
  MaxRepairs = 2
  SourcesVanish = FALSE
  Importers = {"p1", "p2"}
  Policies = {"redact", "exclude"}
  Legacy <- Releases
  MaxContent = 2
  maxAttempts = 2
  MaxImports = 2
  Runners = {"p1", "p3"}
  Directories = {"d1", "d2"}
  Directory <- Shared
  Runs = {1, 2}
  Chunks = 1
  MaxVersion = 1
  MaxAttempts = 2
  MaxCommands = 2
  NoRunner = "none"
PROPERTIES CaptureProgress
CHECK_DEADLOCK FALSE
