SPECIFICATION MCSpec
CONSTANTS
  NoTask = NoTask
  NoRevision = NoRevision
  Scenes = {"crashes", "failures", "backups", "trees", "transcripts", "verdicts", "legacy", "imports", "runners"}
  N = 2
  Invalid = {}
  MaxCrashes = 1
  MaxFailures = 0
  MaxLosses = 0
  MaxSeals = 0
  MaxHeartbeats = 1
  J = 7
  Kind <- SpoolKinds
  Nodes <- TreeNodes
  Snapshot <- Contents
  BatchSize = 3
  MaxOutages = 1
  MaxDeaths = 2
  MaxRepairs = 2
  SourcesVanish = FALSE
  Importers = {"p1", "p2"}
  Policies = {"redact", "exclude"}
  Legacy <- Releases
  MaxContent = 2
  maxAttempts = 2
  MaxImports = 2
  Runners = {"p1", "p2", "p3"}
  Directories = {"d1", "d2"}
  Directory <- Shared
  Runs = {1}
  Chunks = 2
  MaxVersion = 2
  MaxAttempts = 2
  MaxCommands = 3
  NoRunner = "none"
INVARIANTS UnitsFaithful ImportsStored
PROPERTIES  SpoolKept
CHECK_DEADLOCK FALSE
