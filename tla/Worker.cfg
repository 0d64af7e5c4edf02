SPECIFICATION MCSpec
CONSTANTS
  Jobs = {"j1", "j2"}
  Lanes = {"drain"}
  MaxActive = 1
  MaxQueue = 2
  MaxFaults = 2
  Nothing = Nothing
  Partitions = {"p1", "p2"}
  Every = 2
  Elapsed = 1
  MaxOutbox = 1
  MaxSources = 2
  MaxJobs = 1
  MaxSeq = 2
  MaxTime = 2
  MaxSchedulerFaults = 1
  WorkerJobs = {"run", "turn", "plan", "synth", "win", "half"}
  Kind <- Kinds
  Follows <- After
  Events = 2
  JobsOf <- AskedFor
  Archive = {"run"}
  MaxAdmitted = 3
  MaxAttempts = 2
  MaxFailures = 1
  MaxWorkerFaults = 1
  Scenes = {"ledger", "windows", "worker", "proposing", "supporting", "episodes", "synthesis"}
INVARIANTS LedgerHolds EachSourceOnce WorkAdmitted
PROPERTIES DurableOutcomesFinal ProposalsSound
CHECK_DEADLOCK FALSE
