SPECIFICATION MCFairSpec
CONSTANTS
  Jobs = {"j1", "j2"}
  Lanes = {"drain"}
  MaxActive = 1
  MaxQueue = 2
  MaxFaults = 2
  Nothing = Nothing
  Partitions = {"p1"}
  Every = 2
  Elapsed = 1
  MaxOutbox = 2
  MaxSources = 3
  MaxJobs = 1
  MaxSeq = 2
  MaxTime = 1
  MaxSchedulerFaults = 1
  WorkerJobs = {"run", "turn", "plan", "synth"}
  Kind <- FewKinds
  Follows <- AfterFew
  Events = 1
  JobsOf <- AskedForFew
  Archive = {"run"}
  MaxAdmitted = 4
  MaxAttempts = 2
  MaxFailures = 1
  MaxWorkerFaults = 1
  Scenes = {"windows", "worker", "index"}
PROPERTIES WorkerProgress
CHECK_DEADLOCK FALSE
