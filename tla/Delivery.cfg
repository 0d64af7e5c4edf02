SPECIFICATION MCSpec
CONSTANTS
  Streams = {"s1", "s2", "s3", "s4"}
  Principals = {"p1", "p2"}
  Tenants = {"t1", "t2"}
  OwnerOf <- Owners
  TenantOf <- Homes
  MaxTotal = 3
  MaxPerPrincipal = 1
  MaxPerTenant = 2
  PageLimit = 2
  Private = {2}
  MaxSeq = 0
  MaxChanges = 0
  Unwanted = {2}
  ReplayMode = "all"
  CheckpointEvery = 2
  RowsPerPoll = 1
  MaxLog = 4
  MaxFaults = 2
  MaxResets = 1
  Unset = Unset
  Legacy = Legacy
  Browser = FALSE
  Procs = {"p1", "p2"}
  Subjects = {"alice", "bob"}
  Batches = {"b1"}
  SubjectOf <- Offered
  Nobody = Nobody
  MaxBatches = 1
  MaxAttempts = 2
  MaxSwitches = 2
  MaxStops = 1
  Scenes = {"stream", "consumer", "node", "tabs",
            "processes", "verbs", "redirects"}
INVARIANTS SlotsExact WorldExact
PROPERTIES ConsumerPromise OutboxKept
CHECK_DEADLOCK FALSE
