SPECIFICATION MCFairSpec
CONSTANTS
  Streams = {"s1"}
  Principals = {"p1"}
  Tenants = {"t1"}
  OwnerOf <- Owners
  TenantOf <- Homes
  MaxTotal = 1
  MaxPerPrincipal = 1
  MaxPerTenant = 1
  PageLimit = 2
  Private = {2}
  MaxSeq = 4
  MaxChanges = 3
  Unwanted = {2}
  ReplayMode = "tail"
  CheckpointEvery = 2
  RowsPerPoll = 1
  MaxLog = 3
  MaxFaults = 2
  MaxResets = 1
  Unset = Unset
  Legacy = Legacy
  Browser = FALSE
  Procs = {"p1"}
  Subjects = {"alice"}
  Batches = {"b1", "b2"}
  SubjectOf <- Offered
  Nobody = Nobody
  MaxBatches = 2
  MaxAttempts = 2
  MaxSwitches = 1
  MaxStops = 1
  Scenes = {"stream", "consumer", "node", "tabs"}
INVARIANTS StreamFaithful
PROPERTIES DeliveryProgress
CHECK_DEADLOCK FALSE
