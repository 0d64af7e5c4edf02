SPECIFICATION MCSpec
CONSTANTS
  Scenes = {"reaping", "two roots", "providers", "routes", "webhooks", "credentials", "documents", "decisions", "race", "drives"}
  Requests = {"r1"}
  Principals <- Everyone
  Human = {"operator"}
  Scopes <- EveryCapability
  Unscoped = Unscoped
  Active <- EveryRoute
  MaxChanges = 1
  Tasks = {"t1", "t2", "t3"}
  Procs = {"p1", "p2", "p3"}
  Home <- Apart
  Roots = {1, 2}
  NoTask = "none"
  MaxRefs = 1
  Exts <- TwoOrganizations
  Users = {"u1", "u2"}
  Machines = {"m1", "m2"}
  Workspaces = {"w1", "w2"}
  Default = "w1"
  Documents <- ThreeDocuments
  MaxEvents = 4
  MaxTime = 3
  MaxAdmin = 3
  MaxInFlight = 2
INVARIANTS FenceHolds  AccessFollows
PROPERTIES DrivesReplay
CHECK_DEADLOCK FALSE
