SPECIFICATION MCSpec
CONSTANTS
  Process = {"p1", "p2", "p3"}
  Entry = {"e1", "e2"}
  PidsReturn = TRUE
  PowerMayFail = TRUE
  ForcedClose = FALSE
  MaxFaults = 2
  MaxReads = 1
  MaxAccepted = 3
  Absent = Absent
  Blank = Blank
  Unread = Unread
  NoJob = NoJob
  Scenes = {"lease", "fresh pids", "journal"}
INVARIANTS SingleWriter JournalKept
PROPERTIES LeaseRecovers
CHECK_DEADLOCK TRUE
