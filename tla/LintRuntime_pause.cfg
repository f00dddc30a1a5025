\* Pause and resume with a user who waits for a toggle to settle: two projects.
SPECIFICATION LiveSpec
CONSTANTS
  Projects = {p1, p2}
  NoProject = none
  NumCommands = 1
  DiscoveryImmediate = FALSE
  IoMayFail = FALSE
  PatientUser = TRUE
  Leftovers <- SomeLeftovers
  MaxEdits = 1
  MaxToggles = 3
  MaxDirChanges = 0
  MaxEvents = 5
  MaxSyncs = 1
CHECK_DEADLOCK FALSE
INVARIANTS NoLostWork StaleIsPending
PROPERTIES EditsGetLinted
