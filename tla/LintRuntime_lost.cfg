\* A pause and a resume in quick succession.
SPECIFICATION Spec
CONSTANTS
  Projects = {p1}
  NoProject = none
  NumCommands = 1
  DiscoveryImmediate = FALSE
  IoMayFail = FALSE
  PatientUser = FALSE
  Leftovers <- SomeLeftovers
  MaxEdits = 1
  MaxToggles = 2
  MaxDirChanges = 0
  MaxEvents = 4
  MaxSyncs = 1
CHECK_DEADLOCK FALSE
INVARIANT NoLostWork
