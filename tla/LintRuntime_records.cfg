\* Records, display and processes under i/o errors, vanishing projects and
\* toggles in quick succession: one project.
SPECIFICATION LiveSpec
CONSTANTS
  Projects = {p1}
  NoProject = none
  NumCommands = 2
  DiscoveryImmediate = FALSE
  IoMayFail = TRUE
  PatientUser = FALSE
  Leftovers <- SomeLeftovers
  MaxEdits = 1
  MaxToggles = 3
  MaxDirChanges = 2
  MaxEvents = 4
  MaxSyncs = 2
CHECK_DEADLOCK FALSE
INVARIANTS TypeOK NoStrandedRunning NoGhostSpinner NoOrphanCommand PauseConverges LiveRunMarked VerdictIsNewest
PROPERTIES JoinReturns DropEndsAll
