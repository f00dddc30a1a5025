\* Two workers, a user who clears a history and a count that is seeded late.
SPECIFICATION Spec
CONSTANTS
  Projects = {p1, p2}
  None = none
  Drifted = drifted
  LineBytes = 1
  ArchiveBytes = {30}
  CacheSize = 40
  Earlier = 1
  MaxRuns = 3
  MaxClears = 1
SYMMETRY Symmetry
CHECK_DEADLOCK FALSE
INVARIANTS TypeOK EvictsOldest WithinLimit
PROPERTIES CountCorrected
