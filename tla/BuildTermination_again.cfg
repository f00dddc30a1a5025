\* Two transactions on an external and an owned build, the second under the late
\* answers of the first.
SPECIFICATION Spec
CONSTANTS
  Roots = {r1}
  Kids = {}
  Owned = {o}
  MaxTx = 2
  Breakable = FALSE
INVARIANTS TypeOK ResultsHold TerminatingIsActive OffKeepsNothing
PROPERTIES OwnAnswer
