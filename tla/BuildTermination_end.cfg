\* How one transaction ends.
SPECIFICATION LiveSpec
CONSTANTS
  Roots = {r1}
  Kids = {}
  Owned = {o}
  MaxTx = 1
  Breakable = TRUE
PROPERTIES DeadlineEnds GoneSettles
