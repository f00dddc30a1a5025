\* What a terminal record says of a target that was signalled and did not go.
SPECIFICATION Spec
CONSTANTS
  Roots = {r1}
  Kids = {}
  Owned = {}
  MaxTx = 1
  Breakable = FALSE
INVARIANTS RefusedIsUnsignalled
