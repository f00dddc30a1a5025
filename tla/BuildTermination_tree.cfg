\* One external build with two descendants, siblings or a chain.
SPECIFICATION Spec
CONSTANTS
  Roots = {r1}
  Kids = {k1, k2}
  Owned = {}
  MaxTx = 1
  Breakable = FALSE
INVARIANTS OneSignalEach NoTargetForgotten
PROPERTIES LeavesFirst
