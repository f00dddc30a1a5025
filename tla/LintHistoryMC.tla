--------------------------- MODULE LintHistoryMC ---------------------------
(* LintHistory for TLC: the workers are interchangeable, as no property is *)
(* a liveness property.                                                    *)
EXTENDS LintHistory

Symmetry == Permutations(Projects)
=============================================================================
