--------------------------- MODULE LintRuntimeMC ---------------------------
(* LintRuntime for TLC: what a previous session may have left on disk.     *)
EXTENDS LintRuntime

\* Nothing, a run that died, and a run whose process died between the terminal
\* record and the history append.
SomeLeftovers == {<<"none", "NoLog">>, <<"running", "failed">>, <<"passed", "failed">>}
=============================================================================
