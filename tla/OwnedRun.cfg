\* Three launches, two lines each, two termination requests per run; the fourth
\* launch meets the exhausted counter.
SPECIFICATION LiveSpec
CONSTANTS
  MaxId = 4
  MaxLines = 2
  MaxStops = 2
CHECK_DEADLOCK FALSE
INVARIANTS TypeOK PendingIsAnswered FinishedIsLast NoLineLost OutputAttributed MarkerIsLast
PROPERTIES SignalsUnreaped ImplementsRunSlot RequestResolved StoppingEnds
