\* Two overlapping processes: the pool looks short to one while the other signs.
SPECIFICATION Spec
CONSTANTS
  Processes = {p1, p2}
  NoTx = NoTx
  Life = 1
  Lag = 1
  MaxTime = 4
  MaxFaults = 0
INVARIANT FailureIsFinal
\* The order may be finished, and time ends.
CHECK_DEADLOCK FALSE
