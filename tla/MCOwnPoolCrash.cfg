\* One process that dies after a broadcast.
SPECIFICATION Spec
CONSTANTS
  Processes = {p1}
  NoTx = NoTx
  Life = 1
  Lag = 1
  MaxTime = 4
  MaxFaults = 1
INVARIANT SuccessIsRecordable
\* The order may be finished, and time ends.
CHECK_DEADLOCK FALSE
