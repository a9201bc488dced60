\* Two overlapping processes; transactions live for one block and solidify
\* after one, and there is time to replace one and deliver it.
SPECIFICATION Spec
CONSTANTS
  Processes = {p1, p2}
  NoTx = NoTx
  Life = 1
  Lag = 1
  MaxTime = 3
  MaxFaults = 1
SYMMETRY ProcessesAreAlike
INVARIANTS
  TypeOK
  RetriesDoNotOverlap
  OutcomesAreTrue
  FinalAnswersAreTaken
PROPERTIES
  JournalIsReliable
  ImplementsProvider
\* The order may be finished, and time ends.
CHECK_DEADLOCK FALSE
