\* Two overlapping processes and two delegations, the first of which the signer
\* refuses; a page holds one source. Undelegations live for one block and
\* solidify after one, and one of them may expire or a call may fail.
SPECIFICATION FairSpec
CONSTANTS
  Processes = {p1, p2}
  NumSources = 2
  Refused <- OnlyTheFirst
  MaxSources = 1
  NoTx = NoTx
  Lease = 1
  Life = 1
  Lag = 1
  MaxAttempts = 2
  MaxFaults = 1
INVARIANTS
  TypeOK
  OutcomesAreTrue
PROPERTIES
  ImplementsLease
  DueSourcesAreDecided
