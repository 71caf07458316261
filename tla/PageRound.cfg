\* Two queries with up to two results; three pages for two permits.
CONSTANTS
  Urls = {u1, u2, u3}
  Queries = 2
  PerQuery = 2
  FetchCap = 3
  PageFindings = 1
  Permits = 2
  Rounds = 2
SPECIFICATION FairSpec
INVARIANTS
  BillIsComplete
  PaidOnce
PROPERTIES
  ImplementsRound
  RoundEnds
\* The run is billed once.
CHECK_DEADLOCK FALSE
