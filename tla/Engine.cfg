\* Every mode, with and without a number of rounds; three URLs, of which a round fetches two.
CONSTANTS
  Urls = {u1, u2, u3}
  Texts = {t1}
  NoText = empty
  Bodies <- MCBodies
  MaxFindings = 2
  Queries = {q1, q2}
  Question = q1
  Requested <- MCRequested
  FetchCap = 2
  PageFindings = 2
  MinRounds = 2
  MaxEmptyRounds = 2
SPECIFICATION FairEngineSpec
INVARIANTS
  EngineTypeOK
  OneRoundPerUrl
  ReportedIsStored
PROPERTIES
  NoSearchAfterCancel
  RunEnds
\* The run is over once.
CHECK_DEADLOCK FALSE
