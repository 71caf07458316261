\* The brief mode with its own number of rounds.
CONSTANTS
  Urls = {u1}
  Texts = {t1}
  NoText = empty
  Bodies <- MCBodies
  MaxFindings = 2
  Queries = {q1}
  Question = q1
  Requested = {0}
  FetchCap = 1
  PageFindings = 1
  MinRounds = 2
  MaxEmptyRounds = 2
SPECIFICATION EngineSpec
INVARIANT BriefSearches
CHECK_DEADLOCK FALSE
