\* Two calls that share a credential with one slot and small windows, with and without
\* Redis.  The provider's key may disappear.
CONSTANTS
  Calls = {c1, c2}
  MaxRetries = 1
  MaxRpm = 1
  MaxTpm = 1
  MaxConcurrent = 1
  MaxProvider = 1
  MaxJob = 1
  Expiring = {"prov"}
  FailureThreshold = 2
  SuccessThreshold = 2
SPECIFICATION FairSpec
INVARIANTS
  TypeOK
  CallsWithinLimit
  SlotsReturned
PROPERTIES
  OpenCircuitRests
  CallsEnd
