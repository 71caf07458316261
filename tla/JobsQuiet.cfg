\* The engine and the webhook may raise; nothing cuts an execution short.
CONSTANTS
  MaxTries = 2
  MaxRounds = 2
  Clients = {c1, c2}
  Faults = {"research", "webhook"}
SPECIFICATION FairSpec
INVARIANTS
  OneVerdict
PROPERTIES
  VerdictIsKept
  EveryJobEnds
\* One job is submitted, and the run ends with it.
CHECK_DEADLOCK FALSE
