\* Every fault, two executions, two cancel requests.
CONSTANTS
  MaxTries = 2
  MaxRounds = 2
  Clients = {c1, c2}
  Faults = {"research", "database", "webhook", "enqueue", "timeout", "restart"}
SYMMETRY Symmetry
SPECIFICATION Spec
INVARIANTS
  TypeOK
  ReportIsBilled
  DoneHasReport
  CompletionCarriesReport
  OneLateRound
PROPERTIES
  RowsWrittenOnce
  ImplementsRecord
\* One job is submitted, and the run ends with it.
CHECK_DEADLOCK FALSE
