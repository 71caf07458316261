\* No fault at all: the cancellation alone.
CONSTANTS
  MaxTries = 1
  MaxRounds = 1
  Clients = {c1}
  Faults = {}
SPECIFICATION Spec
INVARIANT AcknowledgedCancelHolds
CHECK_DEADLOCK FALSE
