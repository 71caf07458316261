\* Two executions of a job, four sources, two endpoints and two attempts: a restart
\* after any commit, three pages and more than one delivery that fails.
CONSTANTS
  MaxExecutions = 2
  MaxSources = 4
  Executions <- MCExecutions
  SourceKeys <- MCSourceKeys
  Limit = 2
  Endpoints = {w1, w2}
  MaxAttempts = 2
  MaxRounds = 2
SPECIFICATION ClientsFairSpec
INVARIANTS
  ClientsTypeOK
  CompletionTold
  CompletedPollHasReport
  PagesAreWhole
  FullEffort
  EndpointsAgree
PROPERTIES
  StreamFollows
  DeliveriesEnd
CHECK_DEADLOCK FALSE
