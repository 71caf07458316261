\* One job without sources and its event stream.
CONSTANTS
  MaxExecutions = 1
  MaxSources = 1
  Executions <- MCExecutions
  SourceKeys <- MCSourceKeys
  Limit = 1
  Endpoints = {w1}
  MaxAttempts = 1
  MaxRounds = 1
SPECIFICATION ClientsFairSpec
PROPERTY StreamTellsEnd
CHECK_DEADLOCK FALSE
