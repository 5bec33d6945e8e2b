SPECIFICATION FairSpec
CONSTANTS
  t1 = t1
  t2 = t2
  Tasks = {t1, t2}
  Workers = {w1}
  Priority <- MCPriority
  Authoritative <- MCAuthoritative
  NoOwner = NoOwner
  NoTask = NoTask
  MaxFaults = 1
  Reports <- MCReports
  RunnerChoices <- MCRunnerChoices
  OperatorChoices <- MCOperatorChoices
  RunIdsReported = TRUE
PROPERTY TasksSettle
