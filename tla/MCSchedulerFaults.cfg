SPECIFICATION Spec
CONSTANTS
  t1 = t1
  t2 = t2
  Tasks = {t1}
  Workers = {w1, w2}
  Priority <- MCPriority
  Authoritative = {}
  NoOwner = NoOwner
  NoTask = NoTask
  MaxFaults = 2
  Reports <- MCReports
  RunnerChoices <- MCRunnerChoices
  OperatorChoices <- MCFewOperatorChoices
  RunIdsReported = TRUE
INVARIANTS TypeOK   FailureCountedOnce LogAgrees ReleaseAfterReview
 
SYMMETRY Symmetry
