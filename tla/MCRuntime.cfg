SPECIFICATION FairSpec
CONSTANTS
  RootTask = t0
  Tasks = {t0, t1}
  RootRisks = {1, 2}
  RootRepairs = 1
  MaxRisk = 2
  p1 = p1
  p2 = p2
  Processes = {p1, p2}
  Crew <- MCCrew
  None = None
  Models = {m1}
  Patches = {x}
  AskedFor = {"replan", "findings", "diff"}
  Reproducible = TRUE
  OperatorStates = {"CANCELLED"}
  SyncTries = 2
  MaxParallel = 1
  MaxFaults = 2
INVARIANTS PhasesBacked ReplannedHeld ReplanDescends
PROPERTIES ReplansCompleted NodesSettle
CHECK_DEADLOCK FALSE
