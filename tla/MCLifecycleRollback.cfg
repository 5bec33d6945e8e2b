SPECIFICATION Spec
CONSTANTS
  Candidates = {c1, c2}
  Mains = {m1}
  Artifacts = {a1}
  Releases = {r1}
  None = None
  DeliveryModels = {"HYBRID"}
  MaxForeign = 0
  Procs = {p1}
  Drivers = {p1}
  NoRequest = NoRequest
  Targets <- MCTargets
  MaxDetours = 1
  Hotfix = FALSE
INVARIANT RollbackRecordable
CHECK_DEADLOCK FALSE
