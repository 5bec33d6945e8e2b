SPECIFICATION FairSpec
CONSTANTS
  Candidates = {c1, c2}
  Mains = {m1}
  Artifacts = {a1}
  Releases = {}
  None = None
  DeliveryModels = {"PACKAGE_OR_PLUGIN", "HOSTED_RUNTIME_SERVICE"}
  MaxForeign = 1
  Procs = {p1}
  Drivers = {p1}
  NoRequest = NoRequest
  Targets <- MCTargets
  MaxDetours = 2
  Hotfix = FALSE
INVARIANTS ChainVerifies GatesInOrder
PROPERTIES ResolvedStays CaseIsVerified
CHECK_DEADLOCK FALSE
