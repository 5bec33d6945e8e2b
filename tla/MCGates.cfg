SPECIFICATION GateFairSpec
CONSTANTS
  Candidates = {c1, c2}
  Mains = {m1}
  Artifacts = {a1}
  Releases = {}
  None = None
  DeliveryModels = {"PACKAGE_OR_PLUGIN", "HYBRID"}
  MaxForeign = 0
  Procs = {p1}
  Drivers = {p1}
  NoRequest = NoRequest
  Targets <- MCTargets
  MaxDetours = 1
  HighRisk = TRUE
  Hotfix = FALSE
PROPERTIES GatesProved ExposureNotForgotten CaseIsProved
CHECK_DEADLOCK FALSE
