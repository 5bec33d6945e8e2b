SPECIFICATION BundleSpec
CONSTANTS
  Candidates = {c1, c2}
  Mains = {m1}
  Artifacts = {a1}
  Releases = {r1}
  None = None
  DeliveryModels = {"PACKAGE_OR_PLUGIN", "HOSTED_RUNTIME_SERVICE", "HYBRID"}
  MaxForeign = 1
  Procs = {p1, p2}
  Drivers = {p1}
  NoRequest = NoRequest
  Targets <- MCTargets
  MaxDetours = 1
  Hotfix = FALSE
INVARIANTS TypeOK ResolvedAloneReplays
PROPERTIES ProgressKept SignedAtHead KeepsContract
CHECK_DEADLOCK FALSE
