SPECIFICATION FairSpec
CONSTANTS
  k1 = k1
  k2 = k2
  k3 = k3
  b1 = b1
  b2 = b2
  Versions = {1, 2}
  Ships <- MCShips
  Block <- MCBlock
  UserContents = {u}
  None = None
  MaxWishes = 2
  MaxEdits = 2
  MaxCrashes = 1
INVARIANT InstallerTypeOK
PROPERTIES UserWorkKept InstallConverges
CHECK_DEADLOCK FALSE
