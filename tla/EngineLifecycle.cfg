SPECIFICATION FairSpec
CONSTANTS
  A = A  B = B
  Ports = {1, 2, 3}
  Dirs = {A, B}
  None = None
  MaxDrops = 1
INVARIANT PortsAgree
INVARIANT NotInOwnWay
INVARIANT StoreFollowsConfig
PROPERTY DropReleases
