SPECIFICATION FairSpec
CONSTANTS
  Peers = {1}
  Idents = {0, 1, 2}
  NoPort = 0
  Slots = {1, 2}
  None = None
  MaxStarts = 2
  MaxChanges = 1
  MaxJumps = 1
INVARIANT TypeOK
INVARIANT EventsTellTheTable
PROPERTY LossesAreTolerated
PROPERTY TableFollowsPeers
