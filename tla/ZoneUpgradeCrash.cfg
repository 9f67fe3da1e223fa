\* A restart during an upgrade.
SPECIFICATION FairSpec
CONSTANTS
  Zones = {self, peer}
  Self = self
  peer = peer
  Versions = {v1, v2}
  v1 = v1
  v2 = v2
  Msgs <- MCMsgs
  None = None
  Strategy = "Local"
  Tolerance = 0
  MaxRetries = 1
  InitialStatuses <- MCNew
  Places <- MCPlaces
  PeerSections <- MCPeerSections
  Charts <- MCTwoCharts
  RetryAttempts = 2
  MaxLag = 0
  Budgets <- MCUpgradeCrash
PROPERTY Converges
