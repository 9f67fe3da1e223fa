\* The owner zone is placed, and the placement withdrawn; a peer reports.
SPECIFICATION FairSpec
CONSTANTS
  Zones = {self, peer}
  Self = self
  peer = peer
  Versions = {v1}
  v1 = v1
  v2 = v2
  Msgs <- MCMsgs
  None = None
  Strategy = "Global"
  Tolerance = 0
  MaxRetries = 1
  InitialStatuses <- MCNew
  Places <- MCPlaces
  PeerSections <- MCPeerSections
  Charts <- MCOneChart
  RetryAttempts = 2
  MaxLag = 0
  Budgets <- MCWithdrawn
PROPERTY Converges
