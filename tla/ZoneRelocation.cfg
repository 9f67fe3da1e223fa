\* Another zone owns the application and moves it away and back, or a new chart version
\* appears at any moment.
SPECIFICATION FairSpec
CONSTANTS
  Zones = {self, peer}
  Self = self
  peer = peer
  Versions = {v1, v2}
  v1 = v1
  v2 = v2
  Msgs <- MCMsgs
  None = None
  Strategy = "Global"
  Tolerance = 0
  MaxRetries = 1
  InitialStatuses <- MCPlacedHere
  Places <- MCPlaces
  PeerSections <- MCPeerSections
  Charts <- MCTwoCharts
  RetryAttempts = 2
  MaxLag = 0
  Budgets <- MCRelocation
INVARIANT TypeOK
PROPERTY Converges
