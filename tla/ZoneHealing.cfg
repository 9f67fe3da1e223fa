\* Failing jobs, a restart, lost resources, changing health, a deletion.
SPECIFICATION FairSpec
CONSTANTS
  Zones = {self, peer}
  Self = self
  peer = peer
  Versions = {v1}
  v1 = v1
  v2 = v2
  Msgs <- MCMsgs
  None = None
  Strategy = "Local"
  Tolerance = 0
  MaxRetries = 1
  InitialStatuses <- MCNew
  Places <- MCPlaces
  PeerSections <- MCPeerSections
  Charts <- MCOneChart
  RetryAttempts = 2
  MaxLag = 0
  Budgets <- MCHealing
PROPERTIES HealthReported DeletionCompletes
