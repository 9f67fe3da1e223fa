\* A deletion under a lagging cache, with a failed write and a restart, or with a job that
\* the registry loses.
SPECIFICATION Spec
CONSTANTS
  Zones = {self, peer}
  Self = self
  peer = peer
  Versions = {v1}
  v1 = v1
  v2 = v2
  Msgs <- MCMsgs
  None = None
  Strategy = "Local"
  Tolerance = 0
  MaxRetries = 1
  InitialStatuses <- MCNew
  Places <- MCPlaces
  PeerSections <- MCPeerSections
  Charts <- MCOneChart
  RetryAttempts = 2
  MaxLag = 1
  Budgets <- MCSafety
INVARIANTS NoDoubleSchedule NoJobWithoutObject OrphansExplained NoUnaskedUndeploy
