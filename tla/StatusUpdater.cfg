\* All update functions against all foreign writers, one job and the reconciler;
\* the zone's section is removed and created again.
SPECIFICATION Spec
CONSTANTS
  Zones = {self, peer}
  Self = self
  peer = peer
  Versions = {v1}
  v1 = v1
  Msgs = {""}
  None = None
  Jobs = {j1}
  Reconciler = reconciler
  JobRequests <- MCJobRequests
  PassRequests <- MCPassRequests
  PeerSections <- MCPeerSections
  PeerPlacements <- MCPeerPlacements
  MaxTries = 2
  MaxSkip = 0
  MaxLog = 4
INVARIANTS TypeOK ZoneVersionsFresh
PROPERTIES CancelledNeverOverwrites ImplementsAtomicStatus
