\* A pass and a handler of the HTTP API ask; a fitting version is published late.
SPECIFICATION FairSpec
CONSTANTS
  Versions <- MCVersions
  Initial <- MCInitial
  Wanted <- MCVersions
  Clients = {reconciler, handler}
  Syncer = syncer
  Nil = nil
  None = None
  MaxFaults = 1
INVARIANTS TypeOK BehindOnlyWhenHurried AnswerUnlessFailed
PROPERTIES ForwardOnly CatchesUp
