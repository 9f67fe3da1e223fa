\* Three successive jobs of two types for one application.
SPECIFICATION FairSpec
CONSTANTS
  Apps = {app}
  JobTypes = {Deployment, Undeployment}
  Workers <- MCWorkers
  None = None
ACTION_CONSTRAINT InOrder
INVARIANTS TypeOK LiveJobsAreTracked NothingOverwritten NoDeadEntry
PROPERTIES FinishedJobLeaves CancelledJobEnds
