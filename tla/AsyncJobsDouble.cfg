\* Three successive jobs of two types for one application.
SPECIFICATION Spec
CONSTANTS
  Apps = {app}
  JobTypes = {Deployment, Undeployment}
  Workers <- MCWorkers
  None = None
ACTION_CONSTRAINT InOrder
INVARIANT NoDoubleStart
