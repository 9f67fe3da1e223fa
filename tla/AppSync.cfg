\* Jobs of an application beside others, faults, a restart; the last of them may be over.
SPECIFICATION FairSpec
CONSTANTS
  App <- MCApp
  Versions = {1, 2}
  Tagged = {2}
  Manifest <- MCManifest
  Parent <- MCParent
  Foreign <- MCForeign
  Worlds <- MCWorlds
  Workers = {w1, w2}
  NoLabel = NoLabel
  None = None
  MaxBehind = 1
  Budgets <- MCBudgets
INVARIANTS TypeOK DoneMeansDoomed Isolated HealthsAgree
PROPERTIES SyncSucceeds CleanupCompletes
CHECK_DEADLOCK FALSE
