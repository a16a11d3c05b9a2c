CONSTANTS
  a = a
  b = b
  Jobs <- MCJobs
  Scenes <- MCScenes
  MaxReplicas = 10
  MaxPolls = 1
SPECIFICATION FairSpec
INVARIANTS
  TypeOK
  DeployIsEarned
  BadReleaseIsRolledBack
  GuardrailsHold
  RollbackRestores
PROPERTIES
  ClaimsComeTrue
CHECK_DEADLOCK FALSE
