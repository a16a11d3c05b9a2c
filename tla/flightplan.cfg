\* One run of ship-to-prod, every event of the environment, two approvals and
\* two exceptions.
CONSTANTS
  Runs = {r1}
  Tasks = {t1, t2}
  Steps <- ShipToProd
  Outputs <- OneOutput
  AgentResults = {"success", "failed"}
  Triggers <- UserOrPush
  CurrentRoles <- DevRole
  MutatingEnabled = TRUE
  Budget <- EveryEvent
SPECIFICATION FairSpec
INVARIANTS
  TypeOK
  GateHonoured
  NoStepTwice
  SuccessIsComplete
  PastTheGate
  AbortStops
  RunningHasOwner
PROPERTIES
  RunningEnds
  ImplementsLifecycle
CHECK_DEADLOCK FALSE
