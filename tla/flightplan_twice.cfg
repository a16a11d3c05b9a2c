\* Two approvals, nothing else.
CONSTANTS
  Runs = {r1}
  Tasks = {t1, t2}
  Steps <- ShipToProd
  Outputs <- OneOutput
  AgentResults = {"success", "failed"}
  Triggers <- UserOrPush
  CurrentRoles <- DevRole
  MutatingEnabled = TRUE
  Budget <- OnlyApprovals
SPECIFICATION Spec
INVARIANT ResumeFindsItPaused
CHECK_DEADLOCK FALSE
