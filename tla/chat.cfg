\* One run; three answers (replies or decisions), each by a user of any role; one round
\* a segment (chat_ends has two).
CONSTANTS
  Runs = {r1}
  Tasks = {t1, t2}
  Tools = {"get", "restart", "scale"}
  Mutating <- TwoMutating
  Ask <- AskUser
  Rounds <- ApprovalRounds
  AutoApprove = FALSE
  MaxIterations = 1
  MaxCallsPerTool = 1
  Provided <- ClaudeOrLocal
  MayMutate <- AnyRole
  Budget <- ThreeAnswers
SPECIFICATION Spec
INVARIANTS
  TypeOK
  MutationsAreGranted
  PausedIsResumable
SYMMETRY SlotSymmetry
CHECK_DEADLOCK FALSE
