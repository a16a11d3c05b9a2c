\* A denial, then a round with the denied tool and another one.
CONSTANTS
  Runs = {r1}
  Tasks = {t1, t2}
  Tools = {"get", "restart", "scale"}
  Mutating <- TwoMutating
  Ask <- AskUser
  Rounds <- MutatingRounds
  AutoApprove = FALSE
  MaxIterations = 2
  MaxCallsPerTool = 1
  Provided <- ClaudeOrLocal
  MayMutate <- DevOnly
  Budget <- TwoAnswers
SPECIFICATION Spec
INVARIANT DeniedIsNeverRun
CHECK_DEADLOCK FALSE
