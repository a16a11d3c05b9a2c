\* Two answers by a user who may mutate, and one abort, exception or crash; fairness.
CONSTANTS
  Runs = {r1}
  Tasks = {t1, t2}
  Tools = {"get", "restart"}
  Mutating <- OneMutating
  Ask <- AskUser
  Rounds <- DialogueRounds
  AutoApprove = FALSE
  MaxIterations = 2
  MaxCallsPerTool = 1
  Provided <- ClaudeOrLocal
  MayMutate <- DevOnly
  Budget <- TwoAnswersOneTrouble
SPECIFICATION FairSpec
INVARIANTS
  TraceIsSequence
PROPERTIES
  RunningEnds
  WaitingEnds
  ImplementsLifecycle
CHECK_DEADLOCK FALSE
