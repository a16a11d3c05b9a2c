CONSTANTS
  a = a
  b = b
  Jobs <- MCJobs
  Scenes <- TestScenes
  MaxReplicas = 10
  MaxPolls = 1
SPECIFICATION Spec
INVARIANT FailedTestsStop
CHECK_DEADLOCK FALSE
