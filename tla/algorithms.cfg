CONSTANTS
  Names <- MCNames
  Plans <- MCPlans
  Conditions <- MCConditions
  Contexts <- MCContexts
  Texts <- MCTexts
  Threads <- MCThreads
  Talks <- MCTalks
  Threshold = 3
  Keep = 2
  MaxChars = 10000
  Kept = 300
  Suffix = 26
SPECIFICATION Spec
INVARIANTS
  OrderIsRight
  StepRunsWhenItHolds
  CallsAreFound
  HistoryIsKept
