CONSTANTS
  a = a
  b = b
  Procs = {p1, p2}
  Plans = {a, b}
  MaxNow = 3
  Followed = {1, 2, 3, 4}
  Scenes <- MCScenes
SPECIFICATION FairSpec
INVARIANTS
  TypeOK
  SlotFiresOnce
  NoSlotSlips
  StrandedByTroubleOnly
PROPERTIES
  SchedulerGoesOn
  ImplementsLifecycle
CHECK_DEADLOCK FALSE
