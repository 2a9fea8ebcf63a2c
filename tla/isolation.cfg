SPECIFICATION FairSpec
CONSTANTS
  one = one
  two = two
  old = old
  new = new
  Task = {one, two}
  Path = {old, new}
  Plans <- AnyPlan
  InHead = {old}
  Absent = Absent
  Head = Head
  User = User
  MaxAttempts = 2
INVARIANTS AsReviewed LeftoversAreIntegrated WorkspacesFollowTheirTasks
PROPERTIES RevertKeepsCompletedWork EditsAreSeen EveryTaskEnds
CHECK_DEADLOCK FALSE
