SPECIFICATION Spec
CONSTANTS
  one = one
  two = two
  old = old
  new = new
  Task = {one, two}
  Path = {old, new}
  Plans <- Retiring
  InHead = {old}
  Absent = Absent
  Head = Head
  User = User
  MaxAttempts = 2
INVARIANT CompletedWorkStays
CHECK_DEADLOCK FALSE
