SPECIFICATION Spec
CONSTANTS
  one = one
  two = two
  old = old
  new = new
  Task = {one, two}
  Path = {old, new}
  Plans <- Leaking
  InHead = {old}
  Absent = Absent
  Head = Head
  User = User
  MaxAttempts = 2
INVARIANT WaitsForTheActive
CHECK_DEADLOCK FALSE
