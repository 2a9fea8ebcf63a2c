SPECIFICATION Spec
CONSTANTS
  edit = edit
  look = look
  check = check
  joint = joint
  extra = extra
  Tasks = {edit, look, check, joint, extra}
  Planned <- First
  Place <- Order
  DependsOn <- Graph
  Overlapping <- SamePaths
  Provider <- TwoProviders
  MaxGlobal = 2
  MaxPerProvider = 2
  Kind <- Kinds
  Writing <- Owners
  Risk <- Risks
  Setups <- Both
  Proportional = TRUE
  TriageRetries = 1
  ReviewRevisions = 1
  MaxRepackages = 1
  MaxReviewAttempts = 2
  MaxSpawnedTasks = 1
  MaxPlans = 3
  MaxEvents = 0
INVARIANT AtMostOneApproved
CHECK_DEADLOCK FALSE
