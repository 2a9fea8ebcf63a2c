SPECIFICATION FairSpec
CONSTANTS
  edit = edit
  look = look
  check = check
  joint = joint
  extra = extra
  Tasks = {edit, look, check, joint, extra}
  Planned <- First
  Place <- Order
  DependsOn <- Graph
  Overlapping <- SamePaths
  Provider <- TwoProviders
  MaxGlobal = 2
  MaxPerProvider = 2
  Kind <- Kinds
  Writing <- Owners
  Risk <- Risks
  Setups <- Serial
  Proportional = TRUE
  TriageRetries = 1
  ReviewRevisions = 1
  MaxRepackages = 1
  MaxReviewAttempts = 2
  MaxSpawnedTasks = 1
  MaxPlans = 2
  MaxEvents = 1
INVARIANTS RunningApart WithinLimits NeverStuck AttemptsBounded RunSettled
PROPERTIES UserCancelIsFinal RunEnds
CHECK_DEADLOCK FALSE
