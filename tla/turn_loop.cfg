SPECIFICATION FairSpec
CONSTANTS
  Absent = Absent
  Ids <- TurnIds
  MaxSteps = 2
  MaxTurns = 1
  MaxCalls = 2
  MaxSteers = 1
  MaxFaults = 1
  MaxCrashes = 1
INVARIANTS NeverCorrupt RecordedBeforeRun LogTellsWhatRan
INVARIANTS AnsweredOnce TurnLeavesNothingOpen SteersKept AbortStopsBatch
PROPERTIES AbortEndsTurn
CHECK_DEADLOCK FALSE
