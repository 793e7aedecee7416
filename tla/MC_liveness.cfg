SPECIFICATION FairSpec
CONSTANTS
  Workers = {w1, w2}
  NoWorker = NoWorker
  RunnerOutcomes <- RetryOutcomes
  ProposalStatuses = {"waiting_for_approval"}
  Engagements = {}
  AttemptLimit = 0
  TurnLimit = 0
  TurnsPerClaim = 1
  ApplyTries = 2
  HostRetries = 1
  MaxTurns = 1
  MaxGuidance = 0
  MaxStalls = 0
  MaxCrashes = 1
CHECK_DEADLOCK FALSE
PROPERTY FinishedTurnSettles
PROPERTY RunProgresses
PROPERTY WorkersReturn
