SPECIFICATION Spec
CONSTANTS
  Workers = {w1, w2}
  NoWorker = NoWorker
  RunnerOutcomes <- WaitOutcomes
  ProposalStatuses = {"waiting_for_approval", "queued", "paused"}
  Engagements = {"waiting_for_agent", "completed"}
  AttemptLimit = 0
  TurnLimit = 0
  TurnsPerClaim = 1
  ApplyTries = 1
  HostRetries = 1
  MaxTurns = 1
  MaxGuidance = 1
  MaxStalls = 0
  MaxCrashes = 0
CHECK_DEADLOCK FALSE
SYMMETRY WorkerSymmetry
INVARIANT LeaseOnlyWhenRunning
PROPERTY WaitSurvivesPause
PROPERTY ImplementsLifecycle
