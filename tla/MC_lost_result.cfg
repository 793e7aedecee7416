SPECIFICATION Spec
CONSTANTS
  Workers = {w1, w2}
  NoWorker = NoWorker
  RunnerOutcomes <- ProtocolOutcomes
  ProposalStatuses = {"waiting_for_approval"}
  Engagements = {}
  AttemptLimit = 0
  TurnLimit = 0
  TurnsPerClaim = 1
  ApplyTries = 1
  HostRetries = 0
  MaxTurns = 2
  MaxGuidance = 0
  MaxStalls = 0
  MaxCrashes = 0
CHECK_DEADLOCK FALSE
SYMMETRY WorkerSymmetry
PROPERTY CheckpointContinues
