SPECIFICATION Spec
CONSTANTS
  Workers = {w1, w2}
  NoWorker = NoWorker
  RunnerOutcomes <- ProtocolOutcomes
  ProposalStatuses = {"waiting_for_approval"}
  Engagements = {}
  AttemptLimit = 0
  TurnLimit = 0
  TurnsPerClaim = 1
  ApplyTries = 2
  HostRetries = 1
  MaxTurns = 2
  MaxGuidance = 1
  MaxStalls = 1
  MaxCrashes = 0
CHECK_DEADLOCK FALSE
SYMMETRY WorkerSymmetry
PROPERTY GuidanceConsidered
INVARIANT TurnSequence
PROPERTY ResultsAreDurable
PROPERTY AppliedUnderAuthority
