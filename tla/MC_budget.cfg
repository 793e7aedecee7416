SPECIFICATION Spec
CONSTANTS
  Workers = {w1, w2}
  NoWorker = NoWorker
  RunnerOutcomes <- FailureOutcomes
  ProposalStatuses = {"waiting_for_approval"}
  Engagements = {}
  AttemptLimit = 3
  TurnLimit = 2
  TurnsPerClaim = 1
  ApplyTries = 2
  HostRetries = 1
  MaxTurns = 3
  MaxGuidance = 0
  MaxStalls = 1
  MaxCrashes = 0
CHECK_DEADLOCK FALSE
SYMMETRY WorkerSymmetry
INVARIANT TypeOK
INVARIANT TurnBudgetHeld
INVARIANT InvocationReserved
 
