SPECIFICATION Spec
CONSTANTS
  c1 = c1
  c2 = c2
  r1 = r1
  r2 = r2
  Runs = {r1, r2}
  RunOf <- TwoRuns
  Calls = {c1, c2}
  NoCall = NoCall
  Reads = {}
  Reviewed = {c1}
  AutoApproved = {c1}
  Claimants = {c1, c2}
  ActionLimit = 1
  PersistTries = 1
  MaxCommands = 1
  MaxLapses = 1
  MaxLosses = 1
  Workers = {w1, w2}
  NoWorker = NoWorker
CHECK_DEADLOCK FALSE
SYMMETRY WorkerSymmetry
INVARIANT TypeOK
INVARIANT SentOnce
INVARIANT WaitIsLive
INVARIANT SentWithApproval
INVARIANT ActionBudgetHeld
PROPERTY OutcomesStand
PROPERTY ImplementsContract
