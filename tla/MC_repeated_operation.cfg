SPECIFICATION Spec
CONSTANTS
  c1 = c1
  c2 = c2
  r1 = r1
  r2 = r2
  Runs = {r1, r2}
  RunOf <- TwoRuns
  Calls = {c1, c2}
  NoCall = NoCall
  Reads = {}
  Reviewed = {}
  AutoApproved = {}
  Claimants = {c1, c2}
  ActionLimit = 0
  PersistTries = 1
  MaxCommands = 0
  MaxLapses = 0
  MaxLosses = 1
  Workers = {w1, w2}
  NoWorker = NoWorker
CHECK_DEADLOCK FALSE
SYMMETRY WorkerSymmetry
INVARIANT OperationNotRepeated
