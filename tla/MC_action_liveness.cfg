SPECIFICATION FairSpec
CONSTANTS
  c1 = c1
  c2 = c2
  r1 = r1
  r2 = r2
  Runs = {r1}
  RunOf <- OneRun
  Calls = {c1}
  NoCall = NoCall
  Reads = {}
  Reviewed = {c1}
  AutoApproved = {c1}
  Claimants = {}
  ActionLimit = 0
  PersistTries = 2
  MaxCommands = 2
  MaxLapses = 1
  MaxLosses = 1
  Workers = {w1, w2}
  NoWorker = NoWorker
CHECK_DEADLOCK FALSE
PROPERTY RunContinues
