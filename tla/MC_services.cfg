SPECIFICATION FairServices
CONSTANTS
  MaxRequests = 2
  MaxClarifications = 1
  MaximumConcurrent = 2
  Reviewers = {1, 2, 3}
  Quorum = 2
  Escalates = TRUE
  MaxOperations = 2
  Runs = {r1, r2}
  Limits <- OneLimit
  Processes = {p1}
  NoProcess = NoProcess
  Concurrency = 2
  Capacity = 1
  LeaseLength = 1
  WaitLease = 1
  Stall = 0
  MaxTime = 2
  MaxFaults = 1
  NumRuns = 2
  NumEvents = 2
  PageLimit = 1
  Duration = 1
  Horizon = 1
  MaxWaits = 2
  MaxInterruptions = 1
CHECK_DEADLOCK FALSE
INVARIANT ServicesTypeOK
INVARIANT WaitMatchesRequest
INVARIANT ReviewConcludes
 
INVARIANT NotForgotten
INVARIANT EventAnswersOnce
PROPERTY HandoffSurvives
 
 
 
PROPERTY EventWaitsResolve
