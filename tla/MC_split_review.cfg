SPECIFICATION Spec
CONSTANTS
  MaxRequests = 1
  MaxClarifications = 0
  MaximumConcurrent = 1
  Reviewers = {1, 2, 3, 4}
  Quorum = 3
  Escalates = TRUE
  MaxOperations = 0
CHECK_DEADLOCK FALSE
INVARIANT ReviewConcludes
