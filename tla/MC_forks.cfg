SPECIFICATION FairSpec
CONSTANTS
  MaxRuns = 3
  MaxGroups = 2
  Processes = {p1}
  KeepsMarker = TRUE
  MaxCommands = 1
  MaxFaults = 1
CHECK_DEADLOCK FALSE
INVARIANT TypeOK
INVARIANT WaitsTogether
INVARIANT OutcomeIsRight
PROPERTY ImplementsJoin
PROPERTY GroupsSettle
PROPERTY TreeStops
PROPERTY LosersStop
