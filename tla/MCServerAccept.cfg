SPECIFICATION Spec
CONSTANTS
  Descriptors = {d1, d2, d3, d4, d5}
  MaxSessions = 2
  FirstPort = 6970
  LastPort = 6976
  Taken <- MCTaken
INVARIANT
  ServesItsClient
CHECK_DEADLOCK FALSE
