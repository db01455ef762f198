SPECIFICATION Spec
CONSTANTS
  Threads <- OneThreads
  Events <- MCEventSet
  AutoReset = {"e0"}
  Waits = {w1, w2, w3}
  Menu <- OneMenu
  Rank <- MCRank
  Spurious = TRUE
INVARIANTS
  SleeperIsSignalled
PROPERTIES
  KeepsPromise
  FiredWaitReturns
