SPECIFICATION Spec
CONSTANTS
  Threads <- AllThreads
  Events <- MCEventSet
  AutoReset = {"e0", "e1"}
  Waits = {w1, w2, w3}
  Menu <- AllAtOnceMenu
  Rank <- MCRank
  Spurious = FALSE
INVARIANT
  AllAcquiredMeansSuccess
