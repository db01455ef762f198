SPECIFICATION Spec
CONSTANTS
  Threads <- AllThreads
  Events <- MCEventSet
  AutoReset = {"e0", "e1"}
  Waits = {w1, w2, w3}
  Menu <- AllForeverMenu
  Rank <- MCRank
  Spurious = FALSE
INVARIANT
  SignalTargetsLive
