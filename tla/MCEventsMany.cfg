SPECIFICATION Spec
CONSTANTS
  Threads <- ManyThreads
  Events <- MCEventSet
  AutoReset = {"e0"}
  Waits = {w1, w2, w3}
  Menu <- ManyMenu
  Rank <- MCRank
  Spurious = TRUE
SYMMETRY WaitSymmetry
INVARIANTS
  TypeOK
  RefCountExact
  SignalledHasNoWaiter
  FiredWaiterIsSignalled
  StatusExact
  NoDeadlock
PROPERTIES
  KeepsPromise
