SPECIFICATION Spec
CONSTANTS
  QueueLimit <- MCQueueLimit
  MaxPackets <- MCMaxPackets
INVARIANTS
  TypeOK
  FifoOrder
  NoLostWakeup
  AtMostOneAfterStop
PROPERTIES
  StopWithBacklogTerminates
  AcceptedIsSent
  ImplementsFifo
CHECK_DEADLOCK FALSE
