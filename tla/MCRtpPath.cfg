SPECIFICATION Spec
CONSTANTS
  FrameKinds <- MCFrameKinds
  Clock <- MCClock
  ChunkSize = 2
  QueueLimit = 2
  TicksPerMs = 3
  TsModulus = 16
  MaxFrames = 3
  MaxFaults = 2
INVARIANTS TypeOK ArrivalOrderKept GaplessUnitIsFrame DtsDistancesKept CollectsOneFramePerFault
PROPERTIES IntactPathDelivers ImplementsChannel
CHECK_DEADLOCK FALSE
