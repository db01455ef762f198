SPECIFICATION Spec
CONSTANTS
  DecoderDelay = 1
  EncoderDelay = 2
  MaxPackets = 5
  MaxStreams = 2
INVARIANTS TypeOK CrashNeedsFailedInit AtMostDelayLost RecordsAllOrNothing
CHECK_DEADLOCK FALSE
