CONSTANTS
  Readers = {r1, r2}
  MaxStreams = 1
  MaxMessages = 3
  MessageBytes <- MCMessageBytes
  STREAM_CAPACITY = 1
  FlushBatchBytes = 0
SPECIFICATION LiveServerSpec
PROPERTIES
  CancellationDropsEverything
CHECK_DEADLOCK FALSE
