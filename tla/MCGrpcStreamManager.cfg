CONSTANTS
  Readers = {r1, r2}
  MaxStreams = 2
  MaxMessages = 3
  MessageBytes <- MCMessageBytes
  STREAM_CAPACITY = 1
  FlushBatchBytes = 0
SPECIFICATION FairSpec
INVARIANTS
  TypeOK
  NothingLostOrRepeated
  EndIsLast
  Backpressure
PROPERTIES
  ReadsReturn
  ImplementsStreamDelivery
CHECK_DEADLOCK FALSE
