CONSTANTS
  Readers = {q1, q2}
  MaxStreams = 2
  MaxMessages = 2
  MessageBytes <- MCMessageBytes
  STREAM_CAPACITY = 1
  FlushBatchBytes = 0
  MaxChannels = 1
  Result <- MCResult
SPECIFICATION FairQuerySpec
INVARIANTS
  ResultsAreExact
  StreamsOutliveTheirClients
PROPERTIES
  QueriesEnd
CHECK_DEADLOCK FALSE
