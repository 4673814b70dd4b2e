SPECIFICATION Spec
CONSTANTS
  Expect = "request"
  MaxStartLine = 1
  MaxHeaderCount = 3
  MaxHeaderBlock = 10
  MaxMessage = 18
  MaxChunk = 17
  MaxResets = 1
  Streams <- MCStreams
  Requests <- MCRequests
  Responses <- MCResponses
INVARIANTS
  ScanIsSound
  BufferIsUnconsumedStream
  IdleHoldsNoCompleteMessage
  AcceptsExactlyWellFormed
  EncodedIsDelivered
PROPERTY
  ImplementsFraming
CHECK_DEADLOCK FALSE
