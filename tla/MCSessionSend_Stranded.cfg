CONSTANTS
  worker = worker
  grpc = grpc
  IO = IO
  Threads <- MCThreads
  MaxMsgs = 3
SPECIFICATION FairSpec
INVARIANT NoStrandedMessage
CHECK_DEADLOCK FALSE
