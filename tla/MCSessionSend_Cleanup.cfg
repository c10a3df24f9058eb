CONSTANTS
  worker = worker
  grpc = grpc
  IO = IO
  Threads <- MCThreads
  MaxMsgs = 3
SPECIFICATION FairSpec
INVARIANT DataTransmittedBeforeClose
CHECK_DEADLOCK FALSE
