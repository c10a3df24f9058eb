CONSTANTS
  worker = worker
  grpc = grpc
  IO = IO
  Threads <- MCThreads
  MaxMsgs = 4
SPECIFICATION FairSpec
INVARIANTS
  TypeOK
  ExclusiveWriter
  NothingVanishes
PROPERTIES
  ImplementsOutbox
  CloseNeverCutsAWrite
  WriterReleases
  ArmedWriterCloses
CHECK_DEADLOCK FALSE
