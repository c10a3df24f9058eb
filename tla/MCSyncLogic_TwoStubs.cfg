CONSTANTS
  main = main
  worker = worker
  io1 = io1
  io2 = io2
  login = login
  logout = logout
  search = search
  c1 = c1
  c2 = c2
  c3 = c3
  NoOne = NoOne
  Stubs = {c1, c2}
  Users = {main, worker, io1, io2}
  IOThreads = {io1, io2}
  Worker = worker
  Main = main
  Requests = {login, logout, search}
  Kind <- MCKind
  QueueSize = 1
  MaxPurges = 2
SPECIFICATION FairSpec
PROPERTY AcceptedIsAnswered
CHECK_DEADLOCK FALSE
