CONSTANTS
  s1 = s1
  w1 = w1
  w2 = w2
  b = b
  LockNames = {s1}
  Clients = {w1, w2, b, s1}
  NoOne = NoOne
  Workers = {w1, w2}
  Balancers = {b}
  Home <- MCHome
  Absent = Absent
  MaxOps = 4
SPECIFICATION FairSpec
INVARIANTS
  TypeOK
  NoLostUpdate
  RunningServerIsCounted
PROPERTIES
  ReleaseSparesOthers
  
