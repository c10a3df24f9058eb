CONSTANTS
  s1 = s1
  s2 = s2
  w1 = w1
  w2 = w2
  t1 = t1
  c1 = c1
  c2 = c2
  NoOne = NoOne
  User = User
  LockNames = {User}
  Clients = {w1, w2, t1, c1, c2}
  Servers = {s1, s2}
  Workers = {w1, w2}
  Timers = {t1}
  Sessions = {c1, c2}
  Sites <- MCSites
  MaxRequests = 2
  MaxFaults = 2
SPECIFICATION FairSpec
INVARIANTS
  TypeOK
  KeysAgree
  TakeoverMakesRoom
  RoutedSessionIsAlive
PROPERTIES
  ForgetSparesNewer
  PurgedIsForgotten
CHECK_DEADLOCK FALSE
