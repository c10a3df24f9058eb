CONSTANTS
  s1 = s1
  s2 = s2
  NoOne = NoOne
  Servers = {s1, s2}
  Users <- MCUsers
  Homes <- MCHomes
  Tables <- MCTables
  ReceiverColumn = TRUE
  ThreadIdKind = "int64"
  PageSize = 1
  BatchSize = 2
  MaxRequests = 2
  MaxLogins = 2
  MaxFaults = 1
SPECIFICATION FairSpec
INVARIANTS
  TypeOK
  FriendshipWhole
  PagingLosesNothing
PROPERTIES
  ImplementsMailbox
  RequestAnswered
CHECK_DEADLOCK FALSE
