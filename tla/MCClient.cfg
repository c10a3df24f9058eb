CONSTANTS
  u1 = u1
  u2 = u2
  u3 = u3
  m1 = m1
  m2 = m2
  work = work
  mate = mate
  Nobody = Nobody
  NoId = NoId
  Users <- MCUsers
  Ids <- MCIds
  Batches <- MCBatches
  TextBufferSize = 4
  ContactPage = 1
  RequestPage = 1
  Countdown = 2
  WaitTime = 1
  Texts = {work, mate}
  TestTags <- MCTestTags
  LabelWidth = 9
  LabelHeight = 9
  SquareLength = 2
  Pictures <- MCPictures
  Accounts <- MCAccounts
  Hellos <- MCHellos
  Budgets <- MCBudgets
SPECIFICATION Spec
INVARIANTS
  TypeOK
  SelectionStays
  
  NobodyIsLockedOut
CHECK_DEADLOCK FALSE
