CONSTANTS
  c1 = c1
  c2 = c2
  r1 = r1
  NoServer = NoServer
  NoThread = NoThread
  Chatting = {c1, c2}
  Resources = {r1}
  Callers <- MCCallers
  Uuids <- MCCallers
  Names <- MCCallers
  Emails <- MCCallers
  IoThreads <- MCThreads
  Files = {"f"}
  Blocks = 3
  QueueSize = 0
  Tables <- MCTables
  Up <- MCUp
  Connected <- MCConnected
  Budgets <- MCBudgets
SPECIFICATION FairSpec
INVARIANTS
  TypeOK
  
  AdmittedIsAccepted
  
PROPERTIES
  ConnectionsEnd
CHECK_DEADLOCK FALSE
