SPECIFICATION FairClientSpec
CONSTANTS
  Clients = {c1, c2}
  Names = {"a", "b"}
  FileSocket = FileSocket
  NoSocket = NoSocket
  Polls = 2
  MaxServers = 2
  MaxOps = 1
INVARIANTS
  ClientTypeOK
  ReadyIsOn
PROPERTIES
  OkMeansDone
  SessionsEnd
  CallReturns
CHECK_DEADLOCK FALSE
