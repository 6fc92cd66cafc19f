SPECIFICATION FairSpec
CONSTANTS
  c1 = c1  c2 = c2
  Type = "private"
  Client = {c1, c2}
  MaxDescriptors = 2
  BUFFER_SIZE = 2
  MAX_REQUEST_SIZE = 2
  ResponseSize = 2
  Messages <- PrivateMessages
INVARIANTS
  TypeOK
  HandlersOwnDescriptors
  AnnouncersThrowNothing
PROPERTIES
  ExchangeImplemented
  WaitingAccepted
CHECK_DEADLOCK FALSE
