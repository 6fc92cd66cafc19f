SPECIFICATION Spec
CONSTANTS
  c1 = c1  c2 = c2
  Type = "public"
  Client = {c1, c2}
  MaxDescriptors = 2
  BUFFER_SIZE = 2
  MAX_REQUEST_SIZE = 2
  ResponseSize = 2
  Messages <- PublicMessages
INVARIANTS
  CheckedIsEnough
CHECK_DEADLOCK FALSE
