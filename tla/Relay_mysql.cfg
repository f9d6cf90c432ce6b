\* One MySQL connection: nothing is discarded, and first_response stays true, so
\* a failed write to the backend is always forgiven.
SPECIFICATION Spec
CONSTANTS
  DBType = "mysql"
  SockCap = 1
  MaxChunk = 2
  MaxClient = 3
  MaxServer = 2
  MaxReplies = 1
PROPERTIES
  Delivered
  BrokenIsClosed
CHECK_DEADLOCK FALSE
