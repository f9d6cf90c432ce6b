\* One PgSQL connection: parseRequest may discard the request buffer, refuse the
\* startup message, and parseResponse clears first_response.
SPECIFICATION Spec
CONSTANTS
  DBType = "pgsql"
  SockCap = 2
  MaxChunk = 2
  MaxClient = 3
  MaxServer = 3
  MaxReplies = 2
INVARIANTS
  BothStreams
  BothWriters
PROPERTIES
  BothArePipes
\* A closed connection with nothing left to read has no further step.
CHECK_DEADLOCK FALSE
