\* Three calls, two of whose keys share a place in the cache, a storage that fails,
\* a group that is deleted and a restart, at any point.  It ends with the last call.
SPECIFICATION Spec
CONSTANTS
  Keys = {"1,shop,p", "257,shop,p", "2,shop,p"}
  CacheKey <- MCProxies
  Storage = "pgsql"
  StorageErrors = TRUE
  MaxLogs = 3
  MaxDeletes = 1
  MaxRestarts = 1
  None = None
CHECK_DEADLOCK FALSE
INVARIANTS
  RightGroup
  StaleIsRecent
PROPERTIES
  RecordedWhenCalm
