\* A connection's queries, while the administrator edits the tables and the grants
\* between any two steps; the storage may fail.
SPECIFICATION CheckSpec
CONSTANTS
  Rows = {"shop1", "shop2"}
  KeyOf <- MCTwins
  DefaultKey = "default_mysql"
  Perms = {}
  Patterns <- MCPatterns
  Conns = {"c"}
  Storage = "pgsql"
  StorageErrors = TRUE
  MaxEdits = 1
  None = None
  Queries <- MCQueries
  Normal <- MCNormal
  Level <- MCLevel
  Tokens <- MCTokens
  Asked <- MCAsked
  Alike <- MCAlike
INVARIANTS
  LearnedIsAllowed
  SameQueryIsAllowed
  
