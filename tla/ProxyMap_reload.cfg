\* Storage statements may fail and rows may change port, backend and protocol, at
\* every point of a reload.
SPECIFICATION Spec
CONSTANTS
  Ids = {1, 2}
  Ports = {3306, 3307}
  Kinds = {"mysql", "pgsql"}
  Backends = {"b1"}
  ReloadEvery = 1
  StorageErrors = TRUE
  MaxConns = 1
  MaxEdits = 2
  None = None
INVARIANTS
  
  ReloadAdopts
PROPERTIES
  ReloadIsQuiet
  StopEnds
\* An exited program takes no further step.
CHECK_DEADLOCK FALSE
