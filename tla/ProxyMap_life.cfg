\* A storage without errors: the status column, and what reloads must eventually
\* have done.
SPECIFICATION Spec
CONSTANTS
  Ids = {1, 2}
  Ports = {3306, 3307}
  Kinds = {"mysql"}
  Backends = {"b1"}
  ReloadEvery = 2
  StorageErrors = FALSE
  MaxConns = 1
  MaxEdits = 2
  None = None

  
PROPERTIES
  DeletedCloses
  
\* An exited program takes no further step.
CHECK_DEADLOCK FALSE
