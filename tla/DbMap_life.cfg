\* What the administrator does takes effect, and the learning modes end, on a
\* storage without errors, while a connection learns.
SPECIFICATION Spec
CONSTANTS
  Rows = {"shop", "default"}
  KeyOf <- MCOne
  DefaultKey = "default_mysql"
  Perms = {"create"}
  Patterns = {"p"}
  Conns = {"c"}
  Storage = "mysql"
  StorageErrors = FALSE
  MaxEdits = 1
  None = None
PROPERTIES
  
  
  RemovedIsRefused
