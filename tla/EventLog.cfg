\* Three logs and a connection under a limit of descriptors that the dropped FILEs
\* reach; a signal in any step, files deleted at any time.
SPECIFICATION Spec
CONSTANTS
  Level = 3
  Limit = 10
  MaxDeletions = 2
  MaxSignals = 1
INVARIANTS
  LineIsKept
  
  ReloadsAreBounded
PROPERTIES
  DeletedIsReopened
CHECK_DEADLOCK FALSE
