\* A login and up to three commands, each answered in any cut around the sizes
\* that the code compares with.
SPECIFICATION Spec
CONSTANTS
  Databases = {"shop", "bank"}
  NoDatabase = "none"
  Requests <- MCRequests
  Garbage = {6, 1000}
  Chunks = {1, 5, 8, 40}
  MaxRequests = 3
INVARIANTS
  TypeOK
  
  WholeAnswers

  
\* A client may stop sending.
CHECK_DEADLOCK FALSE
