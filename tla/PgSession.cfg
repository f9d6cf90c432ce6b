\* The client's messages around the sizes that the code compares with, cut
\* into chunks of 1, 5 and 14 bytes, and the answers to them: login and data,
\* and blocked queries whose replies meet them.
SPECIFICATION Spec
CONSTANTS
  Requests <- MCRequests
  Answers <- MCAnswers
  Garbage <- MCGarbage
  Chunks = {1, 5, 14}
  MaxRequests = 3
  MaxAnswers = 2
INVARIANTS
  TypeOK
  
  NothingCompleteWaits
  WholeAnswers
PROPERTIES
  AnswersArrive
\* A peer may stop sending.
CHECK_DEADLOCK FALSE
