\* Five results at a time: two nested queries, the global, and two that were lost.
\* The program stops when it crashes.
SPECIFICATION Spec
CONSTANTS
  Addresses = {1, 2, 3, 4, 5}
CHECK_DEADLOCK FALSE
INVARIANTS
  UsedWhileLive
PROPERTIES
  RoundsRelease
