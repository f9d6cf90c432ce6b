\* Short texts of any kind, short conditions, comparisons and a query for each rule.
\* The parser stops when it has returned.
SPECIFICATION ParseSpec
CONSTANTS
  Texts <- MCTexts
  PatternFile <- MCFile
INVARIANTS
  ValuesAreOwned
  SameSidesAreFound
  ListedIsFound
  PatternIsTheShape
CHECK_DEADLOCK FALSE
