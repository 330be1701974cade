\* The byte behind a piece may be anything.
SPECIFICATION Spec
CONSTANTS
  Size = 2
  MaxPieces = 3
  Framed = FALSE
  MaxReports = 2
INVARIANTS
  RefusedIsReportedAgain
