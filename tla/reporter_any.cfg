\* The byte behind a piece may be anything; record 10 begins as record 1.
SPECIFICATION Spec
CONSTANTS
  Size = 10
  MaxPieces = 3
  Framed = FALSE
  MaxReports = 2
CONSTRAINT FewRefused
INVARIANTS
  NoMoreThanRefused
