\* Three records, answers of up to four pieces, three reports of one Reporter.
SPECIFICATION Spec
CONSTANTS
  Size = 3
  MaxPieces = 4
  Framed = TRUE
  MaxReports = 3
INVARIANTS
  TypeOK
  AgainExactlyOnce
  OwnAnswerOnly
  RequestIsOwn
PROPERTY
  PostsAsPromised
