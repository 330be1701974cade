\* Full and partial collections; one post fails after its answer was processed.
\* Behaviours are cut at stop().
SPECIFICATION PostsSpec
CONSTANTS
  Records = {r1, r2}
  Batches = {b1, b2, b3, b4, b5}
  Producers = {p1}
  Workers = {w1}
  Poster = w1
  Scheduler = Scheduler
  NoThread = NoThread
  NoBatch = NoBatch
  MAX_COLLECTIONS = 2
  SendLimit = 1
  RunFlushes = TRUE
  MaxLateFailures = 1
SYMMETRY Symmetry
CONSTRAINT BeforeStop
INVARIANTS
  NoDoubleReport
  RecordInv
PROPERTIES
  RecordsInOutbox
  ReportsArePostings
