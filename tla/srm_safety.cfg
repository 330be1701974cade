\* Two pool threads, one producer; the scheduler flushes.
SPECIFICATION Spec
CONSTANTS
  Records = {r1, r2}
  Batches = {b1, b2, b3, b4, b5}
  Producers = {p1}
  Workers = {w1, w2}
  Scheduler = Scheduler
  NoThread = NoThread
  NoBatch = NoBatch
  MAX_COLLECTIONS = 2
  SendLimit = 1
  RunFlushes = TRUE
  MaxLateFailures = 0
SYMMETRY Symmetry
INVARIANTS
  TypeOK
  SendlistRaceFree
  BatchOwnership
  RecordsFit
  NoRecordLost
  NoDoubleReport
  StopKeepsUnsent
  RatePerFlush
PROPERTIES
  RecordsInOutbox
  SendlistsAreFifo
  StoppedIsQuiet
