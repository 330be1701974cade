\* The server accepts in the end; behaviours before stop().
SPECIFICATION LiveSpec
CONSTANTS
  Records = {r1, r2}
  Batches = {b1, b2, b3}
  Producers = {p1}
  Workers = {w1}
  Scheduler = Scheduler
  NoThread = NoThread
  NoBatch = NoBatch
  MAX_COLLECTIONS = 2
  SendLimit = 1
  RunFlushes = TRUE
  MaxLateFailures = 0
CONSTRAINT BeforeStop
ACTION_CONSTRAINT FirstFree
PROPERTIES
  EveryRecordSettled
