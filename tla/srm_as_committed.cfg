\* run() as it is in the source: it does not call flush(false).
SPECIFICATION FairSpec
CONSTANTS
  Records = {r1, r2}
  Batches = {b1, b2, b3}
  Producers = {p1}
  Workers = {w1}
  Scheduler = Scheduler
  NoThread = NoThread
  NoBatch = NoBatch
  MAX_COLLECTIONS = 1
  SendLimit = 1
  RunFlushes = FALSE
  MaxLateFailures = 0
PROPERTIES
  QueuedIsSent
