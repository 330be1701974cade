\* stop() against a scheduler and two pool threads at work, one of which may end in a
\* post that fails after its answer.
SPECIFICATION FairSpec
CONSTANTS
  Records = {r1}
  Batches = {b1, b2, b3}
  Producers = {p1}
  Workers = {w1, w2}
  Scheduler = Scheduler
  NoThread = NoThread
  NoBatch = NoBatch
  MAX_COLLECTIONS = 1
  SendLimit = 1
  RunFlushes = TRUE
  MaxLateFailures = 1
ACTION_CONSTRAINTS FirstFree LateAtLast
PROPERTIES
  StopReturns
INVARIANTS
  IndInv
