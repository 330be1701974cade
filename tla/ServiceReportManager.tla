------------------------ MODULE ServiceReportManager ------------------------
(***************************************************************************)
(* The report pipeline of ReportServer: ServiceReportManager and the       *)
(* worker tasks (Reporter::report) it schedules.                           *)
(*                                                                         *)
(* Any thread hands a ReportData to insert().  insert() collects records   *)
(* in m_recv and moves a full collection to the send list that is not      *)
(* being drained.  The scheduler thread drains the other list into the     *)
(* thread pool m_works, until the count of the time window is SendLimit,   *)
(* and swaps the two lists when the drained one is empty; a drain entered  *)
(* with the limit reached is not stopped by it.  A pool thread posts       *)
(* a collection; the server may ask for some records again (errcode 3005), *)
(* which go back through insert(), and a failed post puts the whole        *)
(* collection back on a send list.                                         *)
(*                                                                         *)
(* Threads: Producers (callers of insert), Workers (the threads of         *)
(* m_works), the Scheduler (ServiceReportManager::run), and the main       *)
(* thread, which calls init() and stop().                                  *)
(***************************************************************************)
EXTENDS Integers, Sequences, FiniteSets, Functions

CONSTANTS
  Records,          \* identities of the ReportData values given to insert()
  Batches,          \* the ReportCollection objects m_data_pool hands out
  Producers,        \* threads outside the service that call insert()
  Workers,          \* threads of m_works (10 in the code)
  Scheduler,        \* the thread running ServiceReportManager::run
  NoThread,         \* owner of a free mutex
  NoBatch,          \* a null ReportCollection pointer
  MAX_COLLECTIONS,  \* records per collection (128 in the code)
  SendLimit,        \* the count at which a drain stops (10 in the code)
  RunFlushes,       \* whether run() calls flush(false) after a wakeup; see RunLoop
  MaxLateFailures   \* bound on posts that fail after the answer was processed

Callers == Producers \cup Workers
Threads == Callers \cup {Scheduler}

ASSUME ConstantsAssumption ==
  /\ Producers \cap Workers = {}
  /\ Scheduler \notin Callers
  /\ NoThread \notin Threads
  /\ NoBatch \notin Batches
  /\ MAX_COLLECTIONS \in Nat \ {0}
  /\ SendLimit \in Nat \ {0}
  /\ RunFlushes \in BOOLEAN
  /\ MaxLateFailures \in Nat

VARIABLES
  m_runnring,   \* the service is started (spelled as in the source)
  m_recv,       \* the collection being filled
  m_data,       \* per collection, its first m_size records
  m_sendlist,   \* the two send lists
  m_flag,       \* index of the list being drained
  m_count,      \* collections sent in this window, saturated at SendLimit + 1
  window_over,  \* m_last_send + 1 < now
  m_data_pool,  \* collections that are free
  m_works,      \* tasks queued in the thread pool
  mutex,        \* owner of the recursive mutex
  stage,        \* per thread: where it is inside insert(), flush() or retry()
  side,         \* per thread: the send list it is about to append to
  run_pc,       \* program counter of the scheduler thread
  swapped,      \* local variable swap of flush()
  work_pc,      \* per worker: program counter of Reporter::report
  in_hand,      \* per worker: the collection it reports
  again,        \* per worker: positions the server asked for again, not yet re-inserted
  main_pc,      \* program counter of the main thread
  inserted,     \* history: records producers have given to insert()
  settled,      \* history: records the server answered for good
  late_failed,  \* history: records of posts that failed after their answer
  late_count,   \* number of such posts
  at_limit      \* history: the drain under way began with the limit reached

recvVars  == <<m_recv, m_data, m_data_pool>>
listVars  == <<m_sendlist, m_flag>>
rateVars  == <<m_count, window_over, at_limit>>
lockVars  == <<mutex, stage, side>>
workVars  == <<work_pc, in_hand, again>>
ctlVars   == <<m_runnring, main_pc>>
lateVars  == <<late_failed, late_count>>
histVars  == <<inserted, settled, late_failed, late_count>>
vars == <<recvVars, listVars, rateVars, lockVars, workVars, ctlVars, histVars,
          m_works, run_pc, swapped>>

Positions(b) == 1..Len(m_data[b])
Held         == Batches \ m_data_pool

-----------------------------------------------------------------------------
(* The primitives the methods are written with.                            *)

\* The recursive mutex: its owner may lock it again.
CanLock(t) == mutex \in {NoThread, t}
PlainCanLock(t) == mutex = NoThread            \* mutant: a non-recursive mutex

\* m_sendlist[!m_flag], the list that is not being drained.
FillingWrong == m_flag                         \* mutant: the negation forgotten
Filling == 1 - m_flag

\* s_cv.notify_one(): lost unless the scheduler is inside wait_for.
Notified == IF run_pc = "waiting" THEN "woken" ELSE run_pc

\* The test that closes a collection: ++m_size == MAX_COLLECTIONS.
FillsLate(n) == n = MAX_COLLECTIONS            \* mutant: m_size++ == MAX_COLLECTIONS
Fills(n) == n + 1 = MAX_COLLECTIONS

\* ++m_count; above SendLimit only "not equal to SendLimit" is ever tested.
Bumped(c) == IF c > SendLimit THEN c ELSE c + 1

\* m_recv = m_data_pool.malloc(): any free collection.
Malloc == \E b \in m_data_pool : m_recv' = b /\ m_data_pool' = m_data_pool \ {b}

\* ServiceReportManager::free: m_size = 0, then back to the pool.
DirtyFree(b) ==                                \* mutant: m_size not reset
  UNCHANGED m_data /\ m_data_pool' = m_data_pool \cup {b}
LeakingFree(b) ==                              \* mutant: not given back
  UNCHANGED m_data_pool /\ m_data' = [m_data EXCEPT ![b] = <<>>]
Free(b) ==
  /\ m_data' = [m_data EXCEPT ![b] = <<>>]
  /\ m_data_pool' = m_data_pool \cup {b}

-----------------------------------------------------------------------------
(* insert(), flush() and retry().  A thread that holds the mutex is in a    *)
(* stage other than "out"; what it does under the lock before the next      *)
(* shared access is one step.                                               *)

\* memcpy into m_recv and ++m_size, under the lock; a collection that becomes
\* full is flushed with the lock still held.
Place(t, r) ==
  /\ stage[t] = "out" /\ mutex = NoThread
  /\ m_data' = [m_data EXCEPT ![m_recv] = Append(@, r)]
  /\ IF Fills(Len(m_data[m_recv]))
     THEN mutex' = t /\ stage' = [stage EXCEPT ![t] = "flush"]
     ELSE UNCHANGED <<mutex, stage>>
  /\ UNCHANGED <<m_recv, m_data_pool, listVars, rateVars, side, ctlVars,
                 lateVars, m_works, run_pc, swapped>>

\* A producer's call of insert() with a record of its own.  The servers take
\* down the network, where records come from, before they stop the service.
Insert(p, r) ==
  /\ main_pc = "up" /\ r \notin inserted
  /\ Place(p, r)
  /\ inserted' = inserted \cup {r}
  /\ UNCHANGED <<settled, workVars>>

\* flush() locks again (insert() already holds the mutex, run() does not),
\* finds a non-empty m_recv and reads m_flag.
FlushRecv(t) ==
  /\ stage[t] = "flush" /\ CanLock(t)
  /\ m_data[m_recv] # <<>>
  /\ mutex' = t
  /\ stage' = [stage EXCEPT ![t] = "push"]
  /\ side' = [side EXCEPT ![t] = Filling]
  /\ UNCHANGED <<recvVars, listVars, rateVars, workVars, ctlVars, histVars,
                 m_works, run_pc, swapped>>

\* flush() appends m_recv to the send list and takes a fresh collection; a
\* forced flush notifies the scheduler and returns from insert(), flush(false)
\* goes on to the time window.
PushRecv(t) ==
  /\ stage[t] = "push"
  /\ m_sendlist' = [m_sendlist EXCEPT ![side[t]] = Append(@, m_recv)]
  /\ Malloc
  /\ mutex' = NoThread
  /\ stage' = [stage EXCEPT ![t] = "out"]
  /\ side' = [side EXCEPT ![t] = 0]
  /\ run_pc' = IF t = Scheduler THEN "window"
               ELSE IF m_count < SendLimit THEN Notified ELSE run_pc
  /\ UNCHANGED <<m_data, m_flag, rateVars, workVars, ctlVars, histVars,
                 m_works, swapped>>

\* flush(false) when m_recv is empty: break, and on to the time window.
FlushEmptyReturns ==                           \* mutant: return for break
  /\ stage[Scheduler] = "flush" /\ CanLock(Scheduler)
  /\ m_data[m_recv] = <<>>
  /\ stage' = [stage EXCEPT ![Scheduler] = "out"]
  /\ run_pc' = "check"
  /\ UNCHANGED <<recvVars, listVars, rateVars, mutex, side, workVars, ctlVars,
                 histVars, m_works, swapped>>
FlushEmpty ==
  /\ stage[Scheduler] = "flush" /\ CanLock(Scheduler)
  /\ m_data[m_recv] = <<>>
  /\ stage' = [stage EXCEPT ![Scheduler] = "out"]
  /\ run_pc' = "window"
  /\ UNCHANGED <<recvVars, listVars, rateVars, mutex, side, workVars, ctlVars,
                 histVars, m_works, swapped>>

-----------------------------------------------------------------------------
(* The scheduler thread: run() and the unlocked half of flush(false).       *)

\* A step of the scheduler that only moves its program counter.
RunStep(from, to) ==
  /\ run_pc = from /\ run_pc' = to
  /\ UNCHANGED <<recvVars, listVars, rateVars, lockVars, workVars, ctlVars,
                 histVars, m_works, swapped>>

\* while (m_runnring): the flag is read before wait_for blocks, so a stop()
\* in between finds nobody to notify.
RunCheck == RunStep("check", IF m_runnring THEN "arm" ELSE "done")
RunWait  == RunStep("arm", "waiting")

\* wait_for returns after its second, notified or not (or spuriously).
RunNoTimeout == FALSE                          \* mutant: wait for wait_for
RunTimeout == RunStep("waiting", "woken")

\* The end of the loop body.  The source goes straight back to the test of
\* m_runnring (RunFlushes = FALSE); flush(false) has no caller.  With
\* RunFlushes = TRUE the loop calls it, which drives the code of flush(false).
RunLoop ==
  /\ run_pc = "woken"
  /\ IF RunFlushes
     THEN run_pc' = "flushing" /\ stage' = [stage EXCEPT ![Scheduler] = "flush"]
     ELSE run_pc' = "check" /\ UNCHANGED stage
  /\ UNCHANGED <<recvVars, listVars, rateVars, mutex, side, workVars, ctlVars,
                 histVars, m_works, swapped>>

\* if (m_last_send + 1 < now): a new window.
Window ==
  /\ run_pc = "window"
  /\ m_count' = IF window_over THEN 0 ELSE m_count
  /\ window_over' = FALSE
  /\ at_limit' = (m_count' >= SendLimit)
  /\ run_pc' = "drain"
  /\ UNCHANGED <<recvVars, listVars, lockVars, workVars, ctlVars, histVars,
                 m_works, swapped>>

\* flush(false) returns to run().
DrainReturn ==
  run_pc' = "check" /\ swapped' = FALSE /\ at_limit' = FALSE

\* schedule_normal(report, front): a worker may run the task before pop_front.
DrainSchedule ==
  /\ run_pc = "drain" /\ m_sendlist[m_flag] # <<>>
  /\ m_works' = Append(m_works, Head(m_sendlist[m_flag]))
  /\ run_pc' = "pop"
  /\ UNCHANGED <<recvVars, listVars, rateVars, lockVars, workVars, ctlVars,
                 histVars, swapped>>

\* if (++m_count == 10) return
LimitReachedLate(c) == c > SendLimit           \* mutant: m_count++ == 10
LimitReached(c) == c + 1 = SendLimit

\* pop_front, ++m_count and the test of the limit.
DrainPop ==
  /\ run_pc = "pop"
  /\ m_sendlist' = [m_sendlist EXCEPT ![m_flag] = Tail(@)]
  /\ m_count' = Bumped(m_count)
  /\ IF LimitReached(m_count)
     THEN DrainReturn
     ELSE run_pc' = "drain" /\ UNCHANGED <<swapped, at_limit>>
  /\ UNCHANGED <<recvVars, m_flag, window_over, lockVars, workVars, ctlVars,
                 histVars, m_works>>

\* The loop over the drained list has ended.
DrainedOnce == TRUE                            \* mutant: if for while
DrainedOut == m_sendlist[m_flag] = <<>>

\* The drained list is empty: swap the lists, under the lock, once per drain.
DrainSwap ==
  /\ run_pc = "drain" /\ DrainedOut /\ ~swapped
  /\ CanLock(Scheduler)
  /\ m_flag' = 1 - m_flag
  /\ swapped' = TRUE
  /\ UNCHANGED <<recvVars, m_sendlist, rateVars, lockVars, workVars, ctlVars,
                 histVars, m_works, run_pc>>

DrainEnd ==
  /\ run_pc = "drain" /\ DrainedOut /\ swapped
  /\ DrainReturn
  /\ UNCHANGED <<recvVars, listVars, m_count, window_over, lockVars, workVars,
                 ctlVars, histVars, m_works>>

\* The clock: the current window ends.
Tick ==
  /\ ~window_over /\ window_over' = TRUE
  /\ UNCHANGED <<recvVars, listVars, m_count, at_limit, lockVars, workVars,
                 ctlVars, histVars, m_works, run_pc, swapped>>

-----------------------------------------------------------------------------
(* The pool threads: Reporter::report, with the network and the server.     *)

TaskStart(w) ==
  /\ work_pc[w] = "idle" /\ m_works # <<>>
  /\ m_works' = Tail(m_works)
  /\ in_hand' = [in_hand EXCEPT ![w] = Head(m_works)]
  /\ work_pc' = [work_pc EXCEPT ![w] = "post"]
  /\ UNCHANGED <<recvVars, listVars, rateVars, lockVars, again, ctlVars,
                 histVars, run_pc, swapped>>

\* curl_easy_perform fails before any answer was processed.
PostFailed(w) ==
  /\ work_pc[w] = "post"
  /\ work_pc' = [work_pc EXCEPT ![w] = "retry"]
  /\ UNCHANGED <<recvVars, listVars, rateVars, lockVars, in_hand, again, ctlVars,
                 histVars, m_works, run_pc, swapped>>

\* on_response has a whole answer: the records at positions R have errcode
\* 3005 and go through insert() again; every other record is done with, be it
\* accepted or refused for another reason.
PostAnswered(w, R) ==
  /\ work_pc[w] = "post" /\ R \subseteq Positions(in_hand[w])
  /\ LET b == in_hand[w]
     IN settled' = settled \cup {m_data[b][i] : i \in Positions(b) \ R}
  /\ again' = [again EXCEPT ![w] = R]
  /\ work_pc' = [work_pc EXCEPT ![w] = "answer"]
  /\ UNCHANGED <<recvVars, listVars, rateVars, lockVars, in_hand, ctlVars,
                 inserted, lateVars, m_works, run_pc, swapped>>

PostAccepted(w) == PostAnswered(w, {})

\* pService->insert(data + no) from the curl callback, one record of the answer.
ReinsertKeeps(w, i) ==                         \* mutant: a result handled twice
  /\ work_pc[w] = "answer" /\ i \in again[w]
  /\ Place(w, m_data[in_hand[w]][i])
  /\ UNCHANGED <<inserted, settled, work_pc, in_hand, again>>
Reinsert(w, i) ==
  /\ work_pc[w] = "answer" /\ i \in again[w]
  /\ Place(w, m_data[in_hand[w]][i])
  /\ again' = [again EXCEPT ![w] = @ \ {i}]
  /\ UNCHANGED <<inserted, settled, work_pc, in_hand>>

\* The answer is processed: every result has been handled and insert() returned.
AnsweredEarly(w) == work_pc[w] = "answer" /\ stage[w] = "out"  \* mutant
Answered(w) == work_pc[w] = "answer" /\ again[w] = {} /\ stage[w] = "out"

\* post() succeeded: free(pCollection).
Finish(w) ==
  /\ Answered(w)
  /\ Free(in_hand[w])
  /\ work_pc' = [work_pc EXCEPT ![w] = "idle"]
  /\ in_hand' = [in_hand EXCEPT ![w] = NoBatch]
  /\ again' = [again EXCEPT ![w] = {}]
  /\ UNCHANGED <<m_recv, listVars, rateVars, lockVars, ctlVars, histVars,
                 m_works, run_pc, swapped>>

\* curl_easy_perform fails after on_response has processed the answer (the
\* connection drops, the 5 s timeout passes): the collection is retried whole.
PostBroken(w) ==
  /\ Answered(w) /\ late_count < MaxLateFailures
  /\ late_count' = late_count + 1
  /\ late_failed' = late_failed \cup Range(m_data[in_hand[w]])
  /\ work_pc' = [work_pc EXCEPT ![w] = "retry"]
  /\ UNCHANGED <<recvVars, listVars, rateVars, lockVars, in_hand, again, ctlVars,
                 inserted, settled, m_works, run_pc, swapped>>

\* retry(): lock and read m_flag, then push_back and unlock.
RetryLock(w) ==
  /\ work_pc[w] = "retry" /\ stage[w] = "out" /\ CanLock(w)
  /\ mutex' = w
  /\ stage' = [stage EXCEPT ![w] = "requeue"]
  /\ side' = [side EXCEPT ![w] = Filling]
  /\ UNCHANGED <<recvVars, listVars, rateVars, workVars, ctlVars, histVars,
                 m_works, run_pc, swapped>>

RetryPush(w) ==
  /\ stage[w] = "requeue"
  /\ m_sendlist' = [m_sendlist EXCEPT ![side[w]] = Append(@, in_hand[w])]
  /\ mutex' = NoThread
  /\ stage' = [stage EXCEPT ![w] = "out"]
  /\ side' = [side EXCEPT ![w] = 0]
  /\ work_pc' = [work_pc EXCEPT ![w] = "idle"]
  /\ in_hand' = [in_hand EXCEPT ![w] = NoBatch]
  /\ UNCHANGED <<recvVars, m_flag, rateVars, again, ctlVars, histVars, m_works,
                 run_pc, swapped>>

-----------------------------------------------------------------------------
(* The main thread: init() and stop().                                      *)

\* A step of the main thread that only moves its program counter.
MainStep(from, to) ==
  /\ main_pc = from /\ main_pc' = to
  /\ UNCHANGED <<recvVars, listVars, rateVars, lockVars, workVars, histVars,
                 m_works, swapped>>

InitService ==
  /\ main_pc = "start" /\ main_pc' = "up"
  /\ ~m_runnring /\ m_runnring' = TRUE
  /\ Malloc
  /\ run_pc' = "check"
  /\ UNCHANGED <<m_data, listVars, rateVars, lockVars, workVars, histVars,
                 m_works, swapped>>

StopFlag   == MainStep("up", "notify") /\ m_runnring /\ m_runnring' = FALSE
              /\ UNCHANGED run_pc
StopNotify == MainStep("notify", "join") /\ run_pc' = Notified
              /\ UNCHANGED m_runnring
StopJoin   == MainStep("join", "drain") /\ run_pc = "done"
              /\ UNCHANGED <<m_runnring, run_pc>>

\* m_works.safe_stop(): the queued tasks are run, the pool threads are joined.
WorksDrainedEarly == m_works = <<>>            \* mutant: running tasks ignored
WorksDropped == \A w \in Workers : work_pc[w] = "idle"  \* mutant: queue discarded
WorksDrained == m_works = <<>> /\ \A w \in Workers : work_pc[w] = "idle"
StopWorkers == MainStep("drain", "down") /\ WorksDrained
               /\ UNCHANGED <<m_runnring, run_pc>>

\* The service has stopped.
Terminated == main_pc = "down" /\ UNCHANGED vars

-----------------------------------------------------------------------------

Init ==
  /\ m_runnring = FALSE
  /\ m_recv = NoBatch
  /\ m_data = [b \in Batches |-> <<>>]
  /\ m_sendlist = [i \in 0..1 |-> <<>>]
  /\ m_flag = 0 /\ m_count = 0 /\ window_over = TRUE /\ at_limit = FALSE
  /\ m_data_pool = Batches
  /\ m_works = <<>>
  /\ mutex = NoThread
  /\ stage = [t \in Threads |-> "out"]
  /\ side = [t \in Threads |-> 0]
  /\ run_pc = "off" /\ swapped = FALSE
  /\ work_pc = [w \in Workers |-> "idle"]
  /\ in_hand = [w \in Workers |-> NoBatch]
  /\ again = [w \in Workers |-> {}]
  /\ main_pc = "start"
  /\ inserted = {} /\ settled = {} /\ late_failed = {} /\ late_count = 0

SchedulerStep ==
  \/ RunCheck \/ RunWait \/ RunTimeout \/ RunLoop
  \/ FlushRecv(Scheduler) \/ PushRecv(Scheduler) \/ FlushEmpty
  \/ Window \/ DrainSchedule \/ DrainPop \/ DrainSwap \/ DrainEnd

\* What a caller of insert() still has to do once the record is in m_recv.
CallerFlush(t) == FlushRecv(t) \/ PushRecv(t)

WorkerStep(w) ==
  \/ TaskStart(w) \/ CallerFlush(w)
  \/ PostFailed(w)
  \/ (\E R \in SUBSET (1..MAX_COLLECTIONS) : PostAnswered(w, R))
  \/ (\E i \in 1..MAX_COLLECTIONS : Reinsert(w, i))
  \/ Finish(w) \/ PostBroken(w)
  \/ RetryLock(w) \/ RetryPush(w)

MainThread == InitService \/ StopFlag \/ StopNotify \/ StopJoin \/ StopWorkers

Next ==
  \/ SchedulerStep
  \/ \E p \in Producers : (\E r \in Records : Insert(p, r)) \/ CallerFlush(p)
  \/ \E w \in Workers : WorkerStep(w)
  \/ MainThread
  \/ Tick
  \/ Terminated

Spec == Init /\ [][Next]_vars

\* Threads that can run do run, also when they wait for a lock others keep
\* taking; the clock advances; a stop() that has begun goes on.
Fairness ==
  /\ SF_vars(SchedulerStep)
  /\ \A w \in Workers : SF_vars(WorkerStep(w))
  /\ \A p \in Producers : SF_vars(CallerFlush(p))
  /\ WF_vars(Tick)
  /\ WF_vars(StopNotify \/ StopJoin \/ StopWorkers)

\* The server: a worker that posts again and again is in the end answered
\* without a request for a repeat.
ServerAccepts == \A w \in Workers : SF_vars(PostAccepted(w))

FairSpec == Spec /\ Fairness
LiveSpec == FairSpec /\ ServerAccepts

-----------------------------------------------------------------------------
(* Properties.                                                              *)

\* Every variable has its type; in particular no collection ever holds more
\* than MAX_COLLECTIONS records, so insert()'s memcpy stays inside m_data.
TypeOK ==
  /\ m_runnring \in BOOLEAN
  /\ m_recv \in Batches \cup {NoBatch}
  /\ m_data \in [Batches -> Seq(Records)]
  /\ \A b \in Batches : Len(m_data[b]) <= MAX_COLLECTIONS
  /\ m_sendlist \in [0..1 -> Seq(Batches)]
  /\ m_flag \in 0..1
  /\ m_count \in 0..(SendLimit + 1)
  /\ window_over \in BOOLEAN /\ at_limit \in BOOLEAN
  /\ m_data_pool \subseteq Batches
  /\ m_works \in Seq(Batches)
  /\ mutex \in Threads \cup {NoThread}
  /\ stage \in [Threads -> {"out", "flush", "push", "requeue"}]
  /\ side \in [Threads -> 0..1]
  /\ run_pc \in {"off", "check", "arm", "waiting", "woken", "flushing",
                 "window", "drain", "pop", "done"}
  /\ swapped \in BOOLEAN
  /\ work_pc \in [Workers -> {"idle", "post", "answer", "retry"}]
  /\ in_hand \in [Workers -> Batches \cup {NoBatch}]
  /\ again \in [Workers -> SUBSET (1..MAX_COLLECTIONS)]
  /\ main_pc \in {"start", "up", "notify", "join", "drain", "down"}
  /\ inserted \subseteq Records /\ settled \subseteq Records
  /\ late_failed \subseteq Records
  /\ late_count \in 0..MaxLateFailures

\* No thread is about to append to the send list the scheduler drains without
\* the mutex: std::list is not thread safe and the drain takes no lock, so the
\* two lists and the locked swap are all that keeps push_back and pop_front
\* apart.
SendlistRaceFree ==
  \A t \in Threads : stage[t] \in {"push", "requeue"} => side[t] # m_flag

\* The two lists together are one queue: collections are scheduled in the order
\* they were closed or retried, whatever swaps, limits and retries happen in
\* between.
SendQueue == m_sendlist[m_flag] \o m_sendlist[1 - m_flag]
SendlistsAreFifo ==
  [][\/ \E b \in Batches : SendQueue' = Append(SendQueue, b)
     \/ SendQueue # <<>> /\ SendQueue' = Tail(SendQueue)]_SendQueue

\* The collections on their way to a pool thread, first come first: the queued
\* tasks, then the two send lists.  While the scheduler is between
\* schedule_normal and pop_front the front of the drained list is a stale
\* pointer: its collection is the pool's already.
Drained == IF run_pc = "pop" THEN Tail(m_sendlist[m_flag]) ELSE m_sendlist[m_flag]
Line    == m_works \o (Drained \o m_sendlist[1 - m_flag])
Recv    == {m_recv} \ {NoBatch}
Hands   == {in_hand[w] : w \in Workers} \ {NoBatch}

\* Every collection has exactly one owner: it is free, being filled, once on
\* its way to a pool thread, or in the hands of one.  None is freed, sent or
\* filled twice, and none leaks, through every interleaving of insert(),
\* flush(), report(), retry() and free(), the last three of which take no lock
\* or a lock that the pool does not know of.
BatchOwnership ==
  /\ IsInjective(Line)
  /\ \A v, w \in Workers : in_hand[v] = in_hand[w] => v = w \/ in_hand[v] = NoBatch
  /\ Recv \cap (m_data_pool \cup Range(Line) \cup Hands) = {}
  /\ m_data_pool \cap (Range(Line) \cup Hands) = {}
  /\ Range(Line) \cap Hands = {}
  /\ Batches = m_data_pool \cup Recv \cup Range(Line) \cup Hands

\* A collection that is to be sent has records (report() overwrites the comma
\* after the last record with the closing brackets, Reporter.cpp:92, and has
\* none to overwrite without records), and whoever finds the mutex free finds
\* room in m_recv for the memcpy of insert().
RecordsFit ==
  /\ \A b \in Batches :
       b \notin m_data_pool /\ b # m_recv => m_data[b] # <<>>
  /\ mutex = NoThread /\ m_recv # NoBatch => Len(m_data[m_recv]) < MAX_COLLECTIONS

\* Positions of records still to be answered.  Once a worker has the answer of
\* its collection only the positions in again[w] are.
Superseded(b, i) ==
  \E w \in Workers : in_hand[w] = b /\ work_pc[w] = "answer" /\ i \notin again[w]
LivePositions ==
  {bi \in Held \X (1..MAX_COLLECTIONS) :
     bi[2] \in Positions(bi[1]) /\ ~Superseded(bi[1], bi[2])}
LiveRecords == {m_data[bi[1]][bi[2]] : bi \in LivePositions}

\* No record is lost before stop(): every record given to insert() has been
\* answered or still sits in a collection that is not free.
NoRecordLost == inserted \subseteq LiveRecords \cup settled

\* What stop() leaves unsent is still in the collection being filled or on a
\* send list: whatever had been scheduled or posted by then is settled, or has
\* gone back through insert() or retry() before the pool threads ended.
StopKeepsUnsent ==
  main_pc = "down" =>
    inserted \subseteq
      settled \cup UNION {Range(m_data[b]) : b \in {m_recv} \cup Range(SendQueue)}

\* Unless a post fails after its answer, a record is in one place only and is
\* not sent again once it is settled, whatever mix of retries and repeats.
NoDoubleReport ==
  \A p, q \in LivePositions :
    LET r == m_data[p[1]][p[2]]
    IN r \notin late_failed =>
         /\ r \notin settled
         /\ r = m_data[q[1]][q[2]] => p = q

\* The service implements Outbox; RecordsInOutbox is its Spec with the live
\* records pending.
Outbox == INSTANCE Outbox WITH
            pending <- LiveRecords, AtMostOnce <- (MaxLateFailures = 0)
RecordsInOutbox == Outbox!Spec

\* A drain that starts below the limit stops when SendLimit collections have
\* been sent in its window, over the swap and any change of window before it.
\* (One that starts at the limit is not bounded: the test is == and m_count has
\* passed it.)
RatePerFlush ==
  run_pc \in {"drain", "pop"} /\ ~at_limit => m_count < SendLimit

\* Once stop() has returned nothing is scheduled or posted any more.
StoppedIsQuiet ==
  [][main_pc = "down" => UNCHANGED <<m_works, work_pc, in_hand, run_pc>>]_vars

\* stop() returns: the notification may be lost between the test of m_runnring
\* and wait_for, the timeout makes up for it, and no lock is held for ever.
StopReturns == (main_pc = "notify") ~> (main_pc = "down")

\* A record given to insert() is settled in the end, unless stop() comes first.
EveryRecordSettled ==
  \A r \in Records : (r \in inserted) ~> (r \in settled \/ main_pc # "up")

\* ServiceReportManager.cpp:38, "added to the to-be-sent list": a collection
\* on a send list is sent in the end, unless stop() comes first.
QueuedIsSent == (SendQueue # <<>>) ~> (m_works # <<>> \/ main_pc # "up")

-----------------------------------------------------------------------------
(* The inductive invariant behind the safety properties.                    *)

\* Which program counters go together, and what a thread has in its hands.
PcInv ==
  /\ main_pc = "start" => /\ m_recv = NoBatch /\ run_pc = "off" /\ m_works = <<>>
                          /\ \A t \in Threads : stage[t] = "out"
                          /\ \A w \in Workers : work_pc[w] = "idle"
  /\ main_pc # "start" => m_recv # NoBatch /\ run_pc # "off"
  /\ stage[Scheduler] # "requeue"
  /\ stage[Scheduler] # "out" <=> run_pc = "flushing"
  /\ run_pc = "pop" => m_sendlist[m_flag] # <<>>
  /\ \A t \in Callers : stage[t] = "requeue" => t \in Workers /\ work_pc[t] = "retry"
  /\ \A w \in Workers :
       /\ work_pc[w] = "idle" <=> in_hand[w] = NoBatch
       /\ stage[w] \in {"flush", "push"} => work_pc[w] = "answer"
       /\ work_pc[w] = "answer" => again[w] \subseteq Positions(in_hand[w])

\* Who holds the mutex: whoever is past a lock() and before its unlock(), and a
\* caller of insert() from the record that fills m_recv on.
LockInv ==
  /\ \A t \in Threads : stage[t] \in {"push", "requeue"} => mutex = t
  /\ \A t \in Callers : stage[t] = "flush" => mutex = t
  /\ mutex # NoThread => stage[mutex] # "out"
  /\ mutex = Scheduler => stage[Scheduler] = "push"
  /\ SendlistRaceFree

\* How full collections are; m_recv is full only under the lock.
SizeInv ==
  /\ \A b \in m_data_pool : m_data[b] = <<>>
  /\ \A b \in Batches : b \notin m_data_pool /\ b # m_recv => m_data[b] # <<>>
  /\ m_recv # NoBatch /\ Len(m_data[m_recv]) = MAX_COLLECTIONS =>
       mutex \in Callers /\ stage[mutex] \in {"flush", "push"}
  /\ \A t \in Threads :
       stage[t] = "push" \/ (t \in Callers /\ stage[t] = "flush") =>
         m_data[m_recv] # <<>>

\* What stop() has waited for stays as it was then.
StopInv ==
  /\ main_pc \in {"drain", "down"} => run_pc = "done"
  /\ main_pc = "down" => WorksDrained

IndInv == TypeOK /\ PcInv /\ LockInv /\ SizeInv /\ BatchOwnership

\* Nothing is held or settled that was not inserted.
KnownRecords ==
  /\ \A b \in Batches : \A i \in Positions(b) : m_data[b][i] \in inserted
  /\ settled \subseteq inserted

\* The invariant behind NoRecordLost, NoDoubleReport and Outbox.
RecordInv ==
  /\ KnownRecords
  /\ late_count = 0 => late_failed = {}
  /\ NoRecordLost /\ NoDoubleReport
=============================================================================
