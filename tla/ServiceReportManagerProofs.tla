--------------------- MODULE ServiceReportManagerProofs ---------------------
(***************************************************************************)
(* Proofs about ServiceReportManager for any records, collections and      *)
(* threads, any collection size and any send limit: IndInv is an inductive *)
(* invariant, and type correctness, the separation of the two send lists,  *)
(* the ownership of collections and their sizes follow from it.            *)
(***************************************************************************)
EXTENDS ServiceReportManager, SequenceLemmas



\* A step of the specification is a step of one of these kinds.
LEMMA NextCases ==
  ASSUME [Next]_vars
  PROVE
    \/ RunCheck \/ RunWait \/ RunTimeout \/ RunLoop
    \/ \E t \in Threads : FlushRecv(t)
    \/ \E t \in Threads : PushRecv(t)
    \/ FlushEmpty
    \/ Window \/ DrainEnd \/ Tick
    \/ DrainSchedule
    \/ DrainPop
    \/ DrainSwap
    \/ \E p \in Producers : \E r \in Records : Insert(p, r)
    \/ \E w \in Workers : TaskStart(w)
    \/ \E w \in Workers : PostFailed(w)
    \/ \E w \in Workers : \E R \in SUBSET (1..MAX_COLLECTIONS) : PostAnswered(w, R)
    \/ \E w \in Workers : \E i \in 1..MAX_COLLECTIONS : Reinsert(w, i)
    \/ \E w \in Workers : Finish(w)
    \/ \E w \in Workers : PostBroken(w)
    \/ \E w \in Workers : RetryLock(w)
    \/ \E w \in Workers : RetryPush(w)
    \/ InitService
    \/ StopFlag \/ StopNotify \/ StopJoin \/ StopWorkers \/ UNCHANGED vars
  BY DEF Next, SchedulerStep, CallerFlush, WorkerStep, MainThread, Terminated,
         Threads, Callers

\* Every step preserves the type invariant.
LEMMA TypeStep ==
  ASSUME IndInv, [Next]_vars
  PROVE  TypeOK'
<1> USE ConstantsAssumption DEF IndInv, recvVars, listVars, rateVars, lockVars,
        workVars, ctlVars, lateVars, histVars, Threads, Callers
<1>1. ASSUME RunCheck \/ RunWait \/ RunTimeout \/ RunLoop
      PROVE  TypeOK'
  BY <1>1 DEF TypeOK, RunCheck, RunWait, RunTimeout, RunLoop, RunStep
<1>2. ASSUME NEW t \in Threads,
             FlushRecv(t)
      PROVE  TypeOK'
  BY <1>2 DEF TypeOK, FlushRecv, Filling
<1>3. ASSUME NEW t \in Threads,
             PushRecv(t)
      PROVE  TypeOK'
  <2>1. m_recv \in Batches
    BY <1>3 DEF PushRecv, PcInv, TypeOK
  <2>2. m_recv' \in Batches /\ m_data_pool' \subseteq Batches
    BY <1>3 DEF PushRecv, Malloc, TypeOK
  <2>3. m_sendlist' \in [0..1 -> Seq(Batches)]
    BY <1>3, <2>1, AppendProperties DEF PushRecv, TypeOK
  <2>4. run_pc' \in {"window", "woken", run_pc}
    BY <1>3 DEF PushRecv, Notified
  <2> QED
    BY <1>3, <2>2, <2>3, <2>4 DEF TypeOK, PushRecv
<1>4. ASSUME FlushEmpty
      PROVE  TypeOK'
  BY <1>4 DEF TypeOK, FlushEmpty
<1>5. ASSUME Window \/ DrainEnd \/ Tick
      PROVE  TypeOK'
  <2>1. at_limit' \in BOOLEAN /\ window_over' \in BOOLEAN /\ swapped' \in BOOLEAN
    <3>1. CASE Window
      <4>1. (m_count' >= SendLimit) \in BOOLEAN
        OBVIOUS
      <4>2. at_limit' \in BOOLEAN
        BY ONLY <3>1, <4>1, Zenon DEF Window
      <4> QED
        BY <3>1, <4>2 DEF TypeOK, Window
    <3>2. CASE DrainEnd \/ Tick
      BY <3>2 DEF TypeOK, DrainEnd, DrainReturn, Tick
    <3> QED
      BY <1>5, <3>1, <3>2
  <2>2. m_count' \in 0..(SendLimit + 1) /\ run_pc' \in {"drain", "check", run_pc}
    BY <1>5 DEF TypeOK, Window, DrainEnd, DrainReturn, Tick
  <2> QED
    BY <1>5, <2>1, <2>2 DEF TypeOK, Window, DrainEnd, DrainReturn, Tick
<1>6. ASSUME DrainSchedule
      PROVE  TypeOK'
  <2>1. m_sendlist[m_flag] \in Seq(Batches)
    BY DEF TypeOK
  <2>2. m_works' \in Seq(Batches)
    BY <1>6, <2>1, HeadTailProperties, AppendProperties
    DEF TypeOK, DrainSchedule
  <2> QED
    BY <1>6, <2>2 DEF TypeOK, DrainSchedule
<1>7. ASSUME DrainPop
      PROVE  TypeOK'
  <2>1. m_sendlist[m_flag] \in Seq(Batches) /\ m_sendlist[m_flag] # <<>>
    BY <1>7 DEF TypeOK, PcInv, DrainPop
  <2>2. m_sendlist' \in [0..1 -> Seq(Batches)]
    BY <1>7, <2>1, HeadTailProperties DEF TypeOK, DrainPop
  <2>3. m_count' \in 0..(SendLimit + 1)
    BY <1>7 DEF TypeOK, DrainPop, Bumped
  <2> QED
    BY <1>7, <2>2, <2>3 DEF TypeOK, DrainPop, DrainReturn
<1>8. ASSUME DrainSwap
      PROVE  TypeOK'
  BY <1>8 DEF TypeOK, DrainSwap
<1>9. ASSUME NEW p \in Producers, NEW r \in Records,
             Insert(p, r)
      PROVE  TypeOK'
  <2>1. m_recv \in Batches
    BY <1>9 DEF Insert, Place, PcInv, TypeOK
  <2>2. /\ m_data' \in [Batches -> Seq(Records)]
        /\ \A b \in Batches : Len(m_data'[b]) <= MAX_COLLECTIONS
    BY <1>9, <2>1, AppendProperties, LenProperties
    DEF Insert, Place, TypeOK, SizeInv
  <2> QED
    BY <1>9, <2>2 DEF TypeOK, Insert, Place
<1>10. ASSUME NEW w \in Workers,
             TaskStart(w)
      PROVE  TypeOK'
  <2>1. m_works' \in Seq(Batches) /\ Head(m_works) \in Batches
    BY <1>10, HeadTailProperties DEF TypeOK, TaskStart
  <2> QED
    BY <1>10, <2>1 DEF TypeOK, TaskStart
<1>11. ASSUME NEW w \in Workers,
             PostFailed(w)
      PROVE  TypeOK'
  BY <1>11 DEF TypeOK, PostFailed
<1>12. ASSUME NEW w \in Workers, NEW R \in SUBSET (1..MAX_COLLECTIONS),
             PostAnswered(w, R)
      PROVE  TypeOK'
  <2>1. in_hand[w] \in Batches
    BY <1>12 DEF PostAnswered, PcInv, TypeOK
  <2>2. settled' \subseteq Records
    BY <1>12, <2>1, ElementOfSeq DEF PostAnswered, TypeOK, Positions
  <2> QED
    BY <1>12, <2>2 DEF TypeOK, PostAnswered
<1>13. ASSUME NEW w \in Workers, NEW i \in 1..MAX_COLLECTIONS,
             Reinsert(w, i)
      PROVE  TypeOK'
  <2>1. m_recv \in Batches /\ in_hand[w] \in Batches
    BY <1>13 DEF Reinsert, Place, PcInv, TypeOK
  <2>2. m_data[in_hand[w]][i] \in Records
    BY <1>13, <2>1, ElementOfSeq DEF Reinsert, Place, PcInv, TypeOK, Positions
  <2>3. /\ m_data' \in [Batches -> Seq(Records)]
        /\ \A b \in Batches : Len(m_data'[b]) <= MAX_COLLECTIONS
    BY <1>13, <2>1, <2>2, AppendProperties, LenProperties
    DEF Reinsert, Place, TypeOK, SizeInv
  <2>4. again' \in [Workers -> SUBSET (1..MAX_COLLECTIONS)]
    BY <1>13 DEF TypeOK, Reinsert, Place
  <2>5. mutex' \in Threads \cup {NoThread} /\ stage' \in [Threads -> {"out", "flush", "push", "requeue"}]
    BY <1>13 DEF TypeOK, Reinsert, Place
  <2> QED
    BY <1>13, <2>3, <2>4, <2>5 DEF TypeOK, Reinsert, Place
<1>14. ASSUME NEW w \in Workers,
             Finish(w)
      PROVE  TypeOK'
  <2>1. in_hand[w] \in Batches
    BY <1>14 DEF Finish, Answered, PcInv, TypeOK
  <2>2. /\ m_data' \in [Batches -> Seq(Records)]
        /\ \A b \in Batches : Len(m_data'[b]) <= MAX_COLLECTIONS
    BY <1>14, <2>1, EmptySeq DEF Finish, Free, TypeOK
  <2>3. m_data_pool' \subseteq Batches
    BY <1>14, <2>1 DEF Finish, Free, TypeOK
  <2> QED
    BY <1>14, <2>2, <2>3 DEF TypeOK, Finish, Answered, Free
<1>15. ASSUME NEW w \in Workers,
             PostBroken(w)
      PROVE  TypeOK'
  <2>1. in_hand[w] \in Batches
    BY <1>15 DEF PostBroken, Answered, PcInv, TypeOK
  <2>2. late_failed' \subseteq Records
    BY <1>15, <2>1, LenProperties DEF PostBroken, TypeOK, Range
  <2> QED
    BY <1>15, <2>2 DEF TypeOK, PostBroken, Answered
<1>16. ASSUME NEW w \in Workers,
             RetryLock(w)
      PROVE  TypeOK'
  BY <1>16 DEF TypeOK, RetryLock, Filling
<1>17. ASSUME NEW w \in Workers,
             RetryPush(w)
      PROVE  TypeOK'
  <2>1. in_hand[w] \in Batches
    BY <1>17 DEF RetryPush, PcInv, TypeOK
  <2>2. m_sendlist' \in [0..1 -> Seq(Batches)]
    BY <1>17, <2>1, AppendProperties DEF RetryPush, TypeOK
  <2> QED
    BY <1>17, <2>2 DEF TypeOK, RetryPush
<1>18. ASSUME InitService
      PROVE  TypeOK'
  BY <1>18 DEF TypeOK, InitService, Malloc
<1>19. ASSUME StopFlag \/ StopNotify \/ StopJoin \/ StopWorkers \/ UNCHANGED vars
      PROVE  TypeOK'
  <2>1. CASE StopFlag
    BY <2>1 DEF TypeOK, StopFlag, MainStep
  <2>2. CASE StopNotify
    BY <2>2 DEF TypeOK, StopNotify, MainStep, Notified
  <2>3. CASE StopJoin
    BY <2>3 DEF TypeOK, StopJoin, MainStep
  <2>4. CASE StopWorkers
    BY <2>4 DEF TypeOK, StopWorkers, MainStep
  <2>5. CASE UNCHANGED vars
    BY <2>5 DEF TypeOK, vars
  <2> QED
    BY <1>19, <2>1, <2>2, <2>3, <2>4, <2>5
<1> QED
  BY NextCases, <1>1, <1>2, <1>3, <1>4, <1>5, <1>6, <1>7, <1>8, <1>9, <1>10,
     <1>11, <1>12, <1>13, <1>14, <1>15, <1>16, <1>17, <1>18, <1>19

\* Every step preserves the agreement of the program counters.
LEMMA PcStep ==
  ASSUME IndInv, [Next]_vars
  PROVE  PcInv'
<1> USE ConstantsAssumption DEF IndInv, recvVars, listVars, rateVars, lockVars,
        workVars, ctlVars, lateVars, histVars, Threads, Callers
<1> USE DEF TypeOK
<1>1. ASSUME RunCheck \/ RunWait \/ RunTimeout \/ RunLoop
      PROVE  PcInv'
  BY <1>1
  DEF PcInv, Positions, Notified, RunCheck, RunWait, RunTimeout, RunLoop,
      RunStep
<1>2. ASSUME NEW t \in Threads,
             FlushRecv(t)
      PROVE  PcInv'
  BY <1>2 DEF PcInv, Positions, Notified, FlushRecv
<1>3. ASSUME NEW t \in Threads,
             PushRecv(t)
      PROVE  PcInv'
  <2>1. m_recv \in Batches /\ side[t] # m_flag
    BY <1>3 DEF PushRecv, PcInv, LockInv, SendlistRaceFree
  <2>2. m_sendlist'[m_flag'] = m_sendlist[m_flag]
    BY <1>3, <2>1 DEF PushRecv
  <2>3. m_recv' # NoBatch
    BY <1>3, ConstantsAssumption DEF PushRecv, Malloc
  <2>4. CASE t = Scheduler
    BY <1>3, <2>2, <2>3, <2>4 DEF PcInv, PushRecv, Positions
  <2>5. CASE t \in Callers
    <3>1. main_pc # "start" /\ run_pc' \in {run_pc, "woken"} /\ (run_pc = "flushing" => run_pc' = run_pc)
      BY <1>3, <2>5 DEF PcInv, PushRecv, Notified
    <3>2. run_pc' # "off" /\ (run_pc' = "flushing" <=> run_pc = "flushing")
          /\ (run_pc' = "pop" <=> run_pc = "pop")
      BY <1>3, <2>5, <3>1 DEF PcInv, PushRecv, Notified
    <3> QED
      BY <1>3, <2>2, <2>3, <2>5, <3>1, <3>2 DEF PcInv, PushRecv, Positions
  <2> QED
    BY <2>4, <2>5
<1>4. ASSUME FlushEmpty
      PROVE  PcInv'
  BY <1>4 DEF PcInv, Positions, Notified, FlushEmpty
<1>5. ASSUME Window \/ DrainEnd \/ Tick
      PROVE  PcInv'
  BY <1>5 DEF PcInv, Positions, Notified, Window, DrainEnd, DrainReturn, Tick
<1>6. ASSUME DrainSchedule
      PROVE  PcInv'
  BY <1>6 DEF PcInv, Positions, Notified, DrainSchedule
<1>7. ASSUME DrainPop
      PROVE  PcInv'
  BY <1>7 DEF PcInv, Positions, Notified, DrainPop, DrainReturn
<1>8. ASSUME DrainSwap
      PROVE  PcInv'
  BY <1>8 DEF PcInv, Positions, Notified, DrainSwap
<1>9. ASSUME NEW p \in Producers, NEW r \in Records,
             Insert(p, r)
      PROVE  PcInv'
  BY <1>9 DEF PcInv, Positions, Notified, Insert, Place
<1>10. ASSUME NEW w \in Workers,
             TaskStart(w)
      PROVE  PcInv'
  BY <1>10 DEF PcInv, Positions, Notified, TaskStart
<1>11. ASSUME NEW w \in Workers,
             PostFailed(w)
      PROVE  PcInv'
  BY <1>11 DEF PcInv, Positions, Notified, PostFailed
<1>12. ASSUME NEW w \in Workers, NEW R \in SUBSET (1..MAX_COLLECTIONS),
             PostAnswered(w, R)
      PROVE  PcInv'
  BY <1>12 DEF PcInv, Positions, Notified, PostAnswered
<1>13. ASSUME NEW w \in Workers, NEW i \in 1..MAX_COLLECTIONS,
             Reinsert(w, i)
      PROVE  PcInv'
  BY <1>13 DEF PcInv, Positions, Notified, Reinsert, Place
<1>14. ASSUME NEW w \in Workers,
             Finish(w)
      PROVE  PcInv'
  <2>1. \A v \in Workers \ {w} : in_hand[v] # NoBatch => in_hand[v] # in_hand[w]
    BY <1>14 DEF Finish, BatchOwnership
  <2>2. ASSUME NEW v \in Workers, work_pc'[v] = "answer"
        PROVE  again'[v] \subseteq Positions(in_hand[v])'
    BY <1>14, <2>1, <2>2 DEF PcInv, Finish, Answered, Free, Positions
  <2> QED
    BY <1>14, <2>2 DEF PcInv, Finish, Answered, Free
<1>15. ASSUME NEW w \in Workers,
             PostBroken(w)
      PROVE  PcInv'
  BY <1>15 DEF PcInv, Positions, Notified, PostBroken, Answered
<1>16. ASSUME NEW w \in Workers,
             RetryLock(w)
      PROVE  PcInv'
  BY <1>16 DEF PcInv, Positions, Notified, RetryLock
<1>17. ASSUME NEW w \in Workers,
             RetryPush(w)
      PROVE  PcInv'
  <2>1. side[w] # m_flag
    BY <1>17 DEF RetryPush, LockInv, SendlistRaceFree
  <2>2. m_sendlist'[m_flag'] = m_sendlist[m_flag]
    BY <1>17, <2>1 DEF RetryPush
  <2> QED
    BY <1>17, <2>2 DEF PcInv, RetryPush, Positions
<1>18. ASSUME InitService
      PROVE  PcInv'
  BY <1>18 DEF PcInv, Positions, Notified, InitService, Malloc
<1>19. ASSUME StopFlag \/ StopNotify \/ StopJoin \/ StopWorkers \/ UNCHANGED vars
      PROVE  PcInv'
  BY <1>19
  DEF PcInv, Positions, Notified, StopFlag, StopNotify, StopJoin, StopWorkers,
      MainStep, vars
<1> QED
  BY NextCases, <1>1, <1>2, <1>3, <1>4, <1>5, <1>6, <1>7, <1>8, <1>9, <1>10,
     <1>11, <1>12, <1>13, <1>14, <1>15, <1>16, <1>17, <1>18, <1>19

\* Every step preserves the lock discipline.
LEMMA LockStep ==
  ASSUME IndInv, [Next]_vars
  PROVE  LockInv'
<1> USE ConstantsAssumption DEF IndInv, recvVars, listVars, rateVars, lockVars,
        workVars, ctlVars, lateVars, histVars, Threads, Callers
<1> USE DEF TypeOK, PcInv
<1>1. ASSUME RunCheck \/ RunWait \/ RunTimeout \/ RunLoop
      PROVE  LockInv'
  BY <1>1
  DEF LockInv, SendlistRaceFree, CanLock, Filling, Notified, RunCheck,
      RunWait, RunTimeout, RunLoop, RunStep
<1>2. ASSUME NEW t \in Threads,
             FlushRecv(t)
      PROVE  LockInv'
  BY <1>2 DEF LockInv, FlushRecv, CanLock, Filling, SendlistRaceFree, TypeOK
<1>3. ASSUME NEW t \in Threads,
             PushRecv(t)
      PROVE  LockInv'
  BY <1>3 DEF LockInv, SendlistRaceFree, CanLock, Filling, Notified, PushRecv
<1>4. ASSUME FlushEmpty
      PROVE  LockInv'
  BY <1>4 DEF LockInv, SendlistRaceFree, CanLock, Filling, Notified, FlushEmpty
<1>5. ASSUME Window \/ DrainEnd \/ Tick
      PROVE  LockInv'
  BY <1>5
  DEF LockInv, SendlistRaceFree, CanLock, Filling, Notified, Window, DrainEnd,
      DrainReturn, Tick
<1>6. ASSUME DrainSchedule
      PROVE  LockInv'
  BY <1>6
  DEF LockInv, SendlistRaceFree, CanLock, Filling, Notified, DrainSchedule
<1>7. ASSUME DrainPop
      PROVE  LockInv'
  BY <1>7
  DEF LockInv, SendlistRaceFree, CanLock, Filling, Notified, DrainPop,
      DrainReturn
<1>8. ASSUME DrainSwap
      PROVE  LockInv'
  BY <1>8 DEF LockInv, SendlistRaceFree, CanLock, Filling, Notified, DrainSwap
<1>9. ASSUME NEW p \in Producers, NEW r \in Records,
             Insert(p, r)
      PROVE  LockInv'
  BY <1>9
  DEF LockInv, SendlistRaceFree, CanLock, Filling, Notified, Insert, Place
<1>10. ASSUME NEW w \in Workers,
             TaskStart(w)
      PROVE  LockInv'
  BY <1>10 DEF LockInv, SendlistRaceFree, CanLock, Filling, Notified, TaskStart
<1>11. ASSUME NEW w \in Workers,
             PostFailed(w)
      PROVE  LockInv'
  BY <1>11 DEF LockInv, SendlistRaceFree, CanLock, Filling, Notified, PostFailed
<1>12. ASSUME NEW w \in Workers, NEW R \in SUBSET (1..MAX_COLLECTIONS),
             PostAnswered(w, R)
      PROVE  LockInv'
  BY <1>12
  DEF LockInv, SendlistRaceFree, CanLock, Filling, Notified, PostAnswered
<1>13. ASSUME NEW w \in Workers, NEW i \in 1..MAX_COLLECTIONS,
             Reinsert(w, i)
      PROVE  LockInv'
  BY <1>13
  DEF LockInv, SendlistRaceFree, CanLock, Filling, Notified, Reinsert, Place
<1>14. ASSUME NEW w \in Workers,
             Finish(w)
      PROVE  LockInv'
  BY <1>14
  DEF LockInv, SendlistRaceFree, CanLock, Filling, Notified, Finish, Answered,
      Free
<1>15. ASSUME NEW w \in Workers,
             PostBroken(w)
      PROVE  LockInv'
  BY <1>15
  DEF LockInv, SendlistRaceFree, CanLock, Filling, Notified, PostBroken,
      Answered
<1>16. ASSUME NEW w \in Workers,
             RetryLock(w)
      PROVE  LockInv'
  BY <1>16 DEF LockInv, SendlistRaceFree, CanLock, Filling, Notified, RetryLock
<1>17. ASSUME NEW w \in Workers,
             RetryPush(w)
      PROVE  LockInv'
  BY <1>17 DEF LockInv, SendlistRaceFree, CanLock, Filling, Notified, RetryPush
<1>18. ASSUME InitService
      PROVE  LockInv'
  BY <1>18
  DEF LockInv, SendlistRaceFree, CanLock, Filling, Notified, InitService,
      Malloc
<1>19. ASSUME StopFlag \/ StopNotify \/ StopJoin \/ StopWorkers \/ UNCHANGED vars
      PROVE  LockInv'
  BY <1>19
  DEF LockInv, SendlistRaceFree, CanLock, Filling, Notified, StopFlag,
      StopNotify, StopJoin, StopWorkers, MainStep, vars
<1> QED
  BY NextCases, <1>1, <1>2, <1>3, <1>4, <1>5, <1>6, <1>7, <1>8, <1>9, <1>10,
     <1>11, <1>12, <1>13, <1>14, <1>15, <1>16, <1>17, <1>18, <1>19

\* Every step preserves the facts about the sizes of collections.
LEMMA SizeStep ==
  ASSUME IndInv, [Next]_vars
  PROVE  SizeInv'
<1> USE ConstantsAssumption DEF IndInv, recvVars, listVars, rateVars, lockVars,
        workVars, ctlVars, lateVars, histVars, Threads, Callers
<1> USE DEF TypeOK
<1>1. ASSUME RunCheck \/ RunWait \/ RunTimeout \/ RunLoop
      PROVE  SizeInv'
  <2>1. CASE RunLoop
    BY <2>1 DEF RunLoop, SizeInv, LockInv, PcInv
  <2>2. CASE RunCheck \/ RunWait \/ RunTimeout
    BY <2>2 DEF RunCheck, RunWait, RunTimeout, RunStep, SizeInv
  <2> QED
    BY <1>1, <2>1, <2>2
<1>2. ASSUME NEW t \in Threads,
             FlushRecv(t)
      PROVE  SizeInv'
  BY <1>2 DEF SizeInv, LockInv, PcInv, CanLock, FlushRecv
<1>3. ASSUME NEW t \in Threads,
             PushRecv(t)
      PROVE  SizeInv'
  <2>1. PICK b \in m_data_pool : m_recv' = b /\ m_data_pool' = m_data_pool \ {b}
    BY <1>3 DEF PushRecv, Malloc
  <2>2. m_recv \in Batches /\ m_recv \notin m_data_pool /\ m_data[m_recv] # <<>>
    BY <1>3 DEF PushRecv, PcInv, BatchOwnership, Recv, SizeInv
  <2>3. m_data' = m_data /\ m_data[b] = <<>> /\ Len(m_data[b]) = 0
    BY <1>3, <2>1, EmptySeq DEF PushRecv, SizeInv
  <2>4. \A u \in Threads : stage'[u] = "push" \/ (u \in Callers /\ stage'[u] = "flush") => FALSE
    BY <1>3 DEF PushRecv, LockInv
  <2> QED
    BY <2>1, <2>2, <2>3, <2>4 DEF SizeInv
<1>4. ASSUME FlushEmpty
      PROVE  SizeInv'
  BY <1>4 DEF SizeInv, LockInv, PcInv, CanLock, FlushEmpty
<1>5. ASSUME Window \/ DrainEnd \/ Tick
      PROVE  SizeInv'
  BY <1>5
  DEF SizeInv, LockInv, PcInv, CanLock, Window, DrainEnd, DrainReturn, Tick
<1>6. ASSUME DrainSchedule
      PROVE  SizeInv'
  BY <1>6 DEF SizeInv, LockInv, PcInv, CanLock, DrainSchedule
<1>7. ASSUME DrainPop
      PROVE  SizeInv'
  BY <1>7 DEF SizeInv, LockInv, PcInv, CanLock, DrainPop, DrainReturn
<1>8. ASSUME DrainSwap
      PROVE  SizeInv'
  BY <1>8 DEF SizeInv, LockInv, PcInv, CanLock, DrainSwap
<1>9. ASSUME NEW p \in Producers, NEW r \in Records,
             Insert(p, r)
      PROVE  SizeInv'
  <2>1. m_recv \in Batches /\ m_recv \notin m_data_pool
    BY <1>9 DEF Insert, Place, PcInv, BatchOwnership, Recv
  <2>3. m_data[m_recv] \in Seq(Records) /\ m_data' = [m_data EXCEPT ![m_recv] = Append(@, r)]
    BY <1>9, <2>1 DEF Insert, Place
  <2>4. /\ Append(m_data[m_recv], r) # <<>>
        /\ Len(Append(m_data[m_recv], r)) = Len(m_data[m_recv]) + 1
    BY ONLY <2>3, r \in Records, AppendProperties
  <2>5. /\ m_data'[m_recv] # <<>>
        /\ Len(m_data'[m_recv]) = Len(m_data[m_recv]) + 1
        /\ \A b \in Batches \ {m_recv} : m_data'[b] = m_data[b]
    BY <2>1, <2>3, <2>4
  <2> QED
    BY <1>9, <2>1, <2>5 DEF SizeInv, LockInv, Fills, Insert, Place
<1>10. ASSUME NEW w \in Workers,
             TaskStart(w)
      PROVE  SizeInv'
  BY <1>10 DEF SizeInv, LockInv, PcInv, CanLock, TaskStart
<1>11. ASSUME NEW w \in Workers,
             PostFailed(w)
      PROVE  SizeInv'
  BY <1>11 DEF SizeInv, LockInv, PcInv, CanLock, PostFailed
<1>12. ASSUME NEW w \in Workers, NEW R \in SUBSET (1..MAX_COLLECTIONS),
             PostAnswered(w, R)
      PROVE  SizeInv'
  BY <1>12 DEF SizeInv, LockInv, PcInv, CanLock, PostAnswered
<1>13. ASSUME NEW w \in Workers, NEW i \in 1..MAX_COLLECTIONS,
             Reinsert(w, i)
      PROVE  SizeInv'
  <2>1. m_recv \in Batches /\ m_recv \notin m_data_pool
    BY <1>13 DEF Reinsert, Place, PcInv, BatchOwnership, Recv
  <2> DEFINE r == m_data[in_hand[w]][i]
  <2>2. r \in Records
    BY <1>13, ElementOfSeq DEF Reinsert, Place, PcInv, Positions
  <2>3. m_data[m_recv] \in Seq(Records) /\ m_data' = [m_data EXCEPT ![m_recv] = Append(@, r)]
    BY <1>13, <2>1 DEF Reinsert, Place
  <2> HIDE DEF r
  <2>4. /\ Append(m_data[m_recv], r) # <<>>
        /\ Len(Append(m_data[m_recv], r)) = Len(m_data[m_recv]) + 1
    BY ONLY <2>3, <2>2, AppendProperties
  <2>5. /\ m_data'[m_recv] # <<>>
        /\ Len(m_data'[m_recv]) = Len(m_data[m_recv]) + 1
        /\ \A b \in Batches \ {m_recv} : m_data'[b] = m_data[b]
    BY <2>1, <2>3, <2>4
  <2> QED
    BY <1>13, <2>1, <2>5 DEF SizeInv, LockInv, Fills, Reinsert, Place
<1>14. ASSUME NEW w \in Workers,
             Finish(w)
      PROVE  SizeInv'
  <2>1. /\ in_hand[w] \in Batches /\ in_hand[w] # m_recv
    BY <1>14 DEF Finish, Answered, PcInv, BatchOwnership, Hands, Recv
  <2> QED
    BY <1>14, <2>1 DEF SizeInv, Finish, Free
<1>15. ASSUME NEW w \in Workers,
             PostBroken(w)
      PROVE  SizeInv'
  BY <1>15 DEF SizeInv, LockInv, PcInv, CanLock, PostBroken, Answered
<1>16. ASSUME NEW w \in Workers,
             RetryLock(w)
      PROVE  SizeInv'
  BY <1>16 DEF SizeInv, LockInv, PcInv, CanLock, RetryLock
<1>17. ASSUME NEW w \in Workers,
             RetryPush(w)
      PROVE  SizeInv'
  BY <1>17 DEF SizeInv, LockInv, PcInv, CanLock, RetryPush
<1>18. ASSUME InitService
      PROVE  SizeInv'
  BY <1>18 DEF SizeInv, LockInv, PcInv, CanLock, InitService, Malloc
<1>19. ASSUME StopFlag \/ StopNotify \/ StopJoin \/ StopWorkers \/ UNCHANGED vars
      PROVE  SizeInv'
  BY <1>19
  DEF SizeInv, LockInv, PcInv, CanLock, StopFlag, StopNotify, StopJoin,
      StopWorkers, MainStep, vars
<1> QED
  BY NextCases, <1>1, <1>2, <1>3, <1>4, <1>5, <1>6, <1>7, <1>8, <1>9, <1>10,
     <1>11, <1>12, <1>13, <1>14, <1>15, <1>16, <1>17, <1>18, <1>19

\* The parts of Line are sequences of collections.
LEMMA LineType ==
  ASSUME TypeOK, PcInv
  PROVE  /\ m_works \in Seq(Batches)
         /\ m_sendlist[m_flag] \in Seq(Batches)
         /\ m_sendlist[1 - m_flag] \in Seq(Batches)
         /\ Drained \in Seq(Batches)
         /\ Drained \o m_sendlist[1 - m_flag] \in Seq(Batches)
         /\ Line \in Seq(Batches)
<1>1. /\ m_works \in Seq(Batches)
      /\ m_sendlist[m_flag] \in Seq(Batches)
      /\ m_sendlist[1 - m_flag] \in Seq(Batches)
  BY DEF TypeOK
<1>2. Drained \in Seq(Batches)
  BY <1>1, HeadTailProperties DEF Drained, PcInv
<1> QED
  BY <1>1, <1>2, ConcatProperties DEF Line

\* A step that touches no queue and neither enters nor leaves "pop".
LEMMA LineSame ==
  ASSUME UNCHANGED <<m_works, m_sendlist, m_flag>>,
         run_pc' = "pop" <=> run_pc = "pop"
  PROVE  Line' = Line
BY DEF Line, Drained

\* A step that moves no collection.
LEMMA OwnSame ==
  ASSUME BatchOwnership, Line' = Line, UNCHANGED <<m_recv, m_data_pool, in_hand>>
  PROVE  BatchOwnership'
BY DEF BatchOwnership, Recv, Hands

\* A push_back under the lock appends to Line, whatever the scheduler does.
LEMMA LinePush ==
  ASSUME TypeOK, PcInv, NEW b \in Batches, NEW i \in 0..1, i # m_flag,
         m_sendlist' = [m_sendlist EXCEPT ![i] = Append(@, b)],
         UNCHANGED <<m_works, m_flag>>,
         run_pc' = "pop" <=> run_pc = "pop"
  PROVE  Line' = Append(Line, b)
<1> DEFINE f == m_sendlist[1 - m_flag]
<1>1. i = 1 - m_flag
  BY DEF TypeOK
<1>2. Drained' = Drained /\ (m_sendlist[1 - m_flag])' = Append(f, b)
  BY <1>1 DEF Drained, TypeOK
<1>3. Line' = m_works \o (Drained \o Append(f, b))
  BY <1>2 DEF Line
<1>4. Drained \o Append(f, b) = Append(Drained \o f, b)
  BY LineType, AppendLast
<1>5. m_works \o Append(Drained \o f, b) = Append(m_works \o (Drained \o f), b)
  BY LineType, AppendLast
<1> QED
  BY <1>3, <1>4, <1>5 DEF Line

\* Every step leaves every collection with one owner.
LEMMA OwnStep ==
  ASSUME IndInv, [Next]_vars
  PROVE  BatchOwnership'
<1> USE DEF IndInv, recvVars, listVars, rateVars, lockVars, workVars, ctlVars,
        lateVars, histVars
<1>1. ASSUME RunCheck \/ RunWait \/ RunTimeout \/ RunLoop
      PROVE  BatchOwnership'
  BY <1>1, LineSame, OwnSame DEF RunCheck, RunWait, RunTimeout, RunLoop, RunStep
<1>2. ASSUME NEW t \in Threads,
             FlushRecv(t)
      PROVE  BatchOwnership'
  BY <1>2, LineSame, OwnSame DEF FlushRecv
<1>3. ASSUME NEW t \in Threads,
             PushRecv(t)
      PROVE  BatchOwnership'
  <2>1. /\ m_recv \in Batches /\ side[t] \in 0..1 /\ side[t] # m_flag
        /\ t = Scheduler => run_pc = "flushing"
    BY <1>3 DEF PushRecv, PcInv, TypeOK, LockInv, SendlistRaceFree
  <2>2. Line' = Append(Line, m_recv)
    <3>1. run_pc' = "pop" <=> run_pc = "pop"
      BY <1>3, <2>1 DEF PushRecv, Notified
    <3> QED
      BY <1>3, <2>1, <3>1, LinePush DEF PushRecv
  <2>3. /\ m_recv \notin Range(Line) /\ IsInjective(Line)
        /\ m_recv \notin m_data_pool /\ m_recv \notin Hands
    BY <2>1, ConstantsAssumption DEF BatchOwnership, Recv
  <2>4. IsInjective(Line') /\ Range(Line') = Range(Line) \cup {m_recv}
    BY <2>1, <2>2, <2>3, LineType, AppendInjectiveSeq
  <2>5. PICK b \in m_data_pool : m_recv' = b /\ m_data_pool' = m_data_pool \ {b}
    BY <1>3 DEF PushRecv, Malloc
  <2>6. in_hand' = in_hand
    BY <1>3 DEF PushRecv
  <2> QED
    BY <2>1, <2>3, <2>4, <2>5, <2>6, ConstantsAssumption
    DEF BatchOwnership, Recv, Hands, TypeOK
<1>4. ASSUME FlushEmpty
      PROVE  BatchOwnership'
  BY <1>4, LineSame, OwnSame DEF FlushEmpty, PcInv
<1>5. ASSUME Window \/ DrainEnd \/ Tick
      PROVE  BatchOwnership'
  BY <1>5, LineSame, OwnSame DEF Window, DrainEnd, DrainReturn, Tick
<1>6. ASSUME DrainSchedule
      PROVE  BatchOwnership'
  <2> DEFINE d == m_sendlist[m_flag]
             f == m_sendlist[1 - m_flag]
  <2>1. /\ d # <<>> /\ Drained = d /\ Drained' = Tail(d) /\ (m_sendlist[1 - m_flag])' = f
        /\ m_works' = Append(m_works, Head(d))
    BY <1>6 DEF DrainSchedule, Drained
  <2>2. Tail(d) \in Seq(Batches) /\ Append(m_works, Head(d)) \in Seq(Batches)
    BY <2>1, LineType, HeadTailProperties, AppendProperties
  <2>3. Line' = Append(m_works, Head(d)) \o (Tail(d) \o f)
    BY <2>1 DEF Line
  <2> d \in Seq(Batches) /\ f \in Seq(Batches) /\ m_works \in Seq(Batches)
    BY LineType
  <2> HIDE DEF d, f
  <2>4. Append(m_works, Head(d)) \o (Tail(d) \o f)
          = (Append(m_works, Head(d)) \o Tail(d)) \o f
    <3>1. PICK x \in Seq(Batches), y \in Seq(Batches) :
            x = Append(m_works, Head(d)) /\ y = Tail(d)
      BY <2>2
    <3>2. (x \o y) \o f = x \o (y \o f)
      BY ConcatAssociative
    <3> QED
      BY <3>1, <3>2
  <2>5. Append(m_works, Head(d)) \o Tail(d) = m_works \o d
    BY <2>1, MoveHead
  <2>6. (m_works \o d) \o f = m_works \o (d \o f)
    BY ConcatAssociative
  <2>7. Line = m_works \o (d \o f)
    BY <2>1 DEF Line, d, f
  <2> QED
    BY <1>6, <2>3, <2>4, <2>5, <2>6, <2>7, OwnSame DEF DrainSchedule
<1>7. ASSUME DrainPop
      PROVE  BatchOwnership'
  <2>1. Drained' = Drained /\ (m_sendlist[1 - m_flag])' = m_sendlist[1 - m_flag]
    BY <1>7 DEF DrainPop, DrainReturn, Drained, TypeOK
  <2>2. Line' = Line
    BY <1>7, <2>1 DEF DrainPop, Line
  <2> QED
    BY <1>7, <2>2, OwnSame DEF DrainPop
<1>8. ASSUME DrainSwap
      PROVE  BatchOwnership'
  <2>1. /\ Drained = <<>> /\ Drained' = m_sendlist[1 - m_flag]
        /\ (m_sendlist[1 - m_flag])' = <<>>
    BY <1>8 DEF DrainSwap, DrainedOut, Drained, TypeOK
  <2>2. Line = m_works \o m_sendlist[1 - m_flag]
    BY <2>1, LineType, ConcatEmptySeq DEF Line
  <2>3. Line' = m_works \o m_sendlist[1 - m_flag]
    BY <1>8, <2>1, LineType, ConcatEmptySeq DEF Line, DrainSwap
  <2> QED
    BY <1>8, <2>2, <2>3, OwnSame DEF DrainSwap
<1>9. ASSUME NEW p \in Producers, NEW r \in Records,
             Insert(p, r)
      PROVE  BatchOwnership'
  BY <1>9, LineSame, OwnSame DEF Insert, Place
<1>10. ASSUME NEW w \in Workers,
             TaskStart(w)
      PROVE  BatchOwnership'
  <2> DEFINE rest == Drained \o m_sendlist[1 - m_flag]
  <2>1. m_works # <<>> /\ rest' = rest /\ m_works' = Tail(m_works)
    BY <1>10 DEF TaskStart, Drained
  <2>2. Line # <<>> /\ Head(Line) = Head(m_works) /\ Line' = Tail(Line)
    <3>1. m_works \in Seq(Batches) /\ rest \in Seq(Batches)
      BY LineType
    <3>2. Line = m_works \o rest /\ Line' = Tail(m_works) \o rest
      BY <2>1 DEF Line
    <3> HIDE DEF rest
    <3> QED
      BY <2>1, <3>1, <3>2, TailFirst
  <2>3. IsInjective(Line) /\ Line \in Seq(Batches)
    BY LineType DEF BatchOwnership
  <2>4. /\ Head(m_works) \in Range(Line)
        /\ IsInjective(Line')
        /\ Range(Line') = Range(Line) \ {Head(m_works)}
    BY <2>2, <2>3, TailInjectiveSeq
  <2>5. in_hand[w] = NoBatch /\ in_hand' = [in_hand EXCEPT ![w] = Head(m_works)]
    BY <1>10 DEF TaskStart, PcInv
  <2>6. m_recv' = m_recv /\ m_data_pool' = m_data_pool
    BY <1>10 DEF TaskStart
  <2>7. Head(m_works) \in Batches /\ Head(m_works) # NoBatch
    BY <2>1, LineType, HeadTailProperties, ConstantsAssumption
  <2>8. Hands' = Hands \cup {Head(m_works)}
    BY <2>5, <2>7 DEF Hands, TypeOK
  <2>9. \A u, v \in Workers : in_hand'[u] = in_hand'[v] => u = v \/ in_hand'[u] = NoBatch
    BY <2>4, <2>5 DEF BatchOwnership, Hands, TypeOK
  <2> QED
    BY <2>4, <2>6, <2>8, <2>9 DEF BatchOwnership, Recv
<1>11. ASSUME NEW w \in Workers,
             PostFailed(w)
      PROVE  BatchOwnership'
  BY <1>11, LineSame, OwnSame DEF PostFailed
<1>12. ASSUME NEW w \in Workers, NEW R \in SUBSET (1..MAX_COLLECTIONS),
             PostAnswered(w, R)
      PROVE  BatchOwnership'
  BY <1>12, LineSame, OwnSame DEF PostAnswered
<1>13. ASSUME NEW w \in Workers, NEW i \in 1..MAX_COLLECTIONS,
             Reinsert(w, i)
      PROVE  BatchOwnership'
  BY <1>13, LineSame, OwnSame DEF Reinsert, Place
<1>14. ASSUME NEW w \in Workers,
             Finish(w)
      PROVE  BatchOwnership'
  <2>1. Line' = Line
    BY <1>14, LineSame DEF Finish
  <2>2. in_hand[w] \in Batches /\ in_hand' = [in_hand EXCEPT ![w] = NoBatch]
    BY <1>14 DEF Finish, Answered, PcInv, TypeOK
  <2>3. m_recv' = m_recv /\ m_data_pool' = m_data_pool \cup {in_hand[w]}
    BY <1>14 DEF Finish, Free
  <2>4. Hands' = Hands \ {in_hand[w]} /\ in_hand[w] \in Hands
    BY <2>2, ConstantsAssumption DEF Hands, BatchOwnership, TypeOK
  <2>5. \A u, v \in Workers : in_hand'[u] = in_hand'[v] => u = v \/ in_hand'[u] = NoBatch
    BY <2>2 DEF BatchOwnership, TypeOK
  <2> QED
    BY <2>1, <2>3, <2>4, <2>5 DEF BatchOwnership, Recv
<1>15. ASSUME NEW w \in Workers,
             PostBroken(w)
      PROVE  BatchOwnership'
  BY <1>15, LineSame, OwnSame DEF PostBroken, Answered
<1>16. ASSUME NEW w \in Workers,
             RetryLock(w)
      PROVE  BatchOwnership'
  BY <1>16, LineSame, OwnSame DEF RetryLock
<1>17. ASSUME NEW w \in Workers,
             RetryPush(w)
      PROVE  BatchOwnership'
  <2>1. /\ in_hand[w] \in Batches /\ side[w] \in 0..1 /\ side[w] # m_flag
        /\ in_hand' = [in_hand EXCEPT ![w] = NoBatch]
    BY <1>17, ConstantsAssumption
    DEF RetryPush, PcInv, TypeOK, LockInv, SendlistRaceFree, Threads, Callers
  <2>2. Line' = Append(Line, in_hand[w])
    BY <1>17, <2>1, LinePush DEF RetryPush
  <2>3. Hands' = Hands \ {in_hand[w]} /\ in_hand[w] \in Hands
    BY <2>1, ConstantsAssumption DEF Hands, BatchOwnership, TypeOK
  <2>4. IsInjective(Line) /\ in_hand[w] \notin Range(Line)
    BY <2>3 DEF BatchOwnership
  <2>5. IsInjective(Line') /\ Range(Line') = Range(Line) \cup {in_hand[w]}
    BY <2>1, <2>2, <2>4, LineType, AppendInjectiveSeq
  <2>6. m_recv' = m_recv /\ m_data_pool' = m_data_pool
    BY <1>17 DEF RetryPush
  <2>7. \A u, v \in Workers : in_hand'[u] = in_hand'[v] => u = v \/ in_hand'[u] = NoBatch
    BY <2>1 DEF BatchOwnership, TypeOK
  <2> QED
    BY <2>3, <2>5, <2>6, <2>7 DEF BatchOwnership, Recv
<1>18. ASSUME InitService
      PROVE  BatchOwnership'
  <2>1. Line' = Line
    BY <1>18, LineSame DEF InitService, PcInv
  <2>2. PICK b \in m_data_pool : m_recv' = b /\ m_data_pool' = m_data_pool \ {b}
    BY <1>18 DEF InitService, Malloc
  <2>3. m_recv = NoBatch /\ in_hand' = in_hand
    BY <1>18 DEF InitService, PcInv
  <2> QED
    BY <2>1, <2>2, <2>3, ConstantsAssumption
    DEF BatchOwnership, Recv, Hands, TypeOK
<1>19. ASSUME StopFlag \/ StopNotify \/ StopJoin \/ StopWorkers \/ UNCHANGED vars
      PROVE  BatchOwnership'
  BY <1>19, LineSame, OwnSame
  DEF StopFlag, StopNotify, StopJoin, StopWorkers, MainStep, vars, Notified
<1> QED
  BY NextCases, <1>1, <1>2, <1>3, <1>4, <1>5, <1>6, <1>7, <1>8, <1>9, <1>10,
     <1>11, <1>12, <1>13, <1>14, <1>15, <1>16, <1>17, <1>18, <1>19

\* IndInv holds in every reachable state: the five parts are inductive together,
\* as a collection's size is only right if it has one owner, and that one owner
\* is only right under the lock discipline.
THEOREM Invariance == Spec => []IndInv
<1>1. Init => IndInv
  <2> SUFFICES ASSUME Init PROVE IndInv
    OBVIOUS
  <2>1. TypeOK
    <3>1. /\ m_data \in [Batches -> Seq(Records)]
          /\ \A b \in Batches : Len(m_data[b]) <= MAX_COLLECTIONS
      BY ConstantsAssumption, EmptySeq DEF Init
    <3>2. /\ m_sendlist \in [0..1 -> Seq(Batches)] /\ m_works \in Seq(Batches)
      BY EmptySeq DEF Init
    <3>3. /\ m_count \in 0..(SendLimit + 1) /\ m_flag \in 0..1
          /\ late_count \in 0..MaxLateFailures
      BY ConstantsAssumption DEF Init
    <3>4. /\ stage \in [Threads -> {"out", "flush", "push", "requeue"}]
          /\ side \in [Threads -> 0..1]
          /\ work_pc \in [Workers -> {"idle", "post", "answer", "retry"}]
          /\ in_hand \in [Workers -> Batches \cup {NoBatch}]
          /\ again \in [Workers -> SUBSET (1..MAX_COLLECTIONS)]
      BY DEF Init
    <3>5. late_failed \subseteq Records /\ inserted \subseteq Records /\ settled \subseteq Records
      BY DEF Init
    <3> QED
      BY <3>1, <3>2, <3>3, <3>4, <3>5 DEF Init, TypeOK
  <2>2. PcInv
    BY ConstantsAssumption DEF Init, PcInv, Threads, Callers
  <2>3. LockInv
    BY ConstantsAssumption DEF Init, LockInv, SendlistRaceFree, Threads, Callers
  <2>4. SizeInv
    BY DEF Init, SizeInv, Threads, Callers
  <2>5. BatchOwnership
    <3>1. Line = <<>>
      <4>1. m_works = <<>> /\ Drained = <<>> /\ m_sendlist[1 - m_flag] = <<>>
        BY DEF Init, Drained
      <4>2. <<>> \o <<>> = <<>>
        BY ConcatEmptySeq, EmptySeq
      <4> QED
        BY <4>1, <4>2 DEF Line
    <3>2. Range(Line) = {} /\ IsInjective(Line)
      BY <3>1 DEF Range, IsInjective
    <3> QED
      BY <3>2 DEF Init, BatchOwnership, Recv, Hands
  <2> QED
    BY <2>1, <2>2, <2>3, <2>4, <2>5 DEF IndInv
<1>2. IndInv /\ [Next]_vars => IndInv'
  BY TypeStep, PcStep, LockStep, SizeStep, OwnStep DEF IndInv
<1> QED
  BY <1>1, <1>2, PTL DEF Spec

\* Every variable keeps its type, and no collection exceeds MAX_COLLECTIONS.
THEOREM Typing == Spec => []TypeOK
<1>1. IndInv => TypeOK
  BY DEF IndInv
<1> QED
  BY <1>1, Invariance, PTL

\* push_back never runs on the list the scheduler drains without the mutex.
THEOREM RaceFreedom == Spec => []SendlistRaceFree
<1>1. IndInv => SendlistRaceFree
  BY DEF IndInv, LockInv
<1> QED
  BY <1>1, Invariance, PTL

\* Every collection has exactly one owner.
THEOREM Ownership == Spec => []BatchOwnership
<1>1. IndInv => BatchOwnership
  BY DEF IndInv
<1> QED
  BY <1>1, Invariance, PTL

\* A collection to be sent has records; insert() finds room in m_recv.
THEOREM Capacity == Spec => []RecordsFit
<1>1. IndInv => RecordsFit
  <2> SUFFICES ASSUME IndInv PROVE RecordsFit
    OBVIOUS
  <2>1. ASSUME mutex = NoThread, m_recv # NoBatch
        PROVE  Len(m_data[m_recv]) < MAX_COLLECTIONS
    <3>1. m_recv \in Batches /\ m_data[m_recv] \in Seq(Records)
      BY <2>1 DEF IndInv, TypeOK
    <3>2. Len(m_data[m_recv]) \in Nat /\ Len(m_data[m_recv]) <= MAX_COLLECTIONS
      BY <3>1, LenProperties DEF IndInv, TypeOK
    <3>3. Len(m_data[m_recv]) # MAX_COLLECTIONS
      BY <2>1, ConstantsAssumption DEF IndInv, SizeInv, Threads
    <3> QED
      BY <3>2, <3>3, ConstantsAssumption
  <2> QED
    BY <2>1 DEF IndInv, SizeInv, RecordsFit
<1> QED
  BY <1>1, Invariance, PTL

\* A push_back under the lock appends to the two lists taken together.
LEMMA QueuePush ==
  ASSUME TypeOK, PcInv, NEW b \in Batches, NEW i \in 0..1, i # m_flag,
         m_sendlist' = [m_sendlist EXCEPT ![i] = Append(@, b)], UNCHANGED m_flag
  PROVE  SendQueue' = Append(SendQueue, b)
<1>1. i = 1 - m_flag
  BY DEF TypeOK
<1>2. SendQueue' = m_sendlist[m_flag] \o Append(m_sendlist[1 - m_flag], b)
  BY <1>1 DEF SendQueue, TypeOK
<1> DEFINE d == m_sendlist[m_flag]
           f == m_sendlist[1 - m_flag]
<1>3. d \in Seq(Batches) /\ f \in Seq(Batches)
  BY LineType
<1>4. SendQueue = d \o f /\ SendQueue' = d \o Append(f, b)
  BY <1>2 DEF SendQueue
<1> HIDE DEF d, f
<1> QED
  BY <1>3, <1>4, AppendLast

\* A step of the two lists taken together as one queue: an element joins at the
\* end or leaves at the front.
QueueStep ==
  \/ UNCHANGED SendQueue
  \/ \E b \in Batches : SendQueue' = Append(SendQueue, b)
  \/ SendQueue # <<>> /\ SendQueue' = Tail(SendQueue)

\* Every step is a step of the queue.
LEMMA FifoStep ==
  ASSUME IndInv, [Next]_vars
  PROVE  QueueStep
<1> USE DEF IndInv, recvVars, listVars, rateVars, lockVars, workVars, ctlVars,
        lateVars, histVars
<1> USE DEF QueueStep
<1>1. ASSUME RunCheck \/ RunWait \/ RunTimeout \/ RunLoop
      PROVE  QueueStep
  BY <1>1 DEF RunCheck, RunWait, RunTimeout, RunLoop, RunStep, SendQueue
<1>2. ASSUME NEW t \in Threads,
             FlushRecv(t)
      PROVE  QueueStep
  BY <1>2 DEF FlushRecv, SendQueue
<1>3. ASSUME NEW t \in Threads,
             PushRecv(t)
      PROVE  QueueStep
  <2>1. m_recv \in Batches /\ side[t] \in 0..1 /\ side[t] # m_flag
    BY <1>3 DEF PushRecv, PcInv, TypeOK, LockInv, SendlistRaceFree
  <2>2. SendQueue' = Append(SendQueue, m_recv)
    BY <1>3, <2>1, QueuePush DEF PushRecv
  <2> QED
    BY <2>1, <2>2
<1>4. ASSUME FlushEmpty
      PROVE  QueueStep
  BY <1>4 DEF FlushEmpty, SendQueue
<1>5. ASSUME Window \/ DrainEnd \/ Tick
      PROVE  QueueStep
  BY <1>5 DEF Window, DrainEnd, DrainReturn, Tick, SendQueue
<1>6. ASSUME DrainSchedule
      PROVE  QueueStep
  BY <1>6 DEF DrainSchedule, SendQueue
<1>7. ASSUME DrainPop
      PROVE  QueueStep
  <2> DEFINE d == m_sendlist[m_flag]
             f == m_sendlist[1 - m_flag]
  <2>1. d \in Seq(Batches) /\ f \in Seq(Batches) /\ d # <<>>
    BY <1>7, LineType DEF DrainPop, PcInv
  <2>2. SendQueue' = Tail(d) \o f
    <3>1. m_flag' = m_flag /\ m_sendlist' = [m_sendlist EXCEPT ![m_flag] = Tail(d)]
      BY <1>7 DEF DrainPop
    <3>2. m_sendlist'[m_flag] = Tail(d) /\ m_sendlist'[1 - m_flag] = f
      BY <3>1 DEF TypeOK
    <3> QED
      BY <3>1, <3>2 DEF SendQueue
  <2>3. SendQueue = d \o f
    BY DEF SendQueue
  <2> HIDE DEF d, f
  <2> QED
    BY <2>1, <2>2, <2>3, TailFirst
<1>8. ASSUME DrainSwap
      PROVE  QueueStep
  <2>1. /\ m_sendlist[m_flag] = <<>> /\ m_sendlist' = m_sendlist
        /\ m_flag' = 1 - m_flag /\ 1 - m_flag' = m_flag
    BY <1>8 DEF DrainSwap, DrainedOut, TypeOK
  <2>2. SendQueue = m_sendlist[1 - m_flag] /\ SendQueue' = m_sendlist[1 - m_flag]
    BY <2>1, LineType, ConcatEmptySeq DEF SendQueue
  <2> QED
    BY <2>2
<1>9. ASSUME NEW p \in Producers, NEW r \in Records,
             Insert(p, r)
      PROVE  QueueStep
  BY <1>9 DEF Insert, Place, SendQueue
<1>10. ASSUME NEW w \in Workers,
             TaskStart(w)
      PROVE  QueueStep
  BY <1>10 DEF TaskStart, SendQueue
<1>11. ASSUME NEW w \in Workers,
             PostFailed(w)
      PROVE  QueueStep
  BY <1>11 DEF PostFailed, SendQueue
<1>12. ASSUME NEW w \in Workers, NEW R \in SUBSET (1..MAX_COLLECTIONS),
             PostAnswered(w, R)
      PROVE  QueueStep
  BY <1>12 DEF PostAnswered, SendQueue
<1>13. ASSUME NEW w \in Workers, NEW i \in 1..MAX_COLLECTIONS,
             Reinsert(w, i)
      PROVE  QueueStep
  BY <1>13 DEF Reinsert, Place, SendQueue
<1>14. ASSUME NEW w \in Workers,
             Finish(w)
      PROVE  QueueStep
  BY <1>14 DEF Finish, Answered, Free, SendQueue
<1>15. ASSUME NEW w \in Workers,
             PostBroken(w)
      PROVE  QueueStep
  BY <1>15 DEF PostBroken, Answered, SendQueue
<1>16. ASSUME NEW w \in Workers,
             RetryLock(w)
      PROVE  QueueStep
  BY <1>16 DEF RetryLock, SendQueue
<1>17. ASSUME NEW w \in Workers,
             RetryPush(w)
      PROVE  QueueStep
  <2>1. in_hand[w] \in Batches /\ side[w] \in 0..1 /\ side[w] # m_flag
    BY <1>17
    DEF RetryPush, PcInv, TypeOK, LockInv, SendlistRaceFree, Threads,
        Callers
  <2>2. SendQueue' = Append(SendQueue, in_hand[w])
    BY <1>17, <2>1, QueuePush DEF RetryPush
  <2> QED
    BY <2>1, <2>2
<1>18. ASSUME InitService
      PROVE  QueueStep
  BY <1>18 DEF InitService, Malloc, SendQueue
<1>19. ASSUME StopFlag \/ StopNotify \/ StopJoin \/ StopWorkers \/ UNCHANGED vars
      PROVE  QueueStep
  BY <1>19
  DEF StopFlag, StopNotify, StopJoin, StopWorkers, MainStep, vars, SendQueue
<1> QED
  BY NextCases, <1>1, <1>2, <1>3, <1>4, <1>5, <1>6, <1>7, <1>8, <1>9, <1>10,
     <1>11, <1>12, <1>13, <1>14, <1>15, <1>16, <1>17, <1>18, <1>19

\* The two send lists are one first-in-first-out queue.
THEOREM Fifo == Spec => SendlistsAreFifo
<1>1. IndInv /\ [Next]_vars =>
        [\/ \E b \in Batches : SendQueue' = Append(SendQueue, b)
         \/ SendQueue # <<>> /\ SendQueue' = Tail(SendQueue)]_SendQueue
  BY FifoStep DEF QueueStep
<1> QED
  BY <1>1, Invariance, PTL DEF Spec, SendlistsAreFifo

\* Every step keeps a drain that began below the limit below it.
LEMMA RateStep ==
  ASSUME TypeOK, RatePerFlush, [Next]_vars
  PROVE  RatePerFlush'
<1> USE ConstantsAssumption DEF recvVars, listVars, rateVars, lockVars, workVars,
        ctlVars, lateVars, histVars
<1>1. ASSUME RunCheck \/ RunWait \/ RunTimeout \/ RunLoop
      PROVE  RatePerFlush'
  BY <1>1
  DEF RatePerFlush, Notified, RunCheck, RunWait, RunTimeout, RunLoop, RunStep
<1>2. ASSUME NEW t \in Threads,
             FlushRecv(t)
      PROVE  RatePerFlush'
  BY <1>2 DEF RatePerFlush, Notified, FlushRecv
<1>3. ASSUME NEW t \in Threads,
             PushRecv(t)
      PROVE  RatePerFlush'
  BY <1>3 DEF RatePerFlush, Notified, PushRecv
<1>4. ASSUME FlushEmpty
      PROVE  RatePerFlush'
  BY <1>4 DEF RatePerFlush, Notified, FlushEmpty
<1>5. ASSUME Window \/ DrainEnd \/ Tick
      PROVE  RatePerFlush'
  <2>1. CASE Window
    <3>1. (m_count' >= SendLimit) \in BOOLEAN /\ m_count' \in Nat /\ SendLimit \in Nat
      BY <2>1 DEF Window, TypeOK
    <3>2. at_limit' <=> m_count' >= SendLimit
      BY ONLY <2>1, <3>1, Zenon DEF Window
    <3> QED
      BY <3>1, <3>2 DEF RatePerFlush
  <2>2. CASE DrainEnd \/ Tick
    BY <2>2 DEF RatePerFlush, DrainEnd, DrainReturn, Tick
  <2> QED
    BY <1>5, <2>1, <2>2
<1>6. ASSUME DrainSchedule
      PROVE  RatePerFlush'
  BY <1>6 DEF RatePerFlush, Notified, DrainSchedule
<1>7. ASSUME DrainPop
      PROVE  RatePerFlush'
  BY <1>7 DEF RatePerFlush, DrainPop, DrainReturn, Bumped, LimitReached, TypeOK
<1>8. ASSUME DrainSwap
      PROVE  RatePerFlush'
  BY <1>8 DEF RatePerFlush, Notified, DrainSwap
<1>9. ASSUME NEW p \in Producers, NEW r \in Records,
             Insert(p, r)
      PROVE  RatePerFlush'
  BY <1>9 DEF RatePerFlush, Notified, Insert, Place
<1>10. ASSUME NEW w \in Workers,
             TaskStart(w)
      PROVE  RatePerFlush'
  BY <1>10 DEF RatePerFlush, Notified, TaskStart
<1>11. ASSUME NEW w \in Workers,
             PostFailed(w)
      PROVE  RatePerFlush'
  BY <1>11 DEF RatePerFlush, Notified, PostFailed
<1>12. ASSUME NEW w \in Workers, NEW R \in SUBSET (1..MAX_COLLECTIONS),
             PostAnswered(w, R)
      PROVE  RatePerFlush'
  BY <1>12 DEF RatePerFlush, Notified, PostAnswered
<1>13. ASSUME NEW w \in Workers, NEW i \in 1..MAX_COLLECTIONS,
             Reinsert(w, i)
      PROVE  RatePerFlush'
  BY <1>13 DEF RatePerFlush, Notified, Reinsert, Place
<1>14. ASSUME NEW w \in Workers,
             Finish(w)
      PROVE  RatePerFlush'
  BY <1>14 DEF RatePerFlush, Notified, Finish, Answered, Free
<1>15. ASSUME NEW w \in Workers,
             PostBroken(w)
      PROVE  RatePerFlush'
  BY <1>15 DEF RatePerFlush, Notified, PostBroken, Answered
<1>16. ASSUME NEW w \in Workers,
             RetryLock(w)
      PROVE  RatePerFlush'
  BY <1>16 DEF RatePerFlush, Notified, RetryLock
<1>17. ASSUME NEW w \in Workers,
             RetryPush(w)
      PROVE  RatePerFlush'
  BY <1>17 DEF RatePerFlush, Notified, RetryPush
<1>18. ASSUME InitService
      PROVE  RatePerFlush'
  BY <1>18 DEF RatePerFlush, Notified, InitService, Malloc
<1>19. ASSUME StopFlag \/ StopNotify \/ StopJoin \/ StopWorkers \/ UNCHANGED vars
      PROVE  RatePerFlush'
  BY <1>19
  DEF RatePerFlush, Notified, StopFlag, StopNotify, StopJoin, StopWorkers,
      MainStep, vars
<1> QED
  BY NextCases, <1>1, <1>2, <1>3, <1>4, <1>5, <1>6, <1>7, <1>8, <1>9, <1>10,
     <1>11, <1>12, <1>13, <1>14, <1>15, <1>16, <1>17, <1>18, <1>19

\* Every step preserves what stop() has waited for.
LEMMA StopStep ==
  ASSUME TypeOK, PcInv, StopInv, [Next]_vars
  PROVE  StopInv'
<1> USE ConstantsAssumption DEF recvVars, listVars, rateVars, lockVars, workVars,
        ctlVars, lateVars, histVars
<1> USE DEF TypeOK
<1>1. ASSUME RunCheck \/ RunWait \/ RunTimeout \/ RunLoop
      PROVE  StopInv'
  BY <1>1
  DEF StopInv, PcInv, WorksDrained, Notified, RunCheck, RunWait, RunTimeout,
      RunLoop, RunStep
<1>2. ASSUME NEW t \in Threads,
             FlushRecv(t)
      PROVE  StopInv'
  BY <1>2 DEF StopInv, PcInv, WorksDrained, Notified, FlushRecv
<1>3. ASSUME NEW t \in Threads,
             PushRecv(t)
      PROVE  StopInv'
  BY <1>3 DEF StopInv, PcInv, WorksDrained, Notified, PushRecv
<1>4. ASSUME FlushEmpty
      PROVE  StopInv'
  BY <1>4 DEF StopInv, PcInv, WorksDrained, Notified, FlushEmpty
<1>5. ASSUME Window \/ DrainEnd \/ Tick
      PROVE  StopInv'
  BY <1>5
  DEF StopInv, PcInv, WorksDrained, Notified, Window, DrainEnd, DrainReturn,
      Tick
<1>6. ASSUME DrainSchedule
      PROVE  StopInv'
  BY <1>6 DEF StopInv, PcInv, WorksDrained, Notified, DrainSchedule
<1>7. ASSUME DrainPop
      PROVE  StopInv'
  BY <1>7 DEF StopInv, PcInv, WorksDrained, Notified, DrainPop, DrainReturn
<1>8. ASSUME DrainSwap
      PROVE  StopInv'
  BY <1>8 DEF StopInv, PcInv, WorksDrained, Notified, DrainSwap
<1>9. ASSUME NEW p \in Producers, NEW r \in Records,
             Insert(p, r)
      PROVE  StopInv'
  BY <1>9 DEF StopInv, PcInv, WorksDrained, Notified, Insert, Place
<1>10. ASSUME NEW w \in Workers,
             TaskStart(w)
      PROVE  StopInv'
  BY <1>10 DEF StopInv, PcInv, WorksDrained, Notified, TaskStart
<1>11. ASSUME NEW w \in Workers,
             PostFailed(w)
      PROVE  StopInv'
  BY <1>11 DEF StopInv, PcInv, WorksDrained, Notified, PostFailed
<1>12. ASSUME NEW w \in Workers, NEW R \in SUBSET (1..MAX_COLLECTIONS),
             PostAnswered(w, R)
      PROVE  StopInv'
  BY <1>12 DEF StopInv, PcInv, WorksDrained, Notified, PostAnswered
<1>13. ASSUME NEW w \in Workers, NEW i \in 1..MAX_COLLECTIONS,
             Reinsert(w, i)
      PROVE  StopInv'
  BY <1>13 DEF StopInv, PcInv, WorksDrained, Notified, Reinsert, Place
<1>14. ASSUME NEW w \in Workers,
             Finish(w)
      PROVE  StopInv'
  BY <1>14 DEF StopInv, PcInv, WorksDrained, Notified, Finish, Answered, Free
<1>15. ASSUME NEW w \in Workers,
             PostBroken(w)
      PROVE  StopInv'
  BY <1>15 DEF StopInv, PcInv, WorksDrained, Notified, PostBroken, Answered
<1>16. ASSUME NEW w \in Workers,
             RetryLock(w)
      PROVE  StopInv'
  BY <1>16 DEF StopInv, PcInv, WorksDrained, Notified, RetryLock
<1>17. ASSUME NEW w \in Workers,
             RetryPush(w)
      PROVE  StopInv'
  BY <1>17 DEF StopInv, PcInv, WorksDrained, Notified, RetryPush
<1>18. ASSUME InitService
      PROVE  StopInv'
  BY <1>18 DEF StopInv, PcInv, WorksDrained, Notified, InitService, Malloc
<1>19. ASSUME StopFlag \/ StopNotify \/ StopJoin \/ StopWorkers \/ UNCHANGED vars
      PROVE  StopInv'
  BY <1>19
  DEF StopInv, PcInv, WorksDrained, Notified, StopFlag, StopNotify, StopJoin,
      StopWorkers, MainStep, vars
<1> QED
  BY NextCases, <1>1, <1>2, <1>3, <1>4, <1>5, <1>6, <1>7, <1>8, <1>9, <1>10,
     <1>11, <1>12, <1>13, <1>14, <1>15, <1>16, <1>17, <1>18, <1>19

\* Every step after stop() leaves scheduler, queue and workers alone.
LEMMA QuietStep ==
  ASSUME PcInv, TypeOK, StopInv, main_pc = "down", [Next]_vars
  PROVE  UNCHANGED <<m_works, work_pc, in_hand, run_pc>>
<1> USE ConstantsAssumption DEF recvVars, listVars, rateVars, lockVars, workVars,
        ctlVars, lateVars, histVars
<1> USE DEF TypeOK
<1>1. ASSUME RunCheck \/ RunWait \/ RunTimeout \/ RunLoop
      PROVE  UNCHANGED <<m_works, work_pc, in_hand, run_pc>>
  BY <1>1
  DEF StopInv, PcInv, WorksDrained, Notified, RunCheck, RunWait, RunTimeout,
      RunLoop, RunStep
<1>2. ASSUME NEW t \in Threads,
             FlushRecv(t)
      PROVE  UNCHANGED <<m_works, work_pc, in_hand, run_pc>>
  BY <1>2 DEF StopInv, PcInv, WorksDrained, Notified, FlushRecv
<1>3. ASSUME NEW t \in Threads,
             PushRecv(t)
      PROVE  UNCHANGED <<m_works, work_pc, in_hand, run_pc>>
  BY <1>3 DEF StopInv, PcInv, WorksDrained, Notified, PushRecv
<1>4. ASSUME FlushEmpty
      PROVE  UNCHANGED <<m_works, work_pc, in_hand, run_pc>>
  BY <1>4 DEF StopInv, PcInv, WorksDrained, Notified, FlushEmpty
<1>5. ASSUME Window \/ DrainEnd \/ Tick
      PROVE  UNCHANGED <<m_works, work_pc, in_hand, run_pc>>
  BY <1>5
  DEF StopInv, PcInv, WorksDrained, Notified, Window, DrainEnd, DrainReturn,
      Tick
<1>6. ASSUME DrainSchedule
      PROVE  UNCHANGED <<m_works, work_pc, in_hand, run_pc>>
  BY <1>6 DEF StopInv, PcInv, WorksDrained, Notified, DrainSchedule
<1>7. ASSUME DrainPop
      PROVE  UNCHANGED <<m_works, work_pc, in_hand, run_pc>>
  BY <1>7 DEF StopInv, PcInv, WorksDrained, Notified, DrainPop, DrainReturn
<1>8. ASSUME DrainSwap
      PROVE  UNCHANGED <<m_works, work_pc, in_hand, run_pc>>
  BY <1>8 DEF StopInv, PcInv, WorksDrained, Notified, DrainSwap
<1>9. ASSUME NEW p \in Producers, NEW r \in Records,
             Insert(p, r)
      PROVE  UNCHANGED <<m_works, work_pc, in_hand, run_pc>>
  BY <1>9 DEF StopInv, PcInv, WorksDrained, Notified, Insert, Place
<1>10. ASSUME NEW w \in Workers,
             TaskStart(w)
      PROVE  UNCHANGED <<m_works, work_pc, in_hand, run_pc>>
  BY <1>10 DEF StopInv, PcInv, WorksDrained, Notified, TaskStart
<1>11. ASSUME NEW w \in Workers,
             PostFailed(w)
      PROVE  UNCHANGED <<m_works, work_pc, in_hand, run_pc>>
  BY <1>11 DEF StopInv, PcInv, WorksDrained, Notified, PostFailed
<1>12. ASSUME NEW w \in Workers, NEW R \in SUBSET (1..MAX_COLLECTIONS),
             PostAnswered(w, R)
      PROVE  UNCHANGED <<m_works, work_pc, in_hand, run_pc>>
  BY <1>12 DEF StopInv, PcInv, WorksDrained, Notified, PostAnswered
<1>13. ASSUME NEW w \in Workers, NEW i \in 1..MAX_COLLECTIONS,
             Reinsert(w, i)
      PROVE  UNCHANGED <<m_works, work_pc, in_hand, run_pc>>
  BY <1>13 DEF StopInv, PcInv, WorksDrained, Notified, Reinsert, Place
<1>14. ASSUME NEW w \in Workers,
             Finish(w)
      PROVE  UNCHANGED <<m_works, work_pc, in_hand, run_pc>>
  BY <1>14 DEF StopInv, PcInv, WorksDrained, Notified, Finish, Answered, Free
<1>15. ASSUME NEW w \in Workers,
             PostBroken(w)
      PROVE  UNCHANGED <<m_works, work_pc, in_hand, run_pc>>
  BY <1>15 DEF StopInv, PcInv, WorksDrained, Notified, PostBroken, Answered
<1>16. ASSUME NEW w \in Workers,
             RetryLock(w)
      PROVE  UNCHANGED <<m_works, work_pc, in_hand, run_pc>>
  BY <1>16 DEF StopInv, PcInv, WorksDrained, Notified, RetryLock
<1>17. ASSUME NEW w \in Workers,
             RetryPush(w)
      PROVE  UNCHANGED <<m_works, work_pc, in_hand, run_pc>>
  BY <1>17 DEF StopInv, PcInv, WorksDrained, Notified, RetryPush
<1>18. ASSUME InitService
      PROVE  UNCHANGED <<m_works, work_pc, in_hand, run_pc>>
  BY <1>18 DEF StopInv, PcInv, WorksDrained, Notified, InitService, Malloc
<1>19. ASSUME StopFlag \/ StopNotify \/ StopJoin \/ StopWorkers \/ UNCHANGED vars
      PROVE  UNCHANGED <<m_works, work_pc, in_hand, run_pc>>
  BY <1>19
  DEF StopInv, PcInv, WorksDrained, Notified, StopFlag, StopNotify, StopJoin,
      StopWorkers, MainStep, vars
<1> QED
  BY NextCases, <1>1, <1>2, <1>3, <1>4, <1>5, <1>6, <1>7, <1>8, <1>9, <1>10,
     <1>11, <1>12, <1>13, <1>14, <1>15, <1>16, <1>17, <1>18, <1>19

\* A drain that begins below the send limit stays within it.
THEOREM RateLimit == Spec => []RatePerFlush
<1>1. Init => RatePerFlush
  BY DEF Init, RatePerFlush
<1>2. TypeOK /\ RatePerFlush /\ [Next]_vars => RatePerFlush'
  BY RateStep
<1> QED
  BY <1>1, <1>2, Typing, PTL DEF Spec

\* What stop() has waited for stays so.
LEMMA StopHolds == Spec => []StopInv
<1>1. Init => StopInv
  BY DEF Init, StopInv
<1>2. IndInv /\ StopInv /\ [Next]_vars => StopInv'
  BY StopStep DEF IndInv
<1> QED
  BY <1>1, <1>2, Invariance, PTL DEF Spec

\* After stop() nothing is scheduled, started or posted.
THEOREM Quiet == Spec => StoppedIsQuiet
<1>1. IndInv /\ StopInv /\ [Next]_vars =>
        [main_pc = "down" => UNCHANGED <<m_works, work_pc, in_hand, run_pc>>]_vars
  BY QuietStep DEF IndInv
<1> QED
  BY <1>1, StopHolds, Invariance, PTL DEF Spec, StoppedIsQuiet
=============================================================================
