---------------------------- MODULE RecordProofs ----------------------------
(***************************************************************************)
(* Proofs about the records that ServiceReportManager carries, for any     *)
(* records, collections and threads: none is lost, none is in two places   *)
(* unless a post failed after its answer, stop() leaves what is unsent     *)
(* where it was queued, and the service implements Outbox.                 *)
(*                                                                         *)
(* The argument goes over the live positions.  A step does one of five     *)
(* things to them and to the history variables: nothing, or a new one for  *)
(* a new record, or a record moved from one to another, or some of them    *)
(* answered, or those of a collection brought back by a late failure.      *)
(* Everything follows from these five, without the steps.                  *)
(*                                                                         *)
(* At the end, WorkerPosts: what one pool thread does with a collection is *)
(* a Posting.                                                              *)
(***************************************************************************)
EXTENDS ServiceReportManagerProofs, WorkerPosts

\* The record at position p.
Rec(p) == m_data[p[1]][p[2]]

\* Position p of a collection holds a record still to be answered.
Alive(p) ==
  /\ p[1] \notin m_data_pool
  /\ p[2] \in Positions(p[1])
  /\ ~Superseded(p[1], p[2])

Places == Batches \X (1..MAX_COLLECTIONS)

\* The live positions, as a condition on each place.
LEMMA LiveAre ==
  /\ LivePositions = {p \in Places : Alive(p)}
  /\ LivePositions' = {p \in Places : Alive(p)'}
BY DEF LivePositions, Places, Alive, Held

-----------------------------------------------------------------------------
(* What a step may do to the live positions.                                *)

\* A record stays where it is as long as it is to be answered.
Kept == \A p \in LivePositions : p \in LivePositions' => Rec(p)' = Rec(p)

Nothing ==
  UNCHANGED <<LivePositions, inserted, settled, late_failed, late_count>>

Accepting ==
  \E r \in Records \ inserted, q \in Places \ LivePositions :
    /\ LivePositions' = LivePositions \cup {q} /\ Rec(q)' = r
    /\ inserted' = inserted \cup {r}
    /\ UNCHANGED <<settled, late_failed, late_count>>

Moving ==
  \E p \in LivePositions, q \in Places \ LivePositions :
    /\ LivePositions' = (LivePositions \ {p}) \cup {q} /\ Rec(q)' = Rec(p)
    /\ UNCHANGED <<inserted, settled, late_failed, late_count>>

Answering ==
  \E D \in SUBSET LivePositions :
    /\ LivePositions' = LivePositions \ D
    /\ settled' = settled \cup {Rec(p) : p \in D}
    /\ UNCHANGED <<inserted, late_failed, late_count>>

Reopening ==
  \E N \in SUBSET Places :
    /\ LivePositions' = LivePositions \cup N
    /\ \A p \in N : Rec(p)' \in inserted /\ Rec(p)' \in late_failed'
    /\ late_failed \subseteq late_failed'
    /\ late_count' # 0 /\ MaxLateFailures # 0
    /\ UNCHANGED <<inserted, settled>>

Effect == Kept /\ (Nothing \/ Accepting \/ Moving \/ Answering \/ Reopening)

\* A step that leaves the collections and the workers' hands alone.
LEMMA NothingSame ==
  ASSUME UNCHANGED <<m_data, m_data_pool, in_hand, again, work_pc, inserted, settled,
                     late_failed, late_count>>
  PROVE  Effect
<1>1. LivePositions' = LivePositions
  BY DEF LivePositions, Held, Positions, Superseded
<1> QED
  BY <1>1 DEF Effect, Kept, Nothing, Rec

\* A step that leaves the records alone and every position as live as it was.
LEMMA NothingMoved ==
  ASSUME UNCHANGED <<inserted, settled, late_failed, late_count>>,
         \A p \in Places : Alive(p)' <=> Alive(p),
         \A p \in LivePositions : Rec(p)' = Rec(p)
  PROVE  Effect
<1>1. LivePositions' = LivePositions
  BY LiveAre
<1> QED
  BY <1>1 DEF Effect, Kept, Nothing

\* insert() has found room in m_recv: one more position, behind the others.
LEMMA PlaceRecord ==
  ASSUME IndInv, NEW t \in Callers, NEW r, Place(t, r), m_recv # NoBatch,
         in_hand' = in_hand, work_pc' = work_pc
  PROVE  \E q \in Places \ LivePositions :
           /\ q[1] = m_recv /\ Alive(q)' /\ Rec(q)' = r
           /\ \A w \in Workers : in_hand[w] # q[1]
           /\ \A p \in Places : p # q =>
                /\ p[2] \in Positions(p[1])' <=> p[2] \in Positions(p[1])
                /\ p[2] \in Positions(p[1]) => Rec(p)' = Rec(p)
<1> PICK n : n = Len(m_data[m_recv]) + 1
  OBVIOUS
<1> PICK q : q = <<m_recv, n>>
  OBVIOUS
<1>1. /\ m_recv \in Batches /\ m_data[m_recv] \in Seq(Records) /\ n \in Nat \ {0}
      /\ m_recv \notin m_data_pool
      /\ \A w \in Workers : in_hand[w] # m_recv
  BY DEF IndInv, TypeOK, BatchOwnership, Recv, Hands
<1>2. n \in 1..MAX_COLLECTIONS
  BY <1>1, ConstantsAssumption DEF IndInv, TypeOK, SizeInv, Place, Callers, Threads
<1>3. /\ m_data' = [m_data EXCEPT ![m_recv] = Append(m_data[m_recv], r)]
      /\ m_data_pool' = m_data_pool /\ m_recv' = m_recv
      /\ DOMAIN m_data = Batches
  BY DEF Place, IndInv, TypeOK
<1>4. /\ Len(Append(m_data[m_recv], r)) = n /\ Append(m_data[m_recv], r)[n] = r
      /\ \A i \in 1..n - 1 : Append(m_data[m_recv], r)[i] = m_data[m_recv][i]
  <2>1. m_data[m_recv] \in Seq(Records \cup {r})
    BY <1>1
  <2> QED
    BY <1>1, <2>1, AppendProperties
<1>5. q \in Places \ LivePositions
  <2>1. q \in Places /\ q[1] = m_recv /\ q[2] = n
    BY <1>1, <1>2 DEF Places
  <2>2. n \notin Positions(m_recv)
    BY <1>1 DEF Positions
  <2>3. ~Alive(q)
    BY <2>1, <2>2 DEF Alive
  <2> QED
    BY <2>1, <2>3, LiveAre
<1>6. Alive(q)' /\ Rec(q)' = r
  BY <1>1, <1>2, <1>3, <1>4 DEF Alive, Rec, Positions, Superseded
<1>7. ASSUME NEW p \in Places, p # q
      PROVE  /\ p[2] \in Positions(p[1])' <=> p[2] \in Positions(p[1])
             /\ p[2] \in Positions(p[1]) => Rec(p)' = Rec(p)
  <2>1. CASE p[1] # m_recv
    BY <1>3, <1>7, <2>1 DEF Places, Positions, Rec
  <2>2. CASE p[1] = m_recv
    <3>1. p[2] # n /\ p[2] \in Nat
      BY <1>7, <2>2, ConstantsAssumption DEF Places
    <3> QED
      BY <1>1, <1>3, <1>4, <2>2, <3>1 DEF Positions, Rec
  <2> QED
    BY <2>1, <2>2
<1> QED
  BY <1>1, <1>5, <1>6, <1>7
\* A collection that a worker has in its hands is its own.
LEMMA InHand ==
  ASSUME IndInv, NEW w \in Workers, work_pc[w] # "idle"
  PROVE  /\ in_hand[w] \in Batches /\ in_hand[w] \notin m_data_pool
         /\ \A v \in Workers : in_hand[v] = in_hand[w] => v = w
<1>1. in_hand[w] \in Batches
  BY DEF IndInv, TypeOK, PcInv
<1>2. in_hand[w] \in Hands
  BY <1>1, ConstantsAssumption DEF Hands
<1> QED
  BY <1>1, <1>2, ConstantsAssumption DEF IndInv, BatchOwnership

\* A free collection has no records.
LEMMA FreshIsEmpty ==
  ASSUME IndInv
  PROVE  \A b \in m_data_pool : \A i : i \notin Positions(b)
BY DEF IndInv, SizeInv, Positions

\* Every step has one of the five effects.
LEMMA EffectStep ==
  ASSUME IndInv, KnownRecords, [Next]_vars
  PROVE  Effect
<1> USE DEF IndInv, recvVars, listVars, rateVars, lockVars, workVars, ctlVars,
        lateVars, histVars
<1>1. ASSUME RunCheck \/ RunWait \/ RunTimeout \/ RunLoop
      PROVE  Effect
  BY <1>1, NothingSame DEF RunCheck, RunWait, RunTimeout, RunLoop, RunStep
<1>2. ASSUME NEW t \in Threads,
             FlushRecv(t)
      PROVE  Effect
  BY <1>2, NothingSame DEF FlushRecv
<1>3. ASSUME NEW t \in Threads,
             PushRecv(t)
      PROVE  Effect
  <2>1. \A p \in Places : Alive(p)' <=> Alive(p)
    BY <1>3, FreshIsEmpty DEF PushRecv, Malloc, Alive, Positions, Superseded
  <2> QED
    BY <1>3, <2>1, NothingMoved DEF PushRecv, Rec
<1>4. ASSUME FlushEmpty
      PROVE  Effect
  BY <1>4, NothingSame DEF FlushEmpty
<1>5. ASSUME Window \/ DrainEnd \/ Tick
      PROVE  Effect
  BY <1>5, NothingSame DEF Window, DrainEnd, DrainReturn, Tick
<1>6. ASSUME DrainSchedule
      PROVE  Effect
  BY <1>6, NothingSame DEF DrainSchedule
<1>7. ASSUME DrainPop
      PROVE  Effect
  BY <1>7, NothingSame DEF DrainPop, DrainReturn
<1>8. ASSUME DrainSwap
      PROVE  Effect
  BY <1>8, NothingSame DEF DrainSwap
<1>9. ASSUME NEW p \in Producers, NEW r \in Records,
             Insert(p, r)
      PROVE  Effect
  <2>1. m_recv # NoBatch /\ p \in Callers /\ r \notin inserted
    BY <1>9 DEF Insert, PcInv, Callers
  <2>2. PICK q \in Places \ LivePositions :
           /\ Alive(q)' /\ Rec(q)' = r
           /\ \A x \in Places : x # q =>
                /\ x[2] \in Positions(x[1])' <=> x[2] \in Positions(x[1])
                /\ x[2] \in Positions(x[1]) => Rec(x)' = Rec(x)
    BY <1>9, <2>1, PlaceRecord DEF Insert
  <2>3. \A x \in Places : x # q => (Alive(x)' <=> Alive(x))
    BY <1>9, <2>2 DEF Insert, Place, Alive, Superseded
  <2>4. LivePositions' = LivePositions \cup {q}
    BY <2>2, <2>3, LiveAre
  <2>5. Kept
    BY <2>2, LiveAre DEF Kept, Alive
  <2>6. Accepting
    BY <1>9, <2>1, <2>2, <2>4 DEF Accepting, Insert, Place
  <2> QED
    BY <2>5, <2>6 DEF Effect
<1>10. ASSUME NEW w \in Workers,
             TaskStart(w)
      PROVE  Effect
  <2>1. /\ work_pc \in [Workers -> {"idle", "post", "answer", "retry"}]
        /\ in_hand \in [Workers -> Batches \cup {NoBatch}]
    BY DEF TypeOK
  <2>2. \A p \in Places : Alive(p)' <=> Alive(p)
    BY <1>10, <2>1 DEF TaskStart, Alive, Positions, Superseded
  <2> QED
    BY <1>10, <2>2, NothingMoved DEF TaskStart, Rec
<1>11. ASSUME NEW w \in Workers,
             PostFailed(w)
      PROVE  Effect
  <2>1. /\ work_pc \in [Workers -> {"idle", "post", "answer", "retry"}]
        /\ in_hand \in [Workers -> Batches \cup {NoBatch}]
    BY DEF TypeOK
  <2>2. \A p \in Places : Alive(p)' <=> Alive(p)
    BY <1>11, <2>1 DEF PostFailed, Alive, Positions, Superseded
  <2> QED
    BY <1>11, <2>2, NothingMoved DEF PostFailed, Rec
<1>12. ASSUME NEW w \in Workers, NEW R \in SUBSET (1..MAX_COLLECTIONS),
             PostAnswered(w, R)
      PROVE  Effect
  <2>1. PICK b : b = in_hand[w]
    OBVIOUS
  <2>2. /\ b \in Batches /\ b \notin m_data_pool
        /\ \A v \in Workers : in_hand[v] = b => v = w
    BY <1>12, <2>1, InHand DEF PostAnswered
  <2>3. PICK D \in SUBSET LivePositions :
          D = {p \in LivePositions : p[1] = b /\ p[2] \notin R}
    OBVIOUS
  <2>4. \A p \in Places : Alive(p)' <=> Alive(p) /\ ~(p[1] = b /\ p[2] \notin R)
    BY <1>12, <2>1 DEF TypeOK, PostAnswered, Alive, Positions, Superseded
  <2>5. LivePositions' = LivePositions \ D
    BY <2>3, <2>4, LiveAre
  <2>6. \A i \in Positions(b) \ R : <<b, i>> \in D /\ Rec(<<b, i>>) = m_data[b][i]
    <3> TAKE i \in Positions(b) \ R
    <3>1. i \in 1..MAX_COLLECTIONS
      BY <2>2, ConstantsAssumption DEF TypeOK, Positions
    <3>2. <<b, i>> \in Places /\ Alive(<<b, i>>)
      BY <1>12, <2>1, <2>2, <3>1 DEF Places, Alive, Superseded, PostAnswered
    <3> QED
      BY <2>3, <3>2, LiveAre DEF Rec
  <2>7. \A p \in D : p[2] \in Positions(b) \ R /\ Rec(p) = m_data[b][p[2]]
    BY <2>3, LiveAre DEF Alive, Rec
  <2>8. {m_data[b][i] : i \in Positions(b) \ R} = {Rec(p) : p \in D}
    BY <2>6, <2>7
  <2>9. /\ settled' = settled \cup {Rec(p) : p \in D}
        /\ UNCHANGED <<m_data, inserted, late_failed, late_count>>
    BY <1>12, <2>1, <2>8 DEF PostAnswered
  <2>10. Answering
    BY <2>5, <2>9 DEF Answering
  <2> QED
    BY <2>9, <2>10 DEF Effect, Kept, Rec
<1>13. ASSUME NEW w \in Workers, NEW i \in 1..MAX_COLLECTIONS,
             Reinsert(w, i)
      PROVE  Effect
  <2>1. PICK p : p = <<in_hand[w], i>>
    OBVIOUS
  <2>2. /\ p[1] = in_hand[w] /\ p[2] = i /\ i \in again[w] /\ work_pc[w] = "answer"
        /\ again' = [again EXCEPT ![w] = @ \ {i}] /\ w \in Callers
        /\ m_recv # NoBatch /\ Place(w, Rec(p)) /\ UNCHANGED <<in_hand, work_pc>>
    BY <1>13, <2>1 DEF Reinsert, PcInv, Callers, Rec
  <2>3. /\ p[1] \in Batches /\ p[1] \notin m_data_pool
        /\ \A v \in Workers : in_hand[v] = p[1] => v = w
    BY <2>2, InHand
  <2>4. p \in LivePositions
    <3>1. p \in Places /\ i \in Positions(p[1])
      BY <2>1, <2>2, <2>3 DEF Places, PcInv
    <3>2. Alive(p)
      BY <2>2, <2>3, <3>1 DEF Alive, Superseded
    <3> QED
      BY <3>1, <3>2, LiveAre
  <2>5. PICK q \in Places \ LivePositions :
           /\ Alive(q)' /\ Rec(q)' = Rec(p)
           /\ \A v \in Workers : in_hand[v] # q[1]
           /\ \A x \in Places : x # q =>
                /\ x[2] \in Positions(x[1])' <=> x[2] \in Positions(x[1])
                /\ x[2] \in Positions(x[1]) => Rec(x)' = Rec(x)
    BY <2>2, PlaceRecord
  <2>6. \A x \in Places : x # p /\ x[1] = p[1] => x[2] # i
    BY <2>1 DEF Places
  <2>7. \A x \in Places : x # q => (Alive(x)' <=> Alive(x) /\ x # p)
    <3>1. m_data_pool' = m_data_pool /\ again \in [Workers -> SUBSET (1..MAX_COLLECTIONS)]
      BY <2>2 DEF Place, TypeOK
    <3> TAKE x \in Places
    <3>2. Superseded(x[1], x[2])' <=> Superseded(x[1], x[2]) \/ x = p
      BY <2>1, <2>2, <2>3, <2>6, <3>1 DEF Superseded
    <3> QED
      BY <2>5, <3>1, <3>2 DEF Alive
  <2>8. LivePositions' = (LivePositions \ {p}) \cup {q}
    BY <2>4, <2>5, <2>7, LiveAre
  <2>9. Kept
    BY <2>5, LiveAre DEF Kept, Alive
  <2>10. Moving
    BY <1>13, <2>4, <2>5, <2>8 DEF Moving, Reinsert, Place
  <2> QED
    BY <2>9, <2>10 DEF Effect
<1>14. ASSUME NEW w \in Workers,
             Finish(w)
      PROVE  Effect
  <2>1. PICK b : b = in_hand[w]
    OBVIOUS
  <2>2. /\ b \in Batches /\ b \notin m_data_pool
        /\ \A v \in Workers : in_hand[v] = b => v = w
    BY <1>14, <2>1, InHand DEF Finish, Answered
  <2>3. /\ work_pc[w] = "answer" /\ again[w] = {}
        /\ m_data' = [m_data EXCEPT ![b] = <<>>] /\ m_data_pool' = m_data_pool \cup {b}
        /\ work_pc' = [work_pc EXCEPT ![w] = "idle"]
        /\ in_hand' = [in_hand EXCEPT ![w] = NoBatch]
        /\ again' = [again EXCEPT ![w] = {}]
        /\ UNCHANGED <<inserted, settled, late_failed, late_count>>
    BY <1>14, <2>1 DEF Finish, Answered, Free
  <2>4. \A p \in Places : p[1] = b => ~Alive(p) /\ ~Alive(p)'
    BY <2>1, <2>2, <2>3 DEF Alive, Superseded
  <2>5. \A p \in Places : p[1] # b =>
          (Superseded(p[1], p[2])' <=> Superseded(p[1], p[2]))
    BY <2>1, <2>3 DEF TypeOK, Superseded
  <2>6. \A p \in Places : p[1] # b => (Alive(p)' <=> Alive(p)) /\ Rec(p)' = Rec(p)
    BY <2>3, <2>5 DEF TypeOK, Places, Alive, Positions, Rec
  <2>7. \A p \in LivePositions : Rec(p)' = Rec(p)
    BY <2>4, <2>6, LiveAre
  <2> QED
    BY <2>3, <2>4, <2>6, <2>7, NothingMoved
<1>15. ASSUME NEW w \in Workers,
             PostBroken(w)
      PROVE  Effect
  <2>1. PICK b : b = in_hand[w]
    OBVIOUS
  <2>2. /\ b \in Batches /\ b \notin m_data_pool
        /\ \A v \in Workers : in_hand[v] = b => v = w
    BY <1>15, <2>1, InHand DEF PostBroken, Answered
  <2>3. /\ work_pc' = [work_pc EXCEPT ![w] = "retry"]
        /\ late_count' = late_count + 1 /\ late_count < MaxLateFailures
        /\ late_failed' = late_failed \cup Range(m_data[b])
        /\ UNCHANGED <<m_data, m_data_pool, in_hand, again, inserted, settled>>
    BY <1>15, <2>1 DEF PostBroken
  <2>4. PICK N \in SUBSET Places :
          N = {p \in Places : p[1] = b /\ p[2] \in Positions(b)}
    OBVIOUS
  <2>5. \A p \in Places : p[1] # b => (Alive(p)' <=> Alive(p))
    BY <2>1, <2>3 DEF TypeOK, Alive, Positions, Superseded
  <2>6. \A p \in Places : p[1] = b => (Alive(p)' <=> p[2] \in Positions(b))
    BY <2>1, <2>2, <2>3 DEF TypeOK, Alive, Positions, Superseded
  <2>7. \A p \in Places : Alive(p)' <=> Alive(p) \/ p \in N
    BY <2>4, <2>5, <2>6 DEF Alive
  <2>8. LivePositions' = LivePositions \cup N
    BY <2>7, LiveAre
  <2>9. ASSUME NEW p \in N
        PROVE  Rec(p)' \in inserted /\ Rec(p)' \in late_failed'
    <3>1. m_data[b] \in Seq(Records) /\ p[2] \in Positions(b) /\ Rec(p)' = m_data[b][p[2]]
      BY <2>2, <2>3, <2>4 DEF TypeOK, Rec
    <3>2. p[2] \in DOMAIN m_data[b]
      BY <3>1 DEF Positions
    <3> QED
      BY <2>2, <2>3, <3>1, <3>2 DEF KnownRecords, Range
  <2>10. late_count' # 0 /\ MaxLateFailures # 0
    BY <2>3, ConstantsAssumption DEF TypeOK
  <2>11. Reopening
    BY <2>3, <2>8, <2>9, <2>10 DEF Reopening
  <2> QED
    BY <2>3, <2>11 DEF Effect, Kept, Rec
<1>16. ASSUME NEW w \in Workers,
             RetryLock(w)
      PROVE  Effect
  BY <1>16, NothingSame DEF RetryLock
<1>17. ASSUME NEW w \in Workers,
             RetryPush(w)
      PROVE  Effect
  <2>1. /\ work_pc \in [Workers -> {"idle", "post", "answer", "retry"}]
        /\ in_hand \in [Workers -> Batches \cup {NoBatch}]
    BY DEF TypeOK
  <2>2. \A p \in Places : Alive(p)' <=> Alive(p)
    BY <1>17, <2>1 DEF PcInv, Threads, Callers, RetryPush, Alive, Positions, Superseded
  <2> QED
    BY <1>17, <2>2, NothingMoved DEF RetryPush, Rec
<1>18. ASSUME InitService
      PROVE  Effect
  <2>1. \A p \in Places : Alive(p)' <=> Alive(p)
    BY <1>18, FreshIsEmpty DEF InitService, Malloc, Alive, Positions, Superseded
  <2> QED
    BY <1>18, <2>1, NothingMoved DEF InitService, Rec
<1>19. ASSUME StopFlag \/ StopNotify \/ StopJoin \/ StopWorkers \/ UNCHANGED vars
      PROVE  Effect
  BY <1>19, NothingSame DEF StopFlag, StopNotify, StopJoin, StopWorkers, MainStep, vars
<1> QED
  BY NextCases, <1>1, <1>2, <1>3, <1>4, <1>5, <1>6, <1>7, <1>8, <1>9, <1>10, <1>11, <1>12, <1>13, <1>14, <1>15, <1>16, <1>17, <1>18, <1>19

-----------------------------------------------------------------------------
(* Nothing is held or settled that was not inserted.                        *)

\* insert() puts a record into a collection that is known already.
LEMMA PlaceKnown ==
  ASSUME TypeOK, m_recv \in Batches, KnownRecords, NEW t, NEW r, Place(t, r),
         r \in inserted', inserted \subseteq inserted'
  PROVE  \A b \in Batches : \A i \in Positions(b)' : m_data'[b][i] \in inserted'
<1> DEFINE s == m_data[m_recv]
<1>1. s \in Seq(Records \cup {r}) /\ m_data' = [m_data EXCEPT ![m_recv] = Append(s, r)]
  BY DEF TypeOK, Place
<1>2. /\ Len(Append(s, r)) = Len(s) + 1 /\ Append(s, r)[Len(s) + 1] = r
      /\ Len(s) \in Nat
      /\ \A i \in 1..Len(s) : Append(s, r)[i] = s[i]
  BY <1>1, AppendProperties, LenProperties
<1>3. \A i \in 1..Len(Append(s, r)) : Append(s, r)[i] \in inserted'
  BY <1>2 DEF KnownRecords, Positions
<1>4. m_data'[m_recv] = Append(s, r)
  BY <1>1 DEF TypeOK
<1>5. \A b \in Batches : b # m_recv => m_data'[b] = m_data[b]
  BY <1>1 DEF TypeOK
<1> HIDE DEF s
<1> QED
  BY <1>3, <1>4, <1>5 DEF KnownRecords, Positions

\* Every step keeps what is held and settled among what was inserted.
LEMMA KnownStep ==
  ASSUME IndInv, KnownRecords, [Next]_vars
  PROVE  KnownRecords'
<1> USE DEF IndInv, recvVars, listVars, rateVars, lockVars, workVars, ctlVars,
        lateVars, histVars
<1>1. ASSUME RunCheck \/ RunWait \/ RunTimeout \/ RunLoop
      PROVE  KnownRecords'
  BY <1>1 DEF KnownRecords, Positions, RunCheck, RunWait, RunTimeout, RunLoop, RunStep
<1>2. ASSUME NEW t \in Threads,
             FlushRecv(t)
      PROVE  KnownRecords'
  BY <1>2 DEF KnownRecords, Positions, FlushRecv
<1>3. ASSUME NEW t \in Threads,
             PushRecv(t)
      PROVE  KnownRecords'
  BY <1>3 DEF KnownRecords, Positions, PushRecv
<1>4. ASSUME FlushEmpty
      PROVE  KnownRecords'
  BY <1>4 DEF KnownRecords, Positions, FlushEmpty
<1>5. ASSUME Window \/ DrainEnd \/ Tick
      PROVE  KnownRecords'
  BY <1>5 DEF KnownRecords, Positions, Window, DrainEnd, DrainReturn, Tick
<1>6. ASSUME DrainSchedule
      PROVE  KnownRecords'
  BY <1>6 DEF KnownRecords, Positions, DrainSchedule
<1>7. ASSUME DrainPop
      PROVE  KnownRecords'
  BY <1>7 DEF KnownRecords, Positions, DrainPop, DrainReturn
<1>8. ASSUME DrainSwap
      PROVE  KnownRecords'
  BY <1>8 DEF KnownRecords, Positions, DrainSwap
<1>9. ASSUME NEW p \in Producers, NEW r \in Records,
             Insert(p, r)
      PROVE  KnownRecords'
  <2>1. m_recv \in Batches
    BY <1>9 DEF Insert, TypeOK, PcInv
  <2>2. Place(p, r) /\ inserted' = inserted \cup {r} /\ settled' = settled
    BY <1>9 DEF Insert
  <2>3. \A b \in Batches : \A i \in Positions(b)' : m_data'[b][i] \in inserted'
    BY <2>1, <2>2, PlaceKnown DEF KnownRecords
  <2> QED
    BY <2>2, <2>3 DEF KnownRecords
<1>10. ASSUME NEW w \in Workers,
             TaskStart(w)
      PROVE  KnownRecords'
  BY <1>10 DEF KnownRecords, Positions, TaskStart
<1>11. ASSUME NEW w \in Workers,
             PostFailed(w)
      PROVE  KnownRecords'
  BY <1>11 DEF KnownRecords, Positions, PostFailed
<1>12. ASSUME NEW w \in Workers, NEW R \in SUBSET (1..MAX_COLLECTIONS),
             PostAnswered(w, R)
      PROVE  KnownRecords'
  <2>1. in_hand[w] \in Batches
    BY <1>12, InHand DEF PostAnswered
  <2> QED
    BY <1>12, <2>1 DEF KnownRecords, PostAnswered, Positions
<1>13. ASSUME NEW w \in Workers, NEW i \in 1..MAX_COLLECTIONS,
             Reinsert(w, i)
      PROVE  KnownRecords'
  <2>1. m_recv \in Batches
    BY <1>13 DEF Reinsert, TypeOK, PcInv
  <2>2. /\ Place(w, m_data[in_hand[w]][i]) /\ UNCHANGED <<inserted, settled>>
        /\ work_pc[w] = "answer" /\ i \in again[w]
    BY <1>13 DEF Reinsert
  <2>3. m_data[in_hand[w]][i] \in inserted
    BY <2>2, InHand DEF KnownRecords, PcInv
  <2>4. \A b \in Batches : \A j \in Positions(b)' : m_data'[b][j] \in inserted'
    BY <2>1, <2>2, <2>3, PlaceKnown DEF KnownRecords
  <2> QED
    BY <2>2, <2>4 DEF KnownRecords
<1>14. ASSUME NEW w \in Workers,
             Finish(w)
      PROVE  KnownRecords'
  <2>1. in_hand[w] \in Batches
    BY <1>14, InHand DEF Finish, Answered
  <2>2. \A b \in Batches : \A i \in Positions(b)' : i \in Positions(b) /\ m_data'[b][i] = m_data[b][i]
    BY <1>14, <2>1 DEF Finish, Free, TypeOK, Positions
  <2> QED
    BY <1>14, <2>2 DEF Finish, KnownRecords
<1>15. ASSUME NEW w \in Workers,
             PostBroken(w)
      PROVE  KnownRecords'
  BY <1>15 DEF KnownRecords, Positions, PostBroken, Answered
<1>16. ASSUME NEW w \in Workers,
             RetryLock(w)
      PROVE  KnownRecords'
  BY <1>16 DEF KnownRecords, Positions, RetryLock
<1>17. ASSUME NEW w \in Workers,
             RetryPush(w)
      PROVE  KnownRecords'
  BY <1>17 DEF KnownRecords, Positions, RetryPush
<1>18. ASSUME InitService
      PROVE  KnownRecords'
  BY <1>18 DEF KnownRecords, Positions, InitService, Malloc
<1>19. ASSUME StopFlag \/ StopNotify \/ StopJoin \/ StopWorkers \/ UNCHANGED vars
      PROVE  KnownRecords'
  BY <1>19 DEF KnownRecords, Positions, StopFlag, StopNotify, StopJoin, StopWorkers, MainStep, vars
<1> QED
  BY NextCases, <1>1, <1>2, <1>3, <1>4, <1>5, <1>6, <1>7, <1>8, <1>9, <1>10, <1>11, <1>12, <1>13, <1>14, <1>15, <1>16, <1>17, <1>18, <1>19

-----------------------------------------------------------------------------
(* From the effects to the invariant, without the steps.                    *)

\* The pending records are those in live positions, and were inserted.
LEMMA LiveRecordsAre ==
  /\ LiveRecords = {Rec(p) : p \in LivePositions}
  /\ LiveRecords' = {Rec(p)' : p \in LivePositions'}
BY DEF LiveRecords, Rec

LEMMA LiveIsKnown ==
  ASSUME KnownRecords
  PROVE  LiveRecords \subseteq inserted
BY LiveAre, LiveRecordsAre DEF KnownRecords, Places, Alive, Rec

\* No effect loses a record.
LEMMA LostNowhere ==
  ASSUME RecordInv, Effect
  PROVE  NoRecordLost'
<1> USE DEF NoRecordLost, RecordInv, Effect, Kept
<1>1. CASE Nothing
  BY <1>1, LiveRecordsAre DEF Nothing
<1>2. CASE Accepting
  BY <1>2, LiveRecordsAre DEF Accepting
<1>3. CASE Moving
  BY <1>3, LiveRecordsAre DEF Moving
<1>4. CASE Answering
  BY <1>4, LiveRecordsAre DEF Answering
<1>5. CASE Reopening
  BY <1>5, LiveRecordsAre DEF Reopening
<1> QED
  BY <1>1, <1>2, <1>3, <1>4, <1>5

\* No effect brings a record to a second place, or back, but a late failure.
LEMMA DoubleNowhere ==
  ASSUME RecordInv, Effect
  PROVE  NoDoubleReport'
<1> USE DEF RecordInv, Effect, Kept
<1>1. \A p \in LivePositions : Rec(p) \in inserted
  BY LiveIsKnown, LiveRecordsAre
<1>2. \A p, q \in LivePositions : Rec(p) \notin late_failed =>
        Rec(p) \notin settled /\ (Rec(p) = Rec(q) => p = q)
  BY DEF NoDoubleReport, Rec
<1>3. SUFFICES \A p, q \in LivePositions' : Rec(p)' \notin late_failed' =>
        Rec(p)' \notin settled' /\ (Rec(p)' = Rec(q)' => p = q)
  BY DEF NoDoubleReport, Rec
<1>4. CASE Nothing
  BY <1>2, <1>4 DEF Nothing
<1>5. CASE Accepting
  BY <1>1, <1>2, <1>5 DEF Accepting, KnownRecords
<1>6. CASE Moving
  BY <1>2, <1>6 DEF Moving
<1>7. CASE Answering
  BY <1>2, <1>7 DEF Answering
<1>8. CASE Reopening
  BY <1>2, <1>8 DEF Reopening
<1> QED
  BY <1>4, <1>5, <1>6, <1>7, <1>8

\* Every step preserves RecordInv.
LEMMA RecordStep ==
  ASSUME IndInv, RecordInv, [Next]_vars
  PROVE  RecordInv'
<1>1. Effect /\ KnownRecords'
  BY EffectStep, KnownStep DEF RecordInv
<1>2. NoRecordLost' /\ NoDoubleReport'
  BY <1>1, LostNowhere, DoubleNowhere
<1>3. (late_count = 0 => late_failed = {})'
  BY <1>1 DEF RecordInv, Effect, Nothing, Accepting, Moving, Answering, Reopening
<1> QED
  BY <1>1, <1>2, <1>3 DEF RecordInv

-----------------------------------------------------------------------------
(* The properties.                                                          *)

\* The invariant behind the properties of records holds of every behaviour.
THEOREM RecordInvariance == Spec => []RecordInv
<1>1. Init => RecordInv
  BY DEF Init, RecordInv, KnownRecords, Positions, NoRecordLost, NoDoubleReport,
         LivePositions, Held
<1>2. IndInv /\ RecordInv /\ [Next]_vars => RecordInv'
  BY RecordStep
<1> QED
  BY <1>1, <1>2, Invariance, PTL DEF Spec

\* Every record given to insert() has been answered or is in a collection that
\* is not free, at every point of insert, flush, report, retry and free.
THEOREM NothingLost == Spec => []NoRecordLost
<1>1. RecordInv => NoRecordLost
  BY DEF RecordInv
<1> QED
  BY <1>1, RecordInvariance, PTL

\* Only the records of a post that fails after its answer can be in two places
\* or be sent again once they are settled.
THEOREM NothingTwice == Spec => []NoDoubleReport
<1>1. RecordInv => NoDoubleReport
  BY DEF RecordInv
<1> QED
  BY <1>1, RecordInvariance, PTL

\* Where a record is that was inserted and that no pool thread has.
Waiting == UNION {Range(m_data[b]) : b \in {m_recv} \cup Range(SendQueue)}

\* With nothing scheduled or in hand, what is not settled waits in the
\* collection being filled or on a send list.
LEMMA RestWaits ==
  ASSUME IndInv, RecordInv, WorksDrained, run_pc # "pop"
  PROVE  inserted \subseteq settled \cup Waiting
<1> SUFFICES ASSUME NEW r \in inserted, r \notin settled
             PROVE  \E b \in {m_recv} \cup Range(SendQueue) : r \in Range(m_data[b])
  BY DEF Waiting
<1>1. PICK p \in LivePositions : r = Rec(p)
  BY LiveRecordsAre DEF RecordInv, NoRecordLost
<1>2. p \in Places /\ p[1] \notin m_data_pool /\ p[2] \in Positions(p[1])
  BY LiveAre DEF Alive
<1>3. m_works = <<>> /\ Hands = {}
  BY DEF WorksDrained, Hands, IndInv, PcInv
<1>4. Line = SendQueue
  BY <1>3, LineType, ConcatEmptySeq DEF IndInv, Line, Drained, SendQueue
<1>5. p[1] \in {m_recv} \cup Range(SendQueue)
  BY <1>2, <1>3, <1>4 DEF IndInv, BatchOwnership, Recv, Places
<1>6. r \in Range(m_data[p[1]])
  <2>1. m_data[p[1]] \in Seq(Records)
    BY <1>2 DEF IndInv, TypeOK, Places
  <2>2. p[2] \in DOMAIN m_data[p[1]] /\ r = m_data[p[1]][p[2]]
    BY <1>1, <1>2, <2>1 DEF Positions, Rec
  <2> QED
    BY <2>2 DEF Range
<1> QED
  BY <1>5, <1>6

\* Once stop() has returned every unsettled record is in the collection being
\* filled or on a send list.
THEOREM StopKeeps == Spec => []StopKeepsUnsent
<1>1. IndInv /\ StopInv /\ RecordInv => StopKeepsUnsent
  <2> SUFFICES ASSUME IndInv, StopInv, RecordInv, main_pc = "down"
               PROVE  inserted \subseteq settled \cup Waiting
    BY DEF StopKeepsUnsent, Waiting
  <2>1. WorksDrained /\ run_pc # "pop"
    BY DEF StopInv
  <2> QED
    BY <2>1, RestWaits
<1> QED
  BY <1>1, Invariance, StopHolds, RecordInvariance, PTL

-----------------------------------------------------------------------------
(* run() as it stands in the source, which never calls flush(false).        *)

\* The scheduler is outside of flush(), and no pool thread has ever had a task.
NeverDrained ==
  /\ run_pc \notin {"flushing", "window", "drain", "pop"}
  /\ WorksDrained
  /\ settled = {}

LEMMA NeverDrainedStep ==
  ASSUME ~RunFlushes, IndInv, NeverDrained, [Next]_vars
  PROVE  NeverDrained'
<1>1. /\ run_pc \notin {"flushing", "window", "drain", "pop"}
      /\ m_works = <<>> /\ settled = {}
      /\ \A w \in Workers : work_pc[w] = "idle"
  BY DEF NeverDrained, WorksDrained
<1>2. /\ stage[Scheduler] = "out"
      /\ \A w \in Workers : stage[w] = "out"
  <2>1. /\ stage \in [Threads -> {"out", "flush", "push", "requeue"}]
        /\ \A w \in Workers : w \in Threads /\ w \in Callers
    BY DEF IndInv, TypeOK, Threads, Callers
  <2> QED
    BY <1>1, <2>1 DEF IndInv, PcInv
<1> SUFFICES /\ run_pc' \notin {"flushing", "window", "drain", "pop"}
             /\ UNCHANGED <<m_works, settled, work_pc>>
  BY <1>1 DEF NeverDrained, WorksDrained
<1>3. CASE SchedulerStep
  <2>1. CASE RunCheck \/ RunWait \/ RunTimeout \/ RunLoop
    BY <2>1 DEF RunCheck, RunWait, RunTimeout, RunLoop, RunStep, workVars, histVars
  <2>2. CASE FlushRecv(Scheduler) \/ PushRecv(Scheduler) \/ FlushEmpty
    BY <1>2, <2>2 DEF FlushRecv, PushRecv, FlushEmpty
  <2>3. CASE Window \/ DrainSchedule \/ DrainPop \/ DrainSwap \/ DrainEnd
    BY <1>1, <2>3 DEF Window, DrainSchedule, DrainPop, DrainSwap, DrainEnd
  <2> QED
    BY <1>3, <2>1, <2>2, <2>3 DEF SchedulerStep
<1>4. ASSUME NEW p \in Producers, (\E r \in Records : Insert(p, r)) \/ CallerFlush(p)
      PROVE  /\ run_pc' \notin {"flushing", "window", "drain", "pop"}
             /\ UNCHANGED <<m_works, settled, work_pc>>
  <2>1. p # Scheduler
    BY ConstantsAssumption DEF Callers
  <2>2. CASE \E r \in Records : Insert(p, r)
    BY <1>1, <2>2 DEF Insert, Place, workVars
  <2>3. CASE FlushRecv(p) \/ PushRecv(p)
    BY <1>1, <2>1, <2>3 DEF FlushRecv, PushRecv, Notified, workVars, histVars
  <2> QED
    BY <1>4, <2>2, <2>3 DEF CallerFlush
<1>5. ASSUME NEW w \in Workers, WorkerStep(w) PROVE FALSE
  BY <1>1, <1>2, <1>5
     DEF WorkerStep, TaskStart, CallerFlush, FlushRecv, PushRecv, PostFailed,
         PostAnswered, Reinsert, Finish, PostBroken, Answered, RetryLock, RetryPush
<1>6. CASE MainThread
  BY <1>1, <1>6
     DEF MainThread, InitService, StopFlag, StopNotify, StopJoin, StopWorkers,
         MainStep, Notified, workVars, histVars
<1>7. CASE Tick \/ Terminated \/ UNCHANGED vars
  BY <1>1, <1>7 DEF Tick, Terminated, vars, workVars, histVars
<1> QED
  BY <1>3, <1>4, <1>5, <1>6, <1>7 DEF Next

\* Nothing is ever sent: with run() as it is committed every record that was
\* inserted stays in the collection being filled or on a send list.
THEOREM NothingSent ==
  ASSUME ~RunFlushes
  PROVE  Spec => [](NeverDrained /\ inserted \subseteq Waiting)
<1>1. Init => NeverDrained
  BY DEF Init, NeverDrained, WorksDrained
<1>2. IndInv /\ NeverDrained /\ [Next]_vars => NeverDrained'
  BY NeverDrainedStep
<1>3. IndInv /\ RecordInv /\ NeverDrained => NeverDrained /\ inserted \subseteq Waiting
  BY RestWaits DEF NeverDrained
<1> QED
  BY <1>1, <1>2, <1>3, Invariance, RecordInvariance, PTL DEF Spec

-----------------------------------------------------------------------------
(* The service implements Outbox.                                           *)

\* Every effect is a step of Outbox on the records in live positions.
LEMMA OutboxStep ==
  ASSUME RecordInv, Effect, MaxLateFailures \in Nat,
         late_count' = 0 \/ MaxLateFailures # 0
  PROVE  [Outbox!Next]_(Outbox!vars)
<1> USE DEF Effect, Kept
<1>1. CASE Nothing
  <2>1. UNCHANGED <<LiveRecords, settled>>
    BY <1>1, LiveRecordsAre DEF Nothing
  <2> QED
    BY <2>1 DEF Outbox!vars
<1>2. CASE Accepting
  <2>1. PICK r \in Records \ inserted :
           LiveRecords' = LiveRecords \cup {r} /\ settled' = settled
    BY <1>2, LiveRecordsAre DEF Accepting
  <2>2. r \notin LiveRecords \cup settled
    BY LiveIsKnown DEF RecordInv, KnownRecords
  <2> QED
    BY <2>1, <2>2 DEF Outbox!Next, Outbox!Accept
<1>3. CASE Moving
  <2>1. UNCHANGED <<LiveRecords, settled>>
    BY <1>3, LiveRecordsAre DEF Moving
  <2> QED
    BY <2>1 DEF Outbox!vars
<1>4. CASE Answering
  <2>1. PICK D \in SUBSET LivePositions :
          /\ LivePositions' = LivePositions \ D
          /\ settled' = settled \cup {Rec(p) : p \in D}
          /\ UNCHANGED <<late_failed, late_count>>
    BY <1>4 DEF Answering
  <2>2. PICK S \in SUBSET LiveRecords : S = {Rec(p) : p \in D}
    BY <2>1, LiveRecordsAre
  <2>3. PICK K \in SUBSET S : K = S \ LiveRecords'
    OBVIOUS
  <2>4. LiveRecords' = LiveRecords \ K
    BY <2>1, <2>2, <2>3, LiveRecordsAre
  <2>5. ASSUME MaxLateFailures = 0
        PROVE  K = S /\ S \cap settled = {}
    <3>1. late_failed = {}
      BY <2>1, <2>5 DEF RecordInv
    <3>2. \A p, q \in LivePositions : Rec(p) \notin settled /\ (Rec(p) = Rec(q) => p = q)
      BY <3>1 DEF RecordInv, NoDoubleReport, Rec
    <3> QED
      BY <2>1, <2>2, <2>3, <3>2, LiveRecordsAre
  <2> QED
    BY <2>1, <2>2, <2>4, <2>5 DEF Outbox!Next, Outbox!Answer
<1>5. CASE Reopening
  <2>1. PICK N \in SUBSET Places :
          /\ LivePositions' = LivePositions \cup N
          /\ \A p \in N : Rec(p)' \in inserted
          /\ MaxLateFailures # 0 /\ settled' = settled
    BY <1>5 DEF Reopening
  <2>2. PICK S : S = {Rec(p)' : p \in N} \ LiveRecords
    OBVIOUS
  <2>3. S \in SUBSET settled
    BY <2>1, <2>2 DEF RecordInv, NoRecordLost
  <2>4. LiveRecords' = LiveRecords \cup S
    BY <2>1, <2>2, LiveRecordsAre
  <2> QED
    BY <2>1, <2>3, <2>4 DEF Outbox!Next, Outbox!Reopen
<1> QED
  BY <1>1, <1>2, <1>3, <1>4, <1>5

\* The service is an Outbox with the records in live positions pending: one that
\* answers every record at most once if no post fails after its answer.
THEOREM ImplementsOutbox == Spec => RecordsInOutbox
<1>1. Init => Outbox!Init
  BY DEF Init, Outbox!Init, LiveRecords, LivePositions, Held
<1>2. IndInv /\ IndInv' /\ RecordInv /\ [Next]_vars => [Outbox!Next]_(Outbox!vars)
  BY EffectStep, OutboxStep, ConstantsAssumption DEF RecordInv, IndInv, TypeOK
<1> QED
  BY <1>1, <1>2, Invariance, RecordInvariance, PTL DEF Spec, RecordsInOutbox, Outbox!Spec

-----------------------------------------------------------------------------
(* What one pool thread does is a Posting.                                  *)

\* What the notes say of a post under way: nothing before its answer, then what
\* has been given to insert() of what was refused.
NotesInv ==
  /\ refused \subseteq 1..MAX_COLLECTIONS
  /\ work_pc[Poster] = "post" => refused = {} /\ given = Once({})
  /\ work_pc[Poster] = "answer" =>
       again[Poster] \subseteq refused /\ given = Once(refused \ again[Poster])

\* The notes are no part of the steps.
LEMMA NotesOnly ==
  ASSUME [PostsNext]_<<vars, notes>>
  PROVE  [Next]_vars
<1>1. CASE Starts
  BY <1>1, PosterAssumption DEF Starts, Next, WorkerStep
<1>2. CASE \E R \in SUBSET (1..MAX_COLLECTIONS) : Refuses(R)
  BY <1>2, PosterAssumption DEF Refuses, Next, WorkerStep
<1>3. CASE \E i \in 1..MAX_COLLECTIONS : Gives(i)
  BY <1>3, PosterAssumption DEF Gives, Next, WorkerStep
<1>4. CASE Frees \/ Retries
  BY <1>4, PosterAssumption DEF Frees, Retries, Next, WorkerStep
<1>5. CASE Elsewhere \/ UNCHANGED <<vars, notes>>
  BY <1>5 DEF Elsewhere
<1> QED
  BY <1>1, <1>2, <1>3, <1>4, <1>5 DEF PostsNext

\* A thread whose answer is processed stays outside of insert() until it ends
\* its report: only what it was refused takes it there.
LEMMA StaysOut ==
  ASSUME IndInv, [Next]_vars, Answered(Poster),
         UNCHANGED <<work_pc[Poster], again[Poster]>>
  PROVE  Answered(Poster)'
<1> USE PosterAssumption, ConstantsAssumption
    DEF Answered, Threads, Callers, lockVars, workVars
<1>1. /\ Poster \in Workers /\ Poster \in Threads /\ Poster # Scheduler
      /\ work_pc[Poster] = "answer" /\ again[Poster] = {} /\ stage[Poster] = "out"
      /\ stage \in [Threads -> {"out", "flush", "push", "requeue"}]
  BY DEF IndInv, TypeOK
<1> SUFFICES stage'[Poster] = "out"
  BY <1>1
<1>2. CASE RunCheck \/ RunWait \/ RunTimeout \/ RunLoop \/ FlushEmpty
  BY <1>1, <1>2 DEF RunCheck, RunWait, RunTimeout, RunLoop, RunStep, FlushEmpty
<1>3. ASSUME NEW t \in Threads, FlushRecv(t) \/ PushRecv(t)
      PROVE  stage'[Poster] = "out"
  BY <1>1, <1>3 DEF FlushRecv, PushRecv
<1>4. CASE Window \/ DrainEnd \/ Tick \/ DrainSchedule \/ DrainPop \/ DrainSwap
  BY <1>1, <1>4 DEF Window, DrainEnd, Tick, DrainSchedule, DrainPop, DrainSwap
<1>5. ASSUME NEW p \in Producers, NEW r \in Records, Insert(p, r)
      PROVE  stage'[Poster] = "out"
  BY <1>1, <1>5 DEF Insert, Place
<1>6. ASSUME NEW w \in Workers, NEW i \in 1..MAX_COLLECTIONS, Reinsert(w, i)
      PROVE  stage'[Poster] = "out"
  BY <1>1, <1>6 DEF Reinsert, Place
<1>7. ASSUME NEW w \in Workers,
             \/ TaskStart(w) \/ PostFailed(w) \/ Finish(w) \/ PostBroken(w)
             \/ \E R \in SUBSET (1..MAX_COLLECTIONS) : PostAnswered(w, R)
      PROVE  stage'[Poster] = "out"
  BY <1>1, <1>7 DEF TaskStart, PostFailed, Finish, PostBroken, PostAnswered
<1>8. ASSUME NEW w \in Workers, RetryLock(w) \/ RetryPush(w)
      PROVE  stage'[Poster] = "out"
  BY <1>1, <1>8 DEF RetryLock, RetryPush
<1>9. CASE InitService \/ StopFlag \/ StopNotify \/ StopJoin \/ StopWorkers \/ UNCHANGED vars
  BY <1>1, <1>9
     DEF InitService, StopFlag, StopNotify, StopJoin, StopWorkers, MainStep, vars
<1> QED
  BY <1>2, <1>3, <1>4, <1>5, <1>6, <1>7, <1>8, <1>9, NextCases

\* One more of the refused records has been given to insert().
LEMMA OneMoreGiven ==
  ASSUME NEW R, NEW A, NEW i \in A, A \subseteq R, i \in 0..MAX_COLLECTIONS
  PROVE  [Once(R \ A) EXCEPT ![i] = @ + 1] = Once(R \ (A \ {i}))
<1>1. [Once(R \ A) EXCEPT ![i] = @ + 1] \in [0..MAX_COLLECTIONS -> Int]
  BY DEF Once
<1>2. Once(R \ (A \ {i})) \in [0..MAX_COLLECTIONS -> Int]
  BY DEF Once
<1>3. ASSUME NEW j \in 0..MAX_COLLECTIONS
      PROVE  [Once(R \ A) EXCEPT ![i] = @ + 1][j] = Once(R \ (A \ {i}))[j]
  BY DEF Once
<1> QED
  BY <1>1, <1>2, <1>3

\* The notes follow the post.
LEMMA NotesStep ==
  ASSUME IndInv, NotesInv, [PostsNext]_<<vars, notes>>
  PROVE  NotesInv'
<1> USE PosterAssumption DEF NotesInv
<1>1. /\ work_pc \in [Workers -> {"idle", "post", "answer", "retry"}]
      /\ again \in [Workers -> SUBSET (1..MAX_COLLECTIONS)]
  BY DEF IndInv, TypeOK
<1>2. CASE Starts
  BY <1>1, <1>2 DEF Starts, TaskStart, Once
<1>3. ASSUME NEW R \in SUBSET (1..MAX_COLLECTIONS), Refuses(R)
      PROVE  NotesInv'
  <2>1. R \ R = {}
    OBVIOUS
  <2> QED
    BY <1>1, <1>3, <2>1 DEF Refuses, PostAnswered, Once
<1>4. ASSUME NEW i \in 1..MAX_COLLECTIONS, Gives(i)
      PROVE  NotesInv'
  <2>1. /\ i \in again[Poster] /\ again'[Poster] = again[Poster] \ {i}
        /\ work_pc[Poster] = "answer" /\ work_pc' = work_pc /\ refused' = refused
        /\ given' = [given EXCEPT ![i] = @ + 1] /\ i \in 0..MAX_COLLECTIONS
    BY <1>1, <1>4, ConstantsAssumption DEF Gives, Reinsert
  <2>2. given = Once(refused \ again[Poster]) /\ again[Poster] \subseteq refused
    BY <2>1
  <2>3. [given EXCEPT ![i] = @ + 1] = Once(refused \ (again[Poster] \ {i}))
    <3>1. PICK R, A : R = refused /\ A = again[Poster]
      OBVIOUS
    <3>2. [Once(R \ A) EXCEPT ![i] = @ + 1] = Once(R \ (A \ {i}))
      <4>1. i \in A /\ A \subseteq R /\ i \in 0..MAX_COLLECTIONS
        BY <2>1, <2>2, <3>1
      <4> QED
        BY ONLY <4>1, OneMoreGiven
    <3>3. given = Once(R \ A)
      BY <2>2, <3>1
    <3> QED
      BY <3>1, <3>2, <3>3
  <2> QED
    BY <2>1, <2>2, <2>3 DEF Once
<1>5. CASE Frees \/ Retries
  BY <1>1, <1>5 DEF Frees, Retries, Finish, PostFailed, PostBroken, Once
<1>6. CASE Elsewhere
  BY <1>1, <1>6 DEF Elsewhere, RetryPush, notes, Once
<1>7. CASE UNCHANGED <<vars, notes>>
  BY <1>7 DEF vars, workVars, notes, Once
<1> QED
  BY <1>2, <1>3, <1>4, <1>5, <1>6, <1>7 DEF PostsNext

\* Every step of the thread is one of Posting or a stutter.
LEMMA NotesPost ==
  ASSUME IndInv, IndInv', NotesInv, NotesInv', [PostsNext]_<<vars, notes>>
  PROVE  [Post!Next]_(Post!vars)
<1> USE PosterAssumption DEF NotesInv, Underway, Answered
<1>1. /\ work_pc \in [Workers -> {"idle", "post", "answer", "retry"}]
      /\ again \in [Workers -> SUBSET (1..MAX_COLLECTIONS)]
      /\ \A R : Post!Times(R) = Once(R)
  BY DEF IndInv, TypeOK, Post!Times, Once
<1>2. CASE Starts
  <2>1. /\ work_pc[Poster] = "idle" /\ work_pc'[Poster] = "post"
        /\ refused' = {} /\ given' = Once({}) /\ outcome' = "none"
    BY <1>1, <1>2 DEF Starts, TaskStart
  <2> QED
    BY <1>1, <2>1 DEF Post!Next, Post!Begin, Once
<1>3. ASSUME work_pc[Poster] \in {"post", "answer"}, Underway, work_pc'[Poster] = "answer",
             outcome' = outcome
      PROVE  [Post!Next]_(Post!vars)
  <2>1. CASE Underway'
    BY <1>1, <1>3, <2>1 DEF Post!vars, Once
  <2>2. CASE ~Underway'
    <3>1. Answered(Poster)' /\ again'[Poster] = {} /\ refused' \ {} = refused'
      BY <1>3, <2>2
    <3>2. given' = Once(refused')
      <4>1. given' = [i \in 0..MAX_COLLECTIONS |->
                        IF i \in refused' \ again'[Poster] THEN 1 ELSE 0]
        BY <1>3 DEF Once
      <4> QED
        BY <3>1, <4>1 DEF Once
    <3>3. Post!Answer(refused')
      BY <1>1, <1>3, <2>2, <3>1, <3>2 DEF Post!Answer, Once
    <3> QED
      BY <3>3 DEF Post!Next
  <2> QED
    BY <2>1, <2>2
<1>4. ASSUME NEW R \in SUBSET (1..MAX_COLLECTIONS), Refuses(R)
      PROVE  [Post!Next]_(Post!vars)
  <2>1. work_pc[Poster] = "post" /\ work_pc'[Poster] = "answer" /\ outcome' = outcome
    BY <1>1, <1>4 DEF Refuses, PostAnswered
  <2> QED
    BY <1>3, <2>1
<1>5. ASSUME NEW i \in 1..MAX_COLLECTIONS, Gives(i)
      PROVE  [Post!Next]_(Post!vars)
  <2>1. /\ work_pc[Poster] = "answer" /\ work_pc'[Poster] = "answer"
        /\ i \in again[Poster] /\ outcome' = outcome
    BY <1>1, <1>5 DEF Gives, Reinsert
  <2> QED
    BY <1>3, <2>1
<1>6. CASE Frees
  <2>1. /\ Answered(Poster) /\ work_pc'[Poster] = "idle"
        /\ outcome' = "free" /\ UNCHANGED <<refused, given>>
    BY <1>1, <1>6 DEF Frees, Finish
  <2> QED
    BY <2>1 DEF Post!Next, Post!Free
<1>7. CASE Retries
  <2>1. /\ work_pc[Poster] = "post" \/ Answered(Poster)
        /\ work_pc'[Poster] = "retry" /\ outcome' = "retry"
        /\ UNCHANGED <<refused, given>>
    BY <1>1, <1>7 DEF Retries, PostFailed, PostBroken
  <2> QED
    BY <2>1 DEF Post!Next, Post!Retry, Once
<1>8. CASE RetryPush(Poster) /\ UNCHANGED notes
  <2>1. work_pc[Poster] = "retry" /\ work_pc'[Poster] = "idle"
    <3>1. stage[Poster] = "requeue" /\ Poster \in Callers
      BY <1>8 DEF RetryPush, Callers
    <3>2. work_pc[Poster] = "retry"
      BY <3>1 DEF IndInv, PcInv
    <3> QED
      BY <1>1, <1>8, <3>2 DEF RetryPush
  <2> QED
    BY <1>8, <2>1 DEF Post!vars, notes
<1>9. ASSUME [Next]_vars, UNCHANGED <<work_pc[Poster], again[Poster]>>, UNCHANGED notes
      PROVE  [Post!Next]_(Post!vars)
  <2>1. CASE Underway
    <3>1. CASE work_pc[Poster] = "post"
      BY <1>9, <3>1 DEF Post!vars, notes, Once
    <3>2. CASE work_pc[Poster] = "answer"
      BY <1>3, <1>9, <2>1, <3>2 DEF notes
    <3> QED
      BY <2>1, <3>1, <3>2
  <2>2. CASE Answered(Poster)
    <3>1. Answered(Poster)'
      BY <1>9, <2>2, StaysOut
    <3> QED
      BY <1>9, <2>2, <3>1 DEF Post!vars, notes
  <2>3. CASE work_pc[Poster] \in {"idle", "retry"}
    BY <1>9, <2>3 DEF Post!vars, notes
  <2> QED
    BY <1>1, <2>1, <2>2, <2>3
<1> QED
  BY <1>2, <1>4, <1>5, <1>6, <1>7, <1>8, <1>9, NotesOnly
     DEF PostsNext, Elsewhere, vars, workVars, notes

\* The report of a collection by a pool thread is the Posting that Reporter is
\* proved to be: the two models of a post agree.
THEOREM WorkerImplementsPosting == PostsSpec => ReportsArePostings
<1>1. PostsInit => Init /\ NotesInv /\ Post!Init
  BY PosterAssumption
     DEF PostsInit, Init, NotesInv, Post!Init, Post!Times, Once, Underway, Answered
<1>2. [PostsNext]_<<vars, notes>> => [Next]_vars
  BY NotesOnly
<1>3. PostsSpec => Spec
  BY <1>1, <1>2, PTL DEF PostsSpec, Spec
<1>4. IndInv /\ NotesInv /\ [PostsNext]_<<vars, notes>> => NotesInv'
  BY NotesStep
<1>5. IndInv /\ IndInv' /\ NotesInv /\ NotesInv' /\ [PostsNext]_<<vars, notes>>
        => [Post!Next]_(Post!vars)
  BY NotesPost
<1> QED
  BY <1>1, <1>3, <1>4, <1>5, Invariance, PTL DEF PostsSpec, ReportsArePostings, Post!Spec
=============================================================================
