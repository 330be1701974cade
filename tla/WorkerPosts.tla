----------------------------- MODULE WorkerPosts -----------------------------
(***************************************************************************)
(* ServiceReportManager with a record of what one of its pool threads      *)
(* posts: which records of the collection the answer wants again, how      *)
(* often the thread has given each of them to insert(), and what became of *)
(* the collection.  The three are history: no step depends on them.        *)
(***************************************************************************)
EXTENDS ServiceReportManager

CONSTANT Poster   \* the pool thread

ASSUME PosterAssumption == Poster \in Workers

VARIABLES
  refused,  \* the positions that the last answer wanted again
  given,    \* how often the record at each position was given to insert()
  outcome   \* what became of the collection: "none", "free" or "retry"

notes == <<refused, given, outcome>>

\* Each of the records at R once.
Once(R) == [i \in 0..MAX_COLLECTIONS |-> IF i \in R THEN 1 ELSE 0]

PostsInit == Init /\ refused = {} /\ given = Once({}) /\ outcome = "none"

\* The steps of the thread that say something of its post.
Starts ==
  /\ TaskStart(Poster)
  /\ refused' = {} /\ given' = Once({}) /\ outcome' = "none"

Refuses(R) ==
  /\ PostAnswered(Poster, R)
  /\ refused' = R
  /\ UNCHANGED <<given, outcome>>

Gives(i) ==
  /\ Reinsert(Poster, i)
  /\ given' = [given EXCEPT ![i] = @ + 1]
  /\ UNCHANGED <<refused, outcome>>

Frees ==
  /\ Finish(Poster)
  /\ outcome' = "free"
  /\ UNCHANGED <<refused, given>>

Retries ==
  /\ PostFailed(Poster) \/ PostBroken(Poster)
  /\ outcome' = "retry"
  /\ UNCHANGED <<refused, given>>

\* Its other steps, which are inside flush() and retry(), and those of the other
\* threads.
Elsewhere ==
  /\ Next
  /\ UNCHANGED <<work_pc[Poster], again[Poster]>> \/ RetryPush(Poster)
  /\ UNCHANGED notes

PostsNext ==
  \/ Starts
  \/ \E R \in SUBSET (1..MAX_COLLECTIONS) : Refuses(R)
  \/ \E i \in 1..MAX_COLLECTIONS : Gives(i)
  \/ Frees \/ Retries \/ Elsewhere

PostsSpec == PostsInit /\ [][PostsNext]_<<vars, notes>>

-----------------------------------------------------------------------------
(* Properties.                                                              *)

\* From the collection in hand to the last insert() of its answer.
Underway == work_pc[Poster] = "post" \/ (work_pc[Poster] = "answer" /\ ~Answered(Poster))

\* To the thread the report of a collection is a Posting, whatever the others do
\* between its steps: it is freed, or retried after an answer, only when every
\* refused record and no other was given to insert() exactly once, and insert()
\* and the flush() that it may have entered with the mutex held have returned.
Post == INSTANCE Posting WITH
  Size     <- MAX_COLLECTIONS,
  stage    <- IF Underway THEN "post" ELSE IF Answered(Poster) THEN "answer" ELSE "idle",
  refused  <- IF Underway THEN {} ELSE refused,
  inserted <- IF Underway THEN Once({}) ELSE given
ReportsArePostings == Post!Spec
=============================================================================
