------------------------------ MODULE Posting -------------------------------
(***************************************************************************)
(* What ServiceReportManager takes the report of one collection for: a     *)
(* post that is answered at most once and as a whole.  The records that    *)
(* the answer wants again are given to insert() when it comes, each once;  *)
(* the collection is freed only behind an answer, and goes to retry()      *)
(* before any of its records or after all of them were given to insert().  *)
(*                                                                         *)
(* Answer is PostAnswered and the Reinsert steps of ServiceReportManager,  *)
(* Free its Finish, and Retry its PostFailed and PostBroken.               *)
(***************************************************************************)
EXTENDS Naturals

CONSTANT Size   \* records of the collection

VARIABLES
  stage,    \* "idle", "post" or "answer"
  refused,  \* the records that the answer wants again
  inserted, \* how often each record was given to insert()
  outcome   \* what became of the collection: "none", "free" or "retry"

vars == <<stage, refused, inserted, outcome>>

Times(R) == [i \in 0..Size |-> IF i \in R THEN 1 ELSE 0]

Init == stage = "idle" /\ refused = {} /\ inserted = Times({}) /\ outcome = "none"

Begin ==
  /\ stage = "idle" /\ stage' = "post"
  /\ refused' = {} /\ inserted' = Times({}) /\ outcome' = "none"

Answer(R) ==
  /\ stage = "post" /\ stage' = "answer"
  /\ refused' = R /\ inserted' = Times(R)
  /\ UNCHANGED outcome

Free ==
  /\ stage = "answer" /\ stage' = "idle" /\ outcome' = "free"
  /\ UNCHANGED <<refused, inserted>>

Retry ==
  /\ stage \in {"post", "answer"} /\ stage' = "idle" /\ outcome' = "retry"
  /\ UNCHANGED <<refused, inserted>>

Next == Begin \/ (\E R \in SUBSET (1..Size) : Answer(R)) \/ Free \/ Retry

Spec == Init /\ [][Next]_vars
=============================================================================
