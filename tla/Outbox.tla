------------------------------- MODULE Outbox -------------------------------
(***************************************************************************)
(* What ServiceReportManager promises whoever calls insert(): a record is  *)
(* pending from then on until the server has answered it for good.         *)
(*                                                                         *)
(* AtMostOnce = TRUE is the promise when no post fails after its answer    *)
(* was processed: a record is settled once and never comes back.  With     *)
(* AtMostOnce = FALSE a settled record may be reported again.  A record is *)
(* lost in neither case.                                                   *)
(***************************************************************************)
CONSTANTS Records, AtMostOnce

VARIABLES
  pending,  \* records accepted and not answered
  settled   \* records answered

vars == <<pending, settled>>

Init == pending = {} /\ settled = {}

Accept(r) ==
  /\ r \notin pending \cup settled
  /\ pending' = pending \cup {r}
  /\ UNCHANGED settled

\* The server answers a report of the records S.  Those in S \ K were reported
\* twice, and a copy of each is still pending.
Answer(S, K) ==
  /\ AtMostOnce => K = S /\ S \cap settled = {}
  /\ settled' = settled \cup S
  /\ pending' = pending \ K

\* A report fails after it was answered.
Reopen(S) ==
  /\ ~AtMostOnce
  /\ pending' = pending \cup S
  /\ UNCHANGED settled

Next ==
  \/ \E r \in Records : Accept(r)
  \/ \E S \in SUBSET pending : \E K \in SUBSET S : Answer(S, K)
  \/ \E S \in SUBSET settled : Reopen(S)

Spec == Init /\ [][Next]_vars
=============================================================================
