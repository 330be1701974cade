------------------------------ MODULE Reporter ------------------------------
(***************************************************************************)
(* Reporter::report and Reporter::on_response: how the server's answer to  *)
(* a posted collection is put together from the pieces curl delivers, and  *)
(* what becomes of the records the server wants again (errcode 3005).      *)
(*                                                                         *)
(* on_response is not told which piece is the last one.  It looks at a     *)
(* byte beyond the piece, in curl's own buffer: behind the last chunk of a *)
(* chunked answer stands the line of the empty chunk, "0".  Only then it   *)
(* parses what m_buffer holds.                                             *)
(*                                                                         *)
(* A Reporter serves one report after the other with one curl handle;      *)
(* m_buffer, m_respones and m_headers outlive each of them.  m_buffer is   *)
(* the request's body as long as curl reads it, and the place of the       *)
(* answer from its first piece on.                                         *)
(***************************************************************************)
EXTENDS Answer

CONSTANTS
  MaxPieces,  \* largest number of pieces an answer comes in
  Framed,     \* TRUE: the byte is '0' behind the last piece and only there
  MaxReports  \* bound on the reports of one Reporter

ASSUME ReporterAssumption ==
  /\ MaxPieces \in Nat \ {0} /\ MaxReports \in Nat
  /\ Framed \in BOOLEAN

\* An answer: its number, its errcode (0, at most 2000, or more), the records
\* with errcode 3005 in data.results, and the number of pieces it comes in.
Answers(k) ==
  {a \in [id : {k}, err : {"ok", "error", "fail"}, again : SUBSET (1..Size),
          pieces : 1..MaxPieces] : a.again # {} => a.err = "fail"}

VARIABLES
  pc,         \* "idle", "posting" or "thrown" (an exception left on_response)
  m_respones, \* the pieces in m_buffer, <<answer id, number>> each
  m_headers,  \* the report that each header of the list was made for
  body,       \* the report whose body m_buffer holds; 0: none any more
  sent,       \* what curl has transmitted for the current report, and when
  answer,     \* the answer to the current report
  arrived,    \* pieces of it delivered so far
  inserted,   \* how often each record was given to insert(); 0: one outside
  reports,    \* reports made so far
  outcome     \* what report() did last: "none", "free" or "retry"

vars == <<pc, m_respones, m_headers, body, sent, answer, arrived, inserted,
          reports, outcome>>

NoAnswer == [id |-> 0, err |-> "ok", again |-> {}, pieces |-> 1]
Unsent == [headers |-> <<>>, body |-> 0, after |-> 0]

Init ==
  /\ pc = "idle"
  /\ m_respones = <<>> /\ m_headers = <<>> /\ body = 0
  /\ sent = Unsent
  /\ answer = NoAnswer /\ arrived = 0
  /\ inserted = [i \in 0..Size |-> 0]
  /\ reports = 0
  /\ outcome = "none"

\* The five headers of report k: the type, appId, bizId, timestamps and sign.
Headers(k) == [h \in 1..5 |-> k]

\* report(): the body is built in m_buffer, the headers are appended to what
\* m_headers holds, and both go to curl; the first report of a Reporter also
\* runs init(), which points m_respones at m_buffer.
Report ==
  /\ pc = "idle" /\ reports < MaxReports
  /\ reports' = reports + 1
  /\ body' = reports + 1
  /\ m_headers' = m_headers \o Headers(reports + 1)
  /\ sent' = Unsent
  /\ answer' \in Answers(reports + 1)
  /\ arrived' = 0
  /\ inserted' = [i \in 0..Size |-> 0]
  /\ pc' = "posting"
  /\ outcome' = "none"
  /\ UNCHANGED m_respones

\* curl_easy_perform sends the request: the header list, and m_buffer itself,
\* of which CURLOPT_POSTFIELDS made no copy.  A server may answer before.
Send ==
  /\ pc = "posting" /\ sent = Unsent
  /\ sent' = [headers |-> m_headers, body |-> body, after |-> arrived]
  /\ UNCHANGED <<pc, m_respones, m_headers, body, answer, arrived, inserted,
                 reports, outcome>>

\* The whole answer, its pieces in order and nothing else.
Whole(buf) == buf = [k \in 1..answer.pieces |-> <<answer.id, k>>]

\* What on_response reads from the pieces in m_buffer, whose parse() may fail
\* unnoticed: all of the answer, what its beginning says, or what a text can
\* say that begins in the middle of it.  MCAlgorithms checks the three against
\* Json::Reader.
Parsed(buf) ==
  IF Whole(buf) THEN OfWhole(answer)
  ELSE IF Head(buf) = <<answer.id, 1>> THEN OfPrefix(answer) ELSE OfRest

\* The byte behind piece n: whether it is taken for the empty chunk.
LastEarly(n) ==                                \* mutant: behind the last but one
  IF Framed THEN {n >= answer.pieces - 1} ELSE BOOLEAN
LastSeen(n) == IF Framed THEN {n = answer.pieces} ELSE BOOLEAN

\* for (i = 0; i < res.size(); ++i): insert() the records with errcode 3005,
\* reached only when err > 2000.
HandlesAlways(v) ==                            \* mutant: the test of err dropped
  [i \in 0..Size |-> inserted[i] + IF i \in v.again \/ v.err = "error" THEN 1 ELSE 0]
Handles(v) ==
  [i \in 0..Size |-> inserted[i] + IF v.err = "fail" /\ i \in v.again THEN 1 ELSE 0]

\* m_respones = m_buffer after parse().
NotReset(buf) == buf                           \* mutant: the pieces stay
Reset(buf) == <<>>

\* on_response: append the piece, look behind it, parse if it seems the last.
OnResponse ==
  /\ pc = "posting" /\ arrived < answer.pieces
  /\ arrived' = arrived + 1
  /\ body' = 0
  /\ LET buf == Append(m_respones, <<answer.id, arrived + 1>>)
     IN \E last \in LastSeen(arrived + 1) :
          IF ~last
          THEN m_respones' = buf /\ UNCHANGED <<inserted, pc>>
          ELSE \E v \in Parsed(buf) :
                 /\ m_respones' = Reset(buf)
                 /\ inserted' = Handles(v)
                 /\ pc' = IF v.throws THEN "thrown" ELSE pc
  /\ UNCHANGED <<m_headers, sent, answer, reports, outcome>>

\* free_headers(), right behind curl_easy_perform.
HeadersKept == UNCHANGED m_headers             \* mutant: not called
HeadersFreed == m_headers' = <<>>

\* The end of report(), whatever became of the post.
KeptAtEnd == UNCHANGED m_respones              \* mutant: m_respones = m_buffer gone
ResetAtEnd == m_respones' = <<>>

\* curl_easy_perform succeeds: free().
PostOk ==
  /\ pc = "posting" /\ arrived = answer.pieces
  /\ pc' = "idle" /\ outcome' = "free"
  /\ HeadersFreed /\ ResetAtEnd
  /\ UNCHANGED <<body, sent, answer, arrived, inserted, reports>>

\* curl_easy_perform fails, with none, some or all of the answer delivered:
\* retry().
PostFails ==
  /\ pc = "posting"
  /\ pc' = "idle" /\ outcome' = "retry"
  /\ HeadersFreed /\ ResetAtEnd
  /\ UNCHANGED <<body, sent, answer, arrived, inserted, reports>>

\* The bound is reached, or an exception has left report().
Stopped ==
  /\ pc = "thrown" \/ (pc = "idle" /\ reports = MaxReports)
  /\ UNCHANGED vars

Next == Report \/ Send \/ OnResponse \/ PostOk \/ PostFails \/ Stopped

Spec == Init /\ [][Next]_vars

-----------------------------------------------------------------------------
(* Properties.                                                              *)

\* Every variable has its type; m_buffer never holds more than one answer.
TypeOK ==
  /\ pc \in {"idle", "posting", "thrown"}
  /\ m_respones \in Seq((1..MaxReports) \X (1..MaxPieces))
  /\ Len(m_respones) <= MaxPieces
  /\ m_headers \in Seq(1..MaxReports) /\ Len(m_headers) <= 5
  /\ body \in 0..MaxReports
  /\ sent \in [headers : Seq(1..MaxReports), body : 0..MaxReports, after : 0..MaxPieces]
  /\ answer \in (UNION {Answers(k) : k \in 1..MaxReports}) \cup {NoAnswer}
  /\ arrived \in 0..MaxPieces
  /\ inserted \in [0..Size -> Nat]
  /\ reports \in 0..MaxReports
  /\ outcome \in {"none", "free", "retry"}

\* When the collection is freed exactly the records the server asked for again
\* have been given to insert(), each once, and nothing from outside of the
\* collection, whatever posts failed in the middle of an answer before.
AgainExactlyOnce ==
  outcome = "free" =>
    \A i \in 0..Size : inserted[i] = IF i \in answer.again THEN 1 ELSE 0

\* A report never acts on the answer of an earlier one: m_buffer holds pieces
\* of the current answer only, in order and without a gap.
OwnAnswerOnly ==
  pc = "posting" /\ m_respones # <<>> =>
    m_respones = [k \in 1..arrived |-> <<answer.id, k>>]

\* What reaches the server is one report: the headers are those of the report
\* being made, so that the signature and the time are of this body and no header
\* of a post that failed is among them, and the body is this report's too,
\* unless the server began to answer before it had read it: then m_buffer holds
\* the answer.
RequestIsOwn ==
  sent # Unsent =>
    /\ sent.headers = Headers(reports)
    /\ sent.body = reports \/ sent.after > 0

\* With the framing it expects Reporter is the Posting that ServiceReportManager
\* takes it for, however many pieces an answer comes in and wherever posts break:
\* a collection that is retried has had none of its refused records given to
\* insert() or all of them, and the last piece alone decides.
Abstract == INSTANCE Posting WITH
  stage    <- IF pc # "posting" THEN pc
              ELSE IF arrived = answer.pieces THEN "answer" ELSE "post",
  refused  <- IF arrived = answer.pieces THEN answer.again ELSE {}
PostsAsPromised == Abstract!Spec

\* Whatever the byte behind a piece is taken for, and however often an answer is
\* parsed on the way: a record of the collection is given to insert() only if the
\* answer refuses it, and once, but for the records that a refused number is taken
\* for when a piece ends within it.
NoMoreThanRefused ==
  \A i \in 1..Size \ Short(answer) : inserted[i] <= IF i \in answer.again THEN 1 ELSE 0

\* Reporter.cpp:64, "reported again after changing the time": no collection is
\* freed with a record that was refused for its time and not given to insert().
RefusedIsReportedAgain ==
  outcome = "free" => \A i \in answer.again : inserted[i] > 0
=============================================================================
