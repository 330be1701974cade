--------------------------- MODULE ReporterProofs ---------------------------
(***************************************************************************)
(* Proofs about Reporter, for any size of the collection, any number of    *)
(* pieces and reports: what holds whatever the byte behind a piece is      *)
(* (TypeOK, RequestIsOwn), what holds however the pieces are cut           *)
(* (NoMoreThanRefused), what the framing that the code expects adds to it  *)
(* (AgainExactlyOnce, OwnAnswerOnly and the refinement of Posting), and    *)
(* what on_response makes of any value that it reads.                      *)
(***************************************************************************)
EXTENDS Reporter, SequenceLemmas

\* What one report leaves to the next, and what it has while it posts.
RequestInv ==
  /\ pc # "posting" => m_respones = <<>>
  /\ pc = "idle" => m_headers = <<>>
  /\ pc = "posting" =>
       /\ reports \in 1..MaxReports /\ answer \in Answers(reports)
       /\ m_headers = Headers(reports)
       /\ body = reports \/ (body = 0 /\ arrived > 0)
       /\ Len(m_respones) <= arrived /\ arrived <= answer.pieces
       /\ outcome = "none"

Inv == TypeOK /\ RequestInv /\ RequestIsOwn

\* The records of R have each been given to insert() once, the others not.
Once(R) == inserted = [i \in 0..Size |-> IF i \in R THEN 1 ELSE 0]

\* The first n pieces of the current answer.
Pieces(n) == [k \in 1..n |-> <<answer.id, k>>]

\* With the framing it expects, on_response collects an answer from its first
\* piece on, and deals with it when it has the last one.
FramedInv ==
  /\ pc # "thrown"
  /\ pc = "posting" =>
       /\ arrived < answer.pieces => m_respones = Pieces(arrived) /\ Once({})
       /\ arrived = answer.pieces => m_respones = <<>> /\ Once(answer.again)
  /\ outcome = "free" => Once(answer.again)

USE DEF Reset

-----------------------------------------------------------------------------
(* Lemmas.                                                                  *)

\* The headers of a report are a list of five.
LEMMA HeadersAre ==
  ASSUME NEW k \in 1..MaxReports
  PROVE  /\ Headers(k) \in Seq(1..MaxReports) /\ Len(Headers(k)) = 5
         /\ <<>> \o Headers(k) = Headers(k)
<1>1. Headers(k) \in Seq(1..MaxReports) /\ Len(Headers(k)) = 5
  BY DEF Headers
<1> QED
  BY <1>1, ConcatEmptySeq

\* What is known of an answer.
LEMMA AnswerIs ==
  ASSUME NEW k, NEW a \in Answers(k)
  PROVE  /\ a.id = k /\ a.err \in {"ok", "error", "fail"}
         /\ a.again \in SUBSET (1..Size) /\ a.pieces \in 1..MaxPieces
         /\ a.again # {} => a.err = "fail"
BY DEF Answers

\* A piece behind the first n makes n + 1 of them.
LEMMA OneMorePiece ==
  ASSUME NEW n \in Nat
  PROVE  /\ Append(Pieces(n), <<answer.id, n + 1>>) = Pieces(n + 1)
         /\ Append(Pieces(n), <<answer.id, n + 1>>) # <<>>
<1>1. Pieces(n) \in Seq({answer.id} \X Nat) /\ Len(Pieces(n)) = n
  BY DEF Pieces
<1>2. <<answer.id, n + 1>> \in {answer.id} \X Nat
  OBVIOUS
<1>3. PICK s, x : s = Pieces(n) /\ x = <<answer.id, n + 1>>
  OBVIOUS
<1>4. /\ Append(s, x) \in Seq({answer.id} \X Nat)
      /\ Len(Append(s, x)) = n + 1
      /\ \A i \in 1..n : Append(s, x)[i] = s[i]
      /\ Append(s, x)[n + 1] = x
  BY <1>1, <1>2, <1>3, AppendProperties
<1>5. Pieces(n + 1) \in Seq({answer.id} \X Nat) /\ Len(Pieces(n + 1)) = n + 1
  BY DEF Pieces
<1>6. ASSUME NEW i \in 1..n + 1
      PROVE  Append(s, x)[i] = Pieces(n + 1)[i]
  BY <1>3, <1>4 DEF Pieces
<1>7. Append(s, x) = Pieces(n + 1)
  BY <1>4, <1>5, <1>6, SeqEqual
<1> QED
  BY <1>3, <1>4, <1>7

-----------------------------------------------------------------------------
(* Whatever the byte behind a piece is.                                     *)

LEMMA InitInv == Init => Inv
<1> SUFFICES ASSUME Init PROVE Inv
  OBVIOUS
<1>1. 1..MaxPieces # {} /\ MaxPieces \in Nat /\ MaxReports \in Nat /\ Size \in Nat
  BY ReporterAssumption, AnswerAssumption
<1>2. /\ m_respones = <<>> /\ m_headers = <<>>
      /\ m_respones \in Seq((1..MaxReports) \X (1..MaxPieces))
      /\ m_headers \in Seq(1..MaxReports)
      /\ Len(m_respones) = 0 /\ Len(m_headers) = 0
  BY EmptySeq DEF Init
<1>3. sent \in [headers : Seq(1..MaxReports), body : 0..MaxReports, after : 0..MaxPieces]
  BY <1>1, EmptySeq DEF Init, Unsent
<1>4. TypeOK
  <2>1. answer \in (UNION {Answers(k) : k \in 1..MaxReports}) \cup {NoAnswer}
    BY DEF Init
  <2>2. arrived \in 0..MaxPieces /\ body \in 0..MaxReports /\ reports \in 0..MaxReports
    BY <1>1 DEF Init
  <2>3. Len(m_respones) <= MaxPieces /\ Len(m_headers) <= 5
    BY <1>1, <1>2
  <2>4. inserted \in [0..Size -> Nat]
    BY DEF Init
  <2>5. pc \in {"idle", "posting", "thrown"} /\ outcome \in {"none", "free", "retry"}
    BY DEF Init
  <2> QED
    BY <1>2, <1>3, <2>1, <2>2, <2>3, <2>4, <2>5 DEF TypeOK
<1> QED
  BY <1>4 DEF Init, Inv, RequestInv, RequestIsOwn

\* A report begins with an empty buffer, no header and nothing sent.
LEMMA ReportKeeps == Inv /\ Report => Inv'
<1> SUFFICES ASSUME Inv, Report PROVE Inv'
  OBVIOUS
<1>1. /\ MaxPieces \in Nat \ {0} /\ MaxReports \in Nat /\ Size \in Nat
      /\ reports' \in 1..MaxReports /\ reports' = reports + 1
  BY ReporterAssumption, AnswerAssumption DEF Report, Inv, TypeOK
<1>2. /\ pc' = "posting" /\ m_respones' = <<>> /\ arrived' = 0
      /\ answer' \in Answers(reports') /\ sent' = Unsent
      /\ m_headers' = <<>> \o Headers(reports')
      /\ body' = reports' /\ outcome' = "none"
      /\ inserted' = [i \in 0..Size |-> 0]
  BY DEF Report, Inv, RequestInv
<1>3. /\ m_headers' \in Seq(1..MaxReports) /\ Len(m_headers') = 5
      /\ m_headers' = Headers(reports')
  BY <1>1, <1>2, HeadersAre
<1>3a. /\ m_respones' \in Seq((1..MaxReports) \X (1..MaxPieces))
      /\ Len(m_respones') = 0
      /\ sent' \in [headers : Seq(1..MaxReports), body : 0..MaxReports, after : 0..MaxPieces]
  BY <1>1, <1>2, EmptySeq DEF Unsent
<1>3b. answer' \in UNION {Answers(k) : k \in 1..MaxReports}
  BY <1>1, <1>2
<1>4. TypeOK'
  <2>1. /\ arrived' \in 0..MaxPieces /\ body' \in 0..MaxReports
        /\ reports' \in 0..MaxReports
    BY <1>1, <1>2
  <2>1a. Len(m_respones') <= MaxPieces /\ Len(m_headers') <= 5
    BY <1>1, <1>3, <1>3a
  <2>2. inserted' \in [0..Size -> Nat]
    BY <1>2
  <2> QED
    BY <1>2, <1>3, <1>3a, <1>3b, <2>1, <2>1a, <2>2 DEF TypeOK
<1>5. RequestInv'
  BY <1>1, <1>2, <1>3, AnswerIs DEF RequestInv
<1> QED
  BY <1>2, <1>4, <1>5 DEF Inv, RequestIsOwn

\* What is sent is this report's, unless m_buffer holds the answer by now.
LEMMA SendKeeps == Inv /\ Send => Inv'
<1> SUFFICES ASSUME Inv, Send PROVE Inv'
  OBVIOUS
<1>1. sent' = [headers |-> m_headers, body |-> body, after |-> arrived]
  BY DEF Send
<1>2. TypeOK'
  BY <1>1 DEF Send, Inv, TypeOK
<1>3. RequestInv'
  BY DEF Send, Inv, RequestInv, Headers, Answers
<1>4. RequestIsOwn'
  BY <1>1 DEF Send, Inv, RequestInv, RequestIsOwn, Headers
<1> QED
  BY <1>2, <1>3, <1>4 DEF Inv

\* A piece of the answer is taken.
LEMMA OnResponseKeeps == Inv /\ OnResponse => Inv'
<1> SUFFICES ASSUME Inv, OnResponse PROVE Inv'
  OBVIOUS
<1>1. /\ MaxPieces \in Nat \ {0} /\ MaxReports \in Nat /\ Size \in Nat
      /\ pc = "posting" /\ arrived \in Nat /\ arrived < answer.pieces
      /\ reports \in 1..MaxReports /\ answer \in Answers(reports)
      /\ m_respones \in Seq((1..MaxReports) \X (1..MaxPieces))
      /\ Len(m_respones) \in Nat /\ Len(m_respones) <= arrived
      /\ arrived' = arrived + 1 /\ body' = 0
      /\ UNCHANGED <<m_headers, sent, answer, reports, outcome>>
  BY ReporterAssumption, AnswerAssumption DEF OnResponse, Inv, TypeOK, RequestInv
<1>2. answer.id = reports /\ answer.pieces \in 1..MaxPieces
  BY <1>1, AnswerIs
<1>3. PICK buf : buf = Append(m_respones, <<answer.id, arrived + 1>>)
  OBVIOUS
<1>4. /\ buf \in Seq((1..MaxReports) \X (1..MaxPieces))
      /\ Len(buf) = Len(m_respones) + 1
  BY <1>1, <1>2, <1>3, AppendProperties
<1>5. /\ pc' \in {"posting", "thrown"}
      /\ pc' = "thrown" => m_respones' = <<>>
      /\ m_respones' \in {buf, <<>>}
      /\ inserted' \in [0..Size -> Nat]
  <2>1. PICK last \in LastSeen(arrived + 1) :
          IF ~last
          THEN m_respones' = buf /\ UNCHANGED <<inserted, pc>>
          ELSE \E v \in Parsed(buf) :
                 /\ m_respones' = <<>>
                 /\ inserted' = Handles(v)
                 /\ pc' = IF v.throws THEN "thrown" ELSE pc
    BY <1>3 DEF OnResponse
  <2>2. inserted \in [0..Size -> Nat]
    BY DEF Inv, TypeOK
  <2>3. \A v : Handles(v) \in [0..Size -> Nat]
    BY <2>2 DEF Handles
  <2> QED
    BY <1>1, <2>1, <2>2, <2>3
<1>6. /\ m_respones' \in Seq((1..MaxReports) \X (1..MaxPieces))
      /\ Len(m_respones') <= arrived'
  <2>1. CASE m_respones' = <<>>
    BY <1>1, <2>1, EmptySeq
  <2>2. CASE m_respones' = buf
    BY <1>1, <1>4, <2>2
  <2> QED
    BY <1>5, <2>1, <2>2
<1>7. TypeOK'
  <2>1. /\ arrived' \in 0..MaxPieces /\ body' \in 0..MaxReports
        /\ Len(m_respones') <= MaxPieces
    <3>1. Len(m_respones') \in Nat
      BY <1>6, LenProperties
    <3> QED
      BY <1>1, <1>2, <1>6, <3>1
  <2> QED
    BY <1>1, <1>5, <1>6, <2>1 DEF Inv, TypeOK
<1>8. RequestInv'
  <2>1. /\ m_headers = Headers(reports) /\ outcome = "none"
    BY <1>1 DEF Inv, RequestInv
  <2>2. Headers(reports)' = Headers(reports) /\ Answers(reports)' = Answers(reports)
    BY <1>1 DEF Headers, Answers
  <2> QED
    BY <1>1, <1>2, <1>5, <1>6, <2>1, <2>2 DEF RequestInv
<1>9. RequestIsOwn'
  BY <1>1 DEF Inv, RequestIsOwn, Headers
<1> QED
  BY <1>7, <1>8, <1>9 DEF Inv

\* The end of a report leaves an empty buffer and no header behind.
LEMMA PostEnds == Inv /\ (PostOk \/ PostFails) => Inv'
<1> SUFFICES ASSUME Inv, PostOk \/ PostFails PROVE Inv'
  OBVIOUS
<1>1. /\ pc' = "idle" /\ m_respones' = <<>> /\ m_headers' = <<>>
      /\ outcome' \in {"free", "retry"}
      /\ UNCHANGED <<body, sent, answer, arrived, inserted, reports>>
  BY DEF PostOk, PostFails, HeadersFreed, ResetAtEnd
<1>2. TypeOK'
  BY <1>1, ReporterAssumption DEF Inv, TypeOK
<1> QED
  BY <1>1, <1>2 DEF Inv, RequestInv, RequestIsOwn, Headers

LEMMA InvStep == Inv /\ [Next]_vars => Inv'
<1> SUFFICES ASSUME Inv, [Next]_vars PROVE Inv'
  OBVIOUS
<1>1. CASE UNCHANGED vars
  <2>1. TypeOK'
    BY <1>1 DEF vars, Inv, TypeOK
  <2> QED
    BY <1>1, <2>1 DEF vars, Inv, RequestInv, RequestIsOwn, Headers, Answers
<1> QED
  BY <1>1, ReportKeeps, SendKeeps, OnResponseKeeps, PostEnds DEF Next, Stopped

LEMMA Invariance == Spec => []Inv
BY InitInv, InvStep, PTL DEF Spec

\* Type correctness of a Reporter, with any byte behind a piece: the buffer
\* never holds more pieces than one answer has, and the list five headers.
THEOREM Typing == Spec => []TypeOK
<1>1. Inv => TypeOK
  BY DEF Inv
<1> QED
  BY <1>1, Invariance, PTL

\* A request has the headers and the body of the report being made; only an
\* answer that came before it was read may have taken the body's place.
THEOREM OwnRequest == Spec => []RequestIsOwn
<1>1. Inv => RequestIsOwn
  BY DEF Inv
<1> QED
  BY <1>1, Invariance, PTL

-----------------------------------------------------------------------------
(* The answer is not exceeded, whatever the byte behind a piece is.          *)

\* m_buffer holds the beginning of the current answer.
Begun == m_respones # <<>> /\ Head(m_respones) = <<answer.id, 1>>

\* While the buffer is empty or begins with the answer's first piece nothing has
\* been inserted; when it has been parsed, its first piece is gone for good.
AnyInv ==
  /\ NoMoreThanRefused
  /\ pc = "posting" =>
       /\ arrived = 0 => m_respones = <<>>
       /\ arrived = 0 \/ Begun => Once({})

\* Where a buffer with one more piece begins.
LEMMA BeginsWith ==
  ASSUME Inv, AnyInv, pc = "posting", arrived < answer.pieces,
         NEW buf, buf = Append(m_respones, <<answer.id, arrived + 1>>)
  PROVE  /\ buf # <<>>
         /\ Whole(buf) => Head(buf) = <<answer.id, 1>>
         /\ Head(buf) = <<answer.id, 1>> => Once({})
<1>1. arrived \in Nat /\ answer.pieces \in Nat /\ answer.pieces > 0
  BY AnswerIs DEF Inv, TypeOK, RequestInv
<1>2. PICK m, x : m = m_respones /\ x = <<answer.id, arrived + 1>>
  OBVIOUS
<1>3. PICK S : m \in Seq(S) /\ x \in S
  <2>1. PICK T : m \in Seq(T)
    BY <1>2 DEF Inv, TypeOK
  <2>2. m \in Seq(T \cup {x})
    BY <2>1
  <2> QED
    BY <2>2
<1>4. /\ Len(m) \in Nat /\ Len(buf) = Len(m) + 1 /\ buf \in Seq(S)
      /\ \A i \in 1..Len(m) : buf[i] = m[i]
      /\ buf[Len(m) + 1] = x
  BY <1>2, <1>3, AppendProperties, LenProperties
<1>5. buf # <<>> /\ Head(buf) = buf[1]
  BY <1>4, HeadTailProperties, EmptySeq
<1>6. Whole(buf) => Head(buf) = <<answer.id, 1>>
  <2>1. 1 \in 1..answer.pieces
    BY <1>1
  <2> QED
    BY <1>5, <2>1 DEF Whole
<1>7. CASE m = <<>>
  <2>1. Head(buf) = <<answer.id, arrived + 1>>
    BY <1>2, <1>4, <1>5, <1>7, EmptySeq
  <2>2. Head(buf) = <<answer.id, 1>> => arrived = 0
    BY <1>1, <2>1
  <2> QED
    BY <1>5, <1>6, <2>2 DEF AnyInv
<1>8. CASE m # <<>>
  <2>1. Head(m) = m[1] /\ 1 \in 1..Len(m)
    BY <1>3, <1>4, <1>8, EmptySeq, HeadTailProperties
  <2>2. Head(buf) = Head(m_respones)
    BY <1>2, <1>4, <1>5, <2>1
  <2> QED
    BY <1>2, <1>5, <1>6, <1>8, <2>2 DEF AnyInv, Begun
<1> QED
  BY <1>7, <1>8

\* What has been inserted is not more than before if neither it nor the answer
\* has changed.
LEMMA NoMoreStays ==
  ASSUME NoMoreThanRefused, UNCHANGED <<answer, inserted>>
  PROVE  NoMoreThanRefused'
<1>1. Short(answer)' = Short(answer)
  BY DEF Short
<1> QED
  BY <1>1, Zenon DEF NoMoreThanRefused

\* on_response exceeds the answer by no piece.
LEMMA AnyPiece == Inv /\ AnyInv /\ OnResponse => AnyInv'
<1> SUFFICES ASSUME Inv, AnyInv, OnResponse PROVE AnyInv'
  OBVIOUS
<1>1. /\ pc = "posting" /\ arrived \in Nat /\ arrived < answer.pieces
      /\ arrived' = arrived + 1 /\ UNCHANGED answer
      /\ inserted \in [0..Size -> Nat] /\ Size \in Nat
  BY AnswerAssumption DEF OnResponse, Inv, TypeOK
<1>2. PICK buf : buf = Append(m_respones, <<answer.id, arrived + 1>>)
  OBVIOUS
<1>3. /\ buf # <<>>
      /\ Whole(buf) => Head(buf) = <<answer.id, 1>>
      /\ Head(buf) = <<answer.id, 1>> => Once({})
  BY <1>1, <1>2, BeginsWith
<1>4. PICK last \in LastSeen(arrived + 1) :
        IF ~last
        THEN m_respones' = buf /\ UNCHANGED <<inserted, pc>>
        ELSE \E v \in Parsed(buf) :
               /\ m_respones' = <<>>
               /\ inserted' = Handles(v)
               /\ pc' = IF v.throws THEN "thrown" ELSE pc
  BY <1>2 DEF OnResponse
<1>5. arrived' # 0
  BY <1>1
<1>6. CASE ~last
  <2>1. m_respones' = buf /\ UNCHANGED <<inserted, pc>>
    BY <1>4, <1>6
  <2>2. NoMoreThanRefused'
    BY <1>1, <2>1, NoMoreStays DEF AnyInv
  <2>3. Begun' => Once({})'
    BY <1>1, <1>3, <2>1 DEF Begun, Once
  <2> QED
    BY <1>5, <2>2, <2>3 DEF AnyInv
<1>7. CASE last
  <2>1. PICK v \in Parsed(buf) : m_respones' = <<>> /\ inserted' = Handles(v)
    BY <1>4, <1>7
  <2>2. v.again = {} \/ (Once({}) /\ \E n \in Short(answer) : v.again \subseteq answer.again \cup {0, n})
    <3>1. CASE Whole(buf)
      <4>1. v.again = answer.again
        BY <2>1, <3>1 DEF Parsed, OfWhole, Reading
      <4>2. 0 \in Short(answer)
        BY DEF Short
      <4> QED
        BY <1>3, <3>1, <4>1, <4>2
    <3>2. CASE ~Whole(buf) /\ Head(buf) = <<answer.id, 1>>
      <4>1. v \in OfPrefix(answer)
        BY <2>1, <3>2 DEF Parsed
      <4> QED
        BY <1>3, <3>2, <4>1 DEF OfPrefix, OfRest
    <3>3. CASE ~Whole(buf) /\ Head(buf) # <<answer.id, 1>>
      BY <2>1, <3>3 DEF Parsed, OfRest
    <3> QED
      BY <3>1, <3>2, <3>3
  <2>3. ASSUME NEW i \in 1..Size \ Short(answer)
        PROVE  inserted'[i] <= IF i \in answer.again THEN 1 ELSE 0
    <3>1. i \in 0..Size /\ i # 0
      BY <1>1
    <3>2. inserted'[i] = inserted[i] + IF v.err = "fail" /\ i \in v.again THEN 1 ELSE 0
      BY <2>1, <3>1 DEF Handles
    <3>3. inserted[i] \in Nat /\ inserted[i] <= IF i \in answer.again THEN 1 ELSE 0
      BY <1>1, <3>1 DEF AnyInv, NoMoreThanRefused
    <3>4. CASE v.again = {}
      BY <3>2, <3>3, <3>4
    <3>5. CASE v.again # {}
      <4>1. inserted[i] = 0
        BY <2>2, <3>1, <3>5 DEF Once
      <4>2. i \in v.again => i \in answer.again
        BY <2>2, <3>1, <3>5
      <4> QED
        BY <3>2, <4>1, <4>2
    <3> QED
      BY <3>4, <3>5
  <2>4. NoMoreThanRefused'
    <3>1. Short(answer)' = Short(answer)
      BY <1>1 DEF Short
    <3> QED
      BY <1>1, <2>3, <3>1, Zenon DEF NoMoreThanRefused
  <2>5. ~Begun'
    BY <2>1 DEF Begun
  <2> QED
    BY <1>5, <2>4, <2>5 DEF AnyInv
<1> QED
  BY <1>6, <1>7

LEMMA AnyStep == Inv /\ AnyInv /\ [Next]_vars => AnyInv'
<1> SUFFICES ASSUME Inv, AnyInv, [Next]_vars PROVE AnyInv'
  OBVIOUS
<1>1. CASE Report
  <2>1. inserted' = [i \in 0..Size |-> 0] /\ arrived' = 0 /\ m_respones' = <<>>
    BY <1>1 DEF Report, Inv, RequestInv
  <2>2. NoMoreThanRefused'
    BY <2>1, AnswerAssumption DEF NoMoreThanRefused
  <2>3. Once({})'
    BY <2>1 DEF Once
  <2> QED
    BY <2>1, <2>2, <2>3 DEF AnyInv
<1>2. CASE OnResponse
  BY <1>2, AnyPiece
<1>3. CASE Send \/ PostOk \/ PostFails \/ Stopped \/ UNCHANGED vars
  <2>1. UNCHANGED <<answer, inserted>>
    BY <1>3 DEF Send, PostOk, PostFails, Stopped, vars
  <2>2. pc' = "idle" \/ UNCHANGED <<pc, arrived, m_respones>>
    BY <1>3 DEF Send, PostOk, PostFails, Stopped, vars
  <2>3. NoMoreThanRefused'
    BY <2>1, NoMoreStays DEF AnyInv
  <2> QED
    BY <2>1, <2>2, <2>3 DEF AnyInv, Begun, Once
<1> QED
  BY <1>1, <1>2, <1>3 DEF Next

\* Whatever byte follows a piece, however often the beginnings and the rests of
\* an answer are parsed, no record is inserted that the answer does not refuse,
\* and none twice, but for those that a refused number cut short is taken for.
THEOREM NeverMore == Spec => []NoMoreThanRefused
<1>1. Init => AnyInv
  BY AnswerAssumption DEF Init, AnyInv, NoMoreThanRefused
<1>2. AnyInv => NoMoreThanRefused
  BY DEF AnyInv
<1> QED
  BY <1>1, <1>2, AnyStep, Invariance, PTL DEF Spec

-----------------------------------------------------------------------------
(* With the framing that on_response expects.                               *)

\* A piece either is not the last and only goes into the buffer, or it is, and
\* the records that the answer wants again are inserted, all at once.
LEMMA PieceTaken ==
  ASSUME Framed, Inv, FramedInv, OnResponse
  PROVE  /\ pc = "posting" /\ pc' = "posting" /\ UNCHANGED <<answer, outcome>>
         /\ arrived \in Nat /\ arrived < answer.pieces /\ arrived' = arrived + 1
         /\ m_respones = Pieces(arrived) /\ Once({})
         /\ \/ /\ arrived' < answer.pieces
               /\ m_respones' = Pieces(arrived + 1) /\ UNCHANGED inserted
            \/ /\ arrived' = answer.pieces
               /\ m_respones' = <<>> /\ Once(answer.again)'
<1>1. /\ pc = "posting" /\ arrived \in Nat /\ arrived < answer.pieces
      /\ arrived' = arrived + 1 /\ UNCHANGED <<answer, outcome>>
      /\ answer \in Answers(reports)
  BY DEF OnResponse, Inv, TypeOK, RequestInv
<1>2. answer.again \in SUBSET (1..Size) /\ answer.pieces \in Nat
      /\ (answer.again # {} => answer.err = "fail")
  BY <1>1, AnswerIs
<1>3. m_respones = Pieces(arrived) /\ Once({})
  BY <1>1 DEF FramedInv
<1>4. PICK buf : buf = Append(m_respones, <<answer.id, arrived + 1>>)
  OBVIOUS
<1>5. buf = Pieces(arrived + 1)
  BY <1>1, <1>3, <1>4, OneMorePiece
<1>6. PICK last \in LastSeen(arrived + 1) :
        IF ~last
        THEN m_respones' = buf /\ UNCHANGED <<inserted, pc>>
        ELSE \E v \in Parsed(buf) :
               /\ m_respones' = <<>>
               /\ inserted' = Handles(v)
               /\ pc' = IF v.throws THEN "thrown" ELSE pc
  BY <1>4 DEF OnResponse
<1>7. last = (arrived + 1 = answer.pieces)
  BY <1>6 DEF LastSeen
<1>8. CASE arrived + 1 = answer.pieces
  <2>1. Parsed(buf) = OfWhole(answer)
    BY <1>5, <1>8 DEF Parsed, Whole, Pieces
  <2>2. PICK v : v = Reading(answer.err, answer.again, FALSE)
    OBVIOUS
  <2>3. m_respones' = <<>> /\ inserted' = Handles(v) /\ pc' = pc
    <3>1. last
      BY <1>7, <1>8
    <3>2. v \in Parsed(buf) /\ \A w \in Parsed(buf) : w = v
      BY <2>1, <2>2 DEF OfWhole
    <3>3. m_respones' = <<>> /\ inserted' = Handles(v)
          /\ pc' = IF v.throws THEN "thrown" ELSE pc
      BY <1>6, <3>1, <3>2
    <3>4. ~v.throws
      BY <2>2 DEF Reading
    <3> QED
      BY <3>3, <3>4
  <2>4. inserted' = [i \in 0..Size |-> IF i \in answer.again THEN 1 ELSE 0]
    <3>1. \A i \in 0..Size : inserted[i] = 0
      BY <1>3 DEF Once
    <3>2. \A i \in 0..Size :
            inserted[i] + (IF v.err = "fail" /\ i \in v.again THEN 1 ELSE 0)
              = IF i \in answer.again THEN 1 ELSE 0
      BY <1>2, <2>2, <3>1 DEF Reading
    <3> QED
      BY <2>3, <3>2 DEF Handles
  <2> QED
    BY <1>1, <1>3, <1>8, <2>3, <2>4 DEF Once
<1>9. CASE arrived + 1 # answer.pieces
  <2>1. arrived' < answer.pieces
    BY <1>1, <1>2, <1>9
  <2>2. ~last
    BY <1>7, <1>9
  <2>3. m_respones' = buf /\ UNCHANGED <<inserted, pc>>
    BY <1>6, <2>2
  <2> QED
    BY <1>1, <1>3, <1>5, <2>1, <2>3
<1> QED
  BY <1>8, <1>9

LEMMA FramedStep == Framed /\ Inv /\ FramedInv /\ [Next]_vars => FramedInv'
<1> SUFFICES ASSUME Framed, Inv, FramedInv, [Next]_vars PROVE FramedInv'
  OBVIOUS
<1>1. CASE Report
  <2>1. /\ pc' = "posting" /\ outcome' = "none" /\ arrived' = 0
        /\ m_respones' = <<>> /\ inserted' = [i \in 0..Size |-> 0]
        /\ answer' \in Answers(reports + 1)
    BY <1>1 DEF Report, Inv, RequestInv
  <2>2. arrived' < answer'.pieces /\ arrived' # answer'.pieces
    BY <2>1, AnswerIs, ReporterAssumption
  <2>3. Once({})'
    BY <2>1 DEF Once
  <2>4. Pieces(arrived)' = <<>>
    BY <2>1 DEF Pieces
  <2> QED
    BY <2>1, <2>2, <2>3, <2>4 DEF FramedInv
<1>2. CASE Send
  BY <1>2 DEF Send, FramedInv, Once, Pieces
<1>3. CASE OnResponse
  <2>1. outcome' # "free"
    BY <1>3, PieceTaken DEF Inv, RequestInv
  <2>2. Pieces(arrived)' = Pieces(arrived + 1)
    BY <1>3, PieceTaken DEF Pieces
  <2>3. UNCHANGED inserted => (Once({}) => Once({})')
    BY DEF Once
  <2> QED
    BY <1>3, <2>1, <2>2, <2>3, PieceTaken DEF FramedInv
<1>4. CASE PostOk \/ PostFails
  BY <1>4 DEF PostOk, PostFails, FramedInv, Once
<1>5. CASE Stopped \/ UNCHANGED vars
  BY <1>5 DEF Stopped, vars, FramedInv, Once, Pieces
<1> QED
  BY <1>1, <1>2, <1>3, <1>4, <1>5 DEF Next

LEMMA FramedInvariance == ASSUME Framed PROVE Spec => []FramedInv
<1>1. Init => FramedInv
  BY DEF Init, FramedInv
<1>2. Inv /\ FramedInv /\ [Next]_vars => FramedInv'
  BY FramedStep
<1> QED
  BY <1>1, <1>2, Invariance, PTL DEF Spec

\* With its framing a collection is freed with exactly the refused records
\* given to insert(), each once, whatever posts broke before.
THEOREM RefusedOnce == ASSUME Framed PROVE Spec => []AgainExactlyOnce
<1>1. FramedInv => AgainExactlyOnce
  BY DEF FramedInv, AgainExactlyOnce, Once
<1> QED
  BY <1>1, FramedInvariance, PTL

\* Reporter.cpp:64, "reported again after changing the time", is what a framed
\* Reporter does: only another framing loses the records.
THEOREM FramingSuffices == ASSUME Framed PROVE Spec => []RefusedIsReportedAgain
<1>1. TypeOK /\ AgainExactlyOnce => RefusedIsReportedAgain
  <2> SUFFICES ASSUME TypeOK, AgainExactlyOnce, outcome = "free", NEW i \in answer.again
               PROVE  inserted[i] > 0
    BY DEF RefusedIsReportedAgain
  <2>1. i \in 0..Size
    BY AnswerIs DEF TypeOK, NoAnswer
  <2> QED
    BY <2>1 DEF AgainExactlyOnce
<1> QED
  BY <1>1, Typing, RefusedOnce, PTL

\* With its framing m_buffer holds the first pieces of the current answer and
\* nothing of an earlier one.
THEOREM OwnAnswer == ASSUME Framed PROVE Spec => []OwnAnswerOnly
<1>1. Inv /\ FramedInv => OwnAnswerOnly
  <2> SUFFICES ASSUME Inv, FramedInv, pc = "posting", m_respones # <<>>
               PROVE  m_respones = Pieces(arrived)
    BY DEF OwnAnswerOnly, Pieces
  <2>1. arrived \in Nat /\ answer.pieces \in Nat /\ arrived <= answer.pieces
    BY AnswerIs DEF Inv, TypeOK, RequestInv
  <2> QED
    BY <2>1 DEF FramedInv
<1> QED
  BY <1>1, Invariance, FramedInvariance, PTL

-----------------------------------------------------------------------------
(* Reporter implements Posting.                                             *)

\* Each step of a framed Reporter is one of Posting or none.
LEMMA PostingStep ==
  ASSUME Framed, Inv, FramedInv, [Next]_vars
  PROVE  [Abstract!Next]_(Abstract!vars)
<1>1. CASE Report
  <2>1. /\ pc = "idle" /\ pc' = "posting" /\ outcome' = "none" /\ arrived' = 0
        /\ inserted' = [i \in 0..Size |-> 0]
        /\ answer' \in Answers(reports + 1)
    BY <1>1 DEF Report
  <2>2. arrived' # answer'.pieces
    BY <2>1, AnswerIs, ReporterAssumption
  <2>3. inserted' = Abstract!Times({})
    BY <2>1 DEF Abstract!Times
  <2>4. Abstract!Begin
    BY <2>1, <2>2, <2>3 DEF Abstract!Begin
  <2> QED
    BY <2>4 DEF Abstract!Next
<1>2. CASE Send \/ Stopped \/ UNCHANGED vars
  BY <1>2 DEF Send, Stopped, vars, Abstract!vars
<1>3. CASE OnResponse
  <2>1. /\ pc = "posting" /\ pc' = "posting" /\ UNCHANGED <<answer, outcome>>
        /\ arrived # answer.pieces
    BY <1>3, PieceTaken, AnswerIs DEF Inv, RequestInv
  <2>2. CASE arrived' < answer.pieces
    <3>1. arrived' # answer.pieces
      BY <1>3, <2>2, PieceTaken, AnswerIs DEF Inv, RequestInv
    <3>2. UNCHANGED inserted
      BY <1>3, <3>1, PieceTaken
    <3> QED
      BY <2>1, <3>1, <3>2 DEF Abstract!vars
  <2>3. CASE ~(arrived' < answer.pieces)
    <3>1. arrived' = answer.pieces /\ Once(answer.again)'
      BY <1>3, <2>3, PieceTaken
    <3>2. answer.again \in SUBSET (1..Size)
      BY <2>1, AnswerIs DEF Inv, RequestInv
    <3>3. inserted' = Abstract!Times(answer.again)
      BY <2>1, <3>1 DEF Once, Abstract!Times
    <3>4. Abstract!Answer(answer.again)
      BY <2>1, <3>1, <3>3 DEF Abstract!Answer
    <3> QED
      BY <3>2, <3>4 DEF Abstract!Next
  <2> QED
    BY <2>2, <2>3
<1>4. CASE PostOk
  BY <1>4 DEF PostOk, Abstract!Next, Abstract!Free
<1>5. CASE PostFails
  BY <1>5 DEF PostFails, Abstract!Next, Abstract!Retry
<1> QED
  BY <1>1, <1>2, <1>3, <1>4, <1>5 DEF Next

\* A framed Reporter is the post that ServiceReportManager takes it for: one
\* answer, as a whole, before the collection is freed, or none.
THEOREM ImplementsPosting == ASSUME Framed PROVE Spec => PostsAsPromised
<1>1. Init => Abstract!Init
  BY DEF Init, Abstract!Init, Abstract!Times, NoAnswer
<1>2. Inv /\ FramedInv /\ [Next]_vars => [Abstract!Next]_(Abstract!vars)
  BY PostingStep
<1> QED
  BY <1>1, <1>2, Invariance, FramedInvariance, PTL
     DEF Spec, PostsAsPromised, Abstract!Spec

-----------------------------------------------------------------------------
(* What on_response reads from a value of Json::Reader.                     *)

\* A result is read as one of the collection's records or as record 0.
LEMMA RecordIs ==
  ASSUME NEW item
  PROVE  Record(item) \in 0..Size
BY AnswerAssumption DEF Record

\* Whatever value it is, an answer, what is left of one, or anything else,
\* on_response reads an errcode of some class from it, asks for nothing again
\* unless that is an error beyond 2000, and asks for records of the collection,
\* or for m_data[no - 1] with a no outside of it.
THEOREM ReadIsReading ==
  ASSUME NEW response
  PROVE  /\ Read(response) \in Readings
         /\ Read(response).again # {} => Read(response).err = "fail"
<1>1. ASSUME NEW err \in {"ok", "error", "fail"}, NEW again \in SUBSET (0..Size),
             NEW throws \in BOOLEAN, again # {} => err = "fail"
      PROVE  /\ Reading(err, again, throws) \in Readings
             /\ Reading(err, again, throws).again # {} =>
                  Reading(err, again, throws).err = "fail"
  BY <1>1 DEF Reading, Readings
<1>2. PICK code, message, results, items :
        /\ code = Member(response, "errcode") /\ message = Member(response, "errmsg")
        /\ results = Member(Member(response, "data"), "results")
        /\ items = Elements(results)
  OBVIOUS
<1>3. PICK stuck : stuck = {i \in DOMAIN items : ~Readable(items[i])}
  OBVIOUS
<1>4. PICK done : done = IF stuck = {} THEN DOMAIN items ELSE 1..(Min(stuck) - 1)
  OBVIOUS
<1>5. PICK refused :
        refused = {i \in done : AsInt(Member(items[i], "errcode")) = 3005}
  OBVIOUS
<1>6. Read(response) =
        IF ~IsInt(code) THEN Reading("ok", {}, TRUE)
        ELSE IF AsInt(code) = 0 THEN Reading("ok", {}, FALSE)
        ELSE IF AsInt(code) <= 2000 THEN Reading("error", {}, ~IsCString(message))
        ELSE IF ~IsCString(message) THEN Reading("fail", {}, TRUE)
        ELSE Reading("fail", {Record(items[i]) : i \in refused},
                     results.type = "thrown" \/ stuck # {})
  BY <1>2, <1>3, <1>4, <1>5 DEF Read
<1>7. {Record(items[i]) : i \in refused} \in SUBSET (0..Size)
  BY RecordIs
<1>8. (~IsCString(message)) \in BOOLEAN
  BY DEF IsCString
<1>9. (results.type = "thrown" \/ stuck # {}) \in BOOLEAN
  OBVIOUS
<1>10. CASE ~IsInt(code)
  <2>1. Read(response) = Reading("ok", {}, TRUE)
    BY <1>6, <1>10, Zenon
  <2> QED
    BY <1>1, <2>1, Zenon
<1>11. CASE IsInt(code) /\ AsInt(code) = 0
  <2>1. Read(response) = Reading("ok", {}, FALSE)
    BY <1>6, <1>11, Zenon
  <2> QED
    BY <1>1, <2>1, Zenon
<1>12. CASE IsInt(code) /\ AsInt(code) # 0 /\ AsInt(code) <= 2000
  <2>1. Read(response) = Reading("error", {}, ~IsCString(message))
    BY <1>6, <1>12
  <2> QED
    BY <1>1, <1>8, <2>1, Zenon
<1>13. CASE IsInt(code) /\ AsInt(code) # 0 /\ ~(AsInt(code) <= 2000)
            /\ ~IsCString(message)
  <2>1. Read(response) = Reading("fail", {}, TRUE)
    BY <1>6, <1>13
  <2> QED
    BY <1>1, <2>1, Zenon
<1>14. CASE IsInt(code) /\ AsInt(code) # 0 /\ ~(AsInt(code) <= 2000)
            /\ IsCString(message)
  <2>1. Read(response) = Reading("fail", {Record(items[i]) : i \in refused},
                                 results.type = "thrown" \/ stuck # {})
    BY <1>6, <1>14
  <2> QED
    BY <1>1, <1>7, <1>9, <2>1, Zenon
<1> QED
  BY <1>10, <1>11, <1>12, <1>13, <1>14

\* The items that on_response reads before one throws, if one does, are items.
LEMMA DoneAreItems ==
  ASSUME NEW n \in Nat, NEW stuck, stuck \subseteq 1..n
  PROVE  (IF stuck = {} THEN 1..n ELSE 1..(Min(stuck) - 1)) \subseteq 1..n
<1>1. CASE stuck = {}
  BY <1>1
<1>2. CASE stuck # {}
  <2>1. \E x \in stuck : \A y \in stuck : x <= y
    <3>1. stuck \subseteq Nat
      OBVIOUS
    <3> QED
      BY <1>2, <3>1, LeastOne, Zenon
  <2>2. Min(stuck) \in stuck
    BY <2>1 DEF Min
  <2>3. Min(stuck) \in 1..n
    BY <2>2
  <2> QED
    BY <1>2, <2>3
<1> QED
  BY <1>1, <1>2

\* From a whole answer on_response takes what the answer says and nothing else,
\* without a throw, however many results it has and in whatever order.
THEOREM WholeIsRead ==
  ASSUME NEW k, NEW a \in Answers(k), NEW response, Says(response, a)
  PROVE  Read(response) \in OfWhole(a)
<1>1. PICK code, message, results, items :
        /\ code = Member(response, "errcode") /\ message = Member(response, "errmsg")
        /\ results = Member(Member(response, "data"), "results")
        /\ items = Elements(results)
  OBVIOUS
<1>2. PICK stuck : stuck = {i \in DOMAIN items : ~Readable(items[i])}
  OBVIOUS
<1>3. PICK done : done = IF stuck = {} THEN DOMAIN items ELSE 1..(Min(stuck) - 1)
  OBVIOUS
<1>4. PICK refused :
        refused = {i \in done : AsInt(Member(items[i], "errcode")) = 3005}
  OBVIOUS
<1>5. PICK n : n = AsInt(code)
  OBVIOUS
<1>6. Items(response) = items
  BY <1>1 DEF Items
<1>7. Refusing(response) =
        {i \in DOMAIN items : AsInt(Member(items[i], "errcode")) = 3005}
  BY <1>6 DEF Refusing
<1>8. /\ IsInt(code) /\ a.err = Class(n)
      /\ IsCString(message) /\ results.type = "array"
      /\ \A i \in DOMAIN items : Readable(items[i])
      /\ a.again = {AsInt(Member(items[i], "no")) : i \in Refusing(response)}
  BY <1>1, <1>5, <1>6 DEF Says
<1>9. stuck = {} /\ done = DOMAIN items
  BY <1>2, <1>3, <1>8
<1>10. a.again = {AsInt(Member(items[i], "no")) : i \in refused}
  BY <1>4, <1>7, <1>8, <1>9
<1>11. {Record(items[i]) : i \in refused} = a.again
  <2>1. a.again \in SUBSET (1..Size)
    BY AnswerIs
  <2>2. ASSUME NEW i \in refused
        PROVE  Record(items[i]) = AsInt(Member(items[i], "no"))
    <3>1. AsInt(Member(items[i], "no")) \in 1..Size
      BY <1>10, <2>1
    <3> QED
      BY <3>1 DEF Record
  <2> QED
    BY <1>10, <2>2
<1>12. Read(response) =
        IF ~IsInt(code) THEN Reading("ok", {}, TRUE)
        ELSE IF AsInt(code) = 0 THEN Reading("ok", {}, FALSE)
        ELSE IF AsInt(code) <= 2000 THEN Reading("error", {}, ~IsCString(message))
        ELSE IF ~IsCString(message) THEN Reading("fail", {}, TRUE)
        ELSE Reading("fail", {Record(items[i]) : i \in refused},
                     results.type = "thrown" \/ stuck # {})
  BY <1>1, <1>2, <1>3, <1>4 DEF Read
<1>13. a.err # "fail" => a.again = {}
  BY AnswerIs
<1>14. (~IsCString(message)) = FALSE
       /\ (results.type = "thrown" \/ stuck # {}) = FALSE
  BY <1>8, <1>9
<1>15. CASE n = 0
  <2>1. IsInt(code) /\ AsInt(code) = 0
    BY <1>5, <1>8, <1>15
  <2>2. Read(response) = Reading("ok", {}, FALSE)
    BY <1>12, <2>1, Zenon
  <2>3. a.err = "ok"
    BY <1>8, <1>15 DEF Class
  <2> QED
    BY <1>13, <2>2, <2>3 DEF OfWhole
<1>16. CASE n # 0 /\ n <= 2000
  <2>1. Read(response) = Reading("error", {}, ~IsCString(message))
    BY <1>5, <1>8, <1>12, <1>16
  <2>2. a.err = "error"
    BY <1>8, <1>16 DEF Class
  <2> QED
    BY <1>13, <1>14, <2>1, <2>2 DEF OfWhole
<1>17. CASE n # 0 /\ ~(n <= 2000)
  <2>1. Read(response) = Reading("fail", {Record(items[i]) : i \in refused},
                                 results.type = "thrown" \/ stuck # {})
    BY <1>5, <1>8, <1>12, <1>17
  <2>2. a.err = "fail"
    BY <1>8, <1>17 DEF Class
  <2> QED
    BY <1>11, <1>14, <2>1, <2>2 DEF OfWhole
<1> QED
  BY <1>15, <1>16, <1>17

\* From what is left of an answer on_response takes no record that the answer
\* does not name, but for one whose number was cut short and record 0.
THEOREM PartIsRead ==
  ASSUME NEW k, NEW a \in Answers(k), NEW response, SaysNoMore(response, a)
  PROVE  Read(response) \in OfPrefix(a)
<1>1. PICK items : items = Items(response)
  OBVIOUS
<1>2. PICK l \in Nat : l = Len(items) /\ DOMAIN items = 1..l
  BY <1>1 DEF SaysNoMore
<1>3. PICK n \in Short(a) : \A i \in Refusing(response) :
        Record(items[i]) \in a.again \cup {0, n}
  BY <1>1 DEF SaysNoMore
<1>4. PICK stuck : stuck = {i \in DOMAIN items : ~Readable(items[i])}
  OBVIOUS
<1>5. PICK done : done = IF stuck = {} THEN DOMAIN items ELSE 1..(Min(stuck) - 1)
  OBVIOUS
<1>6. PICK refused :
        refused = {i \in done : AsInt(Member(items[i], "errcode")) = 3005}
  OBVIOUS
<1>7. refused \subseteq Refusing(response)
  <2>1. stuck \subseteq 1..l
    BY <1>2, <1>4
  <2>2. done = IF stuck = {} THEN 1..l ELSE 1..(Min(stuck) - 1)
    BY <1>2, <1>5
  <2>3. done \subseteq 1..l
    BY <2>1, <2>2, DoneAreItems
  <2>4. Refusing(response) =
          {i \in DOMAIN items : AsInt(Member(items[i], "errcode")) = 3005}
    BY <1>1 DEF Refusing
  <2>5. done \subseteq DOMAIN items
    BY <1>2, <2>3
  <2>6. ASSUME NEW i \in refused PROVE i \in Refusing(response)
    <3>1. i \in done /\ AsInt(Member(items[i], "errcode")) = 3005
      BY <1>6
    <3> QED
      BY <2>4, <2>5, <3>1
  <2> QED
    BY <2>6
<1>8. {Record(items[i]) : i \in refused} \subseteq a.again \cup {0, n}
  BY <1>3, <1>7
<1>9. PICK R : R = {Record(items[i]) : i \in refused}
  OBVIOUS
<1>10. Read(response).again \in {{}, R}
  <2>1. PICK code, message, results :
          /\ code = Member(response, "errcode") /\ message = Member(response, "errmsg")
          /\ results = Member(Member(response, "data"), "results")
          /\ items = Elements(results)
    BY <1>1 DEF Items
  <2>2. Read(response) =
          IF ~IsInt(code) THEN Reading("ok", {}, TRUE)
          ELSE IF AsInt(code) = 0 THEN Reading("ok", {}, FALSE)
          ELSE IF AsInt(code) <= 2000 THEN Reading("error", {}, ~IsCString(message))
          ELSE IF ~IsCString(message) THEN Reading("fail", {}, TRUE)
          ELSE Reading("fail", R, results.type = "thrown" \/ stuck # {})
    BY <1>4, <1>5, <1>6, <1>9, <2>1 DEF Read
  <2>3. \A err, throws : Reading(err, {}, throws).again \in {{}, R}
                          /\ Reading(err, R, throws).again \in {{}, R}
    BY DEF Reading
  <2>4. CASE ~IsInt(code)
    BY <2>2, <2>3, <2>4, Zenon
  <2>5. CASE IsInt(code) /\ AsInt(code) = 0
    BY <2>2, <2>3, <2>5, Zenon
  <2>6. CASE IsInt(code) /\ AsInt(code) # 0 /\ AsInt(code) <= 2000
    <3>1. Read(response) = Reading("error", {}, ~IsCString(message))
      BY <2>2, <2>6
    <3> QED
      BY <2>3, <3>1, Zenon
  <2>7. CASE IsInt(code) /\ AsInt(code) # 0 /\ ~(AsInt(code) <= 2000)
            /\ ~IsCString(message)
    <3>1. Read(response) = Reading("fail", {}, TRUE)
      BY <2>2, <2>7
    <3> QED
      BY <2>3, <3>1, Zenon
  <2>8. CASE IsInt(code) /\ AsInt(code) # 0 /\ ~(AsInt(code) <= 2000)
            /\ IsCString(message)
    <3>1. Read(response) = Reading("fail", R, results.type = "thrown" \/ stuck # {})
      BY <2>2, <2>8
    <3> QED
      BY <2>3, <3>1, Zenon
  <2> QED
    BY <2>4, <2>5, <2>6, <2>7, <2>8
<1>11. Read(response).again \subseteq a.again \cup {0, n}
  BY <1>8, <1>9, <1>10
<1> QED
  <2>1. /\ Read(response) \in Readings
        /\ Read(response).again # {} => Read(response).err = "fail"
    BY ReadIsReading
  <2>2. PICK v : v = Read(response)
    OBVIOUS
  <2>3. v = [err |-> v.err, again |-> v.again, throws |-> v.throws]
    BY <2>1, <2>2 DEF Readings
  <2>4. CASE v.again = {}
    BY <2>1, <2>2, <2>3, <2>4 DEF Readings, OfPrefix, OfRest
  <2>5. CASE v.again # {}
    <3>1. v \in [err : {"fail"}, again : SUBSET (a.again \cup {0, n}), throws : BOOLEAN]
      BY <1>11, <2>1, <2>2, <2>3, <2>5 DEF Readings
    <3> QED
      BY <1>3, <2>2, <3>1 DEF OfPrefix
  <2> QED
    BY <2>4, <2>5
=============================================================================
