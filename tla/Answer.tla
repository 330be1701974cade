------------------------------- MODULE Answer -------------------------------
(***************************************************************************)
(* What Reporter::on_response takes from the server's answer, once         *)
(* Json::Reader has made a value of it: the class of its errcode, the      *)
(* records it hands to insert(), and whether a call on the value throws    *)
(* before it is through.                                                   *)
(***************************************************************************)
EXTENDS JsonValue, FiniteSets, FiniteSetsExt

CONSTANT Size   \* records of the reported collection (m_size)

ASSUME AnswerAssumption == Size \in Nat \ {0}

\* Record 0 stands for m_data[no] with a no outside of the collection.
Readings ==
  [err : {"ok", "error", "fail"}, again : SUBSET (0..Size), throws : BOOLEAN]

Reading(err, again, throws) == [err |-> err, again |-> again, throws |-> throws]

\* An item of data.results is read without a throw.
Readable(item) ==
  /\ IsInt(Member(item, "no")) /\ IsInt(Member(item, "errcode"))
  /\ IsCString(Member(item, "errmsg"))

\* The item's record, data + no - 1.
NextRecord(item) ==                            \* mutant: data + no
  LET no == AsInt(Member(item, "no")) + 1 IN IF no \in 1..Size THEN no ELSE 0
Record(item) ==
  LET no == AsInt(Member(item, "no")) IN IF no \in 1..Size THEN no ELSE 0

\* The body of on_response from response["errcode"] on.  The items before one
\* that throws have been dealt with.
Read(response) ==
  LET code    == Member(response, "errcode")
      message == Member(response, "errmsg")
      results == Member(Member(response, "data"), "results")
      items   == Elements(results)
      stuck   == {i \in DOMAIN items : ~Readable(items[i])}
      done    == IF stuck = {} THEN DOMAIN items ELSE 1..(Min(stuck) - 1)
      refused == {i \in done : AsInt(Member(items[i], "errcode")) = 3005}
  IN IF ~IsInt(code) THEN Reading("ok", {}, TRUE)
     ELSE IF AsInt(code) = 0 THEN Reading("ok", {}, FALSE)
     ELSE IF AsInt(code) <= 2000 THEN Reading("error", {}, ~IsCString(message))
     ELSE IF ~IsCString(message) THEN Reading("fail", {}, TRUE)
     ELSE Reading("fail", {Record(items[i]) : i \in refused},
                  results.type = "thrown" \/ stuck # {})

-----------------------------------------------------------------------------
(* An answer says the class of its errcode and the records that it wants    *)
(* again.                                                                   *)

Class(code) == IF code = 0 THEN "ok" ELSE IF code <= 2000 THEN "error" ELSE "fail"

Items(response)   == Elements(Member(Member(response, "data"), "results"))
Refusing(response) ==
  {i \in DOMAIN Items(response) : AsInt(Member(Items(response)[i], "errcode")) = 3005}

\* response is what answer says: errcode, message and a readable result for each
\* record that the server lists.
Says(response, answer) ==
  /\ IsInt(Member(response, "errcode")) /\ IsCString(Member(response, "errmsg"))
  /\ answer.err = Class(AsInt(Member(response, "errcode")))
  /\ Member(Member(response, "data"), "results").type = "array"
  /\ \A i \in DOMAIN Items(response) : Readable(Items(response)[i])
  /\ answer.again =
       {AsInt(Member(Items(response)[i], "no")) : i \in Refusing(response)}

\* The records that a number is taken for when the text ends within it.  A
\* collection has no more than 128.
Short(answer) == {0} \cup {n \div k : n \in answer.again, k \in {10, 100}}

\* response says nothing that is not answer's, but for a number cut short.
SaysNoMore(response, answer) ==
  /\ Len(Items(response)) \in Nat
  /\ DOMAIN Items(response) = 1..Len(Items(response))
  /\ \E n \in Short(answer) : \A i \in Refusing(response) :
       Record(Items(response)[i]) \in answer.again \cup {0, n}

\* What can be read from the whole text of an answer, from a part of it that
\* starts where it starts, and from a part that does not.
OfWhole(answer) == {Reading(answer.err, answer.again, FALSE)}
OfRest == [err : {"ok", "error", "fail"}, again : {{}}, throws : BOOLEAN]
OfPrefix(answer) ==
  OfRest \cup
  UNION {[err : {"fail"}, again : SUBSET (answer.again \cup {0, n}), throws : BOOLEAN] :
           n \in Short(answer)}
=============================================================================
