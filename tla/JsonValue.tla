------------------------------ MODULE JsonValue ------------------------------
(***************************************************************************)
(* Json::Value, as far as on_response asks it: what operator[], size(),    *)
(* asInt() and asCString() make of a value, and when they throw.  A value  *)
(* has a type and, depending on it, a number n, a text s, elements at or   *)
(* members of.                                                             *)
(***************************************************************************)
EXTENDS Integers, Sequences

MaxInt == 2147483647   \* Value::maxInt

Null       == [type |-> "null"]
Real       == [type |-> "real"]                \* a number beyond LargestUInt
Bool(b)    == [type |-> "bool", b |-> b]
Number(n)  == [type |-> "int", n |-> n]
Text(s)    == [type |-> "string", s |-> s]
Array(at)  == [type |-> "array", at |-> at]
Object(of) == [type |-> "object", of |-> of]

\* What a call that throws returns.
Thrown == [type |-> "thrown"]

\* operator[](const char*): a member, made as a null one where there is none.
Member(v, name) ==
  IF v.type = "object" /\ name \in DOMAIN v.of THEN v.of[name]
  ELSE IF v.type \in {"object", "null"} THEN Null ELSE Thrown

\* for (i = 0; i < v.size(); ++i) v[i]: an object has a size and no elements.
Elements(v) ==
  IF v.type = "array" THEN v.at
  ELSE IF v.type = "object" /\ DOMAIN v.of # {} THEN <<Thrown>> ELSE <<>>

\* asInt() and asCString() return.
IsInt(v) ==
  \/ v.type \in {"null", "bool"}
  \/ v.type = "int" /\ v.n \in -MaxInt - 1..MaxInt
IsCString(v) == v.type = "string"

AsInt(v) ==
  IF v.type = "int" THEN v.n
  ELSE IF v.type = "bool" /\ v.b THEN 1 ELSE 0
=============================================================================
