----------------------------- MODULE JsonGrammar -----------------------------
(***************************************************************************)
(* What a text of JSON stands for: values and where in a text they are     *)
(* written, derived from each other by the rules of the grammar.  It knows *)
(* nothing of the reader: no errors, no recovery, no order of reading.     *)
(*                                                                         *)
(* A derivation is a set of rows: a value v, the elements of an array from *)
(* one of them on or the members of an object from one of them on, with    *)
(* the closing bracket, is written from token p up to before token q.      *)
(***************************************************************************)
EXTENDS JsonReader

Row(what, p, q, v) == [what |-> what, p |-> p, q |-> q, v |-> v]

\* What D derives from p up to before q.
Found(D, what, p, q) ==
  {d.v : d \in {e \in D : e.what = what /\ e.p = p /\ e.q = q}}

IsValue(s, D, p, q, v) ==
  \/ /\ Kind(s, p) \in {"number", "string", "true", "false", "null"}
     /\ q = p + 1 /\ v = Scalar(s[p])
  \/ Kind(s, p) = "[" /\ Kind(s, p + 1) = "]" /\ q = p + 2 /\ v = Array(<<>>)
  \/ Kind(s, p) = "[" /\ v \in Found(D, "elements", p + 1, q)
  \/ Kind(s, p) = "{" /\ Kind(s, p + 1) = "}" /\ q = p + 2 /\ v = Object(<<>>)
  \/ Kind(s, p) = "{" /\ v \in Found(D, "members", p + 1, q)

IsElements(s, D, p, q, v) ==
  \E r \in p + 1..q - 1 : \E x \in Found(D, "value", p, r) :
    \/ Kind(s, r) = "]" /\ q = r + 1 /\ v = Array(<<x>>)
    \/ /\ Kind(s, r) = ","
       /\ \E rest \in Found(D, "elements", r + 1, q) : v = Array(<<x>> \o rest.at)

\* Of members of the same name the last one counts.
IsMembers(s, D, p, q, v) ==
  /\ Kind(s, p) = "string" /\ Kind(s, p + 1) = ":"
  /\ \E r \in p + 3..q - 1 : \E x \in Found(D, "value", p + 2, r) :
       \/ Kind(s, r) = "}" /\ q = r + 1 /\ v = Object(s[p].s :> x)
       \/ /\ Kind(s, r) = ","
          /\ \E rest \in Found(D, "members", r + 1, q) : v = Object(rest.of @@ (s[p].s :> x))

IsDerivation(s, D) ==
  \A d \in D :
    /\ d.p \in 1..Len(s) /\ d.q \in d.p + 1..Len(s) + 1
    /\ \/ d.what = "value" /\ IsValue(s, D, d.p, d.q, d.v)
       \/ d.what = "elements" /\ IsElements(s, D, d.p, d.q, d.v)
       \/ d.what = "members" /\ IsMembers(s, D, d.p, d.q, d.v)
=============================================================================
