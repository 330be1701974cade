---------------------------- MODULE MCAlgorithms ----------------------------
(***************************************************************************)
(* The texts of JsonDepth, the inputs of Algorithms and, on inputs of      *)
(* their own, JsonReader against its inverse and against what Reporter     *)
(* takes an answer for: a behaviour is the threads of JsonDepth at work or *)
(* one input.                                                              *)
(***************************************************************************)
EXTENDS Algorithms, JsonDepth, JsonGrammar, Answer

-----------------------------------------------------------------------------
(* The texts of the threads.                                                *)

Mark(c) == [t |-> c]
Name(x) == [t |-> "string", s |-> x]

\* All texts of up to three tokens; of those that move the counter alike, one.
Tokens   == {Mark(c) : c \in {"[", "]", "{", "}", ",", ":", "null", "escape"}}
              \cup {Name(x) : x \in {"", "a"}}
AllTexts == UNION {[1..n -> Tokens] : n \in 0..3}
Alike    ==
  LET depth == [x \in AllTexts |-> Parse(x).depth]
  IN {CHOOSE x \in AllTexts : depth[x] = d : d \in {depth[x] : x \in AllTexts}}
MCTexts  == Alike

\* Threads are interchangeable; the run checks safety only.
Symmetry == Permutations(Threads)

-----------------------------------------------------------------------------
(* Values and their texts.                                                  *)

Digits(n) == IF n < 10 THEN <<n>> ELSE
  LET RECURSIVE D(_)
      D(k) == IF k = 0 THEN <<>> ELSE Append(D(k \div 10), k % 10)
  IN D(n)
Natural(n) == [t |-> "number", negative |-> FALSE, digits |-> Digits(n)]

\* The items, each a sequence of tokens, with commas between them.
Listed(items) ==
  FoldLeft(LAMBDA text1, item :
             IF text1 = <<>> THEN item ELSE text1 \o <<Mark(",")>> \o item,
           <<>>, items)

RECURSIVE Written(_)
Written(v) ==
  CASE v.type = "null"   -> <<Mark("null")>>
    [] v.type = "int"    -> <<Natural(v.n)>>
    [] v.type = "string" -> <<Name(v.s)>>
    [] v.type = "array"  ->
         <<Mark("[")>> \o Listed([i \in DOMAIN v.at |-> Written(v.at[i])]) \o <<Mark("]")>>
    [] v.type = "object" ->
         LET names == SetToSeq(DOMAIN v.of)
         IN <<Mark("{")>>
            \o Listed([i \in DOMAIN names |->
                         <<Name(names[i]), Mark(":")>> \o Written(v.of[names[i]])])
            \o <<Mark("}")>>

\* Where its items begin in a text of an array or object that begins at p.
Begins(items, p) ==
  [i \in DOMAIN items |->
     p + 1 + FoldFunctionOnSet(+, 0, [j \in DOMAIN items |-> Len(items[j]) + 1], 1..i - 1)]

\* How the grammar derives v where it is written from p on.
RECURSIVE Derived(_, _)
Derived(v, p) ==
  LET q == p + Len(Written(v))
  IN {Row("value", p, q, v)} \cup
     CASE v.type = "array" ->
            LET at == Begins([i \in DOMAIN v.at |-> Written(v.at[i])], p)
            IN UNION {Derived(v.at[i], at[i]) : i \in DOMAIN at}
               \cup {Row("elements", at[i], q, Array(SubSeq(v.at, i, Len(v.at)))) :
                       i \in DOMAIN at}
       [] v.type = "object" ->
            LET names == SetToSeq(DOMAIN v.of)
                at == Begins([i \in DOMAIN names |-> Written(v.of[names[i]]) \o <<0, 0>>], p)
            IN UNION {Derived(v.of[names[i]], at[i] + 2) : i \in DOMAIN at}
               \cup {Row("members", at[i], q,
                         Object([k \in {names[j] : j \in i..Len(names)} |-> v.of[k]])) :
                       i \in DOMAIN at}
       [] OTHER -> {}

RECURSIVE Nesting(_)
Nesting(v) ==
  1 + CASE v.type = "array"  -> Max({0} \cup {Nesting(v.at[i]) : i \in DOMAIN v.at})
        [] v.type = "object" -> Max({0} \cup {Nesting(v.of[k]) : k \in DOMAIN v.of})
        [] OTHER             -> 0

\* What has been read of v, written from p on, in a text that breaks at token k:
\* what stands before k, and null in the place of what k should begin.  The ']' of
\* an empty array is taken for an element if it is not one.
RECURSIVE Before(_, _, _)
Before(v, p, k) ==
  IF k <= p THEN Null
  ELSE CASE v = Array(<<>>) -> IF k = p + 1 THEN Array(<<Null>>) ELSE v
         [] v.type = "array" /\ v.at # <<>> ->
              LET at == Begins([i \in DOMAIN v.at |-> Written(v.at[i])], p)
                  n  == Cardinality({i \in DOMAIN at : at[i] <= k})
              IN Array([i \in 1..n |-> Before(v.at[i], at[i], k)])
         [] v.type = "object" ->
              LET names == SetToSeq(DOMAIN v.of)
                  at == Begins([i \in DOMAIN names |-> Written(v.of[names[i]]) \o <<0, 0>>], p)
                  n  == Cardinality({i \in DOMAIN at : at[i] + 2 <= k})
                  left == [i \in 1..n |-> Before(v.of[names[i]], at[i] + 2, k)]
              IN Object([name \in {names[i] : i \in 1..n} |->
                           left[CHOOSE i \in 1..n : names[i] = name]])
         [] OTHER -> v

\* Texts that are s up to token k and not from there on: s ends, has another
\* token there, or lacks that one.
Refused(s, k) ==
  {SubSeq(s, 1, k - 1)}
    \cup {[s EXCEPT ![k] = x] : x \in {Mark("error"), Mark("escape")}}
    \cup IF s[k].t \in {",", ":"} THEN {SubSeq(s, 1, k - 1) \o SubSeq(s, k + 1, Len(s))} ELSE {}
Misplaced(s, k) ==
  {[s EXCEPT ![k] = x] : x \in {Mark("}"), Mark(":")} \ {s[k]}}

\* Arrays of up to two and objects with members a and b, over given values.
Over(vs) ==
  {Array(at) : at \in UNION {[1..k -> vs] : k \in 0..2}}
    \cup {Object(of) : of \in UNION {[ks -> vs] : ks \in SUBSET {"a", "b"}}}

Flat    == {Null, Number(7), Text("a")}
Shallow == Flat \cup Over(Flat)
Deep    == Over(Shallow)
Values  == Shallow \cup Deep

-----------------------------------------------------------------------------
(* Answers and their texts.                                                 *)

\* An item of data.results, the errcode first or last.
Item(no, code, first) ==
  LET no1   == <<Name("no"), Mark(":"), Natural(no)>>
      code1 == <<Name("errcode"), Mark(":"), Natural(code)>>
      text1 == <<Name("errmsg"), Mark(":"), Name("text")>>
  IN <<Mark("{")>> \o Listed(IF first THEN <<text1, code1, no1>>
                                      ELSE <<no1, code1, text1>>) \o <<Mark("}")>>

Codes == [ok |-> 0, error |-> 2000, fail |-> 2001]

\* An answer with items of the given numbers, those in again refused with 3005.
AnswerText(err, nos, again, first) ==
  LET code1 == <<Name("errcode"), Mark(":"), Natural(Codes[err])>>
      text1 == <<Name("errmsg"), Mark(":"), Name("text")>>
      items == [i \in DOMAIN nos |->
                  Item(nos[i], IF nos[i] \in again THEN 3005 ELSE 3001, first)]
      data1 == <<Name("data"), Mark(":"), Mark("{"), Name("results"), Mark(":"),
                 Mark("[")>> \o Listed(items) \o <<Mark("]"), Mark("}")>>
  IN <<Mark("{")>> \o Listed(IF first THEN <<text1, code1, data1>>
                                      ELSE <<code1, text1, data1>>) \o <<Mark("}")>>

\* The records of the collection that the server lists, in its order: among
\* them one whose number begins as the other's.
Lists == UNION {[1..k -> {1, Size}] : k \in 0..2}

Samples ==
  UNION {{[err |-> err, again |-> again, text |-> AnswerText(err, nos, again, first)] :
            again \in IF err = "fail" THEN SUBSET ToSet(nos) ELSE {{}},
            first \in BOOLEAN} :
         err \in DOMAIN Codes, nos \in {l \in Lists : IsInjective(l)}}

\* What may be left of a token that the text ends or begins in.
LeftOf(token) ==
  CASE token.t = "number" ->
         {[token EXCEPT !.digits = SubSeq(@, 1, k)] : k \in 1..Len(token.digits)}
    [] token.t = "string" -> {token, Mark("error")}
    [] OTHER              -> {token, Mark("behind")}
RightOf(token) ==
  CASE token.t = "number" ->
         {[token EXCEPT !.digits = SubSeq(@, k, Len(@))] : k \in 1..Len(token.digits)}
    [] token.t = "string" -> {token, Mark("error"), Mark("escape"), Natural(4), Name(":")}
    [] OTHER              -> {token}

\* The parts of a text that begin where it begins, and those that do not.
Cuts(s) ==
  {<<>>} \cup UNION {{Append(SubSeq(s, 1, k - 1), x) : x \in LeftOf(s[k])} : k \in 1..Len(s)}
Rests(s) ==
  UNION {UNION {{<<x>> \o SubSeq(s, i + 1, j) : x \in RightOf(s[i])} : j \in i..Len(s)} :
         i \in 2..Len(s)}

-----------------------------------------------------------------------------
Strings == UNION {[1..k -> {0, 1, 4, 6, 8, 9}] : k \in 1..5}
MCInputs ==
  {[kind |-> "threads"]}
    \cup [kind : {"value"}, v : Values]
    \cup [kind : {"number"}, negative : BOOLEAN, digits : Strings]
    \cup [kind : {"answer"}, a : Samples]
    \cup UNION {[kind : {"body"}, total : Totals(size)] : size \in {1, MAX_COLLECTIONS}}

MCInit == Init /\ Given
MCNext == Kept /\ IF input.kind = "threads" THEN Next ELSE UNCHANGED vars
MCSpec == MCInit /\ [][MCNext]_<<vars, input>>

-----------------------------------------------------------------------------
(* Properties.                                                              *)

\* A text that was written from a value stands for it by the grammar and is read as
\* that value, to its last token, through a stack as deep as the value and back.
RoundTrip ==
  input.kind = "value" =>
    LET s == Written(input.v)
        D == Derived(input.v, 1)
        r == Parse(s)
    IN /\ IsDerivation(s, D) /\ input.v \in Found(D, "value", 1, Len(s) + 1)
       /\ r.ok /\ r.v = input.v /\ r.p = Len(s) + 1
       /\ Last(r.depth) = 0 /\ Max(ToSet(r.depth)) = Nesting(input.v)

\* Wherever a text breaks, the reader leaves what it had read before, each value in
\* its place, and nothing of what stands behind, of which it skips the rest up to a
\* bracket for every array and object that is open; and it says so.
BrokenKeepsRead ==
  input.kind = "value" =>
    LET s == Written(input.v)
    IN \A k \in 1..Len(s) :
         /\ \A c \in Refused(s, k) :
              ~Parse(c).ok /\ Parse(c).v = Before(input.v, 1, k)
         /\ \A c \in Misplaced(s, k) : Parse(c).v = Before(input.v, 1, k)

\* The reader makes of a whole answer a value that says what it says, of a cut
\* off one a value that says no more, and what on_response does with either, or
\* with a part from the middle, is what Reporter says it may do.
ReadsAsReporterSays ==
  input.kind = "answer" =>
    LET s == input.a.text
    IN /\ Says(Parse(s).v, input.a) /\ Read(Parse(s).v) \in OfWhole(input.a)
       /\ \A c \in Cuts(s) \ {s} : /\ SaysNoMore(Parse(c).v, input.a)
                                   /\ Read(Parse(c).v) \in OfPrefix(input.a)
       /\ \A c \in Rests(s) : Read(Parse(c).v) \in OfRest
=============================================================================
