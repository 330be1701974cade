----------------------------- MODULE JsonReader -----------------------------
(***************************************************************************)
(* Json::Reader::parse on a text given as its tokens: the value it leaves, *)
(* also when it refuses the text half way, and how it moves stackDepth_g.  *)
(* The functions that call each other are one recursive function of the    *)
(* call, which each of them takes as read.                                 *)
(*                                                                         *)
(* A token is [t |-> its type]; a string has its text s, a number its sign *)
(* and digits.  "error" is what readToken makes of a text that is no       *)
(* token, "escape" a string that decodeString refuses.  "behind" is no     *)
(* token: the text ends before it, and the byte behind the text, at which  *)
(* readArray looks, is a ']'.  Comments are left out.                      *)
(***************************************************************************)
EXTENDS JsonNumber, SequencesExt

\* The type of token p, "end" behind the last one.
Kind(s, p) == IF p > Len(s) \/ s[p].t = "behind" THEN "end" ELSE s[p].t

-----------------------------------------------------------------------------
Scalar(token) ==
  CASE token.t = "number" -> DecodeNumber(token.negative, token.digits)
    [] token.t = "string" -> Text(token.s)
    [] token.t = "true"   -> Bool(TRUE)
    [] token.t = "false"  -> Bool(FALSE)
    [] token.t = "null"   -> Null

-----------------------------------------------------------------------------
\* What a function of the reader leaves: the value, the next token, what
\* stackDepth_g has been meanwhile, from the call on and relative to it (as long
\* as nobody else writes it), and its result.
Done(v, p, depth)   == [v |-> v, p |-> p, depth |-> depth, ok |-> TRUE]
GoesOn(v, p, depth) == Done(v, p, depth)       \* mutant: recovered, hence read
Failed(v, p, depth) == [v |-> v, p |-> p, depth |-> depth, ok |-> FALSE]

\* ++stackDepth_g, --stackDepth_g, and what b does to it after a.
Up         == <<0, 1>>
Same(a)    == a                                \* mutant: only ever incremented
Down(a)    == Append(a, Last(a) - 1)
Then(a, b) == a \o [i \in 1..Len(b) - 1 |-> Last(a) + b[i + 1]]

\* readValue around what reads the value, and returns r to it.
LeftOnError(r) ==                              \* mutant: a failure returns at once
  [r EXCEPT !.depth = IF r.ok THEN Down(Then(Up, @)) ELSE Then(Up, @)]
Within(r) == [r EXCEPT !.depth = Down(Then(Up, @))]

\* recoverFromError: on behind the next token of a type, or to the end.
Recovered(s, p, until) ==
  Min({Len(s)} \cup {q \in p..Len(s) : Kind(s, q) = until}) + 1

\* The calls that the functions below make of each other behind a '{' or ',': of
\* readObject, where a '}' may stand ("object": no name read, or an empty one)
\* or not ("member"), and of readArray.
Calls(s) == {"object", "member", "array"} \X (1..Len(s) + 1)

\* readValue.  A token that starts no value leaves stackDepth_g incremented.
ReadValue(s, read, p) ==
  LET kind == Kind(s, p)
  IN CASE kind = "{" -> Within(read[<<"object", p + 1>>])
       [] kind = "[" ->
            IF p < Len(s) /\ s[p + 1].t \in {"]", "behind"}
            THEN Within(Done(Array(<<>>), p + 2, <<0>>))
            ELSE Within(read[<<"array", p + 1>>])
       [] kind \in {"number", "string", "true", "false", "null"} ->
            Within(Done(Scalar(s[p]), p + 1, <<0>>))
       [] kind = "escape" -> Within(Failed(Null, p + 1, <<0>>))
       [] OTHER -> Failed(Null, p + 1, Up)

\* readObject from a member on: that one, and those behind it.
ReadObject(s, read, what, p) ==
  LET Broken(of, q, depth) == Failed(Object(of), Recovered(s, q, "}"), depth)
      r    == ReadValue(s, read, p + 2)
      this == s[p].s :> r.v
      rest == read[<<IF s[p].s = "" THEN "object" ELSE "member", r.p + 1>>]
  IN IF Kind(s, p) = "}" /\ what = "object" THEN Done(Object(<<>>), p + 1, <<0>>)
     ELSE IF Kind(s, p) # "string" THEN Broken(<<>>, p + 1, <<0>>)
     ELSE IF Kind(s, p + 1) # ":" THEN Broken(<<>>, p + 2, <<0>>)
     ELSE IF ~r.ok THEN Broken(this, r.p, r.depth)
     ELSE CASE Kind(s, r.p) = "}" -> Done(Object(this), r.p + 1, r.depth)
            [] Kind(s, r.p) = "," ->
                 [rest EXCEPT !.v = Object(@.of @@ this), !.depth = Then(r.depth, @)]
            [] OTHER              -> Broken(this, r.p + 1, r.depth)

\* readArray from an element on.
ReadArray(s, read, p) ==
  LET r    == ReadValue(s, read, p)
      rest == read[<<"array", r.p + 1>>]
      Broken(q) == Failed(Array(<<r.v>>), Recovered(s, q, "]"), r.depth)
  IN IF ~r.ok THEN Broken(r.p)
     ELSE CASE Kind(s, r.p) = "]" -> Done(Array(<<r.v>>), r.p + 1, r.depth)
            [] Kind(s, r.p) = "," ->
                 [rest EXCEPT !.v = Array(<<r.v>> \o @.at), !.depth = Then(r.depth, @)]
            [] OTHER              -> Broken(r.p + 1)

Called(s, read, what, p) ==
  IF what = "array" THEN ReadArray(s, read, p) ELSE ReadObject(s, read, what, p)

\* parse: from the first token, with stackDepth_g = 0.  What stands behind the
\* value is not looked at.
Parse(s) ==
  LET read[c \in Calls(s)] == Called(s, read, c[1], c[2])
  IN ReadValue(s, read, 1)

=============================================================================
