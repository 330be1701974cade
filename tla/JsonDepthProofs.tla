--------------------------- MODULE JsonDepthProofs ---------------------------
(***************************************************************************)
(* Proofs about the reader and its counter, for any text: the functions    *)
(* of JsonReader end, leave stackDepth_g where they found it or one        *)
(* higher, and read a text of JsonGrammar as what it stands for.  And      *)
(* about JsonDepth, for any number of threads, any texts and any limit:    *)
(* the types, and that a reader that no other one parses beside is held to *)
(* the limit exactly, whatever the readers before it left in stackDepth_g, *)
(* and leaves no more than that one behind itself.                         *)
(***************************************************************************)
EXTENDS JsonDepth, JsonGrammar, SequenceLemmas

\* What t's text goes through up to its place n.
WithinLimit(t, n) == \A i \in 1..n : text[t][i] <= stackLimit_g

\* What a reader knows of the counter while it is alone with it: it is where
\* its text is, and on its way it has been held to the limit.
AloneInv(t) ==
  alone[t] =>
    /\ Parsing(t) =>
         /\ \A u \in Threads \ {t} : ~Parsing(u)
         /\ stackDepth_g = text[t][step[t]]
         /\ WithinLimit(t, step[t])
    /\ pc[t] \in {"load", "store"} => text[t][step[t] + 1] <= stackLimit_g
    /\ pc[t] = "store" => reg[t] = stackDepth_g
    /\ pc[t] = "thrown" => \E i \in 1..Len(text[t]) : text[t][i] > stackLimit_g
    /\ pc[t] = "parsed" => WithinLimit(t, Len(text[t]))

Inv == TypeOK /\ \A t \in Threads : AloneInv(t)

-----------------------------------------------------------------------------
(* What a reader does with the counter.                                     *)

\* The shortest courses.
LEMMA FirstCourses ==
  Course(<< 0 >>) /\ Last(<< 0 >>) = 0 /\ Course(Up) /\ Last(Up) = 1
BY DEF Course, Last, Up

\* What a course is, place by place.
LEMMA CourseIs ==
  ASSUME NEW a
  PROVE  Course(a) <=>
           /\ a \in Seq(Nat) /\ Len(a) > 0 /\ a[1] = 0
           /\ \A i \in 1..Len(a) - 1 : a[i + 1] \in {a[i] - 1, a[i] + 1}
<1>1. a \in Seq(Nat) => (a # <<>> <=> Len(a) > 0)
  BY EmptySeq, LenProperties
<1> QED
  BY <1>1 DEF Course

\* The places of two sequences one behind the other.
LEMMA ConcatIs ==
  ASSUME NEW S, NEW a \in Seq(S), NEW t \in Seq(S), NEW m, m = Len(a), NEW k, k = Len(t)
  PROVE  /\ m \in Nat /\ k \in Nat
         /\ a \o t \in Seq(S) /\ Len(a \o t) = m + k
         /\ \A i \in 1..m : (a \o t)[i] = a[i]
         /\ \A i \in 1..k : (a \o t)[m + i] = t[i]
<1>1. m \in Nat /\ k \in Nat
  BY LenProperties
<1>2. PICK c : c = a \o t
  OBVIOUS
<1>3. /\ c \in Seq(S) /\ Len(c) = m + k
      /\ \A i \in 1..m + k : c[i] = IF i <= m THEN a[i] ELSE t[i - m]
  BY <1>2, ConcatProperties
<1>4. ASSUME NEW i \in 1..m PROVE c[i] = a[i]
  BY <1>1, <1>3
<1>5. ASSUME NEW i \in 1..k PROVE c[m + i] = t[i]
  <2>1. m + i \in 1..m + k /\ ~(m + i <= m) /\ m + i - m = i
    BY <1>1
  <2> QED
    BY <1>3, <2>1
<1> QED
  BY <1>1, <1>2, <1>3, <1>4, <1>5

\* One course after another is a course.
LEMMA ThenCourse ==
  ASSUME NEW a, NEW b, Course(a), Course(b)
  PROVE  Course(Then(a, b)) /\ Last(Then(a, b)) = Last(a) + Last(b)
<1>1. PICK m \in Nat \ {0} : m = Len(a) /\ a \in Seq(Nat) /\ a[1] = 0
  BY CourseIs, LenProperties
<1>2. PICK n \in Nat \ {0} : n = Len(b) /\ b \in Seq(Nat) /\ b[1] = 0
  BY CourseIs, LenProperties
<1>3. \A i \in 1..m - 1 : a[i + 1] \in {a[i] - 1, a[i] + 1}
  BY <1>1, CourseIs
<1>4. \A i \in 1..n - 1 : b[i + 1] \in {b[i] - 1, b[i] + 1}
  BY <1>2, CourseIs
<1>5. (\A i \in 1..m : a[i] \in Nat) /\ (\A i \in 1..n : b[i] \in Nat)
  BY <1>1, <1>2, ElementOfSeq
<1>6. PICK top \in Nat : top = a[m]
  BY <1>5
<1>7. Last(a) = top /\ Last(b) = b[n]
  BY <1>1, <1>2, <1>6 DEF Last
<1>8. PICK t : t = [i \in 1..n - 1 |-> top + b[i + 1]]
  OBVIOUS
<1>9. t \in Seq(Nat) /\ n - 1 = Len(t) /\ \A i \in 1..n - 1 : t[i] = top + b[i + 1]
  <2>1. ASSUME NEW i \in 1..n - 1 PROVE top + b[i + 1] \in Nat
    <3>1. i + 1 \in 1..n
      OBVIOUS
    <3>2. b[i + 1] \in Nat
      BY <1>5, <3>1
    <3> QED
      BY <3>2
  <2>2. n - 1 \in Nat
    OBVIOUS
  <2> QED
    BY <1>8, <2>1, <2>2
<1>10. PICK c : c = Then(a, b) /\ c = a \o t
  BY <1>2, <1>6, <1>7, <1>8 DEF Then
<1>11. /\ c \in Seq(Nat) /\ Len(c) = m + (n - 1)
       /\ \A i \in 1..m : c[i] = a[i]
       /\ \A i \in 1..n - 1 : c[m + i] = t[i]
  BY <1>1, <1>9, <1>10, ConcatIs
<1>12. ASSUME NEW j \in 1..n PROVE c[m + j - 1] = top + b[j]
  <2>1. CASE j = 1
    <3>1. m + j - 1 = m /\ m \in 1..m
      BY <2>1
    <3>2. c[m] = top
      BY <1>6, <1>11, <3>1
    <3> QED
      BY <1>2, <2>1, <3>1, <3>2
  <2>2. CASE j # 1
    <3>1. PICK i \in 1..n - 1 : j = i + 1 /\ m + j - 1 = m + i
      BY <2>2
    <3>2. c[m + i] = t[i] /\ t[i] = top + b[i + 1]
      BY <1>9, <1>11
    <3> QED
      BY <3>1, <3>2
  <2> QED
    BY <2>1, <2>2
<1>13. ASSUME NEW i \in 1..m + (n - 1) - 1 PROVE c[i + 1] \in {c[i] - 1, c[i] + 1}
  <2>1. CASE i < m
    <3>1. i \in 1..m - 1 /\ i \in 1..m /\ i + 1 \in 1..m
      BY <2>1
    <3>2. c[i] = a[i] /\ c[i + 1] = a[i + 1]
      BY <1>11, <3>1
    <3> QED
      BY <1>3, <3>1, <3>2
  <2>2. CASE i >= m
    <3>1. PICK j \in 1..n - 1 : i = m + j - 1
      <4>1. i - m + 1 \in 1..n - 1 /\ i = m + (i - m + 1) - 1
        BY <2>2
      <4> QED
        BY <4>1
    <3>2. j \in 1..n /\ j + 1 \in 1..n /\ i + 1 = m + (j + 1) - 1
      BY <3>1
    <3>3. c[i] = top + b[j] /\ c[i + 1] = top + b[j + 1]
      BY <1>12, <3>1, <3>2
    <3>4. b[j] \in Nat /\ b[j + 1] \in {b[j] - 1, b[j] + 1}
      BY <1>4, <1>5, <3>2
    <3> QED
      BY <3>3, <3>4
  <2> QED
    BY <2>1, <2>2
<1>14. c[1] = 0 /\ Len(c) > 0 /\ Last(c) = top + b[n]
  <2>1. 1 \in 1..m /\ n \in 1..n /\ m + (n - 1) = m + n - 1 /\ m + (n - 1) > 0
    OBVIOUS
  <2>2. c[1] = 0
    BY <1>1, <1>11, <2>1
  <2>3. Last(c) = c[m + n - 1]
    BY <1>11, <2>1 DEF Last
  <2>4. c[m + n - 1] = top + b[n]
    BY <1>12, <2>1
  <2> QED
    BY <1>11, <2>1, <2>2, <2>3, <2>4
<1>15. Course(c)
  <2>1. Len(c) - 1 = m + (n - 1) - 1
    BY <1>11
  <2>2. \A i \in 1..Len(c) - 1 : c[i + 1] \in {c[i] - 1, c[i] + 1}
    BY <1>13, <2>1
  <2> QED
    BY <1>11, <1>14, <2>2, CourseIs
<1> QED
  BY <1>7, <1>10, <1>14, <1>15

\* A course above 0 goes on down.
LEMMA DownCourse ==
  ASSUME NEW a, Course(a), Last(a) > 0
  PROVE  Course(Down(a)) /\ Last(Down(a)) = Last(a) - 1
<1>1. PICK m \in Nat \ {0} : m = Len(a) /\ a \in Seq(Nat) /\ a[1] = 0
  BY CourseIs, LenProperties
<1>2. \A i \in 1..m - 1 : a[i + 1] \in {a[i] - 1, a[i] + 1}
  BY <1>1, CourseIs
<1>3. Last(a) = a[m] /\ a[m] \in Nat
  BY <1>1, ElementOfSeq DEF Last
<1>4. PICK x \in Nat : x = a[m] - 1
  BY <1>3
<1>5. PICK c : c = Down(a) /\ c = Append(a, x)
  BY <1>3, <1>4 DEF Down
<1>6. /\ c \in Seq(Nat) /\ Len(c) = m + 1 /\ c[m + 1] = x
      /\ \A i \in 1..m : c[i] = a[i]
  BY <1>1, <1>5, AppendProperties
<1>7. ASSUME NEW i \in 1..m PROVE c[i + 1] \in {c[i] - 1, c[i] + 1}
  <2>1. CASE i = m
    BY <1>4, <1>6, <2>1
  <2>2. CASE i # m
    <3>1. i \in 1..m - 1 /\ i + 1 \in 1..m
      BY <2>2
    <3> QED
      BY <1>2, <1>6, <3>1
  <2> QED
    BY <2>1, <2>2
<1>8. Len(c) - 1 = m /\ Len(c) > 0 /\ c[1] = 0 /\ Last(c) = x
  <2>1. 1 \in 1..m
    OBVIOUS
  <2> QED
    BY <1>1, <1>6, <2>1 DEF Last
<1>9. Course(c)
  BY <1>6, <1>7, <1>8, CourseIs
<1> QED
  BY <1>3, <1>4, <1>5, <1>8, <1>9

\* What every function of the reader leaves when it is called at token p of s: a
\* counter where it was, or one higher with a failure; after a success, a place
\* behind p.
Balanced(s, p, r) ==
  /\ r = [v |-> r.v, p |-> r.p, depth |-> r.depth, ok |-> r.ok]
  /\ Course(r.depth) /\ Last(r.depth) \in {0, 1}
  /\ r.ok => Last(r.depth) = 0 /\ r.p \in p + 1..Len(s) + 1

LEMMA DoneBalanced ==
  ASSUME NEW s, NEW p, NEW v, NEW q \in p + 1..Len(s) + 1
  PROVE  Balanced(s, p, Done(v, q, << 0 >>))
BY FirstCourses DEF Balanced, Done

LEMMA FailedBalanced ==
  ASSUME NEW s, NEW p, NEW v, NEW q, NEW depth, Course(depth), Last(depth) \in {0, 1}
  PROVE  Balanced(s, p, Failed(v, q, depth))
BY DEF Balanced, Failed

\* A value around another, which begins behind it.
LEMMA WithinBalanced ==
  ASSUME NEW s, Len(s) \in Nat, NEW p \in Nat, NEW r,
         Balanced(s, p, r) \/ Balanced(s, p + 1, r)
  PROVE  Balanced(s, p, Within(r))
<1>1. PICK c : c = Then(Up, r.depth)
  OBVIOUS
<1>2. Course(r.depth) /\ Last(r.depth) \in {0, 1}
  BY DEF Balanced
<1>3. Course(c) /\ Last(c) = 1 + Last(r.depth)
  BY <1>1, <1>2, FirstCourses, ThenCourse
<1>4. Course(Down(c)) /\ Last(Down(c)) = Last(r.depth)
  BY <1>2, <1>3, DownCourse
<1>5. Within(r) = [v |-> r.v, p |-> r.p, depth |-> Down(c), ok |-> r.ok]
  BY <1>1 DEF Within, Balanced
<1>6. r.ok => Last(r.depth) = 0 /\ r.p \in p + 1..Len(s) + 1
  BY DEF Balanced
<1> QED
  BY <1>2, <1>4, <1>5, <1>6 DEF Balanced

\* What is read on from r behind a comma.
LEMMA RestBalanced ==
  ASSUME NEW s, Len(s) \in Nat, NEW p \in Nat, NEW r, NEW rest, NEW v,
         Balanced(s, p, r), r.ok, Balanced(s, r.p + 1, rest)
  PROVE  Balanced(s, p, [rest EXCEPT !.v = v, !.depth = Then(r.depth, @)])
<1>1. /\ Course(r.depth) /\ Last(r.depth) = 0 /\ r.p \in p + 1..Len(s) + 1
      /\ Course(rest.depth) /\ Last(rest.depth) \in {0, 1}
  BY DEF Balanced
<1>2. PICK c : c = Then(r.depth, rest.depth)
  OBVIOUS
<1>3. Course(c) /\ Last(c) = Last(rest.depth)
  BY <1>1, <1>2, ThenCourse
<1>4. [rest EXCEPT !.v = v, !.depth = Then(r.depth, @)]
        = [v |-> v, p |-> rest.p, depth |-> c, ok |-> rest.ok]
  <2>1. PICK w, q, d, k : rest = [v |-> w, p |-> q, depth |-> d, ok |-> k]
    BY DEF Balanced
  <2>2. PICK e : e = Then(r.depth, rest.depth)
    OBVIOUS
  <2>3. [rest EXCEPT !.v = v, !.depth = e] = [v |-> v, p |-> q, depth |-> e, ok |-> k]
    <3>1. PICK x : x = [rest EXCEPT !.v = v]
      OBVIOUS
    <3>2. x = [v |-> v, p |-> q, depth |-> d, ok |-> k]
      BY <2>1, <3>1
    <3>3. [x EXCEPT !.depth = e] = [v |-> v, p |-> q, depth |-> e, ok |-> k]
      BY <3>2
    <3> QED
      BY <3>1, <3>3, Zenon
  <2>4. rest.p = q /\ rest.ok = k /\ e = c
    BY <1>2, <2>1, <2>2
  <2> QED
    BY <2>2, <2>3, <2>4
<1>5. rest.ok => Last(rest.depth) = 0 /\ rest.p \in p + 1..Len(s) + 1
  BY <1>1 DEF Balanced
<1> QED
  BY <1>1, <1>3, <1>4, <1>5 DEF Balanced

-----------------------------------------------------------------------------
(* What the functions of the reader leave, and that their recursion ends.   *)

\* A token that is not the end is one of the text.
LEMMA TokenOf ==
  ASSUME NEW s, Len(s) \in Nat, NEW p \in Nat, Kind(s, p) # "end"
  PROVE  p <= Len(s)
BY DEF Kind

\* What the calls further on leave.
BalancedBehind(s, f, p) ==
  \A w \in {"object", "member", "array"}, q \in p + 1..Len(s) + 1 :
    Balanced(s, q, f[<<w, q>>])

\* f and g are the same further on.
AgreeBehind(s, f, g, p) ==
  \A w \in {"object", "member", "array"}, q \in p + 1..Len(s) + 1 :
    f[<<w, q>>] = g[<<w, q>>]

LEMMA ValueBalanced ==
  ASSUME NEW s, Len(s) \in Nat, NEW p \in 1..Len(s) + 1, NEW f, BalancedBehind(s, f, p)
  PROVE  Balanced(s, p, ReadValue(s, f, p))
<1>1. PICK k : k = Kind(s, p)
  OBVIOUS
<1>2. ASSUME k # "end" PROVE p + 1 \in p + 1..Len(s) + 1
  BY <1>1, <1>2, TokenOf
<1>3. p \in Nat
  OBVIOUS
<1>4. ASSUME k = "{" PROVE Balanced(s, p, ReadValue(s, f, p))
  <2>1. k # "end"
    BY <1>4, Zenon
  <2>2. Balanced(s, p + 1, f[<<"object", p + 1>>])
    BY <1>2, <2>1 DEF BalancedBehind
  <2>3. ReadValue(s, f, p) = Within(f[<<"object", p + 1>>])
    BY <1>1, <1>4, Zenon DEF ReadValue
  <2> QED
    BY <1>3, <2>2, <2>3, WithinBalanced
<1>5. ASSUME k = "[" PROVE Balanced(s, p, ReadValue(s, f, p))
  <2>1. PICK ends : ends = (p < Len(s) /\ s[p + 1].t \in {"]", "behind"})
    OBVIOUS
  <2>2. CASE ends
    <3>1. p < Len(s)
      BY <2>1, <2>2, Zenon
    <3>2. p + 2 \in p + 1..Len(s) + 1
      BY <3>1
    <3>3. ReadValue(s, f, p) = Within(Done(Array(<< >>), p + 2, << 0 >>))
      BY <1>1, <1>5, <2>1, <2>2, Zenon DEF ReadValue
    <3> QED
      BY <1>3, <3>2, <3>3, DoneBalanced, WithinBalanced
  <2>3. CASE ~ends
    <3>1. k # "end"
      BY <1>5, Zenon
    <3>2. Balanced(s, p + 1, f[<<"array", p + 1>>])
      BY <1>2, <3>1 DEF BalancedBehind
    <3>3. ReadValue(s, f, p) = Within(f[<<"array", p + 1>>])
      BY <1>1, <1>5, <2>1, <2>3, Zenon DEF ReadValue
    <3> QED
      BY <1>3, <3>2, <3>3, WithinBalanced
  <2> QED
    BY <2>2, <2>3
<1>6. ASSUME k \in {"number", "string", "true", "false", "null"}
      PROVE  Balanced(s, p, ReadValue(s, f, p))
  <2>1. ReadValue(s, f, p) = Within(Done(Scalar(s[p]), p + 1, << 0 >>))
    BY <1>1, <1>6, Zenon DEF ReadValue
  <2>2. p + 1 \in p + 1..Len(s) + 1
    BY <1>2, <1>6
  <2> QED
    BY <1>3, <2>1, <2>2, DoneBalanced, WithinBalanced
<1>7. ASSUME k = "escape" PROVE Balanced(s, p, ReadValue(s, f, p))
  <2>1. ReadValue(s, f, p) = Within(Failed(Null, p + 1, << 0 >>))
    BY <1>1, <1>7, Zenon DEF ReadValue
  <2> QED
    BY <1>3, <2>1, FirstCourses, FailedBalanced, WithinBalanced
<1>8. ASSUME k \notin {"{", "[", "number", "string", "true", "false", "null", "escape"}
      PROVE  Balanced(s, p, ReadValue(s, f, p))
  <2>1. ReadValue(s, f, p) = Failed(Null, p + 1, Up)
    BY <1>1, <1>8, Zenon DEF ReadValue
  <2> QED
    BY <2>1, FirstCourses, FailedBalanced
<1> QED
  BY <1>4, <1>5, <1>6, <1>7, <1>8, Zenon

LEMMA ValueAgrees ==
  ASSUME NEW s, Len(s) \in Nat, NEW p \in 1..Len(s) + 1, NEW f, NEW g,
         AgreeBehind(s, f, g, p)
  PROVE  ReadValue(s, f, p) = ReadValue(s, g, p)
<1>1. PICK k : k = Kind(s, p)
  OBVIOUS
<1>2. CASE k \in {"{", "["}
  <2>0. k # "end"
    BY <1>2, Zenon
  <2>1. p + 1 \in p + 1..Len(s) + 1
    BY <1>1, <2>0, TokenOf
  <2>2. /\ f[<<"object", p + 1>>] = g[<<"object", p + 1>>]
        /\ f[<<"array", p + 1>>] = g[<<"array", p + 1>>]
    BY <2>1 DEF AgreeBehind
  <2> QED
    BY <1>1, <1>2, <2>2, Zenon DEF ReadValue
<1>3. CASE k \notin {"{", "["}
  BY <1>1, <1>3, Zenon DEF ReadValue
<1> QED
  BY <1>2, <1>3, Zenon

\* What is read from behind p is read with the calls behind it.
LEMMA Further ==
  ASSUME NEW s, Len(s) \in Nat, NEW p \in Nat, NEW q \in Nat, p <= q, NEW f, NEW g
  PROVE  /\ BalancedBehind(s, f, p) => BalancedBehind(s, f, q)
         /\ AgreeBehind(s, f, g, p) => AgreeBehind(s, f, g, q)
<1>1. \A i \in q + 1..Len(s) + 1 : i \in p + 1..Len(s) + 1
  OBVIOUS
<1> QED
  BY <1>1, Zenon DEF BalancedBehind, AgreeBehind

\* A value read behind p is one that p may have read.
LEMMA Nearer ==
  ASSUME NEW s, Len(s) \in Nat, NEW p \in Nat, NEW q \in Nat, p <= q, NEW r,
         Balanced(s, q, r)
  PROVE  Balanced(s, p, r)
BY DEF Balanced

LEMMA ObjectBalanced ==
  ASSUME NEW s, Len(s) \in Nat, NEW p \in 1..Len(s) + 1, NEW f, BalancedBehind(s, f, p),
         NEW w
  PROVE  Balanced(s, p, ReadObject(s, f, w, p))
<1>1. PICK r : r = ReadValue(s, f, p + 2)
  OBVIOUS
<1>2. PICK k : k = Kind(s, p)
  OBVIOUS
<1>3. PICK k1 : k1 = Kind(s, p + 1)
  OBVIOUS
<1>4. PICK k2 : k2 = Kind(s, r.p)
  OBVIOUS
<1>5. p \in Nat
  OBVIOUS
<1>6. ASSUME NEW of, NEW q, NEW depth, Course(depth), Last(depth) \in {0, 1}
      PROVE  Balanced(s, p, Failed(Object(of), Recovered(s, q, "}"), depth))
  <2>1. \A j : Balanced(s, p, Failed(Object(of), j, depth))
    BY <1>6, FailedBalanced
  <2> QED
    BY <2>1, Zenon
<1>7. ASSUME k = "}", w = "object" PROVE Balanced(s, p, ReadObject(s, f, w, p))
  <2>1. ReadObject(s, f, w, p) = Done(Object(<< >>), p + 1, << 0 >>)
    BY <1>2, <1>7, Zenon DEF ReadObject
  <2>2. k # "end"
    BY <1>7, Zenon
  <2>3. p + 1 \in p + 1..Len(s) + 1
    BY <1>2, <1>5, <2>2, TokenOf
  <2> QED
    BY <2>1, <2>3, DoneBalanced
<1>8. ASSUME ~(k = "}" /\ w = "object"), k # "string" \/ k1 # ":"
      PROVE  Balanced(s, p, ReadObject(s, f, w, p))
  <2>1. \E q : ReadObject(s, f, w, p)
                  = Failed(Object(<< >>), Recovered(s, q, "}"), << 0 >>)
    BY <1>2, <1>3, <1>8, Zenon DEF ReadObject
  <2> QED
    BY <1>6, <2>1, FirstCourses
<1>9. ASSUME k = "string", k1 = ":" PROVE Balanced(s, p, ReadObject(s, f, w, p))
  <2>1. k1 # "end"
    BY <1>9, Zenon
  <2>2. p + 2 \in 1..Len(s) + 1
    BY <1>3, <1>5, <2>1, TokenOf
  <2>3. Balanced(s, p + 2, r)
    BY <1>1, <1>5, <2>2, Further, ValueBalanced
  <2>4. Balanced(s, p, r)
    BY <1>5, <2>3, Nearer
  <2>5. Course(r.depth) /\ Last(r.depth) \in {0, 1}
    BY <2>4 DEF Balanced
  <2>6. PICK this : this = s[p].s :> r.v
    OBVIOUS
  <2>7. ASSUME ~(r.ok /\ k2 \in {"}", ","}) PROVE Balanced(s, p, ReadObject(s, f, w, p))
    <3>1. \E q : ReadObject(s, f, w, p)
                    = Failed(Object(this), Recovered(s, q, "}"), r.depth)
      BY <1>1, <1>2, <1>3, <1>4, <1>9, <2>6, <2>7, Zenon DEF ReadObject
    <3> QED
      BY <1>6, <2>5, <3>1
  <2>8. ASSUME r.ok PROVE Last(r.depth) = 0 /\ r.p \in p + 3..Len(s) + 1 /\ r.p \in Nat
    BY <1>5, <2>3, <2>8 DEF Balanced
  <2>9. ASSUME r.ok, k2 # "end" PROVE r.p + 1 \in p + 1..Len(s) + 1
    <3>1. PICK n \in Nat : n = r.p /\ n \in p + 3..Len(s) + 1
      BY <2>8, <2>9
    <3>2. n <= Len(s)
      BY <1>4, <2>9, <3>1, TokenOf
    <3> QED
      BY <1>5, <3>1, <3>2
  <2>10. ASSUME r.ok, k2 = "}" PROVE Balanced(s, p, ReadObject(s, f, w, p))
    <3>1. ReadObject(s, f, w, p) = Done(Object(this), r.p + 1, r.depth)
      BY <1>1, <1>2, <1>3, <1>4, <1>9, <2>6, <2>10, Zenon DEF ReadObject
    <3>2. k2 # "end"
      BY <2>10, Zenon
    <3>3. PICK q : q = r.p + 1 /\ q \in p + 1..Len(s) + 1
      BY <2>9, <2>10, <3>2, Zenon
    <3>4. Last(r.depth) = 0
      BY <2>8, <2>10, Zenon
    <3> QED
      BY <2>5, <3>1, <3>3, <3>4 DEF Balanced, Done
  <2>11. ASSUME r.ok, k2 = "," PROVE Balanced(s, p, ReadObject(s, f, w, p))
    <3>1. PICK m \in {"object", "member"} :
            m = IF s[p].s = "" THEN "object" ELSE "member"
      BY Zenon
    <3>2. PICK rest : rest = f[<<m, r.p + 1>>]
      OBVIOUS
    <3>3. ReadObject(s, f, w, p)
            = [rest EXCEPT !.v = Object(@.of @@ this), !.depth = Then(r.depth, @)]
      BY <1>1, <1>2, <1>3, <1>4, <1>9, <2>6, <2>11, <3>1, <3>2, Zenon DEF ReadObject
    <3>4. k2 # "end"
      BY <2>11, Zenon
    <3>5. r.p + 1 \in p + 1..Len(s) + 1
      BY <2>9, <2>11, <3>4, Zenon
    <3>6. Balanced(s, r.p + 1, rest)
      BY <3>1, <3>2, <3>5, Zenon DEF BalancedBehind
    <3>7. \A v : Balanced(s, p, [rest EXCEPT !.v = v, !.depth = Then(r.depth, @)])
      BY <1>5, <2>4, <2>11, <3>6, RestBalanced, Zenon
    <3> QED
      BY <3>3, <3>7, Zenon
  <2> QED
    BY <2>7, <2>10, <2>11, Zenon
<1> QED
  BY <1>7, <1>8, <1>9, Zenon

LEMMA ArrayBalanced ==
  ASSUME NEW s, Len(s) \in Nat, NEW p \in 1..Len(s) + 1, NEW f, BalancedBehind(s, f, p)
  PROVE  Balanced(s, p, ReadArray(s, f, p))
<1>1. PICK r : r = ReadValue(s, f, p)
  OBVIOUS
<1>2. PICK k : k = Kind(s, r.p)
  OBVIOUS
<1>3. Balanced(s, p, r)
  BY <1>1, ValueBalanced
<1>4. Course(r.depth) /\ Last(r.depth) \in {0, 1}
  BY <1>3 DEF Balanced
<1>5. p \in Nat
  OBVIOUS
<1>6. ASSUME ~(r.ok /\ k \in {"]", ","}) PROVE Balanced(s, p, ReadArray(s, f, p))
  <2>1. \E q : ReadArray(s, f, p) = Failed(Array(<<r.v>>), q, r.depth)
    BY <1>1, <1>2, <1>6, Zenon DEF ReadArray
  <2> QED
    BY <1>4, <2>1, FailedBalanced
<1>7. ASSUME r.ok, k # "end"
      PROVE  Last(r.depth) = 0 /\ r.p + 1 \in p + 1..Len(s) + 1
  <2>1. PICK n \in Nat : n = r.p /\ n \in p + 1..Len(s) + 1
    BY <1>3, <1>5, <1>7 DEF Balanced
  <2>2. n <= Len(s)
    BY <1>2, <1>7, <2>1, TokenOf
  <2> QED
    BY <1>3, <1>5, <1>7, <2>1, <2>2 DEF Balanced
<1>8. ASSUME r.ok, k = "]" PROVE Balanced(s, p, ReadArray(s, f, p))
  <2>1. ReadArray(s, f, p) = Done(Array(<<r.v>>), r.p + 1, r.depth)
    BY <1>1, <1>2, <1>8, Zenon DEF ReadArray
  <2>2. k # "end"
    BY <1>8, Zenon
  <2>3. PICK q : q = r.p + 1 /\ q \in p + 1..Len(s) + 1 /\ Last(r.depth) = 0
    BY <1>7, <1>8, <2>2, Zenon
  <2> QED
    BY <1>4, <2>1, <2>3 DEF Balanced, Done
<1>9. ASSUME r.ok, k = "," PROVE Balanced(s, p, ReadArray(s, f, p))
  <2>1. PICK rest : rest = f[<<"array", r.p + 1>>]
    OBVIOUS
  <2>2. ReadArray(s, f, p)
          = [rest EXCEPT !.v = Array(<<r.v>> \o @.at), !.depth = Then(r.depth, @)]
    BY <1>1, <1>2, <1>9, <2>1, Zenon DEF ReadArray
  <2>3. k # "end"
    BY <1>9, Zenon
  <2>4. r.p + 1 \in p + 1..Len(s) + 1
    BY <1>7, <1>9, <2>3, Zenon
  <2>5. Balanced(s, r.p + 1, rest)
    BY <2>1, <2>4, Zenon DEF BalancedBehind
  <2>6. \A v : Balanced(s, p, [rest EXCEPT !.v = v, !.depth = Then(r.depth, @)])
    BY <1>3, <1>5, <1>9, <2>5, RestBalanced, Zenon
  <2> QED
    BY <2>2, <2>6, Zenon
<1> QED
  BY <1>6, <1>8, <1>9, Zenon

\* What is called at p, when the calls behind it are balanced.
LEMMA CalledBalanced ==
  ASSUME NEW s, Len(s) \in Nat, NEW p \in 1..Len(s) + 1, NEW f, BalancedBehind(s, f, p),
         NEW w
  PROVE  Balanced(s, p, Called(s, f, w, p))
BY ObjectBalanced, ArrayBalanced, Zenon DEF Called

\* What is called at p depends only on the calls behind it.
LEMMA CalledAgrees ==
  ASSUME NEW s, Len(s) \in Nat, NEW p \in 1..Len(s) + 1, NEW f, NEW g, NEW w,
         BalancedBehind(s, f, p), AgreeBehind(s, f, g, p)
  PROVE  Called(s, f, w, p) = Called(s, g, w, p)
<1>1. p \in Nat
  OBVIOUS
<1>2. ASSUME NEW q \in Nat, p <= q, NEW r, Balanced(s, q, r), r.ok, Kind(s, r.p) # "end"
      PROVE  \A m \in {"object", "member", "array"} : f[<<m, r.p + 1>>] = g[<<m, r.p + 1>>]
  <2>1. PICK n \in Nat : n = r.p /\ n \in q + 1..Len(s) + 1
    BY <1>2 DEF Balanced
  <2>2. n <= Len(s)
    BY <1>2, <2>1, TokenOf
  <2>3. r.p + 1 \in p + 1..Len(s) + 1
    BY <1>1, <1>2, <2>1, <2>2
  <2> QED
    BY <2>3, Zenon DEF AgreeBehind
<1>3. ReadArray(s, f, p) = ReadArray(s, g, p)
  <2>1. PICK r : r = ReadValue(s, f, p) /\ r = ReadValue(s, g, p)
    BY ValueAgrees
  <2>2. Balanced(s, p, r)
    BY <2>1, ValueBalanced
  <2>3. PICK k : k = Kind(s, r.p)
    OBVIOUS
  <2>4. ASSUME r.ok, k = "," PROVE f[<<"array", r.p + 1>>] = g[<<"array", r.p + 1>>]
    <3>1. k # "end"
      BY <2>4, Zenon
    <3>2. p <= p
      BY <1>1
    <3>3. \A m \in {"object", "member", "array"} : f[<<m, r.p + 1>>] = g[<<m, r.p + 1>>]
      BY <1>1, <1>2, <2>2, <2>3, <2>4, <3>1, <3>2, Zenon
    <3> QED
      BY <3>3, Zenon
  <2>5. CASE r.ok /\ k = ","
    BY <2>1, <2>4, <2>5, Zenon DEF ReadArray
  <2>6. CASE ~(r.ok /\ k = ",")
    BY <2>1, <2>3, <2>6, Zenon DEF ReadArray
  <2> QED
    BY <2>5, <2>6, Zenon
<1>4. ReadObject(s, f, w, p) = ReadObject(s, g, w, p)
  <2>1. CASE Kind(s, p + 1) = ":"
    <3>1. PICK k1 : k1 = Kind(s, p + 1) /\ k1 # "end"
      BY <2>1, Zenon
    <3>2. p + 2 \in 1..Len(s) + 1 /\ p + 2 \in Nat /\ p <= p + 2
      BY <1>1, <3>1, TokenOf
    <3>3. AgreeBehind(s, f, g, p + 2) /\ BalancedBehind(s, f, p + 2)
      BY <1>1, <3>2, Further
    <3>4. PICK r : r = ReadValue(s, f, p + 2) /\ r = ReadValue(s, g, p + 2)
      BY <3>2, <3>3, ValueAgrees
    <3>5. Balanced(s, p + 2, r)
      BY <3>2, <3>3, <3>4, ValueBalanced
    <3>6. PICK k : k = Kind(s, r.p)
      OBVIOUS
    <3>7. PICK m \in {"object", "member"} :
            m = IF s[p].s = "" THEN "object" ELSE "member"
      BY Zenon
    <3>8. ASSUME r.ok, k = "," PROVE f[<<m, r.p + 1>>] = g[<<m, r.p + 1>>]
      <4>1. k # "end"
        BY <3>8, Zenon
      <4>2. \A j \in {"object", "member", "array"} : f[<<j, r.p + 1>>] = g[<<j, r.p + 1>>]
        BY <1>2, <3>2, <3>5, <3>6, <3>8, <4>1
      <4>3. m \in {"object", "member", "array"}
        BY <3>7, Zenon
      <4> QED
        BY <4>2, <4>3, Zenon
    <3>9. CASE r.ok /\ k = ","
      BY <3>4, <3>7, <3>8, <3>9, Zenon DEF ReadObject
    <3>10. CASE ~(r.ok /\ k = ",")
      BY <3>4, <3>6, <3>10, Zenon DEF ReadObject
    <3> QED
      BY <3>9, <3>10, Zenon
  <2>2. CASE Kind(s, p + 1) # ":"
    BY <2>2, Zenon DEF ReadObject
  <2> QED
    BY <2>1, <2>2, Zenon
<1> QED
  BY <1>3, <1>4, Zenon DEF Called

\* f is what Parse recurs on.
Recurs(s, f) == f = [c \in Calls(s) |-> Called(s, f, c[1], c[2])]

LEMMA Recursive ==
  ASSUME NEW s, Len(s) \in Nat
  PROVE  /\ \E f : Recurs(s, f)
         /\ \A f : Recurs(s, f) => BalancedBehind(s, f, 0)
<1> DEFINE W == {"object", "member", "array"}
<1>1. PICK n \in Nat : n = Len(s)
  OBVIOUS
<1>2. Calls(s) = W \X (1..n + 1)
  BY <1>1 DEF Calls
<1> HIDE DEF W
\* The last i places, and all in the end.
<1>3. \E f : Recurs(s, f)
  <2> DEFINE Upto(i, f) ==
               /\ f = [c \in Calls(s) |-> f[c]]
               /\ \A w \in W, q \in 1..n + 1 : n + 1 < q + i =>
                    f[<<w, q>>] = Called(s, f, w, q) /\ Balanced(s, q, f[<<w, q>>])
             S == {i \in Nat : \E f : Upto(i, f)}
  <2>1. 0 \in S
    <3>1. PICK f : f = [c \in Calls(s) |-> c]
      OBVIOUS
    <3>2. f = [c \in Calls(s) |-> f[c]]
      BY <3>1
    <3>3. \A q \in 1..n + 1 : ~(n + 1 < q + 0)
      OBVIOUS
    <3>4. Upto(0, f)
      BY <3>2, <3>3, Zenon
    <3> QED
      BY <3>4
  <2>2. ASSUME NEW i \in Nat, i \in S PROVE i + 1 \in S
    <3>1. PICK f : Upto(i, f)
      BY <2>2
    <3>2. PICK g : g = [c \in Calls(s) |-> Called(s, f, c[1], c[2])]
      OBVIOUS
    <3>3. ASSUME NEW w \in W, NEW q \in 1..n + 1
          PROVE  g[<<w, q>>] = Called(s, f, w, q)
      <4>1. <<w, q>> \in Calls(s) /\ <<w, q>>[1] = w /\ <<w, q>>[2] = q
        BY <1>2
      <4> QED
        BY <3>2, <4>1
    <3>4. g = [c \in Calls(s) |-> g[c]]
      BY <3>2
    <3>5. ASSUME NEW w \in W, NEW q \in 1..n + 1, n + 1 < q + (i + 1)
          PROVE  g[<<w, q>>] = Called(s, g, w, q) /\ Balanced(s, q, g[<<w, q>>])
      <4>1. \A j \in q + 1..n + 1 : j \in 1..n + 1 /\ n + 1 < j + i
        BY <3>5
      <4>2. BalancedBehind(s, f, q)
        BY <1>1, <3>1, <4>1, Zenon DEF BalancedBehind, W
      <4>3. AgreeBehind(s, f, g, q)
        <5>1. ASSUME NEW m \in W, NEW j \in q + 1..n + 1 PROVE f[<<m, j>>] = g[<<m, j>>]
          <6>1. f[<<m, j>>] = Called(s, f, m, j)
            BY <3>1, <4>1, Zenon
          <6>2. g[<<m, j>>] = Called(s, f, m, j)
            BY <3>3, <4>1, Zenon
          <6> QED
            BY <6>1, <6>2, Zenon
        <5> QED
          BY <1>1, <5>1, Zenon DEF AgreeBehind, W
      <4>4. q \in 1..Len(s) + 1
        BY <1>1
      <4>5. Called(s, f, w, q) = Called(s, g, w, q)
        BY <4>2, <4>3, <4>4, CalledAgrees
      <4>6. Balanced(s, q, Called(s, f, w, q))
        BY <4>2, <4>4, CalledBalanced
      <4> QED
        BY <3>3, <4>5, <4>6, Zenon
    <3>6. Upto(i + 1, g)
      BY <3>4, <3>5, Zenon
    <3> QED
      BY <3>6
  <2>3. n + 1 \in S
    <3> HIDE DEF S
    <3> QED
      BY <2>1, <2>2, SetInduction
  <2>4. PICK f : Upto(n + 1, f)
    BY <2>3
  <2>5. ASSUME NEW c \in Calls(s) PROVE f[c] = Called(s, f, c[1], c[2])
    <3>1. PICK w \in W, q \in 1..n + 1 : c = <<w, q>> /\ c[1] = w /\ c[2] = q
      BY <1>2
    <3>2. n + 1 < q + (n + 1)
      OBVIOUS
    <3> QED
      BY <2>4, <3>1, <3>2, Zenon
  <2>6. f = [c \in Calls(s) |-> Called(s, f, c[1], c[2])]
    BY <2>4, <2>5
  <2> QED
    BY <2>6 DEF Recurs
<1>4. ASSUME NEW f, Recurs(s, f) PROVE BalancedBehind(s, f, 0)
  <2> DEFINE Upto(i) == \A w \in W, q \in 1..n + 1 : n + 1 < q + i =>
                          Balanced(s, q, f[<<w, q>>])
             S == {i \in Nat : Upto(i)}
  <2>1. ASSUME NEW w \in W, NEW q \in 1..n + 1
        PROVE  f[<<w, q>>] = Called(s, f, w, q)
    <3>1. <<w, q>> \in Calls(s) /\ <<w, q>>[1] = w /\ <<w, q>>[2] = q
      BY <1>2
    <3> QED
      BY <1>4, <3>1 DEF Recurs
  <2>2. 0 \in S
    <3>1. \A q \in 1..n + 1 : ~(n + 1 < q + 0)
      OBVIOUS
    <3> QED
      BY <3>1
  <2>3. ASSUME NEW i \in Nat, i \in S PROVE i + 1 \in S
    <3>1. ASSUME NEW w \in W, NEW q \in 1..n + 1, n + 1 < q + (i + 1)
          PROVE  Balanced(s, q, f[<<w, q>>])
      <4>1. \A j \in q + 1..n + 1 : j \in 1..n + 1 /\ n + 1 < j + i
        BY <3>1
      <4>2. Upto(i)
        BY <2>3
      <4>3. BalancedBehind(s, f, q)
        BY <1>1, <4>1, <4>2, Zenon DEF BalancedBehind, W
      <4>4. q \in 1..Len(s) + 1
        BY <1>1
      <4>5. Balanced(s, q, Called(s, f, w, q))
        BY <4>3, <4>4, CalledBalanced
      <4> QED
        BY <2>1, <4>5, Zenon
    <3> QED
      BY <3>1
  <2>4. n + 1 \in S
    <3> HIDE DEF S
    <3> QED
      BY <2>2, <2>3, SetInduction
  <2>5. \A q \in 0 + 1..n + 1 : q \in 1..n + 1 /\ n + 1 < q + (n + 1)
    OBVIOUS
  <2>6. Upto(n + 1)
    BY <2>4
  <2> QED
    BY <1>1, <2>5, <2>6, Zenon DEF BalancedBehind, W
<1> QED
  BY <1>3, <1>4, Zenon

\* Whatever the text: the reader ends, it takes the counter up and down by one and
\* never below where it was, and leaves it where it was or, having refused the
\* text, one higher.
THEOREM ParseBalanced ==
  ASSUME NEW s, Len(s) \in Nat
  PROVE  Balanced(s, 1, Parse(s))
<1>1. PICK f : f = CHOOSE read : Recurs(s, read)
  OBVIOUS
<1>2. Recurs(s, f)
  BY <1>1, Recursive, Zenon
<1>3. Parse(s) = ReadValue(s, f, 1)
  BY <1>1, Zenon DEF Parse, Recurs
<1>4. BalancedBehind(s, f, 0) /\ 1 \in 1..Len(s) + 1
  BY <1>2, Recursive
<1>5. BalancedBehind(s, f, 1)
  BY <1>4, Further
<1> QED
  BY <1>3, <1>4, <1>5, ValueBalanced

-----------------------------------------------------------------------------
(* What a text of the grammar is read as.                                   *)

\* A function of the reader has succeeded, with v, up to token q.
ReadsAs(r, v, q) == \E depth : r = Done(v, q, depth)

LEMMA WithinReads ==
  ASSUME NEW r, NEW v, NEW q, ReadsAs(r, v, q)
  PROVE  ReadsAs(Within(r), v, q)
<1>1. PICK d, k : r = [v |-> v, p |-> q, depth |-> d, ok |-> k] /\ k = TRUE
  BY DEF ReadsAs, Done
<1>2. PICK e : e = Down(Then(Up, r.depth))
  OBVIOUS
<1>3. [r EXCEPT !.depth = e] = [v |-> v, p |-> q, depth |-> e, ok |-> k]
  <2>1. r = [v |-> v, p |-> q, depth |-> d, ok |-> k]
    BY <1>1, Zenon
  <2> QED
    BY <2>1
<1>4. Within(r) = Done(v, q, e)
  BY <1>1, <1>2, <1>3, Zenon DEF Within, Done
<1> QED
  BY <1>4, Zenon DEF ReadsAs

LEMMA RestReads ==
  ASSUME NEW rest, NEW v, NEW q, ReadsAs(rest, v, q), NEW x, NEW depth
  PROVE  ReadsAs([rest EXCEPT !.v = x, !.depth = Then(depth, @)], x, q)
<1>1. PICK d, k : rest = [v |-> v, p |-> q, depth |-> d, ok |-> k] /\ k = TRUE
  BY DEF ReadsAs, Done
<1>2. PICK e : e = Then(depth, rest.depth)
  OBVIOUS
<1>3. PICK y : y = [rest EXCEPT !.v = x]
  OBVIOUS
<1>4. y = [v |-> x, p |-> q, depth |-> d, ok |-> k]
  BY <1>1, <1>3
<1>5. [y EXCEPT !.depth = e] = [v |-> x, p |-> q, depth |-> e, ok |-> k]
  BY <1>4
<1>6. [rest EXCEPT !.v = x, !.depth = e] = Done(x, q, e)
  BY <1>1, <1>3, <1>5, Zenon DEF Done
<1> QED
  BY <1>2, <1>6, Zenon DEF ReadsAs

\* The calls at token p, and those behind it, read what D derives there.
DerivedAt(s, D, f, p) ==
  /\ Kind(s, p) = "}" => ReadsAs(f[<<"object", p>>], Object(<< >>), p + 1)
  /\ \A q :
    /\ \A v \in Found(D, "elements", p, q) : ReadsAs(f[<<"array", p>>], v, q)
    /\ \A v \in Found(D, "members", p, q), w \in {"object", "member"} :
         ReadsAs(f[<<w, p>>], v, q)
DerivedBehind(s, D, f, p) == \A q \in p + 1..Len(s) + 1 : DerivedAt(s, D, f, q)

\* What a row of a derivation is.
LEMMA RowIs ==
  ASSUME NEW s, NEW D, IsDerivation(s, D), NEW what, NEW p, NEW q,
         NEW v \in Found(D, what, p, q)
  PROVE  /\ p \in 1..Len(s) /\ q \in p + 1..Len(s) + 1
         /\ what = "value" => IsValue(s, D, p, q, v)
         /\ what = "elements" => IsElements(s, D, p, q, v)
         /\ what = "members" => IsMembers(s, D, p, q, v)
<1>1. PICK d \in D : d.what = what /\ d.p = p /\ d.q = q /\ d.v = v
  BY Zenon DEF Found
<1> QED
  BY <1>1, Zenon DEF IsDerivation

\* An array with elements does not begin as an empty one, nor where the text ends.
LEMMA NotEmpty ==
  ASSUME NEW s, NEW D, IsDerivation(s, D), NEW p, NEW q, NEW v \in Found(D, "elements", p, q)
  PROVE  s[p].t \notin {"]", "behind"}
<1>1. PICK r, x : x \in Found(D, "value", p, r)
  BY RowIs, Zenon DEF IsElements
<1>2. IsValue(s, D, p, r, x)
  BY <1>1, RowIs, Zenon
<1>3. Kind(s, p) \in {"number", "string", "true", "false", "null", "[", "{"}
  BY <1>2, Zenon DEF IsValue
<1>4. s[p].t = "behind" => Kind(s, p) = "end"
  BY Zenon DEF Kind
<1>5. s[p].t = "]" => Kind(s, p) \in {"end", "]"}
  BY Zenon DEF Kind
<1> QED
  BY <1>3, <1>4, <1>5, Zenon

LEMMA ValueRead ==
  ASSUME NEW s, Len(s) \in Nat, NEW D, IsDerivation(s, D), NEW p, NEW q,
         NEW v \in Found(D, "value", p, q), NEW f, DerivedBehind(s, D, f, p)
  PROVE  ReadsAs(ReadValue(s, f, p), v, q)
<1>1. /\ p \in 1..Len(s) /\ q \in p + 1..Len(s) + 1
      /\ IsValue(s, D, p, q, v)
  BY RowIs, Zenon
<1>2. p + 1 \in p + 1..Len(s) + 1
  BY <1>1
<1>3. DerivedAt(s, D, f, p + 1)
  BY <1>2, Zenon DEF DerivedBehind
<1>4. CASE Kind(s, p) \in {"number", "string", "true", "false", "null"}
  <2>1. q = p + 1 /\ v = Scalar(s[p])
    BY <1>1, <1>4, Zenon DEF IsValue
  <2>2. ReadValue(s, f, p) = Within(Done(v, q, << 0 >>))
    BY <1>4, <2>1, Zenon DEF ReadValue
  <2> QED
    BY <2>2, WithinReads, Zenon DEF ReadsAs
<1>5. CASE Kind(s, p) = "["
  <2>1. PICK ends : ends = (p < Len(s) /\ s[p + 1].t \in {"]", "behind"})
    OBVIOUS
  <2>2. CASE Kind(s, p + 1) = "]" /\ q = p + 2 /\ v = Array(<< >>)
    <3>1. Kind(s, p + 1) # "end"
      BY <2>2, Zenon
    <3>2. p + 1 <= Len(s) /\ p < Len(s)
      BY <1>1, <3>1, TokenOf
    <3>3. s[p + 1].t = "]"
      BY <2>2, <3>1, Zenon DEF Kind
    <3>4. ReadValue(s, f, p) = Within(Done(v, q, << 0 >>))
      BY <1>5, <2>2, <3>2, <3>3, Zenon DEF ReadValue
    <3> QED
      BY <3>4, WithinReads, Zenon DEF ReadsAs
  <2>3. CASE v \in Found(D, "elements", p + 1, q)
    <3>1. ~ends
      BY <2>1, <2>3, NotEmpty, Zenon
    <3>2. ReadValue(s, f, p) = Within(f[<<"array", p + 1>>])
      BY <1>5, <2>1, <3>1, Zenon DEF ReadValue
    <3>3. ReadsAs(f[<<"array", p + 1>>], v, q)
      BY <1>3, <2>3, Zenon DEF DerivedAt
    <3> QED
      BY <3>2, <3>3, WithinReads, Zenon
  <2> QED
    BY <1>1, <1>5, <2>2, <2>3, Zenon DEF IsValue
<1>6. CASE Kind(s, p) = "{"
  <2>1. ReadValue(s, f, p) = Within(f[<<"object", p + 1>>])
    BY <1>6, Zenon DEF ReadValue
  <2>2. CASE v \in Found(D, "members", p + 1, q)
    <3>1. ReadsAs(f[<<"object", p + 1>>], v, q)
      BY <1>3, <2>2, Zenon DEF DerivedAt
    <3> QED
      BY <2>1, <3>1, WithinReads, Zenon
  <2>3. CASE Kind(s, p + 1) = "}" /\ q = p + 2 /\ v = Object(<< >>)
    <3>1. ReadsAs(f[<<"object", p + 1>>], v, p + 1 + 1)
      BY <1>3, <2>3, Zenon DEF DerivedAt
    <3>2. p + 1 + 1 = p + 2
      BY <1>1
    <3>3. ReadsAs(f[<<"object", p + 1>>], v, q)
      BY <2>3, <3>1, <3>2, Zenon
    <3> QED
      BY <2>1, <3>3, WithinReads, Zenon
  <2> QED
    BY <1>1, <1>6, <2>2, <2>3, Zenon DEF IsValue
<1> QED
  BY <1>1, <1>4, <1>5, <1>6, Zenon DEF IsValue

LEMMA ElementsRead ==
  ASSUME NEW s, Len(s) \in Nat, NEW D, IsDerivation(s, D), NEW p, NEW q,
         NEW v \in Found(D, "elements", p, q), NEW f, DerivedBehind(s, D, f, p)
  PROVE  ReadsAs(ReadArray(s, f, p), v, q)
<1>1. /\ p \in 1..Len(s) /\ q \in p + 1..Len(s) + 1
      /\ IsElements(s, D, p, q, v)
  BY RowIs, Zenon
<1>0. PICK m \in p + 1..q - 1 : \E x \in Found(D, "value", p, m) :
        \/ Kind(s, m) = "]" /\ q = m + 1 /\ v = Array(<<x>>)
        \/ /\ Kind(s, m) = ","
           /\ \E rest \in Found(D, "elements", m + 1, q) : v = Array(<<x>> \o rest.at)
  BY <1>1, Zenon DEF IsElements
<1>2. PICK x \in Found(D, "value", p, m) :
        \/ Kind(s, m) = "]" /\ q = m + 1 /\ v = Array(<<x>>)
        \/ /\ Kind(s, m) = ","
           /\ \E rest \in Found(D, "elements", m + 1, q) : v = Array(<<x>> \o rest.at)
  BY <1>0, Zenon
<1>3. ReadsAs(ReadValue(s, f, p), x, m)
  BY ValueRead
<1>4. PICK r : r = ReadValue(s, f, p)
  OBVIOUS
<1>5. r.ok /\ r.v = x /\ r.p = m
  BY <1>3, <1>4 DEF ReadsAs, Done
<1>6. CASE Kind(s, m) = "]" /\ q = m + 1 /\ v = Array(<<x>>)
  <2>1. ReadArray(s, f, p) = Done(v, q, r.depth)
    BY <1>4, <1>5, <1>6, Zenon DEF ReadArray
  <2> QED
    BY <2>1, Zenon DEF ReadsAs
<1>7. ASSUME Kind(s, m) = ",",
             NEW rest \in Found(D, "elements", m + 1, q), v = Array(<<x>> \o rest.at)
      PROVE  ReadsAs(ReadArray(s, f, p), v, q)
  <2>0. m \in p + 1..q - 1 /\ p \in 1..Len(s) /\ q \in p + 1..Len(s) + 1
    BY <1>0, <1>1, Zenon
  <2>1. m + 1 \in p + 1..Len(s) + 1
    BY <2>0
  <2>2. ReadsAs(f[<<"array", m + 1>>], rest, q)
    BY <1>7, <2>1, Zenon DEF DerivedBehind, DerivedAt
  <2>3. PICK g : g = f[<<"array", m + 1>>]
    OBVIOUS
  <2>4. g.v = rest
    BY <2>2, <2>3 DEF ReadsAs, Done
  <2>5. ReadArray(s, f, p) = [g EXCEPT !.v = Array(<<x>> \o @.at), !.depth = Then(r.depth, @)]
    BY <1>4, <1>5, <1>7, <2>3, Zenon DEF ReadArray
  <2>6. [g EXCEPT !.v = Array(<<x>> \o @.at), !.depth = Then(r.depth, @)]
          = [g EXCEPT !.v = v, !.depth = Then(r.depth, @)]
    BY <1>7, <2>4
  <2>7. ReadsAs([g EXCEPT !.v = v, !.depth = Then(r.depth, @)], v, q)
    BY <2>2, <2>3, RestReads, Zenon
  <2> QED
    BY <2>5, <2>6, <2>7, Zenon
<1> QED
  BY <1>2, <1>6, <1>7, Zenon

LEMMA MembersRead ==
  ASSUME NEW s, Len(s) \in Nat, NEW D, IsDerivation(s, D), NEW p, NEW q, NEW w,
         NEW v \in Found(D, "members", p, q), NEW f, DerivedBehind(s, D, f, p)
  PROVE  ReadsAs(ReadObject(s, f, w, p), v, q)
<1>1. /\ p \in 1..Len(s) /\ q \in p + 1..Len(s) + 1
      /\ IsMembers(s, D, p, q, v)
  BY RowIs, Zenon
<1>2. Kind(s, p) = "string" /\ Kind(s, p + 1) = ":"
  BY <1>1, Zenon DEF IsMembers
<1>0. PICK m \in p + 3..q - 1 : \E x \in Found(D, "value", p + 2, m) :
        \/ Kind(s, m) = "}" /\ q = m + 1 /\ v = Object(s[p].s :> x)
        \/ /\ Kind(s, m) = ","
           /\ \E rest \in Found(D, "members", m + 1, q) : v = Object(rest.of @@ (s[p].s :> x))
  BY <1>1, Zenon DEF IsMembers
<1>3. PICK x \in Found(D, "value", p + 2, m) :
        \/ Kind(s, m) = "}" /\ q = m + 1 /\ v = Object(s[p].s :> x)
        \/ /\ Kind(s, m) = ","
           /\ \E rest \in Found(D, "members", m + 1, q) : v = Object(rest.of @@ (s[p].s :> x))
  BY <1>0, Zenon
<1>4. \A i \in p + 2 + 1..Len(s) + 1 : i \in p + 1..Len(s) + 1
  BY <1>1
<1>5. DerivedBehind(s, D, f, p + 2)
  BY <1>4, Zenon DEF DerivedBehind
<1>6. ReadsAs(ReadValue(s, f, p + 2), x, m)
  BY <1>5, ValueRead
<1>7. PICK r : r = ReadValue(s, f, p + 2)
  OBVIOUS
<1>8. r.ok /\ r.v = x /\ r.p = m
  BY <1>6, <1>7 DEF ReadsAs, Done
<1>9. CASE Kind(s, m) = "}" /\ q = m + 1 /\ v = Object(s[p].s :> x)
  <2>1. ReadObject(s, f, w, p) = Done(v, q, r.depth)
    BY <1>2, <1>7, <1>8, <1>9, Zenon DEF ReadObject
  <2> QED
    BY <2>1, Zenon DEF ReadsAs
<1>10. ASSUME Kind(s, m) = ",",
              NEW rest \in Found(D, "members", m + 1, q),
              v = Object(rest.of @@ (s[p].s :> x))
       PROVE  ReadsAs(ReadObject(s, f, w, p), v, q)
  <2>0. m \in p + 3..q - 1 /\ p \in 1..Len(s) /\ q \in p + 1..Len(s) + 1
    BY <1>0, <1>1, Zenon
  <2>1. m + 1 \in p + 1..Len(s) + 1
    BY <2>0
  <2>2. PICK mode \in {"object", "member"} :
          mode = IF s[p].s = "" THEN "object" ELSE "member"
    BY Zenon
  <2>3. ReadsAs(f[<<mode, m + 1>>], rest, q)
    BY <1>10, <2>1, Zenon DEF DerivedBehind, DerivedAt
  <2>4. PICK g : g = f[<<mode, m + 1>>]
    OBVIOUS
  <2>5. g.v = rest
    BY <2>3, <2>4 DEF ReadsAs, Done
  <2>6. PICK this : this = s[p].s :> x
    OBVIOUS
  <2>7. ReadObject(s, f, w, p)
          = [g EXCEPT !.v = Object(@.of @@ this), !.depth = Then(r.depth, @)]
    BY <1>2, <1>7, <1>8, <1>10, <2>2, <2>4, <2>6, Zenon DEF ReadObject
  <2>8. [g EXCEPT !.v = Object(@.of @@ this), !.depth = Then(r.depth, @)]
          = [g EXCEPT !.v = v, !.depth = Then(r.depth, @)]
    BY <1>10, <2>5, <2>6
  <2>9. ReadsAs([g EXCEPT !.v = v, !.depth = Then(r.depth, @)], v, q)
    BY <2>3, <2>4, RestReads, Zenon
  <2> QED
    BY <2>7, <2>8, <2>9, Zenon
<1> QED
  BY <1>3, <1>9, <1>10, Zenon

\* What is called at p, when the calls behind it read what D derives.
LEMMA CalledReads ==
  ASSUME NEW s, Len(s) \in Nat, NEW D, IsDerivation(s, D), NEW p, NEW f, Recurs(s, f),
         p \in 1..Len(s) + 1, DerivedBehind(s, D, f, p)
  PROVE  DerivedAt(s, D, f, p)
<1>1. ASSUME NEW w \in {"object", "member", "array"}
      PROVE  f[<<w, p>>] = Called(s, f, w, p)
  <2>1. <<w, p>> \in Calls(s) /\ <<w, p>>[1] = w /\ <<w, p>>[2] = p
    BY DEF Calls
  <2> QED
    BY <2>1 DEF Recurs
<1>2. ASSUME Kind(s, p) = "}" PROVE ReadsAs(f[<<"object", p>>], Object(<< >>), p + 1)
  <2>1. f[<<"object", p>>] = ReadObject(s, f, "object", p)
    BY <1>1, Zenon DEF Called
  <2>2. ReadObject(s, f, "object", p) = Done(Object(<< >>), p + 1, << 0 >>)
    BY <1>2, Zenon DEF ReadObject
  <2> QED
    BY <2>1, <2>2, Zenon DEF ReadsAs
<1>3. ASSUME NEW q, NEW v \in Found(D, "elements", p, q)
      PROVE  ReadsAs(f[<<"array", p>>], v, q)
  <2>1. f[<<"array", p>>] = ReadArray(s, f, p)
    BY <1>1, Zenon DEF Called
  <2> QED
    BY <2>1, ElementsRead, Zenon
<1>4. ASSUME NEW q, NEW v \in Found(D, "members", p, q), NEW w \in {"object", "member"}
      PROVE  ReadsAs(f[<<w, p>>], v, q)
  <2>1. f[<<w, p>>] = ReadObject(s, f, w, p)
    BY <1>1, Zenon DEF Called
  <2> QED
    BY <2>1, MembersRead, Zenon
<1> QED
  BY <1>2, <1>3, <1>4, Zenon DEF DerivedAt

LEMMA CallsRead ==
  ASSUME NEW s, Len(s) \in Nat, NEW D, IsDerivation(s, D), NEW f, Recurs(s, f)
  PROVE  DerivedBehind(s, D, f, 0)
<1>1. PICK n \in Nat : n = Len(s)
  OBVIOUS
<1> DEFINE Upto(i) == \A q \in 1..n + 1 : n + 1 < q + i => DerivedAt(s, D, f, q)
           S == {i \in Nat : Upto(i)}
<1>2. 0 \in S
  <2>1. \A q \in 1..n + 1 : ~(n + 1 < q + 0)
    OBVIOUS
  <2> QED
    BY <2>1
<1>3. ASSUME NEW i \in Nat, i \in S PROVE i + 1 \in S
  <2>1. ASSUME NEW q \in 1..n + 1, n + 1 < q + (i + 1) PROVE DerivedAt(s, D, f, q)
    <3>1. \A j \in q + 1..n + 1 : j \in 1..n + 1 /\ n + 1 < j + i
      BY <2>1
    <3>2. DerivedBehind(s, D, f, q)
      BY <1>1, <1>3, <3>1, Zenon DEF DerivedBehind
    <3>3. q \in 1..Len(s) + 1
      BY <1>1
    <3> QED
      BY <3>2, <3>3, CalledReads
  <2> QED
    BY <2>1
<1>4. n + 1 \in S
  <2> HIDE DEF S
  <2> QED
    BY <1>2, <1>3, SetInduction
<1>5. \A q \in 0 + 1..n + 1 : q \in 1..n + 1 /\ n + 1 < q + (n + 1)
  OBVIOUS
<1>6. Upto(n + 1)
  BY <1>4
<1> QED
  BY <1>1, <1>5, <1>6, Zenon DEF DerivedBehind

\* Every text of JSON's grammar, however deep, long or with whatever names, is
\* accepted, read as the value that the grammar says it stands for, and to the
\* token behind it; the counter is back where it was.
THEOREM DerivedIsRead ==
  ASSUME NEW s, Len(s) \in Nat, NEW D, IsDerivation(s, D),
         NEW q, NEW v \in Found(D, "value", 1, q)
  PROVE  LET r == Parse(s) IN r.ok /\ r.v = v /\ r.p = q /\ Last(r.depth) = 0
<1>1. PICK f : f = CHOOSE read : Recurs(s, read)
  OBVIOUS
<1>2. Recurs(s, f)
  BY <1>1, Recursive, Zenon
<1>3. Parse(s) = ReadValue(s, f, 1)
  BY <1>1, Zenon DEF Parse, Recurs
<1>4. DerivedBehind(s, D, f, 1)
  <2>1. DerivedBehind(s, D, f, 0)
    BY <1>2, CallsRead
  <2>2. \A i \in 1 + 1..Len(s) + 1 : i \in 0 + 1..Len(s) + 1
    OBVIOUS
  <2> QED
    BY <2>1, <2>2, Zenon DEF DerivedBehind
<1>5. ReadsAs(Parse(s), v, q)
  BY <1>3, <1>4, ValueRead
<1>6. Parse(s).ok /\ Parse(s).v = v /\ Parse(s).p = q
  BY <1>5 DEF ReadsAs, Done
<1>7. Last(Parse(s).depth) = 0
  BY <1>6, ParseBalanced DEF Balanced
<1> QED
  BY <1>6, <1>7

-----------------------------------------------------------------------------
(* Lemmas.                                                                  *)

\* What a reader may do with the counter on one of the texts: a course, at whose
\* end the counter is where it was, or one higher.
LEMMA CoursesAre ==
  ASSUME NEW x \in Courses
  PROVE  Course(x) /\ Last(x) \in {0, 1}
<1>1. ASSUME NEW s \in Texts, x = Parse(s).depth PROVE Course(x) /\ Last(x) \in {0, 1}
  BY <1>1, JsonDepthAssumption, ParseBalanced DEF Balanced
<1>2. CASE x = << 0 >>
  BY <1>2, FirstCourses
<1> QED
  BY <1>1, <1>2 DEF Courses

\* A text begins at depth 0 and goes up or down by one.
LEMMA TextIs ==
  ASSUME NEW x \in Courses
  PROVE  /\ x \in Seq(Nat) /\ Len(x) \in Nat \ {0} /\ x[1] = 0
         /\ \A i \in 1..Len(x) : x[i] \in Nat
         /\ \A i \in 1..Len(x) - 1 : x[i + 1] \in {x[i] - 1, x[i] + 1}
<1>1. /\ x \in Seq(Nat) /\ Len(x) > 0 /\ x[1] = 0
      /\ \A i \in 1..Len(x) - 1 : x[i + 1] \in {x[i] - 1, x[i] + 1}
  BY CoursesAre, CourseIs
<1> QED
  BY <1>1, ElementOfSeq, LenProperties

\* What TypeOK says of one thread's place.
LEMMA PlaceIs ==
  ASSUME TypeOK, NEW t \in Threads
  PROVE  /\ step[t] \in 1..Len(text[t])
         /\ \A i \in 1..Len(text[t]) : text[t][i] \in Nat
         /\ text[t][1] = 0
         /\ step[t] < Len(text[t]) =>
              /\ step[t] + 1 \in 1..Len(text[t])
              /\ text[t][step[t] + 1] \in {text[t][step[t]] - 1, text[t][step[t]] + 1}
<1>1. text[t] \in Courses /\ step[t] \in Nat \ {0} /\ step[t] <= Len(text[t])
  BY DEF TypeOK
<1>2. PICK x, n : x = text[t] /\ n = step[t]
  OBVIOUS
<1>3. /\ Len(x) \in Nat \ {0} /\ x[1] = 0
      /\ \A i \in 1..Len(x) : x[i] \in Nat
      /\ \A i \in 1..Len(x) - 1 : x[i + 1] \in {x[i] - 1, x[i] + 1}
  BY <1>1, <1>2, TextIs
<1>4. /\ n \in 1..Len(x)
      /\ n < Len(x) => n + 1 \in 1..Len(x) /\ x[n + 1] \in {x[n] - 1, x[n] + 1}
  <2>1. n \in Nat \ {0} /\ n <= Len(x)
    BY <1>1, <1>2
  <2>2. n < Len(x) => n \in 1..Len(x) - 1 /\ n + 1 \in 1..Len(x)
    BY <1>3, <2>1
  <2> QED
    BY <1>3, <2>1, <2>2
<1> QED
  BY <1>2, <1>3, <1>4

\* The steps of a reader that only move its program counter.
LEMMA MovesOnly ==
  ASSUME NEW t \in Threads, Throw(t) \/ Enter(t) \/ Leave(t) \/ Return(t)
  PROVE  /\ UNCHANGED <<stackDepth_g, text, step, reg, alone, parses>>
         /\ pc[t] = "value"
         /\ pc' \in {[pc EXCEPT ![t] = "thrown"], [pc EXCEPT ![t] = "load"],
                     [pc EXCEPT ![t] = "parsed"]}
BY DEF Throw, Enter, Leave, Return, Goto

-----------------------------------------------------------------------------
(* Types.                                                                   *)

LEMMA TypeInit == Init => TypeOK
<1> SUFFICES ASSUME Init PROVE TypeOK
  OBVIOUS
<1>1. \A t \in Threads : text[t] = <<0>> /\ Len(text[t]) = 1
  <2>1. Len(<<0>>) = 1
    OBVIOUS
  <2>2. \A t \in Threads : text[t] = <<0>>
    BY DEF Init
  <2> QED
    BY <2>1, <2>2
<1>2. text \in [Threads -> Courses] /\ \A t \in Threads : Course(text[t])
  BY <1>1, FirstCourses DEF Init, Courses
<1>3. /\ pc = [t \in Threads |-> "idle"] /\ step = [t \in Threads |-> 1]
      /\ stackDepth_g = 0 /\ reg = [t \in Threads |-> 0]
      /\ alone = [t \in Threads |-> FALSE] /\ parses = [t \in Threads |-> 0]
  BY DEF Init
<1>4. alone \in [Threads -> BOOLEAN] /\ parses \in [Threads -> 0..MaxParses]
  BY <1>3, JsonDepthAssumption
<1>5. ASSUME NEW t \in Threads
      PROVE  step[t] <= Len(text[t]) /\ pc[t] \notin {"load", "store"}
  <2>1. step[t] = 1 /\ pc[t] = "idle"
    BY <1>3
  <2> QED
    BY <1>1, <2>1
<1>6. /\ pc \in [Threads -> {"idle", "value", "load", "store", "parsed", "thrown"}]
      /\ step \in [Threads -> Nat \ {0}] /\ reg \in [Threads -> Int]
      /\ stackDepth_g \in Int
  BY <1>3
<1> QED
  BY <1>2, <1>4, <1>5, <1>6 DEF TypeOK

LEMMA TypeStep == TypeOK /\ [Next]_vars => TypeOK'
<1> SUFFICES ASSUME TypeOK, [Next]_vars PROVE TypeOK'
  OBVIOUS
<1>1. ASSUME NEW t \in Threads, BeginParse(t) PROVE TypeOK'
  <2>1. PICK x \in Courses : text' = [text EXCEPT ![t] = x]
    BY <1>1 DEF BeginParse, Courses
  <2>2. Len(x) \in Nat \ {0}
    BY <2>1, TextIs
  <2>3. /\ pc' = [pc EXCEPT ![t] = "value"] /\ step' = [step EXCEPT ![t] = 1]
        /\ stackDepth_g' = 0 /\ reg' = reg
        /\ alone' = [o \in Threads |-> IF o = t THEN \A u \in Threads : ~Parsing(u)
                                                ELSE alone[o] /\ ~Parsing(o)]
        /\ parses[t] < MaxParses /\ parses' = [parses EXCEPT ![t] = @ + 1]
    BY <1>1 DEF BeginParse, Reset
  <2>4. parses' \in [Threads -> 0..MaxParses]
    BY <2>3, JsonDepthAssumption DEF TypeOK
  <2>5. alone' \in [Threads -> BOOLEAN]
    BY <2>3, Zenon DEF TypeOK
  <2>6. ASSUME NEW u \in Threads
        PROVE  /\ step'[u] <= Len(text'[u])
               /\ pc'[u] \in {"load", "store"} => step'[u] < Len(text'[u])
    BY <2>1, <2>2, <2>3 DEF TypeOK
  <2>7. /\ text' \in [Threads -> Courses] /\ \A u \in Threads : Course(text'[u])
        /\ pc' \in [Threads -> {"idle", "value", "load", "store", "parsed", "thrown"}]
        /\ step' \in [Threads -> Nat \ {0}]
        /\ reg' \in [Threads -> Int] /\ stackDepth_g' \in Int
    BY <2>1, <2>3, CoursesAre DEF TypeOK
  <2> QED
    BY <2>4, <2>5, <2>6, <2>7 DEF TypeOK
<1>2. ASSUME NEW t \in Threads, Throw(t) \/ Enter(t) \/ Leave(t) \/ Return(t)
      PROVE  TypeOK'
  <2>1. pc'[t] = "load" => step[t] < Len(text[t])
    BY <1>2 DEF Throw, Enter, Leave, Return, Goto, Enters, Leaves, TypeOK
  <2> QED
    BY <1>2, <2>1, MovesOnly DEF TypeOK
<1>3. ASSUME NEW t \in Threads, Load(t) PROVE TypeOK'
  BY <1>3 DEF Load, Goto, TypeOK
<1>4. ASSUME NEW t \in Threads, Store(t) PROVE TypeOK'
  <2>1. step[t] < Len(text[t])
    BY <1>4 DEF Store, Goto, TypeOK
  <2>2. stackDepth_g' \in Int
    BY <1>4, <2>1, PlaceIs DEF Store, TypeOK
  <2>3. Len(text[t]) \in Nat
    BY TextIs DEF TypeOK
  <2> QED
    BY <1>4, <2>1, <2>2, <2>3 DEF Store, Goto, TypeOK
<1>5. CASE Stopped \/ UNCHANGED vars
  BY <1>5 DEF Stopped, vars, TypeOK
<1> QED
  BY <1>1, <1>2, <1>3, <1>4, <1>5 DEF Next

\* Type correctness: no reader steps behind the end of its text.
THEOREM Typing == Spec => []TypeOK
BY TypeInit, TypeStep, PTL DEF Spec

-----------------------------------------------------------------------------
(* A reader that is alone.                                                  *)

\* Where a reader has finished only its text and its outcome matter.
LEMMA Resting ==
  ASSUME NEW t \in Threads, AloneInv(t), alone'[t] => alone[t],
         ~Parsing(t), pc'[t] = pc[t], text'[t] = text[t]
  PROVE  AloneInv(t)'
BY DEF AloneInv, Parsing, WithinLimit

\* A step of another reader: t is not parsing or no longer alone.
LEMMA OthersMove ==
  ASSUME NEW t \in Threads, NEW u \in Threads \ {t}, TypeOK, AloneInv(t),
         \/ BeginParse(u) \/ Throw(u) \/ Enter(u) \/ Leave(u)
         \/ Load(u) \/ Store(u) \/ Return(u)
  PROVE  AloneInv(t)'
<1>1. pc'[t] = pc[t] /\ text'[t] = text[t] /\ step'[t] = step[t] /\ reg'[t] = reg[t]
  BY DEF TypeOK, BeginParse, Throw, Enter, Leave, Load, Store, Return, Goto
<1>2. CASE BeginParse(u)
  <2>1. alone'[t] => alone[t] /\ ~Parsing(t)
    BY <1>2 DEF BeginParse
  <2>2. CASE ~alone'[t]
    BY <2>2 DEF AloneInv
  <2>3. CASE alone'[t]
    BY <1>1, <2>1, <2>3, Resting
  <2> QED
    BY <2>2, <2>3
<1>3. CASE Throw(u) \/ Enter(u) \/ Leave(u) \/ Load(u) \/ Store(u) \/ Return(u)
  <2>1. Parsing(u) /\ alone' = alone
    BY <1>3 DEF Throw, Enter, Leave, Load, Store, Return, Goto, Parsing
  <2>2. CASE alone[t]
    <3>1. ~Parsing(t)
      BY <2>1, <2>2 DEF AloneInv
    <3> QED
      BY <1>1, <2>1, <3>1, Resting
  <2>3. CASE ~alone[t]
    BY <2>1, <2>3 DEF AloneInv
  <2> QED
    BY <2>2, <2>3
<1> QED
  BY <1>2, <1>3

\* parse() resets the counter: whatever it was, t starts where its text does.
LEMMA BeginsAlone ==
  ASSUME NEW t \in Threads, TypeOK, BeginParse(t)
  PROVE  AloneInv(t)'
<1>1. PICK x \in Courses : text' = [text EXCEPT ![t] = x]
  BY DEF BeginParse, Courses
<1>2. text'[t][1] = 0 /\ 0 <= stackLimit_g
  BY <1>1, TextIs, JsonDepthAssumption DEF TypeOK
<1>3. /\ step'[t] = 1 /\ pc'[t] = "value" /\ stackDepth_g' = 0
      /\ \A u \in Threads \ {t} : pc'[u] = pc[u]
  BY DEF BeginParse, Reset, TypeOK
<1>4. alone'[t] => \A u \in Threads : ~Parsing(u)
  BY DEF BeginParse
<1>5. alone'[t] => \A u \in Threads \ {t} : ~Parsing(u)'
  BY <1>3, <1>4 DEF Parsing
<1>6. WithinLimit(t, step[t])'
  BY <1>2, <1>3 DEF WithinLimit
<1> QED
  BY <1>2, <1>3, <1>5, <1>6 DEF AloneInv

\* readValue() is entered or left, or throws at the limit; parse() returns.
LEMMA MovesAlone ==
  ASSUME NEW t \in Threads, TypeOK, AloneInv(t),
         Throw(t) \/ Enter(t) \/ Leave(t) \/ Return(t)
  PROVE  AloneInv(t)'
<1>1. CASE ~alone[t]
  BY <1>1, MovesOnly DEF AloneInv
<1>2. CASE alone[t]
  <2>1. PICK x, n : x = text[t] /\ n = step[t]
    OBVIOUS
  <2>2. /\ n \in 1..Len(x) /\ x[n] \in Nat /\ stackLimit_g \in Nat
        /\ \A i \in 1..Len(x) : x[i] \in Nat
        /\ n < Len(x) => /\ n + 1 \in 1..Len(x)
                         /\ x[n + 1] \in {x[n] - 1, x[n] + 1}
    BY <2>1, PlaceIs, JsonDepthAssumption
  <2>3. /\ pc[t] = "value" /\ Parsing(t)
        /\ text'[t] = x /\ step'[t] = n /\ stackDepth_g' = stackDepth_g
        /\ alone'[t] = alone[t]
        /\ \A u \in Threads \ {t} : pc'[u] = pc[u]
    BY <2>1, MovesOnly DEF TypeOK, Parsing
  <2>4. /\ \A u \in Threads \ {t} : ~Parsing(u)
        /\ stackDepth_g = x[n] /\ \A i \in 1..n : x[i] <= stackLimit_g
    BY <1>2, <2>1, <2>3 DEF AloneInv, WithinLimit
  <2>5. \A u \in Threads \ {t} : ~Parsing(u)'
    BY <2>3, <2>4 DEF Parsing
  <2>6. CASE Throw(t)
    <3>1. n < Len(x) /\ x[n + 1] > x[n] /\ stackDepth_g >= stackLimit_g
      BY <2>1, <2>6 DEF Throw, Enters, AtLimit
    <3>2. n + 1 \in 1..Len(x) /\ x[n + 1] > stackLimit_g
      BY <2>2, <2>4, <3>1
    <3>3. pc'[t] = "thrown"
      BY <2>6 DEF Throw, Goto, TypeOK
    <3> QED
      BY <2>3, <3>2, <3>3 DEF AloneInv, Parsing
  <2>7. CASE Enter(t) \/ Leave(t)
    <3>1. /\ n < Len(x)
          /\ \/ ~(stackDepth_g >= stackLimit_g)
             \/ x[n + 1] < x[n]
      BY <2>1, <2>7 DEF Enter, Leave, Enters, Leaves, AtLimit
    <3>2. x[n + 1] <= stackLimit_g
      <4>1. x[n] <= stackLimit_g /\ x[n + 1] \in {x[n] - 1, x[n] + 1}
        BY <2>2, <2>4, <3>1
      <4> QED
        BY <2>2, <2>4, <3>1, <4>1
    <3>3. pc'[t] = "load"
      BY <2>7 DEF Enter, Leave, Goto, TypeOK
    <3>4. WithinLimit(t, step[t])'
      BY <2>3, <2>4 DEF WithinLimit
    <3>5. text'[t][step'[t] + 1] <= stackLimit_g /\ stackDepth_g' = text'[t][step'[t]]
      BY <2>3, <2>4, <3>2
    <3> QED
      BY <2>5, <3>3, <3>4, <3>5 DEF AloneInv
  <2>8. CASE Return(t)
    <3>1. n = Len(x) /\ pc'[t] = "parsed"
      BY <2>1, <2>8 DEF Return, Goto, TypeOK
    <3>2. WithinLimit(t, Len(text[t]))'
      BY <2>3, <2>4, <3>1 DEF WithinLimit
    <3> QED
      BY <3>1, <3>2 DEF AloneInv, Parsing
  <2> QED
    BY <2>6, <2>7, <2>8
<1> QED
  BY <1>1, <1>2

\* ++stackDepth_g and --stackDepth_g: nobody writes between load and store.
LEMMA CountsAlone ==
  ASSUME NEW t \in Threads, TypeOK, AloneInv(t), Load(t) \/ Store(t)
  PROVE  AloneInv(t)'
<1>1. alone' = alone
  BY DEF Load, Store
<1>2. CASE ~alone[t]
  BY <1>1, <1>2 DEF AloneInv
<1>3. CASE alone[t]
  <2>1. PICK x, n : x = text[t] /\ n = step[t]
    OBVIOUS
  <2>2. /\ pc[t] \in {"load", "store"} /\ Parsing(t) /\ text'[t] = x
        /\ \A u \in Threads \ {t} : pc'[u] = pc[u]
    BY <2>1 DEF Load, Store, Goto, Parsing, TypeOK
  <2>3. /\ n \in 1..Len(x) /\ n + 1 \in 1..Len(x) /\ n + 1 <= Len(x)
        /\ x[n] \in Nat /\ x[n + 1] \in Nat /\ Len(x) \in Nat
    <3>1. n < Len(x)
      BY <2>1, <2>2 DEF TypeOK
    <3>2. Len(x) \in Nat
      BY <2>1, TextIs DEF TypeOK
    <3> QED
      BY <2>1, <3>1, <3>2, PlaceIs
  <2>4. /\ \A u \in Threads \ {t} : ~Parsing(u)
        /\ stackDepth_g = x[n] /\ \A i \in 1..n : x[i] <= stackLimit_g
        /\ x[n + 1] <= stackLimit_g
        /\ pc[t] = "store" => reg[t] = stackDepth_g
    BY <1>3, <2>1, <2>2 DEF AloneInv, WithinLimit
  <2>5. \A u \in Threads \ {t} : ~Parsing(u)'
    BY <2>2, <2>4 DEF Parsing
  <2>6. CASE Load(t)
    <3>1. /\ step'[t] = n /\ stackDepth_g' = stackDepth_g /\ pc'[t] = "store"
          /\ reg'[t] = stackDepth_g
      BY <2>1, <2>6 DEF Load, Goto, TypeOK
    <3>2. WithinLimit(t, step[t])'
      BY <2>2, <2>4, <3>1 DEF WithinLimit
    <3>3. text'[t][step'[t] + 1] <= stackLimit_g /\ stackDepth_g' = text'[t][step'[t]]
      BY <2>2, <2>4, <3>1
    <3> QED
      BY <2>5, <3>1, <3>2, <3>3 DEF AloneInv
  <2>7. CASE Store(t)
    <3>1. /\ step'[t] = n + 1 /\ pc'[t] = "value" /\ pc[t] = "store"
          /\ stackDepth_g' = reg[t] + (x[n + 1] - x[n])
      BY <2>1, <2>7 DEF Store, Goto, TypeOK
    <3>2. stackDepth_g' = text'[t][step'[t]]
      BY <2>2, <2>3, <2>4, <3>1
    <3>3. \A i \in 1..n + 1 : x[i] <= stackLimit_g
      BY <2>3, <2>4
    <3>4. WithinLimit(t, step[t])'
      BY <2>2, <3>1, <3>3 DEF WithinLimit
    <3> QED
      BY <2>5, <3>1, <3>2, <3>4 DEF AloneInv
  <2> QED
    BY <2>6, <2>7
<1> QED
  BY <1>2, <1>3

LEMMA AloneStep ==
  ASSUME Inv, [Next]_vars, NEW t \in Threads
  PROVE  AloneInv(t)'
<1>1. TypeOK /\ AloneInv(t)
  BY DEF Inv
<1>2. CASE Stopped \/ UNCHANGED vars
  BY <1>1, <1>2 DEF Stopped, vars, AloneInv, WithinLimit, Parsing
<1>3. ASSUME NEW u \in Threads,
             \/ BeginParse(u) \/ Throw(u) \/ Enter(u) \/ Leave(u)
             \/ Load(u) \/ Store(u) \/ Return(u)
      PROVE  AloneInv(t)'
  <2>1. CASE u = t
    BY <1>1, <1>3, <2>1, BeginsAlone, MovesAlone, CountsAlone
  <2>2. CASE u # t
    BY <1>1, <1>3, <2>2, OthersMove
  <2> QED
    BY <2>1, <2>2
<1> QED
  BY <1>2, <1>3 DEF Next

LEMMA AloneAlways == Spec => []Inv
<1>1. Init => Inv
  BY TypeInit DEF Init, Inv, AloneInv
<1>2. Inv /\ [Next]_vars => Inv'
  BY TypeStep, AloneStep DEF Inv
<1> QED
  BY <1>1, <1>2, PTL DEF Spec

\* A text parsed by a thread that no other parses beside is refused by a throw
\* only if it goes beyond the limit, and let through only if it does not.
THEOREM LimitKept == Spec => []AloneKeepsLimit
<1>1. Inv => AloneKeepsLimit
  BY DEF Inv, AloneInv, WithinLimit, AloneKeepsLimit
<1> QED
  BY <1>1, AloneAlways, PTL

\* Whatever the text: parse() leaves the counter as it was or one higher, when no
\* other thread has parsed since it began.
THEOREM CounterBalanced == Spec => []AloneIsBalanced
<1>1. ASSUME Inv PROVE AloneIsBalanced
  <2>1. ASSUME NEW t \in Threads, alone[t], pc[t] = "value", step[t] = Len(text[t])
        PROVE  stackDepth_g \in {0, 1}
    <3>1. text[t] \in Courses
      BY <1>1 DEF Inv, TypeOK
    <3>2. Last(text[t]) \in {0, 1}
      BY <3>1, CoursesAre
    <3>3. stackDepth_g = text[t][step[t]]
      BY <1>1, <2>1 DEF Inv, AloneInv, Parsing
    <3> QED
      BY <2>1, <3>2, <3>3 DEF Last
  <2> QED
    BY <2>1 DEF AloneIsBalanced
<1> QED
  BY <1>1, AloneAlways, PTL
=============================================================================
