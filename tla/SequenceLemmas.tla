--------------------------- MODULE SequenceLemmas ---------------------------
(***************************************************************************)
(* Facts about sequences that the proofs of this project rest on: queues   *)
(* that are concatenated move as one, a queue without repeats stays so,    *)
(* and what is defined along a sequence by recursion exists and can be     *)
(* reasoned about by induction.                                            *)
(***************************************************************************)
EXTENDS Integers, Sequences, Functions, SequenceTheorems, WellFoundedInduction, TLAPS

\* Appending to the last of two queues appends to both.
LEMMA AppendLast ==
  ASSUME NEW S, NEW s \in Seq(S), NEW t \in Seq(S), NEW x \in S
  PROVE  s \o Append(t, x) = Append(s \o t, x)
<1>1. s \o Append(t, x) \in Seq(S) /\ Append(s \o t, x) \in Seq(S)
  BY ConcatProperties, AppendProperties
<1>2. Len(s \o Append(t, x)) = Len(Append(s \o t, x))
  BY ConcatProperties, AppendProperties, LenProperties
<1>3. ASSUME NEW i \in 1..Len(s \o Append(t, x))
      PROVE  (s \o Append(t, x))[i] = Append(s \o t, x)[i]
  <2>1. Len(s) \in Nat /\ Len(t) \in Nat
    BY LenProperties
  <2>2. /\ Append(t, x) \in Seq(S) /\ Len(Append(t, x)) = Len(t) + 1
        /\ \A j \in 1..Len(t) : Append(t, x)[j] = t[j]
        /\ Append(t, x)[Len(t) + 1] = x
    BY AppendProperties
  <2>3. /\ s \o t \in Seq(S) /\ Len(s \o t) = Len(s) + Len(t)
        /\ \A j \in 1..Len(s) + Len(t) :
             (s \o t)[j] = IF j <= Len(s) THEN s[j] ELSE t[j - Len(s)]
    BY ConcatProperties
  <2>3a. /\ Len(s \o Append(t, x)) = Len(s) + Len(Append(t, x))
        /\ \A j \in 1..Len(s) + Len(Append(t, x)) :
             (s \o Append(t, x))[j]
               = IF j <= Len(s) THEN s[j] ELSE Append(t, x)[j - Len(s)]
    BY <2>2, ConcatProperties
  <2>4. /\ i \in 1..Len(s) + Len(t) + 1
        /\ (s \o Append(t, x))[i]
              = IF i <= Len(s) THEN s[i] ELSE Append(t, x)[i - Len(s)]
    BY <2>1, <2>2, <2>3a
  <2>5. /\ \A j \in 1..Len(s) + Len(t) : Append(s \o t, x)[j] = (s \o t)[j]
        /\ Append(s \o t, x)[Len(s) + Len(t) + 1] = x
    BY <2>3, AppendProperties
  <2>6. CASE i = Len(s) + Len(t) + 1
    BY <2>1, <2>2, <2>4, <2>5, <2>6
  <2>7. CASE i \in 1..Len(s) + Len(t)
    BY <2>1, <2>2, <2>3, <2>4, <2>5, <2>7
  <2> QED
    BY <2>1, <2>4, <2>6, <2>7
<1> QED
  BY <1>1, <1>2, <1>3, SeqEqual

\* Taking from the first of two queues takes from both.
LEMMA TailFirst ==
  ASSUME NEW S, NEW s \in Seq(S), NEW t \in Seq(S), s # <<>>
  PROVE  /\ s \o t # <<>>
         /\ Head(s \o t) = Head(s)
         /\ Tail(s \o t) = Tail(s) \o t
<1>1. Len(s) \in Nat \ {0} /\ Len(t) \in Nat
  BY EmptySeq, LenProperties
<1>2. s \o t \in Seq(S) /\ Len(s \o t) = Len(s) + Len(t)
  BY ConcatProperties
<1>3. s \o t # <<>>
  BY <1>1, <1>2, EmptySeq
<1>4. Tail(s) \in Seq(S) /\ Len(Tail(s)) = Len(s) - 1
  BY HeadTailProperties
<1>5. /\ Tail(s) \o t \in Seq(S)
      /\ Tail(s \o t) \in Seq(S)
      /\ Len(Tail(s) \o t) = Len(Tail(s \o t))
  BY <1>1, <1>2, <1>3, <1>4, ConcatProperties, HeadTailProperties
<1>6. ASSUME NEW i \in 1..Len(Tail(s) \o t)
      PROVE  (Tail(s) \o t)[i] = Tail(s \o t)[i]
  <2>1. i \in 1..Len(s) - 1 + Len(t)
    BY <1>4, ConcatProperties
  <2>2. Tail(s \o t)[i] = (s \o t)[i + 1]
    BY <1>2, <1>3, <1>5, HeadTailProperties
  <2>3. (s \o t)[i + 1] = IF i + 1 <= Len(s) THEN s[i + 1] ELSE t[i + 1 - Len(s)]
    BY <1>1, <2>1, ConcatProperties
  <2>4. (Tail(s) \o t)[i] = IF i <= Len(s) - 1 THEN Tail(s)[i] ELSE t[i - (Len(s) - 1)]
    BY <1>1, <1>4, <2>1, ConcatProperties
  <2>5. i <= Len(s) - 1 => Tail(s)[i] = s[i + 1]
    BY <1>1, <1>4, <2>1, HeadTailProperties
  <2> QED
    BY <1>1, <2>1, <2>2, <2>3, <2>4, <2>5
<1>7. Tail(s \o t) = Tail(s) \o t
  BY <1>5, <1>6, SeqEqual
<1>8. Head(s \o t) = Head(s)
  BY <1>1, <1>2, <1>3, ConcatProperties
<1> QED
  BY <1>3, <1>7, <1>8

\* Moving the head of one queue to the end of the queue before it leaves the
\* two together as they were.
LEMMA MoveHead ==
  ASSUME NEW S, NEW s \in Seq(S), NEW t \in Seq(S), t # <<>>
  PROVE  Append(s, Head(t)) \o Tail(t) = s \o t
<1>1. Len(s) \in Nat /\ Len(t) \in Nat \ {0}
  BY EmptySeq, LenProperties
<1>2. /\ Head(t) \in S /\ Head(t) = t[1]
      /\ Tail(t) \in Seq(S) /\ Len(Tail(t)) = Len(t) - 1
  BY HeadTailProperties
<1>3. Append(s, Head(t)) \in Seq(S) /\ Len(Append(s, Head(t))) = Len(s) + 1
  BY <1>2, AppendProperties
<1>4. /\ Append(s, Head(t)) \o Tail(t) \in Seq(S)
      /\ s \o t \in Seq(S)
      /\ Len(Append(s, Head(t)) \o Tail(t)) = Len(s) + Len(t)
      /\ Len(s \o t) = Len(s) + Len(t)
  BY <1>1, <1>2, <1>3, ConcatProperties
<1>5. ASSUME NEW i \in 1..Len(s) + Len(t)
      PROVE  (Append(s, Head(t)) \o Tail(t))[i] = (s \o t)[i]
  <2>1. (s \o t)[i] = IF i <= Len(s) THEN s[i] ELSE t[i - Len(s)]
    BY <1>1, ConcatProperties
  <2>2. (Append(s, Head(t)) \o Tail(t))[i]
          = IF i <= Len(s) + 1 THEN Append(s, Head(t))[i]
                               ELSE Tail(t)[i - (Len(s) + 1)]
    BY <1>1, <1>2, <1>3, ConcatProperties
  <2>3. i > Len(s) + 1 => Tail(t)[i - (Len(s) + 1)] = t[i - Len(s)]
    BY <1>1, <1>2, HeadTailProperties
  <2>4. i <= Len(s) => Append(s, Head(t))[i] = s[i]
    BY <1>1, <1>2, AppendProperties
  <2>5. Append(s, Head(t))[Len(s) + 1] = t[1]
    BY <1>2, AppendProperties
  <2> QED
    BY <1>1, <2>1, <2>2, <2>3, <2>4, <2>5
<1> QED
  BY <1>4, <1>5, SeqEqual

\* A new element keeps a queue without repeats without repeats.
LEMMA AppendInjectiveSeq ==
  ASSUME NEW S, NEW s \in Seq(S), NEW x \in S
  PROVE  /\ Range(Append(s, x)) = Range(s) \cup {x}
         /\ IsInjective(s) /\ x \notin Range(s) => IsInjective(Append(s, x))
<1>1. /\ Len(s) \in Nat
      /\ DOMAIN s = 1..Len(s)
      /\ DOMAIN Append(s, x) = 1..Len(s) + 1
      /\ \A i \in 1..Len(s) : Append(s, x)[i] = s[i]
      /\ Append(s, x)[Len(s) + 1] = x
  BY AppendProperties, LenProperties
<1>2. Range(Append(s, x)) = Range(s) \cup {x}
  BY <1>1 DEF Range
<1>3. ASSUME IsInjective(s), x \notin Range(s)
      PROVE  IsInjective(Append(s, x))
  BY <1>1, <1>3 DEF IsInjective, Range
<1> QED
  BY <1>2, <1>3

\* Taking the head of a queue without repeats removes it from the queue.
LEMMA TailInjectiveSeq ==
  ASSUME NEW S, NEW s \in Seq(S), s # <<>>, IsInjective(s)
  PROVE  /\ Head(s) \in Range(s)
         /\ Range(Tail(s)) = Range(s) \ {Head(s)}
         /\ IsInjective(Tail(s))
<1>1. /\ Len(s) \in Nat \ {0}
      /\ DOMAIN s = 1..Len(s)
      /\ Head(s) = s[1]
      /\ DOMAIN Tail(s) = 1..Len(s) - 1
      /\ \A i \in 1..Len(s) - 1 : Tail(s)[i] = s[i + 1]
  BY HeadTailProperties, LenProperties, EmptySeq
<1>2. Head(s) \in Range(s)
  BY <1>1 DEF Range
<1>3. IsInjective(Tail(s))
  BY <1>1 DEF IsInjective
<1>4. Range(Tail(s)) = Range(s) \ {Head(s)}
  <2>1. ASSUME NEW y \in Range(Tail(s))
        PROVE  y \in Range(s) \ {Head(s)}
    <3>1. PICK i \in 1..Len(s) - 1 : y = s[i + 1]
      BY <1>1 DEF Range
    <3> QED
      BY <1>1, <3>1 DEF Range, IsInjective
  <2>2. ASSUME NEW y \in Range(s) \ {Head(s)}
        PROVE  y \in Range(Tail(s))
    <3>1. PICK i \in 1..Len(s) : y = s[i]
      BY <1>1 DEF Range
    <3>2. i # 1 /\ i - 1 \in 1..Len(s) - 1 /\ Tail(s)[i - 1] = y
      BY <1>1, <3>1
    <3> QED
      BY <1>1, <3>2 DEF Range
  <2> QED
    BY <2>1, <2>2
<1> QED
  BY <1>2, <1>3, <1>4

-----------------------------------------------------------------------------
(* Induction and recursion, as facts about sets and functions.               *)

\* A non-empty set of naturals has a least member.
LEMMA LeastOne ==
  ASSUME NEW S, S \subseteq Nat, S # {}
  PROVE  \E n \in S : \A m \in S : n <= m
<1>1. PICK R : R = OpToRel(<, Nat)
  OBVIOUS
<1>2. \A m, n \in Nat : m < n => <<m, n>> \in R
  BY <1>1 DEF OpToRel
<1>3. IsWellFoundedOn(R, Nat)
  BY <1>1, NatLessThanWellFounded
<1>4. \E n \in S : \A m \in S : ~(<<m, n>> \in R)
  BY <1>3, WFMin
<1>5. PICK n \in S : \A m \in S : ~(<<m, n>> \in R)
  BY <1>4
<1>6. ASSUME NEW m \in S PROVE n <= m
  <2>1. m \in Nat /\ n \in Nat
    OBVIOUS
  <2>2. ~(m < n)
    BY <1>2, <1>5, <2>1
  <2> QED
    BY <2>1, <2>2
<1> QED
  BY <1>6

\* A set that has 0 and, with each natural, the next has them all.
LEMMA SetInduction ==
  ASSUME NEW S, 0 \in S, \A n \in Nat : n \in S => n + 1 \in S
  PROVE  Nat \subseteq S
<1>1. SUFFICES ASSUME Nat \ S # {} PROVE FALSE
  OBVIOUS
<1>2. PICK n \in Nat \ S : \A m \in Nat \ S : n <= m
  BY <1>1, LeastOne
<1>3. n - 1 \in Nat /\ n - 1 \in S
  BY <1>2
<1> QED
  BY <1>2, <1>3

\* f is b at 0 and, at each place up to n, what F makes there of the value before.
Follows(f, n, b, F) == f = [i \in 0..n |-> IF i = 0 THEN b ELSE F[i][f[i - 1]]]

\* There is such a function.
LEMMA Recursion ==
  ASSUME NEW D, NEW b \in D, NEW n \in Nat, NEW F \in [1..n -> [D -> D]]
  PROVE  \E f \in [0..n -> D] : Follows(f, n, b, F)
<1> DEFINE Begun(k, f) == f[0] = b /\ \A i \in 1..k : f[i] = F[i][f[i - 1]]
           S == {k \in Nat : k <= n => \E f \in [0..k -> D] : Begun(k, f)}
<1>1. 0 \in S
  <2>1. PICK f : f = [i \in 0..0 |-> b]
    OBVIOUS
  <2>2. f \in [0..0 -> D] /\ Begun(0, f)
    BY <2>1
  <2> QED
    BY <2>2
<1>2. ASSUME NEW k \in Nat, k \in S PROVE k + 1 \in S
  <2> SUFFICES ASSUME k + 1 <= n PROVE \E f \in [0..k + 1 -> D] : Begun(k + 1, f)
    OBVIOUS
  <2>1. PICK f \in [0..k -> D] : Begun(k, f)
    BY <1>2
  <2>2. PICK x : x = F[k + 1][f[k]]
    OBVIOUS
  <2>3. x \in D
    BY <2>2
  <2>4. PICK g : g = [i \in 0..k + 1 |-> IF i = k + 1 THEN x ELSE f[i]]
    OBVIOUS
  <2>5. g \in [0..k + 1 -> D]
    BY <2>3, <2>4
  <2>6. g[0] = b /\ g[k + 1] = x /\ g[k] = f[k]
    BY <2>1, <2>4
  <2>7. ASSUME NEW i \in 1..k PROVE g[i] = F[i][g[i - 1]]
    <3>1. g[i] = f[i] /\ g[i - 1] = f[i - 1]
      BY <2>4
    <3> QED
      BY <2>1, <3>1
  <2>8. Begun(k + 1, g)
    <3>1. ASSUME NEW i \in 1..k + 1, i \notin 1..k PROVE g[i] = F[i][g[i - 1]]
      <4>1. i = k + 1 /\ i - 1 = k
        BY <3>1
      <4> QED
        BY <2>2, <2>6, <4>1
    <3> QED
      BY <2>6, <2>7, <3>1
  <2> QED
    BY <2>5, <2>8
<1>3. n \in S
  <2> HIDE DEF S
  <2> QED
    BY <1>1, <1>2, SetInduction
<1>4. PICK f \in [0..n -> D] : Begun(n, f)
  BY <1>3
<1>5. Follows(f, n, b, F)
  <2>1. ASSUME NEW i \in 0..n
        PROVE  f[i] = IF i = 0 THEN b ELSE F[i][f[i - 1]]
    BY <1>4
  <2>2. f = [i \in 0..n |-> f[i]]
    OBVIOUS
  <2> QED
    BY <2>1, <2>2 DEF Follows
<1> QED
  BY <1>5
=============================================================================
