--------------------------- MODULE AlgorithmsProofs ---------------------------
(***************************************************************************)
(* Proofs that decodeNumber is exact for every string of digits and every  *)
(* width, an induction over the digits, and that no text built for a       *)
(* report outgrows its buffer; so that both properties of Algorithms hold  *)
(* of any inputs, not only of those that TLC is given.                     *)
(***************************************************************************)
EXTENDS Algorithms, SequenceLemmas

-----------------------------------------------------------------------------
(* The two functions are what their definitions say.                        *)

LEMMA NumeralIs ==
  ASSUME NEW digits \in Seq(0..9)
  PROVE  /\ Numeral(digits)[0] = 0
         /\ \A i \in 1..Len(digits) :
              Numeral(digits)[i] = 10 * Numeral(digits)[i - 1] + digits[i]
<1>1. PICK n \in Nat : n = Len(digits) /\ \A i \in 1..n : digits[i] \in 0..9
  OBVIOUS
<1>2. PICK F : F = [i \in 1..n |-> [v \in Nat |-> 10 * v + digits[i]]]
  OBVIOUS
<1>3. F \in [1..n -> [Nat -> Nat]]
  <2>1. ASSUME NEW i \in 1..n, NEW v \in Nat PROVE 10 * v + digits[i] \in Nat
    <3>1. PICK d \in 0..9 : d = digits[i]
      BY <1>1
    <3>2. 10 * v + d \in Nat
      OBVIOUS
    <3> QED
      BY <3>1, <3>2
  <2> QED
    BY <1>2, <2>1
<1>4. PICK f \in [0..n -> Nat] : Follows(f, n, 0, F)
  <2>1. 0 \in Nat
    OBVIOUS
  <2> QED
    BY <1>3, <2>1, Recursion
<1>5. f = [i \in 0..n |-> IF i = 0 THEN 0 ELSE 10 * f[i - 1] + digits[i]]
  <2>1. ASSUME NEW i \in 0..n, i # 0
        PROVE  F[i][f[i - 1]] = 10 * f[i - 1] + digits[i]
    <3>1. i \in 1..n /\ i - 1 \in 0..n
      BY <2>1
    <3>2. f[i - 1] \in Nat
      BY <3>1
    <3> QED
      BY <1>2, <3>1, <3>2
  <2> QED
    BY <1>4, <2>1 DEF Follows
<1>6. PICK g : g = Numeral(digits)
  OBVIOUS
<1>7. g = [i \in 0..n |-> IF i = 0 THEN 0 ELSE 10 * g[i - 1] + digits[i]]
  BY <1>1, <1>5, <1>6 DEF Numeral
<1>8. g[0] = 0 /\ \A i \in 1..n : g[i] = 10 * g[i - 1] + digits[i]
  <2>1. 0 \in 0..n /\ \A i \in 1..n : i \in 0..n /\ i # 0
    OBVIOUS
  <2> QED
    BY <1>7, <2>1
<1> QED
  BY <1>1, <1>6, <1>8

LEMMA ValueIs ==
  ASSUME NEW negative \in BOOLEAN, NEW digits \in Seq(0..9), NEW threshold, NEW rest,
         threshold = MaxInteger(negative) \div 10, rest = MaxInteger(negative) % 10
  PROVE  /\ Value(negative, digits)[0] = 0
         /\ \A i \in 1..Len(digits) :
              Value(negative, digits)[i] =
                LET v == Value(negative, digits)[i - 1]
                IN IF v = -1 \/ Overflows(v, threshold, i = Len(digits), digits[i], rest)
                   THEN -1 ELSE (v * 10 + digits[i]) % Wide
<1>1. PICK n \in Nat : n = Len(digits) /\ \A i \in 1..n : digits[i] \in 0..9
  OBVIOUS
<1> DEFINE Step(i, v) ==
             IF v = -1 \/ Overflows(v, threshold, i = n, digits[i], rest)
             THEN -1 ELSE (v * 10 + digits[i]) % Wide
<1>2. PICK F : F = [i \in 1..n |-> [v \in Int |-> Step(i, v)]]
  OBVIOUS
<1>3. ASSUME NEW i \in 1..n, NEW v \in Int PROVE Step(i, v) \in Int
  <2>1. PICK d \in 0..9 : d = digits[i]
    BY <1>1
  <2>2. (v * 10 + d) % Wide \in Int
    <3>1. v * 10 + d \in Int
      OBVIOUS
    <3> QED
      BY <3>1, JsonNumberAssumption
  <2> QED
    BY <2>1, <2>2
<1> HIDE DEF Step
<1>4. F \in [1..n -> [Int -> Int]]
  BY <1>2, <1>3
<1>5. PICK f \in [0..n -> Int] : Follows(f, n, 0, F)
  <2>1. 0 \in Int
    OBVIOUS
  <2> QED
    BY <1>4, <2>1, Recursion
<1>6. f = [i \in 0..n |-> IF i = 0 THEN 0 ELSE Step(i, f[i - 1])]
  <2>1. ASSUME NEW i \in 0..n, i # 0
        PROVE  F[i][f[i - 1]] = Step(i, f[i - 1])
    <3>1. i \in 1..n /\ i - 1 \in 0..n
      BY <2>1
    <3>2. f[i - 1] \in Int
      BY <3>1
    <3> QED
      BY <1>2, <3>1, <3>2
  <2> QED
    BY <1>5, <2>1 DEF Follows
<1>7. PICK g : g = Value(negative, digits)
  OBVIOUS
<1>8. g = [i \in 0..n |-> IF i = 0 THEN 0 ELSE Step(i, g[i - 1])]
  <2>1. f = [i \in 0..Len(digits) |->
               IF i = 0 THEN 0
               ELSE IF f[i - 1] = -1
                       \/ Overflows(f[i - 1], MaxInteger(negative) \div 10,
                                    i = Len(digits), digits[i],
                                    MaxInteger(negative) % 10)
                    THEN -1 ELSE (f[i - 1] * 10 + digits[i]) % Wide]
    BY <1>1, <1>6 DEF Step
  <2>2. g = [i \in 0..Len(digits) |->
               IF i = 0 THEN 0
               ELSE IF g[i - 1] = -1
                       \/ Overflows(g[i - 1], MaxInteger(negative) \div 10,
                                    i = Len(digits), digits[i],
                                    MaxInteger(negative) % 10)
                    THEN -1 ELSE (g[i - 1] * 10 + digits[i]) % Wide]
    BY <1>7, <2>1 DEF Value
  <2> QED
    BY <1>1, <2>2 DEF Step
<1>9. g[0] = 0 /\ \A i \in 1..n : g[i] = Step(i, g[i - 1])
  <2>1. 0 \in 0..n /\ \A i \in 1..n : i \in 0..n /\ i # 0
    OBVIOUS
  <2> QED
    BY <1>8, <2>1
<1> QED
  BY <1>1, <1>7, <1>9 DEF Step

-----------------------------------------------------------------------------
(* Every string of digits.                                                  *)

\* One more digit.
\*
\* As long as value is not given up it is what the digits stand for, and fits;
\* once it is given up, the digits stand for too much, or will with the next.
Sound(value, n, max, last) ==
  IF value = -1 THEN n > max \/ (~last /\ 10 * n > max)
  ELSE value = n /\ n <= max

LEMMA OneMoreDigit ==
  ASSUME NEW v \in Int, NEW n \in Nat, NEW max \in Nat, NEW d \in 0..9,
         NEW last \in BOOLEAN, NEW threshold, NEW rest, NEW w,
         max >= 10, max < Wide, threshold = max \div 10, rest = max % 10,
         Sound(v, n, max, FALSE),
         w = IF v = -1 \/ Overflows(v, threshold, last, d, rest)
             THEN -1 ELSE (v * 10 + d) % Wide
  PROVE  Sound(w, 10 * n + d, max, last)
<1>1. threshold \in Nat /\ rest \in 0..9 /\ max = 10 * threshold + rest /\ threshold >= 1
  OBVIOUS
<1>2. CASE v = -1
  <2>1. 10 * n > max /\ w = -1
    BY <1>2 DEF Sound
  <2>2. 10 * n + d > max
    BY <2>1
  <2> QED
    BY <2>1, <2>2 DEF Sound
<1>3. CASE v # -1 /\ Overflows(v, threshold, last, d, rest)
  <2>1. v = n /\ w = -1
    BY <1>3 DEF Sound
  <2>2. n >= threshold /\ (n > threshold \/ ~last \/ d > rest)
    BY <1>3, <2>1 DEF Overflows
  <2>3. CASE n > threshold
    <3>1. 10 * n + d > max
      BY <1>1, <2>3
    <3> QED
      BY <2>1, <3>1 DEF Sound
  <2>4. CASE d > rest
    <3>1. 10 * n + d > max
      BY <1>1, <2>2, <2>4
    <3> QED
      BY <2>1, <3>1 DEF Sound
  <2>5. CASE ~last
    <3>1. 10 * (10 * n + d) > max
      BY <1>1, <2>2
    <3> QED
      BY <2>1, <2>5, <3>1 DEF Sound
  <2> QED
    BY <2>2, <2>3, <2>4, <2>5
<1>4. CASE v # -1 /\ ~Overflows(v, threshold, last, d, rest)
  <2>1. v = n /\ w = (n * 10 + d) % Wide
    BY <1>4 DEF Sound
  <2>2. n < threshold \/ (n = threshold /\ d <= rest)
    BY <1>1, <1>4, <2>1 DEF Overflows
  <2>3. 10 * n + d <= max /\ 10 * n + d \in Nat
    BY <1>1, <2>2
  <2>4. w = 10 * n + d
    <3>1. PICK m \in Nat : m = 10 * n + d /\ n * 10 + d = m
      BY <2>3
    <3>2. m < Wide
      BY <2>3, <3>1, JsonNumberAssumption
    <3>3. m % Wide = m
      BY <3>2, JsonNumberAssumption
    <3> QED
      BY <2>1, <3>1, <3>3
  <2>5. w # -1
    BY <2>3, <2>4
  <2> QED
    BY <2>3, <2>4, <2>5 DEF Sound
<1> QED
  BY <1>2, <1>3, <1>4

\* decodeNumber reads every string of digits exactly, or as a double where the
\* number does not fit, in any width: it stops before value overflows, and
\* never too early.
THEOREM NumbersAreExact ==
  ASSUME NEW negative \in BOOLEAN, NEW digits \in Seq(0..9)
  PROVE  Exact(negative, digits)
<1>1. PICK l \in Nat : l = Len(digits) /\ \A i \in 1..l : digits[i] \in 0..9
  OBVIOUS
<1>2. PICK max \in Nat : max = MaxInteger(negative) /\ max >= 10 /\ max < Wide
  BY JsonNumberAssumption DEF MaxInteger
<1>3. PICK threshold, rest : threshold = max \div 10 /\ rest = max % 10
  OBVIOUS
<1>4. PICK f, g : f = Value(negative, digits) /\ g = Numeral(digits)
  OBVIOUS
<1>5. f[0] = 0 /\ g[0] = 0
  BY <1>2, <1>3, <1>4, ValueIs, NumeralIs
<1>6. ASSUME NEW i \in 1..l
      PROVE  /\ f[i] = IF f[i - 1] = -1
                          \/ Overflows(f[i - 1], threshold, i = l, digits[i], rest)
                       THEN -1 ELSE (f[i - 1] * 10 + digits[i]) % Wide
             /\ g[i] = 10 * g[i - 1] + digits[i]
  BY <1>1, <1>2, <1>3, <1>4, ValueIs, NumeralIs
<1> DEFINE S == {i \in Nat : i <= l =>
                   f[i] \in Int /\ g[i] \in Nat /\ Sound(f[i], g[i], max, i = l)}
<1>7. 0 \in S
  BY <1>5 DEF Sound
<1>8. ASSUME NEW i \in Nat, i \in S PROVE i + 1 \in S
  <2> SUFFICES ASSUME i + 1 <= l
               PROVE  /\ f[i + 1] \in Int /\ g[i + 1] \in Nat
                      /\ Sound(f[i + 1], g[i + 1], max, i + 1 = l)
    OBVIOUS
  <2>1. f[i] \in Int /\ g[i] \in Nat /\ Sound(f[i], g[i], max, FALSE)
    <3>1. i <= l /\ i # l
      BY <1>1
    <3> QED
      BY <1>8, <3>1
  <2>2. i + 1 \in 1..l /\ (i + 1) - 1 = i
    OBVIOUS
  <2>3. PICK d \in 0..9 : d = digits[i + 1]
    BY <1>1, <2>2
  <2>4. /\ f[i + 1] = IF f[i] = -1 \/ Overflows(f[i], threshold, i + 1 = l, d, rest)
                      THEN -1 ELSE (f[i] * 10 + d) % Wide
        /\ g[i + 1] = 10 * g[i] + d
    BY <1>6, <2>2, <2>3
  <2>5. Sound(f[i + 1], 10 * g[i] + d, max, i + 1 = l)
    BY <1>2, <1>3, <2>1, <2>4, OneMoreDigit
  <2>6. 10 * g[i] + d \in Nat
    BY <2>1
  <2>7. f[i + 1] \in Int
    BY <2>5, <2>6 DEF Sound
  <2> QED
    BY <2>4, <2>5, <2>6, <2>7
<1>9. l \in S
  <2> HIDE DEF S
  <2> QED
    BY <1>7, <1>8, SetInduction
<1>10. g[l] \in Nat /\ Sound(f[l], g[l], max, TRUE)
  <2>1. l <= l /\ (l = l) = TRUE
    OBVIOUS
  <2>2. g[l] \in Nat /\ Sound(f[l], g[l], max, l = l)
    BY <1>9, <2>1
  <2> QED
    BY <2>2 DEF Sound
<1>11. DecodeNumber(negative, digits) =
         IF f[l] = -1 THEN Real ELSE Number(IF negative THEN -f[l] ELSE f[l])
  BY <1>1, <1>4 DEF DecodeNumber
<1>12. IF g[l] > max THEN f[l] = -1 ELSE f[l] # -1 /\ f[l] = g[l]
  BY <1>10 DEF Sound
<1>13. Exact(negative, digits) <=>
         DecodeNumber(negative, digits) =
           IF g[l] > max THEN Real ELSE Number(IF negative THEN -g[l] ELSE g[l])
  BY <1>1, <1>2, <1>4 DEF Exact
<1> QED
  BY <1>11, <1>12, <1>13

-----------------------------------------------------------------------------
(* The lengths of what is built for a report.                               *)

\* base64 takes four bytes for every three begun.
LEMMA Base64Bound ==
  ASSUME NEW n \in Nat
  PROVE  Base64(n) \in Nat /\ 3 * Base64(n) <= 4 * (n + 2)
<1>1. PICK q : q = (n + 2) \div 3
  OBVIOUS
<1>2. q \in Nat /\ 3 * q <= n + 2
  BY <1>1
<1> QED
  BY <1>1, <1>2 DEF Base64

\* Whatever lengths the records of a collection have, of the shortest or the
\* longest fields and every length between, neither buffer is written beyond.
THEOREM BodiesFit ==
  \A size \in 1..MAX_COLLECTIONS : \A total \in Totals(size) : Fits(total)
<1> SUFFICES ASSUME NEW size \in 1..MAX_COLLECTIONS, NEW total \in Totals(size)
             PROVE  Fits(total)
  OBVIOUS
<1>1. RecordMin = 56 /\ RecordMax = 169
  BY DEF RecordMin, RecordMax, SiLen, IntLen, TimeLen, PiLen
<1>2. total \in Nat /\ total <= 128 * 169
  BY <1>1 DEF Totals, MAX_COLLECTIONS
<1>3. Plain(total) = total + 17 /\ Cipher(total) = total + 45
  BY <1>2 DEF Plain, Cipher
<1>4. Encoded(total) \in Nat /\ 3 * Encoded(total) <= 4 * (total + 47)
  <2>1. total + 45 \in Nat
    BY <1>2
  <2> QED
    BY <1>2, <1>3, <2>1, Base64Bound DEF Encoded
<1>5. Encoded(total) <= 28905
  BY <1>2, <1>4
<1>6. Body(total) = Encoded(total) + 11 /\ Signed(total) = Encoded(total) + 147
  BY <1>5, <1>4 DEF Signed, Body, KeyLen, IdLen, TimeLen
<1> QED
  BY <1>2, <1>3, <1>4, <1>5, <1>6 DEF Fits, MAX_BUFFER_LEN

-----------------------------------------------------------------------------
(* Any inputs.                                                              *)

LEMMA InputAlways == GivenInput => [](input \in Inputs)
<1>1. Given => input \in Inputs
  BY DEF Given
<1>2. input \in Inputs /\ [Kept]_input => (input \in Inputs)'
  BY DEF Kept
<1> QED
  BY <1>1, <1>2, PTL DEF GivenInput

\* No number of any length is decoded to another integer.
THEOREM AlwaysExact == GivenInput => []NumbersExact
<1>1. input \in Inputs => NumbersExact
  BY AlgorithmsAssumption, NumbersAreExact DEF NumbersExact
<1> QED
  BY <1>1, InputAlways, PTL

\* No report outgrows its buffers, whatever the number of its records and the
\* lengths of their fields.
THEOREM AlwaysFits == GivenInput => []BodyFits
<1>1. input \in Inputs => BodyFits
  BY AlgorithmsAssumption, BodiesFit DEF BodyFits
<1> QED
  BY <1>1, InputAlways, PTL
=============================================================================
