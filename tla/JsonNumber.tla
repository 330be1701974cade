----------------------------- MODULE JsonNumber -----------------------------
(***************************************************************************)
(* Reader::decodeNumber on the sign and the digits of a number: digit by   *)
(* digit, in a variable that has Wide values, and given up for a double    *)
(* before it overflows.                                                    *)
(***************************************************************************)
EXTENDS JsonValue

CONSTANT Wide   \* how many values LargestUInt has, 2^64

\* More than enough for a digit, and as many negative ones as others.
ASSUME JsonNumberAssumption == Wide \in Nat /\ Wide >= 20 /\ Wide % 2 = 0

\* -Value::minLargestInt and Value::maxLargestUInt.
MaxInteger(negative) == IF negative THEN Wide \div 2 ELSE Wide - 1

ThresholdLate(value, threshold, last, digit, rest) ==  \* mutant: > for >=
  value > threshold
Overflows(value, threshold, last, digit, rest) ==
  value >= threshold /\ (value > threshold \/ ~last \/ digit > rest)

\* value after each digit; -1 from where decodeDouble has taken over.
Value(negative, digits) ==
  LET threshold == MaxInteger(negative) \div 10
      rest == MaxInteger(negative) % 10
      value[i \in 0..Len(digits)] ==
        IF i = 0 THEN 0
        ELSE IF value[i - 1] = -1 \/ Overflows(value[i - 1], threshold,
                                               i = Len(digits), digits[i], rest)
             THEN -1
             ELSE (value[i - 1] * 10 + digits[i]) % Wide
  IN value

DecodeNumber(negative, digits) ==
  LET decoded == Value(negative, digits)[Len(digits)]
  IN IF decoded = -1 THEN Real
     ELSE Number(IF negative THEN -decoded ELSE decoded)

-----------------------------------------------------------------------------
\* What the digits up to each place stand for.
Numeral(digits) ==
  LET n[i \in 0..Len(digits)] == IF i = 0 THEN 0 ELSE 10 * n[i - 1] + digits[i]
  IN n

\* The number is read exactly or, if it does not fit, as a double; never as
\* another integer.
Exact(negative, digits) ==
  LET n == Numeral(digits)[Len(digits)]
  IN DecodeNumber(negative, digits) =
       IF n > MaxInteger(negative) THEN Real
       ELSE Number(IF negative THEN -n ELSE n)
=============================================================================
