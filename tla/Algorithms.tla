----------------------------- MODULE Algorithms -----------------------------
(***************************************************************************)
(* The arithmetic of the program, one input at a time: the numbers that    *)
(* JsonNumber decodes and the lengths of the texts of ReportBody.          *)
(***************************************************************************)
EXTENDS JsonNumber, ReportBody

CONSTANT Inputs   \* records with a kind, and more depending on it

ASSUME AlgorithmsAssumption ==
  \A x \in Inputs :
    /\ x.kind = "number" => x.negative \in BOOLEAN /\ x.digits \in Seq(0..9)
    /\ x.kind = "body" => \E size \in 1..MAX_COLLECTIONS : x.total \in Totals(size)

VARIABLE input

Given      == input \in Inputs
Kept       == UNCHANGED input
GivenInput == Given /\ [][Kept]_input

-----------------------------------------------------------------------------
(* Properties.                                                              *)

\* A number is read exactly or, if it does not fit, as a double; never as
\* another integer.
NumbersExact == input.kind = "number" => Exact(input.negative, input.digits)

\* Whatever the records of a collection hold, no text that report() makes of
\* them is longer than its buffers.
BodyFits == input.kind = "body" => Fits(input.total)
=============================================================================
