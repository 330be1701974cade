----------------------------- MODULE MCReporter -----------------------------
(***************************************************************************)
(* Reporter with answers that refuse some of two records, one whose number *)
(* begins as the other's.                                                  *)
(***************************************************************************)
EXTENDS Reporter

FewRefused == answer.again \subseteq {1, Size}
=============================================================================
