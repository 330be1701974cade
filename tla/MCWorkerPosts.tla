---------------------------- MODULE MCWorkerPosts ----------------------------
(***************************************************************************)
(* WorkerPosts for TLC, with the symmetry and the constraint of            *)
(* MCServiceReportManager.  There is one pool thread, so that its being    *)
(* the Poster does not break the symmetry.                                 *)
(***************************************************************************)
EXTENDS WorkerPosts, MCServiceReportManager
=============================================================================
