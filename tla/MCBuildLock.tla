---------------------------- MODULE MCBuildLock ----------------------------
(***************************************************************************)
(* Instances of BuildLock for TLC: three projects.                           *)
(***************************************************************************)
EXTENDS BuildLock, TLC

MCProjects == <<"Utility", "CommonServer", "GateServer">>

\* Invocations are interchangeable, and so are the modes.
Symmetry == Permutations(Invocations) \cup Permutations(Modes)
=============================================================================
