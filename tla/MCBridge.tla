------------------------------ MODULE MCBridge ------------------------------
(* Small instances of module Bridge for TLC.                               *)
EXTENDS Bridge, TLC

\* The calling tasks and the sources are interchangeable.
CallerSymmetry == Permutations(Callers) \cup Permutations(Sources)
=============================================================================
