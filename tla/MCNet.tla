------------------------------- MODULE MCNet -------------------------------
(* Small instances of module Net for TLC. *)
EXTENDS Net
=============================================================================
