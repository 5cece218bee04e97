------------------------------ MODULE MCSinkTcp ------------------------------
(* Small instances of module SinkTcp for TLC.                              *)
EXTENDS SinkTcp, TLC

ConnSymmetry == Permutations(Conns)

\* The line coding of the instances: what is on the wire is told by lc_source.
Coding11 == [baud |-> 1, fmt |-> 1]
=============================================================================
