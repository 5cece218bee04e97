---------------------------- MODULE MCSerialCfg -----------------------------
(* Small instances of module SerialCfg for TLC.                            *)
EXTENDS SerialCfg, TLC

CfgSymmetry == Permutations(Keys) \cup Permutations(Codings) \cup Permutations(Readers)
=============================================================================
