------------------------ MODULE MCSourceUsbCherry ------------------------
(* Small instances of module SourceUsbCherry for TLC.                      *)
EXTENDS SourceUsbCherry
=============================================================================
