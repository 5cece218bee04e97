------------------------------ MODULE MCUsbHost -----------------------------
(* A small instance of module UsbHost for TLC.                             *)
EXTENDS UsbHost
=============================================================================
