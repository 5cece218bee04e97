----------------------------- MODULE MCUsbHub ------------------------------
(* The hub driver with one device, two external ports and an address space *)
(* that wraps.                                                              *)
EXTENDS UsbHub
=============================================================================
