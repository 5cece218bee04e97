------------------------------- MODULE UsbBus -------------------------------
(***************************************************************************)
(* The USB host library of the esp-usb stack, as source_usb.c and          *)
(* cul_dfu.c use it: one port, two clients (the CDC-ACM driver and the DFU *)
(* client), each with a queue of events.  A client is told of every new    *)
(* device, and of the end of a device it has open.  The port is recovered  *)
(* for the next device only when nobody has the last one open any more.    *)
(*                                                                         *)
(* An attached stick runs its application or its bootloader; ses counts    *)
(* the enumerations, and so tells one attachment from the next.            *)
(***************************************************************************)
EXTENDS Integers, Sequences

CONSTANTS
    Sticks,
    NULL,
    MaxSes        \* bound: enumerations

ASSUME BusAssumption == NULL \notin Sticks /\ MaxSes \in Nat

VARIABLES
    bus,          \* the attached device: [s, mode, ses]
    ses,          \* enumerations so far
    held,         \* clients that have the device open
    cdcq, dfuq    \* events the clients have not handled yet

busVars == <<bus, ses, held, cdcq, dfuq>>

NoDev == [s |-> NULL, mode |-> "none", ses |-> 0]

BusInit == bus = NoDev /\ ses = 0 /\ held = {} /\ cdcq = <<>> /\ dfuq = <<>>

Attached(n) == n # 0 /\ bus.ses = n

\* A stick enumerates.
Attach(s, mode) ==
    /\ bus = NoDev /\ held = {} /\ ses < MaxSes
    /\ ses' = ses + 1
    /\ bus' = [s |-> s, mode |-> mode, ses |-> ses']
    /\ cdcq' = Append(cdcq, [ev |-> "new", ses |-> ses'])
    /\ dfuq' = Append(dfuq, [ev |-> "new", ses |-> ses'])
    /\ UNCHANGED held

\* The stick is pulled, or leaves the bus on its own.
Detach ==
    /\ bus # NoDev
    /\ bus' = NoDev
    /\ cdcq' = IF "cdc" \in held THEN Append(cdcq, [ev |-> "gone", ses |-> bus.ses]) ELSE cdcq
    /\ dfuq' = IF "dfu" \in held THEN Append(dfuq, [ev |-> "gone", ses |-> bus.ses]) ELSE dfuq
    /\ UNCHANGED <<ses, held>>
=============================================================================
