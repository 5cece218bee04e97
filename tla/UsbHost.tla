------------------------------- MODULE UsbHost ------------------------------
(***************************************************************************)
(* The two clients of the USB host library together: the USB source and    *)
(* the DFU client on one port (source_usb_init starts both).               *)
(***************************************************************************)
EXTENDS SourceUsb, CulDfu

vars == <<busVars, srcVars, dfuVars>>

Init == BusInit /\ SrcInit /\ DfuInit

\* h_cul_dfu_enter: the command reaches the application over the bridge, so
\* through op_tx and the device that is open.
Enter == tx.busy /\ Attached(tx.hdl) /\ EnterBoot

Source == SrcNext /\ UNCHANGED dfuVars

Dfu ==
    /\ \/ Enter
       \/ \E s \in Sticks : Plug(s) \/ EraseDone(s)
       \/ Pull \/ DfuTask \/ FlashStart \/ FlashStep
    /\ UNCHANGED srcVars

Next == Source \/ Dfu

Spec == Init /\ [][Next]_vars

\* The tasks of the two clients run on: each has a handler that blocks on
\* nothing but its queue, a transfer with a time-out or the mutex of the
\* transmitter, which is handed to the highest waiting task when it is given.
\* A device that answers lets the claim of its interfaces, and the set-up of its
\* chip, succeed now and then.
FairSpec ==
    /\ Spec
    /\ WF_vars(CdcEvent /\ UNCHANGED dfuVars)
    /\ SF_vars(StickTask /\ UNCHANGED dfuVars)
    /\ SF_vars(OpenStart /\ UNCHANGED dfuVars) /\ SF_vars(OpenOk /\ UNCHANGED dfuVars)
    /\ WF_vars(TxEnd /\ UNCHANGED dfuVars)
    /\ WF_vars(DfuTask /\ UNCHANGED srcVars)
-----------------------------------------------------------------------------
\* The driver has yet to deliver, or stick_task to see, that the open device left.
Leaving ==
    Listed /\ (disconnect_sem = 1 \/ \E i \in 1..Len(cdcq) : cdcq[i] = [ev |-> "gone", ses |-> opn])

\* "Restores the pre-VCP self-heal" and docs/cul-dfu.md, "it comes back as
\* CDC-ACM and the bridge takes over again": a stick that new_dev_cb was told of,
\* and that runs its application and stays on the bus, becomes the source, after
\* failed opens, after a flash and after any earlier stick; and a stick that
\* leaves once the driver has listed it is closed, so that the port can take the
\* next one (source_usb.c 247-260, 292-301; cdc_acm_host.c 934-952).  One that
\* leaves while the driver is opening it, before it is listed, may stay open.
Served ==
    /\ (bus.mode = "app" /\ noted = bus.ses) ~> (bus.mode # "app" \/ (ready /\ Attached(cdc)))
    /\ Leaving ~> opn = 0
=============================================================================
