------------------------------ MODULE SourceUsb -----------------------------
(***************************************************************************)
(* The USB source on the esp-usb stack, firmware/main/source_usb.c, with   *)
(* the CDC-ACM driver under it, usb_host_cdc_acm/cdc_acm_host.c: the       *)
(* driver's task and its callbacks, stick_task inside and outside of the   *)
(* driver, and a caller of op_tx.  Handles are the number of the           *)
(* enumeration they were opened on.  All sticks have the same vendor and   *)
(* product id.                                                             *)
(*                                                                         *)
(* The driver's task has core 0 and a higher priority than stick_task,     *)
(* which runs on either of the two cores: neither waits for the other.     *)
(***************************************************************************)
EXTENDS UsbBus

CONSTANTS
    HasSerial,    \* sticks that report a serial number
    VidPid        \* the key of a stick that does not

ASSUME SourceAssumption ==
    HasSerial \subseteq Sticks /\ VidPid \notin Sticks \cup {NULL}

VARIABLES
    vid, serial, key, cdc, connected, ready,   \* fields of S
    connect_sem, disconnect_sem,
    noted,        \* the enumeration that new_dev_cb last recorded the identity of
    opn,          \* the device the driver has open for stick_task, 0 when none
    spc,          \* where stick_task is
    svid,         \* its snapshot of the vendor and product id, while it opens
    tx            \* what the holder of tx_mtx is doing: [busy, hdl]

idVars  == <<vid, serial, key, noted>>
srcVars == <<idVars, cdc, connected, ready, connect_sem, disconnect_sem, opn, spc, svid, tx>>

TxFree == [busy |-> FALSE, hdl |-> 0]

SrcInit ==
    /\ vid = "none" /\ serial = NULL /\ key = NULL /\ noted = 0 /\ cdc = 0
    /\ connected = FALSE /\ ready = FALSE
    /\ connect_sem = 0 /\ disconnect_sem = 0
    /\ opn = 0 /\ spc = "wait" /\ svid = "none" /\ tx = TxFree

SerialOf(d) == IF d.mode = "app" /\ d.s \in HasSerial THEN d.s ELSE NULL

derive_key == IF serial # NULL THEN serial ELSE VidPid
-----------------------------------------------------------------------------
\* The open device is in cdc_devices_list: usb_event_cb finds its event_cb.
Listed == opn # 0 /\ spc # "found"

\* usb_event_cb in the driver's task.  A new device is opened for new_dev_cb, which
\* a client cannot do that has it open already; new_dev_cb notes its identity and
\* signals stick_task, unless a device is connected.  While the driver has it open
\* stick_task cannot open it, so that the call is one step.  The end of a device
\* reaches event_cb, which takes the source down, if the device is listed.
CdcEvent ==
    /\ cdcq # <<>>
    /\ cdcq' = Tail(cdcq)
    /\ LET e == Head(cdcq)
           told == e.ev = "new" /\ Attached(e.ses) /\ opn # e.ses /\ ~connected
           ends == e.ev = "gone" /\ opn = e.ses /\ Listed
       IN  \/ /\ told
              /\ vid' = bus.mode /\ serial' = SerialOf(bus) /\ noted' = e.ses
              /\ connect_sem' = 1
              /\ UNCHANGED <<connected, ready, disconnect_sem>>
           \/ /\ ends
              /\ ready' = FALSE /\ connected' = FALSE /\ disconnect_sem' = 1
              /\ UNCHANGED <<vid, serial, noted, connect_sem>>
           \/ /\ ~told /\ ~ends
              /\ UNCHANGED <<vid, serial, noted, connect_sem, connected, ready, disconnect_sem>>
    /\ UNCHANGED <<bus, ses, held, dfuq, key, cdc, opn, spc, svid, tx>>
-----------------------------------------------------------------------------
(***************************************************************************)
(* stick_task.                                                             *)
(***************************************************************************)

\* Mutant: a disconnect signal left over from an aborted open stays.
TakeConnect_NoDrain ==
    /\ spc = "wait" /\ connect_sem = 1
    /\ connect_sem' = 0
    /\ svid' = vid /\ spc' = "open"
    /\ UNCHANGED <<busVars, idVars, cdc, connected, ready, disconnect_sem, opn, tx>>

\* A device has been announced: its ids are noted, an old signal is dropped.
TakeConnect ==
    /\ spc = "wait" /\ connect_sem = 1
    /\ connect_sem' = 0 /\ disconnect_sem' = 0
    /\ svid' = vid /\ spc' = "open"
    /\ UNCHANGED <<busVars, idVars, cdc, connected, ready, opn, tx>>

\* open_dispatch and cdc_acm_host_open: the driver finds and opens a device with
\* these ids.
OpenBegin ==
    /\ spc = "open" /\ bus.mode = svid /\ svid = "app"
    /\ opn' = bus.ses /\ held' = held \cup {"cdc"}
    /\ spc' = "found" /\ svid' = "none"
    /\ UNCHANGED <<bus, ses, cdcq, dfuq, idVars, cdc, connected, ready, connect_sem,
                   disconnect_sem, tx>>

\* cdc_acm_start: the interfaces are claimed, the first transfers are submitted and
\* the device is listed, with event_cb; it may have left the bus by then.  (A
\* submission that finds it gone aborts the program, and the board starts anew.)
OpenStart ==
    /\ spc = "found"
    /\ spc' = "init"
    /\ UNCHANGED <<busVars, idVars, cdc, connected, ready, connect_sem, disconnect_sem, opn,
                   svid, tx>>

\* Nothing that can be opened shows up within connection_timeout_ms, or the
\* interfaces or the set-up of the chip fail and the driver closes again.
OpenFail ==
    /\ \/ spc = "open" /\ ~(bus.mode = svid /\ svid = "app") /\ UNCHANGED <<opn, held>>
       \/ spc \in {"found", "init"} /\ opn' = 0 /\ held' = held \ {"cdc"}
    /\ spc' = "retry" /\ svid' = "none"
    /\ UNCHANGED <<bus, ses, cdcq, dfuq, idVars, cdc, connected, ready, connect_sem,
                   disconnect_sem, tx>>

\* Mutant: stick_task waits for the next enumeration.
Retry_Waits ==
    /\ spc = "retry"
    /\ spc' = "wait"
    /\ UNCHANGED <<busVars, idVars, cdc, connected, ready, connect_sem, disconnect_sem, opn,
                   svid, tx>>

\* Two seconds later the open is armed again.
Retry ==
    /\ spc = "retry"
    /\ connect_sem' = 1 /\ spc' = "wait"
    /\ UNCHANGED <<busVars, idVars, cdc, connected, ready, disconnect_sem, opn, svid, tx>>

\* The device is open: the handle is published.
OpenOk ==
    /\ spc = "init"
    /\ cdc' = opn /\ connected' = TRUE
    /\ spc' = "key"
    /\ UNCHANGED <<busVars, idVars, ready, connect_sem, disconnect_sem, opn, svid, tx>>

KeyDone ==
    /\ spc = "key"
    /\ key' = derive_key
    /\ spc' = "apply"
    /\ UNCHANGED <<busVars, vid, serial, noted, cdc, connected, ready, connect_sem,
                   disconnect_sem, opn, svid, tx>>

\* apply_lc under tx_mtx, whatever its result; then the source is ready.
Apply ==
    /\ spc = "apply" /\ ~tx.busy
    /\ ready' = TRUE /\ spc' = "serve"
    /\ UNCHANGED <<busVars, idVars, cdc, connected, connect_sem, disconnect_sem, opn, svid, tx>>

\* The disconnect signal ends the service.
ServeEnd ==
    /\ spc = "serve" /\ disconnect_sem = 1
    /\ disconnect_sem' = 0
    /\ ready' = FALSE /\ connected' = FALSE /\ cdc' = 0
    /\ spc' = "clear"
    /\ UNCHANGED <<busVars, idVars, connect_sem, opn, svid, tx>>

\* Mutant: the device is closed first, the identity cleared afterwards.
Clear_AfterClose ==
    /\ spc = "clear"
    /\ \/ /\ opn # 0
          /\ opn' = 0 /\ held' = held \ {"cdc"}
          /\ UNCHANGED <<key, serial, spc>>
       \/ /\ opn = 0
          /\ key' = NULL /\ serial' = NULL /\ spc' = "wait"
          /\ UNCHANGED <<opn, held>>
    /\ UNCHANGED <<bus, ses, cdcq, dfuq, vid, noted, cdc, connected, ready, connect_sem,
                   disconnect_sem, svid, tx>>

\* The identity is cleared.
Clear ==
    /\ spc = "clear"
    /\ key' = NULL /\ serial' = NULL
    /\ spc' = "close"
    /\ UNCHANGED <<busVars, vid, noted, cdc, connected, ready, connect_sem, disconnect_sem, opn,
                   svid, tx>>

\* cdc_acm_host_close and bridge_notify_source_down.
Close ==
    /\ spc = "close"
    /\ opn' = 0 /\ held' = held \ {"cdc"}
    /\ spc' = "wait"
    /\ UNCHANGED <<bus, ses, cdcq, dfuq, idVars, cdc, connected, ready, connect_sem,
                   disconnect_sem, svid, tx>>
-----------------------------------------------------------------------------
\* op_tx: the handle is read under tx_mtx and written to for up to 500 ms.
TxBegin ==
    /\ ~tx.busy /\ cdc # 0
    /\ tx' = [busy |-> TRUE, hdl |-> cdc]
    /\ UNCHANGED <<busVars, idVars, cdc, connected, ready, connect_sem, disconnect_sem, opn, spc,
                   svid>>

TxEnd ==
    /\ tx.busy
    /\ tx' = TxFree
    /\ UNCHANGED <<busVars, idVars, cdc, connected, ready, connect_sem, disconnect_sem, opn, spc,
                   svid>>

StickTask ==
    \/ TakeConnect \/ OpenBegin \/ OpenStart \/ OpenFail \/ Retry \/ OpenOk \/ KeyDone
    \/ Apply \/ ServeEnd \/ Clear \/ Close

SrcNext == CdcEvent \/ StickTask \/ TxBegin \/ TxEnd
-----------------------------------------------------------------------------
\* "Drain it here or the next healthy device would be torn down instantly": the
\* service of a device ends only when that device has left the bus, whatever
\* signal an earlier open, aborted half-way, has left behind.
OnlyGoneTornDown == spc \in {"clear", "close"} => ~Attached(opn)

\* A source that is ready for an attached stick that new_dev_cb was told of serves
\* it under that stick's own key: neither the teardown of the last one nor an
\* enumeration during the open, bootloader or application, mixes up the identity
\* of two attachments (source_usb.c 104-137, 237-266, 299-301).  A stick that
\* stick_task finds before the driver's task has handled its announcement is
\* never announced, and keeps the identity noted last.
KeyOfAttached ==
    ready /\ Attached(cdc) /\ noted = cdc =>
        key = (IF bus.s \in HasSerial THEN bus.s ELSE VidPid)
=============================================================================
