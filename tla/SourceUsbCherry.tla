-------------------------- MODULE SourceUsbCherry --------------------------
(***************************************************************************)
(* The USB source on the CherryUSB stack, firmware/main/                   *)
(* source_usb_cherry.c.  Three kinds of actors share its state S:          *)
(*                                                                         *)
(*  - CherryUSB's hub thread, which enumerates and releases devices one at *)
(*    a time and calls usbh_evt and usbh_serial_stop;                      *)
(*  - stick_task, which opens the claimed device and reads from it;        *)
(*  - the callers of op_tx and apply_lc, which use S.ser under tx_mtx.     *)
(*                                                                         *)
(* Releasing a device frees its serial instance, and with it the semaphore *)
(* a reader may be parked on; the handshake of usbh_serial_stop with       *)
(* stick_task is to keep everybody off the instance by then.               *)
(*                                                                         *)
(* A device stands for its own serial instance.  Line codings are left to  *)
(* module SinkTcp; what matters of apply_lc here is that it uses S.ser and *)
(* aborts the read in progress.                                            *)
(***************************************************************************)
EXTENDS Integers, FiniteSets

CONSTANTS
    Devices,      \* serial devices that may be plugged in
    Ports,        \* hub ports
    Callers,      \* tasks that call op_tx and apply_lc
    NULL,
    VidPid        \* the key of a device without serial number, "VVVV:PPPP"

ASSUME CherryAssumption ==
    /\ IsFiniteSet(Devices)
    /\ NULL \notin Devices \cup Ports \cup Callers
    /\ VidPid \notin Devices \cup {NULL}

\* Minor numbers of /dev/ttyACM: one more than ever needed at once.
Names == 0..Cardinality(Devices)

VARIABLES
    dev,          \* per device: [st, port, name, ref]
    hub,          \* the hub thread: [pc, d, port]
    claimed, want_close, rx_idle, connect_sem, ser, ready,   \* fields of S
    id,           \* S.devname, S.hub_port and S.serial
    key,          \* S.key
    bound,        \* history: last device claimed, its serial number, and whether
                  \* it has been pulled since
    pc,           \* where stick_task is
    h,            \* stick_task's local handle, ser
    killed,       \* SET_ATTR has aborted the read in progress
    tx_mtx        \* who holds tx_mtx; NULL when it is free

sVars     == <<claimed, want_close, rx_idle, connect_sem, ser, ready, id, key>>
stickVars == <<pc, h>>
vars == <<dev, hub, sVars, bound, stickVars, killed, tx_mtx>>

Out == [st |-> "out", port |-> NULL, name |-> 0, ref |-> 0]

AllOut  == [d \in Devices |-> Out]
HubIdle == [pc |-> "idle", d |-> NULL, port |-> NULL]
Unbound == [d |-> NULL, serial |-> NULL, pulled |-> FALSE]
NoId    == [devname |-> 0, port |-> NULL, serial |-> NULL]

\* The state source_usb_init leaves, with no device enumerated yet.
Init ==
    /\ dev = AllOut
    /\ hub = HubIdle
    /\ claimed = FALSE /\ want_close = FALSE /\ rx_idle = TRUE
    /\ connect_sem = 0 /\ ser = NULL /\ ready = FALSE
    /\ id = NoId
    /\ key = NULL
    /\ bound = Unbound
    /\ pc = "wait" /\ h = NULL
    /\ killed = FALSE
    /\ tx_mtx = NULL

Enumerated == {d \in Devices : dev[d].st # "out"}
Connected(d) == dev[d].st = "live"

\* The published handle belongs to a device that is still there.
SerThere == ser # NULL /\ Connected(ser)

derive_key(serial) == IF serial # NULL THEN serial ELSE VidPid
-----------------------------------------------------------------------------
(***************************************************************************)
(* The hub thread.                                                         *)
(***************************************************************************)
Hub(pc1) == hub' = [hub EXCEPT !.pc = pc1]

\* A device is enumerated: its serial instance gets the lowest free minor.
Enumerate(d, p) ==
    /\ hub.pc = "idle" /\ dev[d].st = "out"
    /\ \A e \in Enumerated : dev[e].port # p
    /\ LET free == Names \ {dev[e].name : e \in Enumerated}
       IN  dev' = [dev EXCEPT ![d] = [st |-> "live", port |-> p, ref |-> 0,
                                      name |-> CHOOSE m \in free : \A k \in free : m <= k]]
    /\ hub' = [pc |-> "start", d |-> d, port |-> p]
    /\ UNCHANGED <<sVars, bound, stickVars, killed, tx_mtx>>

Claim(d, serial) ==
    /\ id' = [devname |-> dev[d].name, port |-> dev[d].port, serial |-> serial]
    /\ bound' = [d |-> d, serial |-> serial, pulled |-> FALSE]
    /\ want_close' = FALSE
    /\ claimed' = TRUE

\* Mutant: the identity is recorded before the claim is tested.
InterfaceStart_IdentityFirst(serial) ==
    /\ hub.pc = "start"
    /\ IF claimed
       THEN /\ id' = [devname |-> dev[hub.d].name, port |-> dev[hub.d].port, serial |-> serial]
            /\ UNCHANGED <<bound, want_close, claimed, connect_sem>>
       ELSE Claim(hub.d, serial) /\ connect_sem' = 1
    /\ hub' = HubIdle
    /\ UNCHANGED <<dev, rx_idle, ser, ready, key, stickVars, killed, tx_mtx>>

\* usbh_evt, INTERFACE_START: the first device wins.  Its serial number may be
\* missing, or fail to be fetched.
InterfaceStart(serial) ==
    /\ hub.pc = "start"
    /\ IF claimed
       THEN UNCHANGED <<id, bound, want_close, claimed, connect_sem>>
       ELSE Claim(hub.d, serial) /\ connect_sem' = 1
    /\ hub' = HubIdle
    /\ UNCHANGED <<dev, rx_idle, ser, ready, key, stickVars, killed, tx_mtx>>

\* A device is pulled: usbh_hubport_release marks the port, and
\* usbh_serial_remove closes the instance, which aborts its transfers.
Release(d) ==
    /\ hub.pc = "idle" /\ dev[d].st = "live"
    /\ dev' = [dev EXCEPT ![d].st = "dying", ![d].ref = 0]
    /\ hub' = [pc |-> "stop", d |-> d, port |-> dev[d].port]
    /\ bound' = [bound EXCEPT !.pulled = @ \/ d = bound.d]
    /\ UNCHANGED <<sVars, stickVars, killed, tx_mtx>>

Mine(d) == claimed /\ (d = ser \/ dev[d].name = id.devname)

\* usbh_serial_stop up to the mutex.
StopEnter ==
    /\ hub.pc = "stop"
    /\ IF Mine(hub.d)
       THEN want_close' = TRUE /\ Hub("stopmtx")
       ELSE Hub("free") /\ UNCHANGED want_close
    /\ UNCHANGED <<dev, claimed, rx_idle, connect_sem, ser, ready, id, key, bound,
                   stickVars, killed, tx_mtx>>

\* S.ser is withdrawn under tx_mtx.
StopWithdraw ==
    /\ hub.pc = "stopmtx" /\ tx_mtx = NULL
    /\ ser' = NULL
    /\ Hub("stopwait")
    /\ UNCHANGED <<dev, claimed, want_close, rx_idle, connect_sem, ready, id, key, bound,
                   stickVars, killed, tx_mtx>>

StopWait ==
    /\ hub.pc = "stopwait" /\ rx_idle
    /\ Hub("free")
    /\ UNCHANGED <<dev, sVars, bound, stickVars, killed, tx_mtx>>

\* The wait expires after 5 s: the free deletes a semaphore in use, and the
\* board panics and restarts.
StopExpire ==
    /\ hub.pc = "stopwait" /\ ~rx_idle
    /\ dev' = AllOut /\ hub' = HubIdle
    /\ claimed' = FALSE /\ want_close' = FALSE /\ rx_idle' = TRUE
    /\ connect_sem' = 0 /\ ser' = NULL /\ ready' = FALSE
    /\ id' = NoId /\ key' = NULL
    /\ pc' = "wait" /\ h' = NULL /\ killed' = FALSE /\ tx_mtx' = NULL
    /\ bound' = Unbound

\* usbh_serial_free.
Free ==
    /\ hub.pc = "free"
    /\ dev' = [dev EXCEPT ![hub.d] = Out]
    /\ Hub("gone")
    /\ UNCHANGED <<sVars, bound, stickVars, killed, tx_mtx>>

\* usbh_evt, DEVICE_DISCONNECTED: only the claimed device's port counts.
Disconnected ==
    /\ hub.pc = "gone"
    /\ want_close' = (want_close \/ (claimed /\ hub.port = id.port))
    /\ hub' = HubIdle
    /\ UNCHANGED <<dev, claimed, rx_idle, connect_sem, ser, ready, id, key, bound,
                   stickVars, killed, tx_mtx>>
-----------------------------------------------------------------------------
(***************************************************************************)
(* stick_task.                                                             *)
(***************************************************************************)
hubVars == <<dev, hub>>
Goto(pc1) == pc' = pc1

TakeConnect ==
    /\ pc = "wait" /\ connect_sem = 1
    /\ connect_sem' = 0
    /\ Goto("claim")
    /\ UNCHANGED <<hubVars, claimed, want_close, rx_idle, ser, ready, id, key, bound, h,
                   killed, tx_mtx>>

\* Mutant: rx_idle is not cleared.
ClaimRx_Forgotten ==
    /\ pc = "claim"
    /\ Goto("open")
    /\ UNCHANGED <<hubVars, sVars, bound, h, killed, tx_mtx>>

\* rx_idle is cleared before the first access to a handle.
ClaimRx ==
    /\ pc = "claim"
    /\ rx_idle' = FALSE
    /\ Goto("open")
    /\ UNCHANGED <<hubVars, claimed, want_close, connect_sem, ser, ready, id, key, bound, h,
                   killed, tx_mtx>>

\* usbh_serial_open finds the instance of a connected device by its name.
Openable == {d \in Devices : Connected(d) /\ dev[d].name = id.devname /\ dev[d].ref = 0}

Open(d) ==
    /\ pc = "open" /\ d \in Openable
    /\ dev' = [dev EXCEPT ![d].ref = 1]
    /\ h' = d
    /\ Goto("bind")
    /\ UNCHANGED <<hub, sVars, bound, killed, tx_mtx>>

\* Mutant: the claim is kept although nothing was opened.
OpenFail_KeepsClaim ==
    /\ pc = "open"
    /\ IF want_close THEN rx_idle' = TRUE /\ Goto("wait")
                     ELSE UNCHANGED <<rx_idle, pc>>
    /\ UNCHANGED <<hubVars, claimed, want_close, connect_sem, ser, ready, id, key, bound, h,
                   killed, tx_mtx>>

\* Mutant: opening is retried for ever.
OpenFail_Forever == pc = "open" /\ UNCHANGED vars

\* Opening fails: it is retried until the device is gone.
OpenFail ==
    /\ pc = "open"
    /\ IF want_close THEN rx_idle' = TRUE /\ Goto("drop")
                     ELSE UNCHANGED <<rx_idle, pc>>
    /\ UNCHANGED <<hubVars, claimed, want_close, connect_sem, ser, ready, id, key, bound, h,
                   killed, tx_mtx>>

\* S.ser is published under tx_mtx and the device's key derived.
Bind ==
    /\ pc = "bind" /\ tx_mtx = NULL
    /\ ser' = h
    /\ key' = derive_key(id.serial)
    /\ Goto("apply")
    /\ UNCHANGED <<hubVars, claimed, want_close, rx_idle, connect_sem, ready, id, bound, h,
                   killed, tx_mtx>>

\* The first apply_lc, under tx_mtx: SET_ATTR can succeed only on an open
\* instance, and is left out once S.ser is withdrawn.
Apply(ok) ==
    /\ pc = "apply" /\ tx_mtx = NULL
    /\ ok => ser = NULL \/ (SerThere /\ dev[ser].ref = 1)
    /\ IF ok THEN ready' = TRUE /\ killed' = FALSE /\ Goto("serve")
             ELSE Goto("fail") /\ UNCHANGED <<ready, killed>>
    /\ UNCHANGED <<hubVars, claimed, want_close, rx_idle, connect_sem, ser, id, key, bound, h,
                   tx_mtx>>

\* The RX loop ends when the close is wanted.
ServeEnd ==
    /\ pc = "serve" /\ want_close
    /\ ready' = FALSE /\ killed' = FALSE
    /\ Goto("clear")
    /\ UNCHANGED <<hubVars, claimed, want_close, rx_idle, connect_sem, ser, id, key, bound, h,
                   tx_mtx>>

\* Mutant: any read error ends the loop.
ReadError_Ends ==
    /\ pc = "serve" /\ ~want_close /\ (killed \/ ~Connected(h))
    /\ ready' = FALSE /\ Goto("clear")
    /\ killed' = FALSE
    /\ UNCHANGED <<hubVars, claimed, want_close, rx_idle, connect_sem, ser, id, key, bound, h,
                   tx_mtx>>

\* usbh_serial_read fails, because a SET_ATTR has aborted it or the device is
\* going; only the second ends the loop.
ReadError ==
    /\ pc = "serve" /\ ~want_close /\ (killed \/ ~Connected(h))
    /\ IF ~Connected(h) \/ dev[h].ref = 0
       THEN ready' = FALSE /\ Goto("clear")
       ELSE UNCHANGED <<ready, pc>>
    /\ killed' = FALSE
    /\ UNCHANGED <<hubVars, claimed, want_close, rx_idle, connect_sem, ser, id, key, bound, h,
                   tx_mtx>>

\* S.ser is withdrawn under tx_mtx, at the end of service ("clear") or after a
\* line coding that could not be set ("fail").
Withdraw ==
    /\ pc \in {"clear", "fail"} /\ tx_mtx = NULL
    /\ ser' = NULL
    /\ Goto(IF pc = "clear" THEN "close" ELSE "failclose")
    /\ UNCHANGED <<hubVars, claimed, want_close, rx_idle, connect_sem, ready, id, key, bound, h,
                   killed, tx_mtx>>

CloseHandle == dev' = [dev EXCEPT ![h].ref = 0] /\ h' = NULL

\* The identity is reset, the handle closed and, as the last use of it, the
\* hook released; after a failed line coding the identity stays.
Close ==
    /\ pc \in {"close", "failclose"}
    /\ CloseHandle
    /\ rx_idle' = TRUE
    /\ IF pc = "close"
       THEN key' = NULL /\ id' = [id EXCEPT !.serial = NULL] /\ Goto("notify")
       ELSE Goto("drop") /\ UNCHANGED <<key, id>>
    /\ UNCHANGED <<hub, claimed, want_close, connect_sem, ser, ready, bound,
                   killed, tx_mtx>>

\* bridge_notify_source_down.
NotifyDown ==
    /\ pc = "notify"
    /\ Goto("drop")
    /\ UNCHANGED <<hubVars, sVars, bound, h, killed, tx_mtx>>

\* The claim is released last.
Drop ==
    /\ pc = "drop"
    /\ claimed' = FALSE
    /\ Goto("wait")
    /\ UNCHANGED <<hubVars, want_close, rx_idle, connect_sem, ser, ready, id, key, bound, h,
                   killed, tx_mtx>>
-----------------------------------------------------------------------------
(***************************************************************************)
(* The callers.                                                            *)
(***************************************************************************)

\* op_tx takes tx_mtx and starts its write, which a device that does not accept
\* data can hold up for as long as it stays connected.
TxBegin(c) ==
    /\ tx_mtx = NULL
    /\ tx_mtx' = c
    /\ UNCHANGED <<hubVars, sVars, bound, stickVars, killed>>

TxEnd(c) ==
    /\ tx_mtx = c
    /\ tx_mtx' = NULL
    /\ UNCHANGED <<hubVars, sVars, bound, stickVars, killed>>

\* apply_lc for an RFC2217 controller or the web interface.
SetAttr ==
    /\ tx_mtx = NULL
    /\ SerThere /\ dev[ser].ref = 1
    /\ killed' = (pc = "serve")
    /\ UNCHANGED <<hubVars, sVars, bound, stickVars, tx_mtx>>
-----------------------------------------------------------------------------
HubStep ==
    \/ \E serial \in {hub.d, NULL} : InterfaceStart(serial)
    \/ StopEnter
    \/ StopWithdraw
    \/ StopWait
    \/ Free
    \/ Disconnected

StickStep ==
    \/ TakeConnect
    \/ ClaimRx
    \/ \E d \in Devices : Open(d)
    \/ OpenFail
    \/ Bind
    \/ \E ok \in BOOLEAN : Apply(ok)
    \/ ServeEnd
    \/ ReadError
    \/ Withdraw
    \/ Close
    \/ NotifyDown
    \/ Drop

Next ==
    \/ \E d \in Devices, p \in Ports : Enumerate(d, p)
    \/ \E d \in Devices : Release(d)
    \/ HubStep
    \/ StopExpire
    \/ StickStep
    \/ \E c \in Callers : TxBegin(c) \/ TxEnd(c)
    \/ SetAttr

Spec == Init /\ [][Next]_vars

\* A write ends when its device is not there any more: its transfers have been
\* aborted, and no new one is started on a port that is not connected.
TxAborted(c) == ~SerThere /\ TxEnd(c)

\* The hub thread has the highest priority and gets tx_mtx when it is released,
\* and no task holds the mutex for ever: strong fairness where it is taken.
FairSpec ==
    /\ Spec
    /\ WF_vars(HubStep) /\ SF_vars(StopWithdraw)
    /\ WF_vars(StickStep) /\ SF_vars(Bind) /\ SF_vars(Withdraw)
    /\ SF_vars(\E ok \in BOOLEAN : Apply(ok))
    /\ \A c \in Callers : WF_vars(TxAborted(c))
-----------------------------------------------------------------------------
DevState ==
    [st : {"out", "live", "dying"}, port : Ports \cup {NULL}, name : Names, ref : 0..1]
HubState ==
    [pc : {"idle", "start", "stop", "stopmtx", "stopwait", "free", "gone"},
     d : Devices \cup {NULL}, port : Ports \cup {NULL}]
Identity == [devname : Names, port : Ports \cup {NULL}, serial : Devices \cup {NULL}]
Claimed  == [d : Devices \cup {NULL}, serial : Devices \cup {NULL}, pulled : BOOLEAN]

TypeOK ==
    /\ dev \in [Devices -> DevState]
    /\ hub \in HubState
    /\ claimed \in BOOLEAN /\ want_close \in BOOLEAN /\ rx_idle \in BOOLEAN
    /\ connect_sem \in 0..1
    /\ ser \in Devices \cup {NULL} /\ ready \in BOOLEAN
    /\ id \in Identity
    /\ key \in Devices \cup {VidPid, NULL}
    /\ bound \in Claimed
    /\ pc \in {"wait", "claim", "open", "bind", "apply", "serve", "clear", "fail",
               "close", "failclose", "notify", "drop"}
    /\ h \in Devices \cup {NULL}
    /\ killed \in BOOLEAN
    /\ tx_mtx \in Callers \cup {NULL}

\* stick_task never holds a handle whose instance has been freed, wherever the
\* unplug falls: between the claim and the open, during the open or the first
\* line coding, in the RX loop, or in the teardown; nor do op_tx and apply_lc find
\* one under tx_mtx, although stick_task may publish it after usbh_serial_stop has
\* withdrawn it.
HandlesAlive ==
    /\ h # NULL => dev[h].st # "out"
    /\ ser # NULL => dev[ser].st # "out"

\* A source that is ready and not about to close serves the device that was
\* claimed, under the key derived from what that device reported: the resets of
\* one device's teardown never reach the identity of the next one.
IdentityIntact ==
    ready /\ ~want_close => h = bound.d /\ key = derive_key(bound.serial)

\* "the claim needs no lock": a claim is pending for stick_task or in its hands,
\* so no device can be claimed with nobody left to serve and to release it.
ClaimHasOwner == claimed <=> (connect_sem = 1 \/ pc # "wait")

\* "A read error does NOT imply the stick is gone": the source is taken down
\* only when the claimed device has been pulled, not on the read a change of the
\* line coding aborts and not when a sibling behind the hub goes.
ReadyUntilPulled ==
    [][ ready /\ ~ready' => bound.pulled ]_vars

\* A pulled device is released to the end, the hub thread is never stuck behind
\* tx_mtx or stick_task, and the claim on it is given up for the next device
\* (unless stick_task was so late that it has opened a device plugged in since).
UnplugCompletes ==
    /\ \A d \in Devices : dev[d].st = "dying" ~> dev[d].st = "out"
    /\ want_close /\ claimed ~> ~claimed \/ SerThere
=============================================================================
