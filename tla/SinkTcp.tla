------------------------------- MODULE SinkTcp -------------------------------
(***************************************************************************)
(* firmware/main/sink_tcp.c with the source it serves: client slots, the   *)
(* accept gate, the dropping of clients when the device goes away or       *)
(* reboots, and the RFC2217 control of the source's line coding, which     *)
(* the web interface and the source itself also set.                       *)
(*                                                                         *)
(* Tasks: one accept_task, one client_task per accepted connection, the    *)
(* stick_task of a USB source with the driver's event callback, the        *)
(* receive task of a UART source and the task of the web server.  An       *)
(* action is one critical section (S.mtx, or the source's tx_mtx) or one   *)
(* unlocked access.  A client_task is named by its connection, because     *)
(* after its cleanup it runs on while its slot may already serve another   *)
(* connection.                                                             *)
(*                                                                         *)
(* Payload bytes, telnet framing and the replay buffer are not here.       *)
(***************************************************************************)
EXTENDS Integers, FiniteSets

CONSTANTS
    Slots,           \* S.clients[], SINK_TCP_MAX_CLIENTS of them
    Conns,           \* connections peers may open, each one once
    NULL,
    Bauds, Formats,  \* values of dwDTERate and of the other line parameters
    DeviceDefault,   \* line coding of the attached device without NVS entry
    GlobalDefault,   \* serialcfg_default()
    Kinds,           \* "usb", "uart", "ncp" (UART radio with reboot watch):
                     \* the kinds of source the firmware may be built with
    WebKinds,        \* bound: the kinds whose line codings the web interface sets, too
    MaxCommands,     \* bound: telnet commands per connection
    MaxGens,         \* bound: devices plugged in, one after the other
    MaxDrops         \* bound: reboots of the radio

Codings == [baud : Bauds, fmt : Formats]

ASSUME SinkTcpAssumption ==
    /\ Slots # {} /\ Slots \subseteq Nat /\ IsFiniteSet(Slots)
    /\ NULL \notin Slots \cup Conns \cup Codings
    /\ {DeviceDefault, GlobalDefault} \subseteq Codings
    /\ Kinds \subseteq {"usb", "uart", "ncp"}
    /\ "usb" \in Kinds => DeviceDefault = GlobalDefault
    /\ WebKinds \subseteq Kinds
    /\ {MaxCommands, MaxGens, MaxDrops} \subseteq Nat

VARIABLES
    clients,         \* S.clients[]: active, sock, is_controller (gen: history)
    ctrl_client,     \* S.ctrl_client
    active_clients,  \* S.stats.active_clients
    acc,             \* accept_task: where it is, and the socket in its hands
    pc,              \* where the client_task of a connection is
    slot,            \* the slot a client_task was started for
    loc,             \* its locals while it handles a command or reverts
    budget,          \* telnet commands the connection may still send
    shut,            \* sockets on which the firmware has called shutdown()
    hungup,          \* connections closed by the peer
    kind,            \* the kind of source, fixed by the build
    ready,           \* source_ready()
    gone,            \* the event callback has given disconnect_sem
    stick,           \* stick_task: where it is, and the coding it will apply
    gen,             \* number of devices opened so far
    lc, lc_source,   \* the source's line coding and its provenance 0/1/2
    nvs,             \* the serialcfg entry of the device, NULL when none
    web,             \* the web server's POST /api/serial under way
    drops            \* reboots of the radio so far

slotVars == <<clients, ctrl_client, active_clients>>
connVars == <<pc, slot, loc, budget>>
sockVars == <<shut, hungup>>
srcVars  == <<kind, ready, gone, stick, gen, drops>>
lcVars   == <<lc, lc_source, nvs, web>>
vars     == <<slotVars, acc, connVars, sockVars, srcVars, lcVars>>

FreeSlot == [active |-> FALSE, sock |-> NULL, is_controller |-> FALSE, gen |-> 0]
NoLocals == [ctrl |-> FALSE, set |-> NULL, val |-> DeviceDefault, src |-> 0]
AtAccept == [pc |-> "accept", cs |-> NULL, gen |-> 0, slot |-> NULL]
WebIdle  == [pc |-> "idle", val |-> DeviceDefault, src |-> 0]

\* A subnegotiation asks for a new value of one parameter.
Requests == [param : {"baud"}, value : Bauds] \cup [param : {"fmt"}, value : Formats]

\* The task is between its start and its cleanup section.
Serving(c) == pc[c] \in {"recv", "subneg", "got"}

\* The connection holds a slot: it is served, or its task could not be created.
Held(c) == Serving(c) \/ pc[c] = "unserved"

-----------------------------------------------------------------------------
(***************************************************************************)
(* The line coding of the source (apply_lc, op_revert_line_coding).        *)
(***************************************************************************)

\* apply_lc: one section under tx_mtx.  Without an open device it only
\* records the value.
apply_lc(val, src) == lc' = val /\ lc_source' = src

\* A USB control transfer may fail; programming a UART with values that were
\* valid before does not.
ApplyMayFail == kind = "usb" /\ UNCHANGED <<lc, lc_source>>

\* The device key is set, so that the device's NVS entry can be found.
KeySet == kind # "usb" \/ stick.pc \in {"opened", "live"}

\* S.connected, which the event callback clears before stick_task wakes up.
Connected == KeySet /\ ~gone

\* The coding to fall back to, with its provenance: the NVS entry, else the
\* default.
Resolve == IF nvs # NULL /\ KeySet
           THEN [val |-> nvs, src |-> 1]
           ELSE [val |-> DeviceDefault, src |-> 0]

-----------------------------------------------------------------------------
Init ==
    /\ clients = [i \in Slots |-> FreeSlot]
    /\ ctrl_client = NULL
    /\ active_clients = 0
    /\ acc = AtAccept
    /\ pc = [c \in Conns |-> "none"]
    /\ slot = [c \in Conns |-> NULL]
    /\ loc = [c \in Conns |-> NoLocals]
    /\ budget = [c \in Conns |-> MaxCommands]
    /\ shut = {} /\ hungup = {}
    /\ kind \in Kinds
    /\ ready = (kind # "usb")
    /\ gone = FALSE
    /\ stick = [pc |-> "wait", val |-> DeviceDefault, src |-> 0]
    /\ gen = 0
    /\ drops = 0
    /\ lc = DeviceDefault /\ lc_source = 0
    /\ nvs = NULL
    /\ web = WebIdle

(***************************************************************************)
(* The peers.                                                              *)
(***************************************************************************)
Connect(c) ==
    /\ pc[c] = "none"
    /\ pc' = [pc EXCEPT ![c] = "backlog"]
    /\ UNCHANGED <<slotVars, acc, slot, loc, budget, sockVars, srcVars, lcVars>>

Hangup(c) ==
    /\ pc[c] \in {"backlog", "accepted"} \/ Held(c)
    /\ hungup' = hungup \cup {c}
    /\ UNCHANGED <<slotVars, acc, connVars, shut, srcVars, lcVars>>

\* client_send and tn_send shut a socket down on which send() fails.
SendError(c) ==
    /\ Held(c)
    /\ shut' = shut \cup {c}
    /\ UNCHANGED <<slotVars, acc, connVars, hungup, srcVars, lcVars>>
-----------------------------------------------------------------------------
(***************************************************************************)
(* accept_task.                                                            *)
(***************************************************************************)
Accept(c) ==
    /\ acc.pc = "accept"
    /\ pc[c] = "backlog"
    /\ acc' = [AtAccept EXCEPT !.pc = "gate", !.cs = c]
    /\ pc' = [pc EXCEPT ![c] = "accepted"]
    /\ UNCHANGED <<slotVars, slot, loc, budget, sockVars, srcVars, lcVars>>

\* close(): the socket's state is gone with it.
Close(c) == shut' = shut \ {c} /\ hungup' = hungup \ {c}

\* close(cs) and back to accept().
Reject ==
    /\ acc' = AtAccept
    /\ pc' = [pc EXCEPT ![acc.cs] = "closed"]
    /\ Close(acc.cs)
    /\ UNCHANGED slotVars

\* Mutant: the accept path does not ask whether the source is ready.
Gate_NoReadyTest ==
    /\ acc.pc = "gate"
    /\ acc' = [acc EXCEPT !.pc = "admit", !.gen = gen]
    /\ UNCHANGED <<slotVars, pc, slot, loc, budget, sockVars, srcVars, lcVars>>

\* The readiness test holds no lock.
Gate ==
    /\ acc.pc = "gate"
    /\ \/ ready /\ acc' = [acc EXCEPT !.pc = "admit", !.gen = gen] /\ UNCHANGED <<slotVars, pc, sockVars>>
       \/ ~ready /\ Reject
    /\ UNCHANGED <<slot, loc, budget, srcVars, lcVars>>

find_free_slot ==
    LET free == {i \in Slots : ~clients[i].active}
    IN  {i \in free : \A j \in free : i <= j}

Admit ==
    /\ acc.pc = "admit"
    /\ \/ \E i \in find_free_slot :
            /\ clients' = [clients EXCEPT ![i] = [active |-> TRUE, sock |-> acc.cs,
                                                  is_controller |-> FALSE, gen |-> acc.gen]]
            /\ active_clients' = active_clients + 1
            /\ acc' = [acc EXCEPT !.pc = "spawn", !.slot = i]
            /\ UNCHANGED <<ctrl_client, pc, sockVars>>
       \/ find_free_slot = {} /\ Reject
    /\ UNCHANGED <<slot, loc, budget, srcVars, lcVars>>

\* xTaskCreate; its result is not looked at.  A session whose task could not be
\* created keeps its slot and its socket and is served by nobody.
Spawn ==
    /\ acc.pc = "spawn"
    /\ \E p \in {"recv", "unserved"} : pc' = [pc EXCEPT ![acc.cs] = p]
    /\ slot' = [slot EXCEPT ![acc.cs] = acc.slot]
    /\ acc' = AtAccept
    /\ UNCHANGED <<slotVars, loc, budget, sockVars, srcVars, lcVars>>

AcceptTask == (\E c \in Conns : Accept(c)) \/ Gate \/ Admit \/ Spawn
-----------------------------------------------------------------------------
(***************************************************************************)
(* client_task.  Bytes that were received before a shutdown are still      *)
(* processed, so commands are handled whatever the state of the socket.    *)
(***************************************************************************)
Command(c) ==
    /\ pc[c] = "recv"
    /\ budget[c] > 0
    /\ budget' = [budget EXCEPT ![c] = @ - 1]

\* Mutant: the last client to negotiate becomes controller.
comport_acquire_TakesOver(c) ==
    /\ Command(c)
    /\ ctrl_client' = slot[c]
    /\ clients' = [i \in Slots |-> [clients[i] EXCEPT !.is_controller = i = slot[c]]]
    /\ UNCHANGED <<active_clients, acc, pc, slot, loc, sockVars, srcVars, lcVars>>

\* comport_acquire, on IAC WILL/DO COM-PORT-OPTION.
comport_acquire(c) ==
    /\ Command(c)
    /\ \/ /\ ctrl_client = NULL
          /\ ctrl_client' = slot[c]
          /\ clients' = [clients EXCEPT ![slot[c]].is_controller = TRUE]
       \/ /\ ctrl_client # NULL
          /\ UNCHANGED <<ctrl_client, clients>>
    /\ UNCHANGED <<active_clients, acc, pc, slot, loc, sockVars, srcVars, lcVars>>

\* tn_subneg, first part: read is_controller under S.mtx, and release it.
SubnegBegin(c, r) ==
    /\ Command(c)
    /\ loc' = [loc EXCEPT ![c] = [NoLocals EXCEPT !.ctrl = clients[slot[c]].is_controller,
                                                  !.set = r]]
    /\ pc' = [pc EXCEPT ![c] = "subneg"]
    /\ UNCHANGED <<slotVars, acc, slot, sockVars, srcVars, lcVars>>

\* bridge_get_line_coding.
SubnegGet(c) ==
    /\ pc[c] = "subneg"
    /\ loc' = [loc EXCEPT ![c].val = lc]
    /\ pc' = [pc EXCEPT ![c] = "got"]
    /\ UNCHANGED <<slotVars, acc, slot, budget, sockVars, srcVars, lcVars>>

\* The whole coding that was read, with the one parameter replaced.
Requested(c) == IF loc[c].set.param = "baud"
                THEN [loc[c].val EXCEPT !.baud = loc[c].set.value]
                ELSE [loc[c].val EXCEPT !.fmt = loc[c].set.value]

\* bridge_apply_line_coding, for a client that was controller at SubnegBegin.
\* A query, an apply that fails and anybody else's request leave the wire alone
\* and are answered with the coding that was read.
SubnegApply(c) ==
    /\ pc[c] = "got"
    /\ \/ /\ loc[c].ctrl
          /\ apply_lc(Requested(c), 2)
       \/ /\ UNCHANGED <<lc, lc_source>>
    /\ pc' = [pc EXCEPT ![c] = "recv"]
    /\ loc' = [loc EXCEPT ![c] = NoLocals]
    /\ UNCHANGED <<slotVars, acc, slot, budget, sockVars, srcVars, nvs, web>>

\* The slot of a connection that is cleaned up.
close_client(c, was_ctrl) ==
    /\ clients' = [clients EXCEPT ![slot[c]].active = FALSE, ![slot[c]].sock = NULL,
                                  ![slot[c]].is_controller = @ /\ ~was_ctrl]
    /\ active_clients' = active_clients - 1
    /\ Close(c)

\* Mutant: the cleanup keeps S.ctrl_client.
Cleanup_KeepsOwner(c) ==
    /\ pc[c] = "recv"
    /\ c \in shut \cup hungup
    /\ close_client(c, ctrl_client = slot[c])
    /\ pc' = [pc EXCEPT ![c] = IF ctrl_client = slot[c] THEN "revert" ELSE "closed"]
    /\ UNCHANGED <<ctrl_client, acc, slot, loc, budget, srcVars, lcVars>>

\* Mutant: the cleanup does not revert the line coding.
Cleanup_NoRevert(c) ==
    /\ pc[c] = "recv"
    /\ c \in shut \cup hungup
    /\ ctrl_client' = IF ctrl_client = slot[c] THEN NULL ELSE ctrl_client
    /\ close_client(c, ctrl_client = slot[c])
    /\ pc' = [pc EXCEPT ![c] = "closed"]
    /\ UNCHANGED <<acc, slot, loc, budget, srcVars, lcVars>>

\* recv() returns 0 or an error: the cleanup section with close_client.
Cleanup(c) ==
    LET was_ctrl == ctrl_client = slot[c]
    IN  /\ pc[c] = "recv"
        /\ c \in shut \cup hungup
        /\ ctrl_client' = IF was_ctrl THEN NULL ELSE ctrl_client
        /\ close_client(c, was_ctrl)
        /\ pc' = [pc EXCEPT ![c] = IF was_ctrl THEN "revert" ELSE "closed"]
        /\ UNCHANGED <<acc, slot, loc, budget, srcVars, lcVars>>

\* bridge_revert_line_coding, after S.mtx was released: resolve ...
RevertResolve(c) ==
    /\ pc[c] = "revert"
    /\ loc' = [loc EXCEPT ![c].val = Resolve.val, ![c].src = Resolve.src]
    /\ pc' = [pc EXCEPT ![c] = "reapply"]
    /\ UNCHANGED <<slotVars, acc, slot, budget, sockVars, srcVars, lcVars>>

\* ... and apply.
RevertApply(c) ==
    /\ pc[c] = "reapply"
    /\ apply_lc(loc[c].val, loc[c].src) \/ ApplyMayFail
    /\ pc' = [pc EXCEPT ![c] = "closed"]
    /\ loc' = [loc EXCEPT ![c] = NoLocals]
    /\ UNCHANGED <<slotVars, acc, slot, budget, sockVars, srcVars, nvs, web>>

Progress(c) ==
    SubnegGet(c) \/ SubnegApply(c) \/ Cleanup(c) \/ RevertResolve(c) \/ RevertApply(c)

ClientTask(c) ==
    \/ comport_acquire(c)
    \/ \E r \in Requests : SubnegBegin(c, r)
    \/ Progress(c)
-----------------------------------------------------------------------------
(***************************************************************************)
(* The source: stick_task and event_cb of source_usb.c; the receive task   *)
(* of source_uart.c when it watches for the radio's ROM banner.            *)
(***************************************************************************)

\* Mutant: the slots are freed here, and not by the tasks that serve them.
DropAll_ClosesSlots ==
    /\ ctrl_client' = NULL
    /\ clients' = [i \in Slots |-> FreeSlot]
    /\ shut' = shut \cup {clients[i].sock : i \in {j \in Slots : clients[j].active}}
    /\ active_clients' = 0

\* on_source_down and drop_all_clients_locked: every client is shut down and
\* nobody is controller; the client tasks close their slots themselves.
DropAllClients ==
    /\ ctrl_client' = NULL
    /\ clients' = [i \in Slots |-> [clients[i] EXCEPT !.is_controller = FALSE]]
    /\ shut' = shut \cup {clients[i].sock : i \in {j \in Slots : clients[j].active}}
    /\ UNCHANGED active_clients

StickOpen ==
    /\ kind = "usb" /\ gen < MaxGens
    /\ stick.pc = "wait"
    /\ stick' = [pc |-> "opened", val |-> IF nvs = NULL THEN DeviceDefault ELSE nvs,
                                  src |-> IF nvs = NULL THEN 0 ELSE 1]
    /\ gone' = FALSE
    /\ gen' = gen + 1
    /\ UNCHANGED <<slotVars, acc, connVars, sockVars, kind, ready, drops, lcVars>>

StickReady ==
    /\ stick.pc = "opened"
    /\ apply_lc(stick.val, stick.src) \/ ApplyMayFail
    /\ stick' = [stick EXCEPT !.pc = "live"]
    /\ ready' = TRUE
    /\ UNCHANGED <<slotVars, acc, connVars, sockVars, kind, gone, gen, drops, nvs, web>>

\* event_cb, CDC_ACM_HOST_DEVICE_DISCONNECTED.
DeviceGone ==
    /\ stick.pc \in {"opened", "live"} /\ ~gone
    /\ ready' = FALSE
    /\ gone' = TRUE
    /\ UNCHANGED <<slotVars, acc, connVars, sockVars, kind, stick, gen, drops, lcVars>>

StickTeardown ==
    /\ stick.pc = "live" /\ gone
    /\ stick' = [stick EXCEPT !.pc = "torn"]
    /\ ready' = FALSE
    /\ gone' = FALSE
    /\ UNCHANGED <<slotVars, acc, connVars, sockVars, kind, gen, drops, lcVars>>

\* Mutant: the sinks are not told.
StickNotifyDown_Silent ==
    /\ stick.pc = "torn"
    /\ stick' = [stick EXCEPT !.pc = "wait"]
    /\ UNCHANGED <<slotVars, acc, connVars, sockVars, kind, ready, gone, gen, drops, lcVars>>

\* bridge_notify_source_down, which calls on_source_down of the sink.
StickNotifyDown ==
    /\ stick.pc = "torn"
    /\ DropAllClients
    /\ stick' = [stick EXCEPT !.pc = "wait"]
    /\ UNCHANGED <<acc, connVars, hungup, kind, ready, gone, gen, drops, lcVars>>

\* scan_for_radio_reboot calls sink_tcp_drop_clients.
RadioReboot ==
    /\ kind = "ncp" /\ drops < MaxDrops
    /\ DropAllClients
    /\ drops' = drops + 1
    /\ UNCHANGED <<acc, connVars, hungup, kind, ready, gone, stick, gen, lcVars>>

StickTask == StickOpen \/ StickReady \/ StickTeardown \/ StickNotifyDown
-----------------------------------------------------------------------------
(***************************************************************************)
(* h_serial_post for the attached device's key: store or delete the NVS    *)
(* entry, look whether RFC2217 owns the wire, then apply.                  *)
(***************************************************************************)
WebPost(val) ==
    /\ kind \in WebKinds /\ web.pc = "idle"
    /\ \/ nvs' = val /\ web' = [pc |-> "check", val |-> val, src |-> 1]
       \/ nvs' = NULL /\ web' = [pc |-> "check", val |-> GlobalDefault, src |-> 0]
    /\ UNCHANGED <<slotVars, acc, connVars, sockVars, srcVars, lc, lc_source>>

WebCheck ==
    /\ web.pc = "check"
    /\ web' = IF Connected /\ lc_source # 2 THEN [web EXCEPT !.pc = "apply"] ELSE WebIdle
    /\ UNCHANGED <<slotVars, acc, connVars, sockVars, srcVars, lc, lc_source, nvs>>

WebApply ==
    /\ web.pc = "apply"
    /\ apply_lc(web.val, web.src) \/ ApplyMayFail
    /\ web' = WebIdle
    /\ UNCHANGED <<slotVars, acc, connVars, sockVars, srcVars, nvs>>

Web == (\E val \in Codings : WebPost(val)) \/ WebCheck \/ WebApply
-----------------------------------------------------------------------------
Next ==
    \/ \E c \in Conns : Connect(c) \/ Hangup(c) \/ SendError(c) \/ ClientTask(c)
    \/ AcceptTask
    \/ StickTask
    \/ DeviceGone
    \/ RadioReboot
    \/ Web

Spec == Init /\ [][Next]_vars

\* The scheduler runs every task that can run; peers, devices and the operator
\* owe nothing.
Fairness ==
    /\ WF_vars(AcceptTask)
    /\ \A c \in Conns : WF_vars(Progress(c))
    /\ WF_vars(StickReady \/ StickTeardown \/ StickNotifyDown)

FairSpec == Spec /\ Fairness
-----------------------------------------------------------------------------
(***************************************************************************)
(* Properties.                                                             *)
(***************************************************************************)
ClientState == [active : BOOLEAN, sock : Conns \cup {NULL}, is_controller : BOOLEAN,
                gen : 0..MaxGens]
AcceptState == [pc : {"accept", "gate", "admit", "spawn"}, cs : Conns \cup {NULL},
                gen : 0..MaxGens, slot : Slots \cup {NULL}]
TaskPc      == {"none", "backlog", "accepted", "unserved", "recv", "subneg", "got", "revert",
                "reapply", "closed"}
TaskLocals  == [ctrl : BOOLEAN, set : Requests \cup {NULL}, val : Codings, src : 0..1]
StickState  == [pc : {"wait", "opened", "live", "torn"}, val : Codings, src : 0..1]
WebState    == [pc : {"idle", "check", "apply"}, val : Codings, src : 0..1]

\* The type of the state: only sockets of connections are ever shut down.
TypeOK ==
    /\ clients \in [Slots -> ClientState]
    /\ ctrl_client \in Slots \cup {NULL}
    /\ active_clients \in Int
    /\ acc \in AcceptState
    /\ pc \in [Conns -> TaskPc]
    /\ slot \in [Conns -> Slots \cup {NULL}]
    /\ loc \in [Conns -> TaskLocals]
    /\ budget \in [Conns -> 0..MaxCommands]
    /\ shut \subseteq Conns /\ hungup \subseteq Conns
    /\ kind \in Kinds /\ ready \in BOOLEAN /\ gone \in BOOLEAN
    /\ stick \in StickState
    /\ gen \in 0..MaxGens /\ drops \in 0..MaxDrops
    /\ lc \in Codings /\ lc_source \in 0..2
    /\ nvs \in Codings \cup {NULL}
    /\ web \in WebState

\* S.ctrl_client and the clients' is_controller flags name the same single
\* connection, through acquisition, cleanup, drops and slot reuse, and it is one
\* whose task will release it: ownership of the wire never outlives the
\* connection, not even one that negotiates COM-PORT-OPTION after it was dropped.
ControllerIsServed ==
    /\ \A i \in Slots : clients[i].is_controller <=> ctrl_client = i
    /\ ctrl_client # NULL =>
          \E c \in Conns : Serving(c) /\ slot[c] = ctrl_client /\ clients[ctrl_client].sock = c

\* Slots, sockets and tasks match one to one: an active slot is served by the
\* one task of its socket (or is about to be, or its task could not be created),
\* such a connection still owns its slot, and active_clients counts them.  A task
\* that is past its cleanup never counts for the slot it used to serve.
OneTaskPerSlot ==
    /\ \A i \in Slots : clients[i].active =>
          \/ acc.pc = "spawn" /\ acc.slot = i /\ acc.cs = clients[i].sock
          \/ \E c \in Conns : Held(c) /\ slot[c] = i /\ clients[i].sock = c
    /\ \A c \in Conns : Held(c) => clients[slot[c]].active /\ clients[slot[c]].sock = c
    /\ active_clients = Cardinality({i \in Slots : clients[i].active})

\* A session is usable when neither side has ended it, and stale when it was
\* admitted for a device that has been taken down since.
Usable(i) == clients[i].active /\ clients[i].sock \notin shut \cup hungup
Stale(i)  == Usable(i) /\ (clients[i].gen < gen \/ stick.pc = "wait")

\* The accept gate is tested without a lock, so a session can slip past the
\* dropping of clients; but at most one, the one in the hands of accept_task.
AtMostOneStaleSession ==
    kind = "usb" => \A i, j \in Slots : Stale(i) /\ Stale(j) => i = j

\* sink_tcp.c: "On controller disconnect the wire reverts to the device's
\* NVS/global default".  With no controller, and every connection either over
\* or between two commands of a live session, the coding on the wire is not one
\* an RFC2217 client left behind.  That is so for a plain UART source: where the
\* clients may be dropped, the control is gone before the cleanup looks at it.
Settled(c) ==
    \/ pc[c] \in {"none", "backlog", "accepted", "unserved", "closed"}
    \/ pc[c] = "recv" /\ c \notin shut \cup hungup

WireReverts ==
    kind = "uart" /\ ctrl_client = NULL /\ (\A c \in Conns : Settled(c)) => lc_source # 2

\* sink_tcp.c: the controller "is the only one whose SET-... is applied to the
\* wire".  The flag is looked at in one section and the request applied later, and
\* that much holds: a request that changes the coding comes from the connection
\* that controls the wire, or from one the firmware has dropped since, with its
\* socket shut down.  Nobody takes the control over from a live session.
SetByControllerOrDropped ==
    [][ \A c \in Conns :
            /\ pc[c] = "got" /\ pc'[c] = "recv"
            /\ <<lc, lc_source>>' # <<lc, lc_source>>
            => ctrl_client = slot[c] \/ c \in shut ]_vars

\* The connections that have a slot, and the one that controls the wire.
Sessions == {clients[i].sock : i \in {j \in Slots : clients[j].active}}
Owner    == IF ctrl_client = NULL THEN NULL ELSE clients[ctrl_client].sock

PL == INSTANCE PortLease
          WITH Peers <- Conns, Capacity <- Cardinality(Slots), Nobody <- NULL,
               sessions <- Sessions, owner <- Owner

\* The slots, the tasks and S.ctrl_client implement the lease of module PortLease:
\* "the first client to negotiate COM-PORT-OPTION becomes S.ctrl_client", and
\* though that is the number of a slot which is used again and again, ownership
\* never passes to a later connection in the slot.
ImplementsPortLease == PL!Spec

\* A session with a task whose peer hung up, that the firmware shut down, or that
\* was being served when the device was torn down, ends: its task closes the slot and
\* finishes.
DeadSessionsEnd ==
    \A c \in Conns :
        Serving(c) /\ (c \in hungup \cup shut \/ stick.pc = "torn") ~> pc[c] = "closed"
=============================================================================
