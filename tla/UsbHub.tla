------------------------------- MODULE UsbHub -------------------------------
(***************************************************************************)
(* The hub driver of the vendored and patched CherryUSB host stack,        *)
(* components/cherryusb/class/hub/usbh_hub.c with core/usbh_core.c and the *)
(* port interrupts of port/dwc2/usb_hc_dwc2.c: one root port, at most one  *)
(* external hub on it, one hub thread that works off a message queue.      *)
(*                                                                         *)
(* The thread learns of the root port from the port interrupt and of the   *)
(* external ports from a status poll: a one-shot timer submits an          *)
(* interrupt URB, whose completion wakes the thread or restarts the timer. *)
(*                                                                         *)
(* A control transfer on a port succeeds only while its registers can be   *)
(* reached and, during an enumeration, while the device reset on the port  *)
(* is still there; it may fail besides, at most MaxFaults times.           *)
(***************************************************************************)
EXTENDS Integers, Sequences, FiniteSets, FiniteSetsExt

CONSTANTS
    Devices,      \* what is plugged in behind the hub, or into the root port
    ExtPorts,     \* ports of the external hub, 1..n as usbh_hub_events visits them
    HUB, NULL,
    MqSize,       \* messages hub_mq holds
    MaxAddr,      \* highest device address, 0x7f
    MaxPlugs,     \* bound: times something is plugged into an external port or pulled
    MaxRoot,      \* bound: the same for the root port
    MaxFaults     \* bound: control transfers that fail, or ports that never settle

RP == 0           \* the root port

ASSUME HubAssumption ==
    /\ HUB \notin Devices /\ NULL \notin Devices \cup {HUB}
    /\ ExtPorts \subseteq Nat \ {RP} /\ IsFiniteSet(ExtPorts)
    /\ MqSize \in Nat \ {0} /\ MaxAddr \in Nat /\ MaxAddr > 2
    /\ {MaxPlugs, MaxRoot, MaxFaults} \subseteq Nat

Ports  == ExtPorts \cup {RP}
Things == Devices \cup {HUB}
Addrs  == 2..MaxAddr

VARIABLES
    phys,         \* what is plugged into each port
    chg,          \* ports whose connection-change bit is set
    en,           \* ports whose occupant has been reset and not pulled since
    hubOk,        \* the hub answers at the address in its port structure
    child,        \* per port, struct usbh_hubport: [connected, addr, dev]
    hub,          \* the hub class instance: [connected, scan, timer, urb, buf]
    alloctab, last,   \* the device address map
    mq,           \* hub_mq
    t,            \* the hub thread: [pc, hub, todo, init, p, st, c]
    plugs, roots, faults      \* how often the environment has acted

devgen == <<alloctab, last>>
world  == <<phys, chg, en, hubOk>>
counts == <<plugs, roots, faults>>
vars   == <<world, child, hub, devgen, mq, t, counts>>

NoChild == [connected |-> FALSE, addr |-> 0, dev |-> NULL]
NoHub   == [connected |-> FALSE, scan |-> {}, timer |-> "none", urb |-> "idle", buf |-> {}]
Idle    == [pc |-> "idle", hub |-> "root", todo |-> {}, init |-> {}, p |-> RP,
            st |-> FALSE, c |-> FALSE]

Occupied == {p \in ExtPorts : phys[p] # NULL}

\* The board has just been reset: the hub may be in its port already, with
\* devices behind it, and their change bits may have been collected before.
Init ==
    /\ phys \in [Ports -> Things \cup {NULL}]
    /\ \A p \in ExtPorts : phys[p] # HUB
    /\ \A p, q \in Ports : p # q /\ phys[p] = phys[q] => phys[p] = NULL
    /\ chg \in {c \cup {RP} : c \in SUBSET Occupied} \cup {{}}
    /\ RP \in chg <=> phys[RP] # NULL
    /\ phys[RP] = HUB \/ chg \subseteq {RP}
    /\ en = {} /\ hubOk = FALSE
    /\ child = [p \in Ports |-> NoChild]
    /\ hub = NoHub
    /\ alloctab = {} /\ last = MaxAddr
    /\ mq = IF phys[RP] # NULL THEN <<"root">> ELSE <<>>
    /\ t = Idle
    /\ plugs = 0 /\ roots = 0 /\ faults = 0
-----------------------------------------------------------------------------
(***************************************************************************)
(* The wires.                                                              *)
(***************************************************************************)

\* usb_osal_mq_send from an interrupt: a message that finds no room is lost.
SendFromISR(m) == mq' = IF Len(mq) < MqSize THEN Append(mq, m) ELSE mq

\* The registers of a port can be read and written.
Reach(p) == p = RP \/ (phys[RP] = HUB /\ hubOk)

\* Something is plugged into an external port, or pulled from it.  A hub
\* without power does not notice.
PlugExt(p, d) ==
    /\ plugs < MaxPlugs /\ plugs' = plugs + 1
    /\ d # phys[p]
    /\ d = NULL \/ (phys[p] = NULL /\ \A q \in Ports : phys[q] # d)
    /\ phys' = [phys EXCEPT ![p] = d]
    /\ chg' = IF phys[RP] = HUB THEN chg \cup {p} ELSE chg
    /\ en' = en \ {p}
    /\ UNCHANGED <<hubOk, child, hub, devgen, mq, t, roots, faults>>

\* The same for the root port: the port interrupt marks the change and wakes
\* the hub thread.  Everything behind a hub loses its power with it.
PlugRoot(d) ==
    /\ roots < MaxRoot /\ roots' = roots + 1
    /\ d # phys[RP]
    /\ d = NULL \/ (phys[RP] = NULL /\ \A q \in Ports : phys[q] # d)
    /\ phys' = [phys EXCEPT ![RP] = d]
    /\ chg' = {RP} \cup (IF d = HUB THEN Occupied ELSE {})
    /\ en' = {} /\ hubOk' = FALSE
    /\ SendFromISR("root")
    /\ UNCHANGED <<child, hub, devgen, t, plugs, faults>>

Fault == faults < MaxFaults /\ faults' = faults + 1
-----------------------------------------------------------------------------
(***************************************************************************)
(* The status poll.                                                        *)
(***************************************************************************)
TimerStart(h) == [h EXCEPT !.timer = "armed"]

\* hub_int_timeout: usbh_submit_urb refuses a root port without a device, a hub
\* that is being released and an URB that is still pending, which filling it again
\* leaves as it was.  It would also refuse, for good, if all of the controller's
\* channels were taken: the poll, the thread's control transfer and the four
\* transfers of the one stick that is claimed leave some of them free.
hub_int_timeout ==
    /\ hub.timer = "armed"
    /\ hub' = [hub EXCEPT !.timer = "off",
                          !.urb = IF phys[RP] # NULL /\ child[RP].connected THEN "busy" ELSE @]
    /\ UNCHANGED <<world, child, devgen, mq, t, counts>>

\* hub_int_complete_callback, with data: a bit per changed port.
PollData ==
    /\ hub.urb = "busy" /\ hubOk /\ chg \cap ExtPorts # {}
    /\ hub' = [hub EXCEPT !.urb = "idle", !.buf = chg \cap ExtPorts]
    /\ SendFromISR("ext")
    /\ UNCHANGED <<world, child, devgen, t, counts>>

\* NAK: nothing has changed.
PollNak ==
    /\ hub.urb = "busy" /\ hubOk /\ chg \cap ExtPorts = {}
    /\ hub' = TimerStart([hub EXCEPT !.urb = "idle"])
    /\ UNCHANGED <<world, child, devgen, mq, t, counts>>

\* Mutant: the upstream code, which ends the poll here.
PollError_Ends ==
    /\ hub.urb = "busy"
    /\ hub' = [hub EXCEPT !.urb = "idle"]
    /\ UNCHANGED <<world, child, devgen, mq, t, counts>>

\* Any other completion.
PollError ==
    /\ hub.urb = "busy"
    /\ hub' = LET h == [hub EXCEPT !.urb = "idle"] IN IF hub.connected THEN TimerStart(h) ELSE h
    /\ UNCHANGED <<world, child, devgen, mq, t, counts>>
-----------------------------------------------------------------------------
(***************************************************************************)
(* Device addresses and the release of a port.                             *)
(***************************************************************************)

\* usbh_allocate_devaddr: the next free address after the last one handed out,
\* which itself is never considered; {} when there is none.
NextAddr ==
    LET free    == Addrs \ (alloctab \cup {last})
        dist(a) == (a - last) % (MaxAddr - 1)
    IN  {a \in free : \A b \in free : dist(a) <= dist(b)}

\* Mutant: only a device whose class driver was loaded gives its address back.
Freed_Configured(c) ==
    IF c.connected /\ c.dev # NULL /\ c.addr \in 1..(MaxAddr - 1) THEN {c.addr} ELSE {}

\* usbh_free_devaddr; the highest address is never given back.
Freed(c) == IF c.connected /\ c.addr \in 1..(MaxAddr - 1) THEN {c.addr} ELSE {}

\* Mutant: the children of a hub are left alone.
Below_Only(p) == {p}

\* The ports a release of p reaches: usbh_hub_disconnect releases the children.
Below(p) == IF p = RP /\ child[RP].dev = HUB THEN Ports ELSE {p}

\* usbh_hubport_release of port p, which then holds c.  Releasing a hub kills
\* its URB, deletes its timer and clears the instance; the buffer is static.
ReleaseInto(p, c) ==
    /\ alloctab' = alloctab \ UNION {Freed(child[q]) : q \in Below(p)}
    /\ child' = [q \in Ports |->
                    IF q = p THEN c ELSE IF q \in Below(p) THEN NoChild ELSE child[q]]
    /\ hub' = IF p = RP THEN [NoHub EXCEPT !.buf = hub.buf] ELSE hub

Gone(p) == [child[p] EXCEPT !.connected = FALSE, !.dev = NULL]

usbh_hubport_release(p) == ReleaseInto(p, Gone(p)) /\ UNCHANGED last
-----------------------------------------------------------------------------
(***************************************************************************)
(* usbh_hub_thread and usbh_hub_events.                                    *)
(***************************************************************************)
Goto(pc1) == t' = [t EXCEPT !.pc = pc1]
Unfailing == UNCHANGED <<plugs, roots, faults>>
Failing   == Fault /\ UNCHANGED <<plugs, roots>>

\* Mutant: the initial scan is not part of the ports visited.
Recv_ChangesOnly ==
    /\ t.pc = "idle" /\ mq # <<>>
    /\ mq' = Tail(mq)
    /\ IF Head(mq) = "root"
       THEN t' = [Idle EXCEPT !.pc = "scan", !.todo = {RP}]
       ELSE IF hub.connected
            THEN t' = [Idle EXCEPT !.pc = "scan", !.hub = "ext", !.todo = hub.buf]
            ELSE UNCHANGED t
    /\ UNCHANGED <<world, child, hub, devgen, counts>>

\* A message is taken.  For the external hub the change bits and the ports of
\* the initial scan are collected; a hub that is not connected any more is
\* ignored.  The root hub's buffer always names its one port.
Recv ==
    /\ t.pc = "idle" /\ mq # <<>>
    /\ mq' = Tail(mq)
    /\ IF Head(mq) = "root"
       THEN t' = [Idle EXCEPT !.pc = "scan", !.todo = {RP}] /\ UNCHANGED hub
       ELSE IF hub.connected
            THEN /\ t' = [Idle EXCEPT !.pc = "scan", !.hub = "ext",
                                      !.todo = hub.buf \cup hub.scan, !.init = hub.scan]
                 /\ hub' = [hub EXCEPT !.scan = {}]
            ELSE UNCHANGED <<t, hub>>
    /\ UNCHANGED <<world, child, devgen, counts>>

\* All ports are done: the next status poll of an external hub is started.
ScanEnd ==
    /\ t.pc = "scan" /\ t.todo = {}
    /\ t' = Idle
    /\ hub' = IF t.hub = "ext" /\ hub.connected THEN TimerStart(hub) ELSE hub
    /\ UNCHANGED <<world, child, devgen, mq, counts>>

\* The next port's status is read; a port that cannot be read is skipped.
ReadStatus ==
    /\ t.pc = "scan" /\ t.todo # {}
    /\ LET p    == Min(t.todo)
           skip == t' = [t EXCEPT !.todo = @ \ {p}]
       IN  \/ /\ Reach(p) /\ Unfailing
              /\ t' = [t EXCEPT !.pc = "clear", !.todo = @ \ {p}, !.p = p,
                                !.st = phys[p] # NULL, !.c = p \in chg]
           \/ ~Reach(p) /\ skip /\ Unfailing
           \/ Reach(p) /\ skip /\ Failing
    /\ UNCHANGED <<world, child, hub, devgen, mq>>

\* The change bits are cleared, trying again for as long as that fails; then
\* the port is debounced if it has changed or is up for the initial scan.
ClearChange ==
    /\ t.pc = "clear"
    /\ t.c => Reach(t.p)
    /\ chg' = IF t.c THEN chg \ {t.p} ELSE chg
    /\ Goto(IF t.c \/ (t.p \in t.init /\ t.st) THEN "debounce" ELSE "scan")
    /\ UNCHANGED <<phys, en, hubOk, child, hub, devgen, mq, counts>>

\* The connection has been stable for HUB_DEBOUNCE_STABLE, the changes on the
\* way cleared; an empty port is released.
DebounceOk ==
    /\ t.pc = "debounce" /\ Reach(t.p)
    /\ chg' = chg \ {t.p}
    /\ IF phys[t.p] # NULL
       THEN Goto("reset") /\ UNCHANGED <<child, hub, devgen>>
       ELSE Goto("scan") /\ usbh_hubport_release(t.p)
    /\ UNCHANGED <<phys, en, hubOk, mq, counts>>

\* It has not been within HUB_DEBOUNCE_TIMEOUT: the ports left are given up.
DebounceFail ==
    /\ t.pc = "debounce"
    /\ \/ ~Reach(t.p) /\ Unfailing /\ UNCHANGED chg
       \/ Reach(t.p) /\ Failing /\ chg' = chg \ {t.p}
    /\ t' = [t EXCEPT !.pc = "scan", !.todo = {}]
    /\ UNCHANGED <<phys, en, hubOk, child, hub, devgen, mq>>

\* The port reset, and reading the status after it, fail.
ResetFail ==
    /\ t.pc = "reset"
    /\ \/ (~Reach(t.p) \/ (t.p = RP /\ phys[RP] = NULL)) /\ Unfailing
       \/ Failing
    /\ Goto("scan")
    /\ UNCHANGED <<world, child, hub, devgen, mq>>

\* The port is not enabled after the reset.
ResetDisabled ==
    /\ t.pc = "reset" /\ Reach(t.p) /\ t.p # RP
    /\ \/ phys[t.p] = NULL /\ Unfailing
       \/ Failing
    /\ usbh_hubport_release(t.p)
    /\ Goto("scan")
    /\ UNCHANGED <<world, mq>>

\* The device is reset, what the port held before is released and its
\* structure set up again.  The reset of a hub turns its ports off, and which
\* of them report a change when they are powered again is up to the hub.
ResetOk ==
    /\ t.pc = "reset" /\ Reach(t.p) /\ phys[t.p] # NULL
    /\ ReleaseInto(t.p, [NoChild EXCEPT !.connected = TRUE]) /\ UNCHANGED last
    /\ IF phys[t.p] = HUB
       THEN /\ en' = {RP} /\ hubOk' = FALSE
            /\ \E c \in SUBSET Occupied : chg' = (chg \cap {RP}) \cup c
       ELSE en' = en \cup {t.p} /\ UNCHANGED <<hubOk, chg>>
    /\ Goto("enum")
    /\ UNCHANGED <<phys, mq, counts>>
-----------------------------------------------------------------------------
(***************************************************************************)
(* usbh_enumerate.                                                         *)
(***************************************************************************)

\* The device reset on the port answers.
Answers(p) == Reach(p) /\ p \in en

\* A transfer before the address is allocated fails, or one after it has been
\* set: the port is released.
EnumFail ==
    /\ t.pc \in {"enum", "config"}
    /\ \/ ~Answers(t.p) /\ Unfailing
       \/ Answers(t.p) /\ Failing
    /\ usbh_hubport_release(t.p)
    /\ Goto("scan")
    /\ UNCHANGED <<world, mq>>

\* There is no address left: that is not reported as a failure, and the port
\* stays connected at address 0.
EnumNoAddr ==
    /\ t.pc = "enum" /\ Answers(t.p) /\ NextAddr = {}
    /\ Goto("scan")
    /\ UNCHANGED <<world, child, hub, devgen, mq, counts>>

\* SET_ADDRESS fails: the address stays allocated, since the structure does not
\* hold it yet.
EnumAddrFail(a) ==
    /\ t.pc = "enum" /\ a \in NextAddr /\ Failing
    /\ alloctab' = alloctab \cup {a} /\ last' = a
    /\ child' = [child EXCEPT ![t.p] = Gone(t.p)]
    /\ Goto("scan")
    /\ UNCHANGED <<world, hub, mq>>

EnumAddr(a) ==
    /\ t.pc = "enum" /\ Answers(t.p) /\ a \in NextAddr
    /\ alloctab' = alloctab \cup {a} /\ last' = a
    /\ child' = [child EXCEPT ![t.p].addr = a]
    /\ hubOk' = (hubOk \/ phys[t.p] = HUB)
    /\ Goto("config")
    /\ UNCHANGED <<phys, chg, en, hub, mq, counts>>

\* The descriptors are read, the configuration selected and the class driver of
\* a device loaded.
EnumDevice ==
    /\ t.pc = "config" /\ Answers(t.p) /\ phys[t.p] # HUB
    /\ child' = [child EXCEPT ![t.p].dev = phys[t.p]]
    /\ Goto("scan")
    /\ UNCHANGED <<world, hub, devgen, mq, counts>>

\* The class driver of a hub, usbh_hub_connect: the ports that are occupied are
\* noted for the initial scan and the poll timer is started.
usbh_hub_connect ==
    /\ t.pc = "config" /\ Answers(t.p) /\ phys[t.p] = HUB
    /\ child' = [child EXCEPT ![RP].dev = HUB]
    /\ hub' = TimerStart([hub EXCEPT !.connected = TRUE, !.scan = Occupied])
    /\ Goto(IF Occupied # {} THEN "wakeup" ELSE "scan")
    /\ UNCHANGED <<world, devgen, mq, counts>>

\* The thread sends itself a message, and waits for room in its own queue.
WakeSelf ==
    /\ t.pc = "wakeup" /\ Len(mq) < MqSize
    /\ mq' = Append(mq, "ext")
    /\ Goto("scan")
    /\ UNCHANGED <<world, child, hub, devgen, counts>>
-----------------------------------------------------------------------------
Poll == hub_int_timeout \/ PollNak \/ PollError \/ PollData

Thread ==
    \/ Recv \/ ScanEnd \/ ReadStatus \/ ClearChange
    \/ DebounceOk \/ DebounceFail
    \/ ResetFail \/ ResetDisabled \/ ResetOk
    \/ EnumFail \/ EnumNoAddr
    \/ \E a \in Addrs : EnumAddrFail(a) \/ EnumAddr(a)
    \/ EnumDevice \/ usbh_hub_connect \/ WakeSelf

Next ==
    \/ \E p \in ExtPorts, d \in Devices \cup {NULL} : PlugExt(p, d)
    \/ \E d \in Things \cup {NULL} : PlugRoot(d)
    \/ Poll
    \/ Thread

Spec == Init /\ [][Next]_vars

\* Timers expire, transfers complete, not every poll fails, and the hub thread
\* runs: its priority is the highest of all tasks.
FairSpec ==
    /\ Spec
    /\ WF_vars(Poll) /\ SF_vars(PollData)
    /\ WF_vars(Thread)
-----------------------------------------------------------------------------
HubPort  == [connected : BOOLEAN, addr : {0} \cup Addrs, dev : Things \cup {NULL}]
HubClass ==
    [connected : BOOLEAN, scan : SUBSET ExtPorts, timer : {"none", "off", "armed"},
     urb : {"idle", "busy"}, buf : SUBSET ExtPorts]
ThreadState ==
    [pc : {"idle", "scan", "clear", "debounce", "reset", "enum", "config", "wakeup"},
     hub : {"root", "ext"}, todo : SUBSET Ports, init : SUBSET ExtPorts, p : Ports,
     st : BOOLEAN, c : BOOLEAN]

TypeOK ==
    /\ phys \in [Ports -> Things \cup {NULL}]
    /\ chg \subseteq Ports /\ en \subseteq Ports /\ hubOk \in BOOLEAN
    /\ child \in [Ports -> HubPort]
    /\ hub \in HubClass
    /\ alloctab \subseteq Addrs /\ last \in Addrs
    /\ mq \in Seq({"root", "ext"}) /\ Len(mq) <= MqSize
    /\ t \in ThreadState
    /\ plugs \in 0..MaxPlugs /\ roots \in 0..MaxRoot /\ faults \in 0..MaxFaults

\* The map of device addresses and the ports agree: no two connected ports have
\* the same address, none of them has one that is up for allocation, and however
\* devices come and go, or vanish in the middle of an enumeration, an address is
\* lost only to a failed SET_ADDRESS (and the highest one for good).
AddressesAccounted ==
    LET live == {p \in Ports : child[p].connected /\ child[p].addr # 0}
        used == {child[p].addr : p \in live}
    IN  /\ Cardinality(used) = Cardinality(live)
        /\ used \subseteq alloctab
        /\ Cardinality(alloctab \ (used \cup {MaxAddr})) <= faults

\* No device is left behind a hub that is gone: a connected external port means
\* a hub that is connected, polled and itself held by the root port.
NoOrphans ==
    \A p \in ExtPorts : child[p].connected =>
        /\ child[RP].connected /\ child[RP].dev = HUB
        /\ hub.connected /\ hub.timer # "none"

\* The status poll of a hub that can be reached never dies: the timer runs, the
\* URB is pending, or the hub thread will restart it, with a message queued or
\* in the middle of the hub's ports.
PollAlive ==
    hub.connected /\ hubOk /\ child[RP].connected =>
        \/ hub.timer = "armed" \/ hub.urb = "busy"
        \/ \E i \in 1..Len(mq) : mq[i] = "ext"
        \/ t.pc # "idle" /\ t.hub = "ext"

\* The occupant of the port is the one enumerated, and has not been pulled since.
Served(p) == child[p].connected /\ child[p].dev = phys[p] /\ p \in en

\* The thread is in one of two loops it never leaves: clearing the change bits
\* of a hub that has been pulled, or waiting for room in its own queue.
Stuck ==
    \/ t.pc = "clear" /\ t.c /\ ~Reach(t.p)
    \/ t.pc = "wakeup" /\ Len(mq) = MqSize

\* The port structure agrees with what is plugged in.
Settled(p) ==
    IF phys[p] # NULL /\ (p = RP \/ phys[RP] = HUB) THEN Served(p) ELSE ~child[p].connected

\* Whatever is plugged in, at a hub's attach or later, is enumerated, and what is
\* pulled, with its hub or alone, is released, however many polls fail, as long
\* as no control transfer does and the thread is not stuck.
PortsSettle ==
    \A p \in Ports : ~Settled(p) ~> Settled(p) \/ faults > 0 \/ Stuck
=============================================================================
