---------------------------- MODULE UsbHubProofs ----------------------------
(***************************************************************************)
(* Proofs about module UsbHub, for any number of external ports and        *)
(* devices, an address space and a message queue of any size, and any      *)
(* bounds on what the environment does.                                    *)
(***************************************************************************)
EXTENDS UsbHub, FiniteSetTheorems, WellFoundedInduction, SequenceTheorems, TLAPS

(***************************************************************************)
(* The inductive invariant, in parts.                                      *)
(***************************************************************************)

\* There is one hub, and it answers only while it is plugged in.
WiresOK ==
    /\ \A p \in ExtPorts : phys[p] # HUB
    /\ hubOk => phys[RP] = HUB

\* The class instance, the root port and the children of the hub stand and fall
\* together.
HubTree ==
    /\ hub.connected => child[RP].connected /\ child[RP].dev = HUB /\ hub.timer # "none"
    /\ \A p \in ExtPorts : child[p].connected => hub.connected

OnPort == t.pc \in {"clear", "debounce", "reset", "enum", "config"}

\* The thread works on the ports of one hub, the external one for as long as it
\* is connected; a port under enumeration is connected, and has an address only
\* once that has been set.
ThreadOK ==
    /\ t.hub = "root" => t.todo \subseteq {RP} /\ t.p = RP
    /\ t.hub = "ext" => t.todo \subseteq ExtPorts /\ t.pc # "idle" /\ hub.connected
    /\ t.hub = "ext" /\ OnPort => t.p \in ExtPorts
    /\ t.pc = "wakeup" => t.hub = "root"
    /\ t.pc \in {"enum", "config"} => child[t.p].connected /\ (t.p = RP => ~hub.connected)
    /\ t.pc = "enum" => child[t.p].addr = 0

TreeInv == TypeOK /\ WiresOK /\ HubTree /\ ThreadOK

Live   == {p \in Ports : child[p].connected /\ child[p].addr # 0}
Used   == {child[p].addr : p \in Live}
Leaked == alloctab \ (Used \cup {MaxAddr})

\* No two connected ports have the same address.
AddrInv ==
    /\ \A p, q \in Live : child[p].addr = child[q].addr => p = q
    /\ Used \subseteq alloctab
    /\ Cardinality(Leaked) <= faults

RootsIn(s) == {i \in 1..Len(s) : s[i] = "root"}

\* A message of the root port for each of its changes, at most, and one more for
\* what was plugged in at the start.
QueueInv == Cardinality(RootsIn(mq)) <= roots + 1

\* As long as they cannot fill the queue, a change of the external hub finds room
\* in it, or a message that will do.
PollInv == QueueInv /\ (roots + 1 < MqSize => PollAlive)

-----------------------------------------------------------------------------
(***************************************************************************)
(* Lemmas about the operators and the records of the model.                *)
(***************************************************************************)

\* The ports are visited from the lowest number.
LEMMA MinMember ==
    ASSUME NEW S \in SUBSET Ports, S # {}
    PROVE  Min(S) \in S
  <1> DEFINE R == OpToRel(<, Nat)
  <1>1. S \subseteq Nat
    BY HubAssumption DEF Ports, RP
  <1>2. \E x \in S : \A y \in S : ~(<<y, x>> \in R)
    BY <1>1, NatLessThanWellFounded, WFMin
  <1>3. \A x, y \in S : <<y, x>> \in R <=> y < x
    BY <1>1 DEF OpToRel
  <1> HIDE DEF R
  <1>4. PICK x \in S : \A y \in S : ~(y < x)
    BY <1>2, <1>3
  <1>5. \A y \in S : x =< y
    BY <1>1, <1>4
  <1> QED
    BY <1>5 DEF Min

LEMMA Constants ==
    /\ RP \in Ports /\ ExtPorts \subseteq Ports /\ RP \notin ExtPorts
    /\ NULL \notin Things /\ HUB \in Things /\ HUB # NULL
    /\ MaxAddr \in Nat /\ MaxAddr > 2 /\ 0 \notin Addrs /\ MaxAddr \in Addrs
    /\ \A a \in Addrs : a \in Nat
    /\ NoChild \in HubPort /\ NoHub \in HubClass /\ Idle \in ThreadState
  <1>1. RP \in Ports /\ ExtPorts \subseteq Ports /\ RP \notin ExtPorts
    BY HubAssumption DEF Ports
  <1>2. NULL \notin Things /\ HUB \in Things /\ HUB # NULL
    BY HubAssumption DEF Things
  <1>3. /\ MaxAddr \in Nat /\ MaxAddr > 2 /\ 0 \notin Addrs /\ MaxAddr \in Addrs
        /\ \A a \in Addrs : a \in Nat
    BY HubAssumption DEF Addrs
  <1>4. NoChild \in HubPort
    BY DEF NoChild, HubPort
  <1>5. NoHub \in HubClass
    BY DEF NoHub, HubClass
  <1>6. Idle \in ThreadState
    BY <1>1 DEF Idle, ThreadState
  <1> QED
    BY <1>1, <1>2, <1>3, <1>4, <1>5, <1>6

LEMMA ThreadUpdate ==
    ASSUME NEW r \in ThreadState,
           NEW pc1 \in {"idle", "scan", "clear", "debounce", "reset", "enum", "config", "wakeup"}
    PROVE  [r EXCEPT !.pc = pc1] \in ThreadState
  BY DEF ThreadState

LEMMA ThreadVisits ==
    ASSUME NEW r \in ThreadState, NEW p \in Ports, NEW st \in BOOLEAN, NEW c \in BOOLEAN
    PROVE  /\ [r EXCEPT !.todo = @ \ {p}] \in ThreadState
           /\ [r EXCEPT !.pc = "scan", !.todo = {}] \in ThreadState
           /\ [r EXCEPT !.pc = "clear", !.todo = @ \ {p}, !.p = p, !.st = st, !.c = c]
                  \in ThreadState
  <1>1. [r EXCEPT !.todo = @ \ {p}] \in ThreadState
    BY DEF ThreadState
  <1>2. [r EXCEPT !.pc = "scan", !.todo = {}] \in ThreadState
    BY DEF ThreadState
  <1>3. [r EXCEPT !.pc = "clear", !.todo = @ \ {p}, !.p = p, !.st = st, !.c = c]
            \in ThreadState
    BY DEF ThreadState
  <1> QED
    BY <1>1, <1>2, <1>3

LEMMA ThreadTakes ==
    ASSUME NEW S \in SUBSET ExtPorts, NEW T \in SUBSET ExtPorts
    PROVE  /\ [Idle EXCEPT !.pc = "scan", !.todo = {RP}] \in ThreadState
           /\ [Idle EXCEPT !.pc = "scan", !.hub = "ext", !.todo = S, !.init = T] \in ThreadState
  <1> USE Constants
  <1>1. [Idle EXCEPT !.pc = "scan", !.todo = {RP}] \in ThreadState
    BY DEF ThreadState, Idle
  <1>2. [Idle EXCEPT !.pc = "scan", !.hub = "ext", !.todo = S, !.init = T] \in ThreadState
    BY DEF ThreadState, Idle
  <1> QED
    BY <1>1, <1>2

LEMMA HubUpdate ==
    ASSUME NEW r \in HubClass, NEW S \in SUBSET ExtPorts
    PROVE  /\ [r EXCEPT !.urb = "idle"] \in HubClass
           /\ [r EXCEPT !.timer = "armed"] \in HubClass
           /\ [r EXCEPT !.scan = S] \in HubClass
           /\ [r EXCEPT !.urb = "idle", !.buf = S] \in HubClass
           /\ [r EXCEPT !.timer = "off", !.urb = "busy"] \in HubClass
           /\ [r EXCEPT !.timer = "off", !.urb = r.urb] \in HubClass
           /\ [r EXCEPT !.connected = TRUE, !.scan = S] \in HubClass
           /\ [NoHub EXCEPT !.buf = S] \in HubClass
  <1>1. /\ [r EXCEPT !.urb = "idle"] \in HubClass
        /\ [r EXCEPT !.timer = "armed"] \in HubClass
    BY DEF HubClass
  <1>2. [r EXCEPT !.scan = S] \in HubClass
    BY DEF HubClass
  <1>3. [r EXCEPT !.urb = "idle", !.buf = S] \in HubClass
    BY DEF HubClass
  <1>4. /\ [r EXCEPT !.timer = "off", !.urb = "busy"] \in HubClass
        /\ [r EXCEPT !.timer = "off", !.urb = r.urb] \in HubClass
    BY DEF HubClass
  <1>5. [r EXCEPT !.connected = TRUE, !.scan = S] \in HubClass
    BY DEF HubClass
  <1>6. [NoHub EXCEPT !.buf = S] \in HubClass
    BY DEF HubClass, NoHub
  <1> QED
    BY <1>1, <1>2, <1>3, <1>4, <1>5, <1>6

LEMMA PortUpdate ==
    ASSUME NEW r \in HubPort, NEW a \in {0} \cup Addrs, NEW d \in Things \cup {NULL}
    PROVE  /\ [r EXCEPT !.connected = FALSE, !.dev = NULL] \in HubPort
           /\ [r EXCEPT !.connected = TRUE] \in HubPort
           /\ [r EXCEPT !.addr = a] \in HubPort
           /\ [r EXCEPT !.dev = d] \in HubPort
  <1>1. [r EXCEPT !.connected = FALSE, !.dev = NULL] \in HubPort
    BY DEF HubPort
  <1>2. [r EXCEPT !.connected = TRUE] \in HubPort
    BY DEF HubPort
  <1>3. [r EXCEPT !.addr = a] \in HubPort
    BY DEF HubPort
  <1>4. [r EXCEPT !.dev = d] \in HubPort
    BY DEF HubPort
  <1> QED
    BY <1>1, <1>2, <1>3, <1>4

\* What the release of a port leaves of the tree: nothing behind a hub, and
\* everything else untouched.
LEMMA Released ==
    ASSUME TypeOK, NEW p \in Ports, NEW c \in HubPort, ReleaseInto(p, c)
    PROVE  /\ child' \in [Ports -> HubPort] /\ hub' \in HubClass /\ alloctab' \subseteq Addrs
           /\ child'[p] = c
           /\ \A q \in Ports \ {p} : child'[q] = IF q \in Below(p) THEN NoChild ELSE child[q]
           /\ p = RP => ~hub'.connected
           /\ p # RP => hub' = hub
  <1>1. child' \in [Ports -> HubPort] /\ child'[p] = c
    BY Constants DEF ReleaseInto, TypeOK
  <1>2. \A q \in Ports \ {p} : child'[q] = IF q \in Below(p) THEN NoChild ELSE child[q]
    BY DEF ReleaseInto
  <1>3. hub.buf \in SUBSET ExtPorts
    BY DEF TypeOK, HubClass
  <1>4. hub' \in HubClass
    BY <1>3, HubUpdate DEF ReleaseInto, TypeOK
  <1>5. p = RP => ~hub'.connected
    BY DEF ReleaseInto, NoHub
  <1>6. p # RP => hub' = hub
    BY DEF ReleaseInto
  <1>7. alloctab' \subseteq Addrs
    BY DEF ReleaseInto, TypeOK
  <1> QED
    BY <1>1, <1>2, <1>4, <1>5, <1>6, <1>7

LEMMA SentFromISR ==
    ASSUME TypeOK, NEW m \in {"root", "ext"}, SendFromISR(m)
    PROVE  /\ mq' \in Seq({"root", "ext"}) /\ Len(mq') <= MqSize
           /\ \/ Len(mq) < MqSize /\ mq' = Append(mq, m)
              \/ Len(mq) = MqSize /\ mq' = mq
  <1>1. MqSize \in Nat /\ mq \in Seq({"root", "ext"}) /\ Len(mq) \in Nat /\ Len(mq) <= MqSize
    BY HubAssumption DEF TypeOK
  <1>2. CASE Len(mq) < MqSize
    BY <1>1, <1>2 DEF SendFromISR
  <1>3. CASE ~(Len(mq) < MqSize)
    BY <1>1, <1>3 DEF SendFromISR
  <1> QED
    BY <1>2, <1>3

LEMMA Faulted ==
    ASSUME TypeOK, Failing \/ Unfailing
    PROVE  /\ plugs' = plugs /\ roots' = roots
           /\ faults' \in 0..MaxFaults
           /\ faults' = faults \/ faults' = faults + 1
  BY HubAssumption DEF TypeOK, Failing, Unfailing, Fault

-----------------------------------------------------------------------------
(***************************************************************************)
(* Type correctness.                                                       *)
(***************************************************************************)

LEMMA InitTypes == Init => TypeOK
  <1> SUFFICES ASSUME Init PROVE TypeOK
    OBVIOUS
  <1>1. child \in [Ports -> HubPort] /\ hub \in HubClass /\ t \in ThreadState
    BY Constants DEF Init
  <1>2. chg \subseteq Ports
    BY Constants DEF Init, Occupied
  <1>3. mq \in Seq({"root", "ext"}) /\ Len(mq) <= MqSize
    <2>1. MqSize \in Nat /\ 1 <= MqSize
      BY HubAssumption
    <2>2. mq = <<"root">> \/ mq = <<>>
      BY DEF Init
    <2>3. CASE mq = <<"root">>
      BY <2>1, <2>3
    <2>4. CASE mq = <<>>
      BY <2>1, <2>4
    <2> QED
      BY <2>2, <2>3, <2>4
  <1>4. hubOk \in BOOLEAN
    <2>1. hubOk = FALSE
      BY DEF Init
    <2> QED
      BY <2>1
  <1>5. /\ phys \in [Ports -> Things \cup {NULL}] /\ en \subseteq Ports
        /\ alloctab \subseteq Addrs /\ last \in Addrs
    BY Constants DEF Init
  <1>6. plugs \in 0..MaxPlugs /\ roots \in 0..MaxRoot /\ faults \in 0..MaxFaults
    BY HubAssumption DEF Init
  <1> QED
    BY <1>1, <1>2, <1>3, <1>4, <1>5, <1>6 DEF TypeOK

\* What is plugged in and the polls keep the types.
LEMMA WorldTypes ==
    ASSUME TypeOK,
           \/ \E p \in ExtPorts, d \in Devices \cup {NULL} : PlugExt(p, d)
           \/ \E d \in Things \cup {NULL} : PlugRoot(d)
           \/ Poll
    PROVE  TypeOK'
  <1>1. ASSUME NEW p \in ExtPorts, NEW d \in Devices \cup {NULL}, PlugExt(p, d)
        PROVE  TypeOK'
    <2>1. phys' \in [Ports -> Things \cup {NULL}]
      BY <1>1, Constants DEF PlugExt, TypeOK, Things
    <2>2. chg' \subseteq Ports /\ en' \subseteq Ports
      BY <1>1, Constants DEF PlugExt, TypeOK
    <2>3. plugs' \in 0..MaxPlugs
      BY <1>1, HubAssumption DEF PlugExt, TypeOK
    <2>4. UNCHANGED <<hubOk, child, hub, alloctab, last, mq, t, roots, faults>>
      BY <1>1 DEF PlugExt, devgen
    <2> QED
      BY <2>1, <2>2, <2>3, <2>4 DEF TypeOK
  <1>2. ASSUME NEW d \in Things \cup {NULL}, PlugRoot(d)
        PROVE  TypeOK'
    <2>1. phys' \in [Ports -> Things \cup {NULL}]
      BY <1>2, Constants DEF PlugRoot, TypeOK
    <2>2. chg' \subseteq Ports /\ en' \subseteq Ports
      BY <1>2, Constants DEF PlugRoot, Occupied
    <2>3. roots' \in 0..MaxRoot
      BY <1>2, HubAssumption DEF PlugRoot, TypeOK
    <2>4. mq' \in Seq({"root", "ext"}) /\ Len(mq') <= MqSize
      BY <1>2, SentFromISR DEF PlugRoot
    <2>5. hubOk' \in BOOLEAN
      BY <1>2 DEF PlugRoot
    <2>6. UNCHANGED <<child, hub, alloctab, last, t, plugs, faults>>
      BY <1>2 DEF PlugRoot, devgen
    <2> QED
      BY <2>1, <2>2, <2>3, <2>4, <2>5, <2>6 DEF TypeOK
  <1>3. CASE Poll
    <2>1. UNCHANGED <<phys, chg, en, hubOk, child, alloctab, last, t, plugs, roots, faults>>
      BY <1>3 DEF Poll, hub_int_timeout, PollNak, PollError, PollData, world, devgen, counts
    <2>2. mq' \in Seq({"root", "ext"}) /\ Len(mq') <= MqSize
      BY <1>3, SentFromISR DEF Poll, hub_int_timeout, PollNak, PollError, PollData, TypeOK
    <2>3. hub \in HubClass /\ chg \cap ExtPorts \in SUBSET ExtPorts
      BY DEF TypeOK
    <2>4. hub' \in HubClass
      <3>1. CASE hub_int_timeout
        BY <2>3, <3>1, HubUpdate DEF hub_int_timeout
      <3>2. CASE PollNak
        BY <2>3, <3>2, HubUpdate DEF PollNak, TimerStart
      <3>3. CASE PollError
        BY <2>3, <3>3, HubUpdate DEF PollError, TimerStart
      <3>4. CASE PollData
        BY <2>3, <3>4, HubUpdate DEF PollData
      <3> QED
        BY <1>3, <3>1, <3>2, <3>3, <3>4 DEF Poll
    <2> QED
      BY <2>1, <2>2, <2>4 DEF TypeOK
  <1> QED
    BY <1>1, <1>2, <1>3

\* What a step of the thread does to its own state.
LEMMA ThreadTypes ==
    ASSUME TypeOK, Thread
    PROVE  t' \in ThreadState
  <1>1. t \in ThreadState /\ hub \in HubClass
    BY DEF TypeOK
  <1>2. CASE Recv
    <2>1. hub.scan \in SUBSET ExtPorts /\ hub.buf \in SUBSET ExtPorts
      BY <1>1 DEF HubClass
    <2>2. \/ t' = [Idle EXCEPT !.pc = "scan", !.todo = {RP}]
          \/ t' = [Idle EXCEPT !.pc = "scan", !.hub = "ext",
                               !.todo = hub.buf \cup hub.scan, !.init = hub.scan]
          \/ t' = t
      BY <1>2 DEF Recv
    <2>3. hub.buf \cup hub.scan \in SUBSET ExtPorts
      BY <2>1
    <2> HIDE DEF Idle
    <2> QED
      BY <1>1, <2>1, <2>2, <2>3, ThreadTakes
  <1>3. CASE ReadStatus
    <2> DEFINE p == Min(t.todo)
               st == phys[p] # NULL
               c == p \in chg
    <2>1. p \in Ports
      BY <1>1, <1>3, MinMember DEF ReadStatus, ThreadState
    <2>2. st \in BOOLEAN /\ c \in BOOLEAN
      OBVIOUS
    <2> HIDE DEF p, st, c
    <2> DEFINE read == [t EXCEPT !.pc = "clear", !.todo = @ \ {p}, !.p = p, !.st = st, !.c = c]
               skip == [t EXCEPT !.todo = @ \ {p}]
    <2>3. t' = read \/ t' = skip
      BY <1>3 DEF ReadStatus, p, st, c
    <2>4. read \in ThreadState /\ skip \in ThreadState
      BY <1>1, <2>1, <2>2, ThreadVisits
    <2> QED
      BY <2>3, <2>4
  <1>4. CASE ScanEnd
    BY <1>4, Constants DEF ScanEnd
  <1>5. CASE DebounceFail
    BY <1>1, <1>5, ThreadVisits, Constants DEF DebounceFail
  <1>6. CASE \/ ClearChange \/ DebounceOk \/ ResetFail \/ ResetDisabled \/ ResetOk
             \/ EnumFail \/ EnumNoAddr
    BY <1>1, <1>6, ThreadUpdate
       DEF ClearChange, DebounceOk, ResetFail, ResetDisabled, ResetOk, EnumFail, EnumNoAddr, Goto
  <1>7. CASE \/ \E a \in Addrs : EnumAddrFail(a) \/ EnumAddr(a)
             \/ EnumDevice \/ usbh_hub_connect \/ WakeSelf
    BY <1>1, <1>7, ThreadUpdate
       DEF EnumAddrFail, EnumAddr, EnumDevice, usbh_hub_connect, WakeSelf, Goto
  <1> QED
    BY <1>2, <1>3, <1>4, <1>5, <1>6, <1>7 DEF Thread

\* The steps of the thread that leave the addresses and the port structures alone.
Looking ==
    \/ Recv \/ ScanEnd \/ ReadStatus \/ ClearChange \/ DebounceFail
    \/ ResetFail \/ EnumNoAddr \/ WakeSelf

\* Those that release a port.
Releasing == DebounceOk \/ ResetDisabled \/ ResetOk \/ EnumFail

LEMMA ThreadKinds ==
    Thread <=> \/ Looking \/ Releasing
               \/ \E a \in Addrs : EnumAddrFail(a) \/ EnumAddr(a)
               \/ EnumDevice \/ usbh_hub_connect
  BY DEF Thread, Looking, Releasing

\* A step that releases a port does nothing else, or is DebounceOk on a port that
\* is occupied.
LEMMA ReleasingStep ==
    ASSUME TypeOK, Releasing
    PROVE  /\ t.p \in Ports
           /\ \/ UNCHANGED <<child, hub, devgen>>
              \/ \E c \in HubPort :
                    /\ ReleaseInto(t.p, c) /\ UNCHANGED last
                    /\ c.connected => c.addr = 0 /\ ResetOk
           /\ phys' = phys /\ mq' = mq /\ (hubOk' = hubOk \/ hubOk' = FALSE)
           /\ chg' \subseteq Ports /\ en' \subseteq Ports
           /\ \E pc1 \in {"scan", "reset", "enum"} : t' = [t EXCEPT !.pc = pc1]
  <1>1. t.p \in Ports /\ child[t.p] \in HubPort
    BY DEF TypeOK, ThreadState
  <1>2. Gone(t.p) \in HubPort /\ ~Gone(t.p).connected
    <2>1. \A r \in HubPort : ~[r EXCEPT !.connected = FALSE, !.dev = NULL].connected
      BY DEF HubPort
    <2> QED
      BY <1>1, <2>1, PortUpdate DEF Gone
  <1>3. /\ [NoChild EXCEPT !.connected = TRUE] \in HubPort
        /\ [NoChild EXCEPT !.connected = TRUE].addr = 0
    BY Constants, PortUpdate DEF NoChild
  <1>4. /\ phys' = phys /\ mq' = mq
        /\ \E pc1 \in {"scan", "reset", "enum"} : t' = [t EXCEPT !.pc = pc1]
    BY DEF Releasing, DebounceOk, ResetDisabled, ResetOk, EnumFail, world, Goto
  <1>5. (hubOk' = hubOk \/ hubOk' = FALSE) /\ chg' \subseteq Ports /\ en' \subseteq Ports
    BY <1>1, Constants DEF Releasing, DebounceOk, ResetDisabled, ResetOk, EnumFail, world,
                           TypeOK, Occupied
  <1>6. \/ UNCHANGED <<child, hub, devgen>>
        \/ \E c \in HubPort :
              /\ ReleaseInto(t.p, c) /\ UNCHANGED last
              /\ c.connected => c.addr = 0 /\ ResetOk
    <2> HIDE DEF Gone
    <2>1. CASE ResetOk
      <3>1. ReleaseInto(t.p, [NoChild EXCEPT !.connected = TRUE]) /\ UNCHANGED last
        BY <2>1 DEF ResetOk
      <3> QED
        BY <1>3, <2>1, <3>1
    <2>2. CASE UNCHANGED <<child, hub, devgen>> \/ usbh_hubport_release(t.p)
      BY <1>2, <2>2 DEF usbh_hubport_release
    <2>3. ASSUME DebounceOk \/ ResetDisabled \/ EnumFail
          PROVE  UNCHANGED <<child, hub, devgen>> \/ usbh_hubport_release(t.p)
      BY <2>3 DEF DebounceOk, ResetDisabled, EnumFail
    <2> QED
      BY <2>1, <2>2, <2>3 DEF Releasing
  <1> QED
    BY <1>1, <1>4, <1>5, <1>6

LEMMA ThreadCounts ==
    ASSUME TypeOK, Thread
    PROVE  /\ plugs' = plugs /\ roots' = roots
           /\ faults' \in 0..MaxFaults
           /\ faults' = faults \/ faults' = faults + 1
  <1>1. Failing \/ Unfailing
    BY DEF Thread, Recv, ScanEnd, ReadStatus, ClearChange, DebounceOk, DebounceFail, ResetFail,
           ResetDisabled, ResetOk, EnumFail, EnumNoAddr, EnumAddrFail, EnumAddr, EnumDevice,
           usbh_hub_connect, WakeSelf, counts, Unfailing
  <1> QED
    BY <1>1, Faulted

\* An enumeration changes the structure of the port it is about.
LEMMA EnumStep ==
    ASSUME TypeOK, WiresOK, ThreadOK, NEW a \in Addrs,
           EnumAddrFail(a) \/ EnumAddr(a) \/ EnumDevice \/ usbh_hub_connect
    PROVE  /\ t.p \in Ports
           /\ \E c \in HubPort : child' = [child EXCEPT ![t.p] = c]
           /\ hub' \in HubClass
           /\ alloctab' \subseteq Addrs /\ last' \in Addrs
           /\ phys' = phys /\ chg' = chg /\ en' = en /\ mq' = mq
           /\ hubOk' \in BOOLEAN
  <1>1. t.p \in Ports /\ child[t.p] \in HubPort /\ phys[t.p] \in Things \cup {NULL}
    BY DEF TypeOK, ThreadState
  <1>2. /\ Gone(t.p) \in HubPort
        /\ [child[t.p] EXCEPT !.addr = a] \in HubPort
        /\ [child[t.p] EXCEPT !.dev = phys[t.p]] \in HubPort
    BY <1>1, PortUpdate DEF Gone
  <1>3. CASE EnumAddrFail(a)
    BY <1>1, <1>2, <1>3 DEF EnumAddrFail, world, TypeOK
  <1>4. CASE EnumAddr(a)
    <2>1. (hubOk \/ phys[t.p] = HUB) \in BOOLEAN
      OBVIOUS
    <2>2. child' = [child EXCEPT ![t.p] = [child[t.p] EXCEPT !.addr = a]]
      BY <1>4 DEF EnumAddr
    <2> QED
      BY <1>1, <1>2, <1>4, <2>1, <2>2 DEF EnumAddr, TypeOK
  <1>5. CASE EnumDevice
    <2>1. child' = [child EXCEPT ![t.p] = [child[t.p] EXCEPT !.dev = phys[t.p]]]
      BY <1>5 DEF EnumDevice
    <2> QED
      BY <1>1, <1>2, <1>5, <2>1 DEF EnumDevice, world, devgen, TypeOK
  <1>6. CASE usbh_hub_connect
    <2>1. t.p = RP /\ phys[t.p] = HUB
      BY <1>1, <1>6 DEF usbh_hub_connect, WiresOK, Ports
    <2>2. child' = [child EXCEPT ![t.p] = [child[t.p] EXCEPT !.dev = phys[t.p]]]
      BY <1>6, <2>1 DEF usbh_hub_connect
    <2>3. Occupied \in SUBSET ExtPorts /\ hub \in HubClass
      BY DEF Occupied, TypeOK
    <2>4. hub' \in HubClass
      BY <1>6, <2>3, HubUpdate DEF usbh_hub_connect, TimerStart
    <2> QED
      BY <1>1, <1>2, <1>6, <2>2, <2>4 DEF usbh_hub_connect, world, devgen, TypeOK
  <1> QED
    BY <1>3, <1>4, <1>5, <1>6

LEMMA LookingStep ==
    ASSUME TypeOK, Looking
    PROVE  /\ UNCHANGED <<phys, en, hubOk, child, alloctab, last>>
           /\ chg' \subseteq chg
           /\ hub' \in HubClass /\ hub'.connected = hub.connected
           /\ mq' \in Seq({"root", "ext"}) /\ Len(mq') <= MqSize
  <1> USE DEF Looking
  <1>1. UNCHANGED <<phys, en, hubOk, child, alloctab, last>>
    BY DEF Recv, ScanEnd, ReadStatus, ClearChange, DebounceFail, ResetFail, EnumNoAddr, WakeSelf,
           world, devgen
  <1>2. chg' \subseteq chg
    BY DEF Recv, ScanEnd, ReadStatus, ClearChange, DebounceFail, ResetFail, EnumNoAddr, WakeSelf,
           world
  <1>3. \/ hub' = hub \/ hub' = [hub EXCEPT !.timer = "armed"]
        \/ hub' = [hub EXCEPT !.scan = {}]
    BY DEF Recv, ScanEnd, ReadStatus, ClearChange, DebounceFail, ResetFail, EnumNoAddr, WakeSelf,
           TimerStart
  <1>4. hub' \in HubClass
    BY <1>3, HubUpdate DEF TypeOK
  <1>5. hub'.connected = hub.connected
    BY <1>3 DEF TypeOK, HubClass
  <1>6. MqSize \in Nat /\ mq \in Seq({"root", "ext"}) /\ Len(mq) <= MqSize
    BY HubAssumption DEF TypeOK
  <1>7. mq' \in Seq({"root", "ext"}) /\ Len(mq') <= MqSize
    <2>1. CASE Recv
      BY <1>6, <2>1 DEF Recv
    <2>2. CASE WakeSelf
      BY <1>6, <2>2 DEF WakeSelf
    <2>3. CASE ~Recv /\ ~WakeSelf
      BY <1>6, <2>3
         DEF ScanEnd, ReadStatus, ClearChange, DebounceFail, ResetFail, EnumNoAddr
    <2> QED
      BY <2>1, <2>2, <2>3
  <1> QED
    BY <1>1, <1>2, <1>4, <1>5, <1>7

LEMMA ThreadKeepsTypes ==
    ASSUME TypeOK, WiresOK, ThreadOK, Thread
    PROVE  TypeOK'
  <1>1. t' \in ThreadState /\ plugs' \in 0..MaxPlugs /\ roots' \in 0..MaxRoot
        /\ faults' \in 0..MaxFaults
    BY ThreadTypes, ThreadCounts DEF TypeOK
  <1>2. CASE Looking
    BY <1>1, <1>2, LookingStep DEF TypeOK
  <1>3. CASE Releasing
    <2>1. child' \in [Ports -> HubPort] /\ hub' \in HubClass /\ alloctab' \subseteq Addrs
          /\ last' \in Addrs
      BY <1>3, ReleasingStep, Released DEF TypeOK, devgen
    <2>2. hubOk' \in BOOLEAN
      BY <1>3, ReleasingStep DEF TypeOK
    <2> QED
      BY <1>1, <1>3, <2>1, <2>2, ReleasingStep DEF TypeOK
  <1>4. ASSUME NEW a \in Addrs,
               EnumAddrFail(a) \/ EnumAddr(a) \/ EnumDevice \/ usbh_hub_connect
        PROVE  TypeOK'
    BY <1>1, <1>4, EnumStep DEF TypeOK
  <1> QED
    BY <1>2, <1>3, <1>4, ThreadKinds, Constants

-----------------------------------------------------------------------------
(***************************************************************************)
(* The hub, its instance and what is behind it.                            *)
(***************************************************************************)

LEMMA InitTree == Init => TreeInv
  <1> SUFFICES ASSUME Init PROVE TreeInv
    OBVIOUS
  <1>1. TypeOK
    BY InitTypes
  <1>2. WiresOK
    BY DEF Init, WiresOK
  <1>3. HubTree
    BY Constants DEF Init, HubTree, NoHub, NoChild
  <1>4. ThreadOK
    BY DEF Init, ThreadOK, Idle, OnPort
  <1> QED
    BY <1>1, <1>2, <1>3, <1>4 DEF TreeInv

LEMMA WorldTree ==
    ASSUME TreeInv,
           \/ \E p \in ExtPorts, d \in Devices \cup {NULL} : PlugExt(p, d)
           \/ \E d \in Things \cup {NULL} : PlugRoot(d)
           \/ Poll
    PROVE  TreeInv'
  <1> USE DEF TreeInv
  <1>1. TypeOK'
    BY WorldTypes
  <1>2. child' = child /\ t' = t
    BY DEF PlugExt, PlugRoot, Poll, hub_int_timeout, PollNak, PollError, PollData
  <1>3. /\ hub'.connected = hub.connected
        /\ hub.timer # "none" => hub'.timer # "none"
    BY DEF PlugExt, PlugRoot, Poll, hub_int_timeout, PollNak, PollError, PollData, TimerStart,
           TypeOK, HubClass
  <1>4. WiresOK'
    <2>1. ASSUME NEW p \in ExtPorts, NEW d \in Devices \cup {NULL}, PlugExt(p, d)
          PROVE  WiresOK'
      BY <2>1, HubAssumption, Constants DEF PlugExt, WiresOK, TypeOK
    <2>2. ASSUME NEW d \in Things \cup {NULL}, PlugRoot(d)
          PROVE  WiresOK'
      BY <2>2, Constants DEF PlugRoot, WiresOK, TypeOK
    <2>3. CASE Poll
      <3>1. phys' = phys /\ hubOk' = hubOk
        BY <2>3 DEF Poll, hub_int_timeout, PollNak, PollError, PollData, world
      <3> QED
        BY <3>1 DEF WiresOK
    <2> QED
      BY <2>1, <2>2, <2>3
  <1>5. HubTree'
    BY <1>2, <1>3 DEF HubTree
  <1>6. ThreadOK'
    BY <1>2, <1>3 DEF ThreadOK, OnPort
  <1> QED
    BY <1>1, <1>4, <1>5, <1>6

LEMMA LookingTree ==
    ASSUME TreeInv, Looking
    PROVE  WiresOK' /\ HubTree' /\ ThreadOK'
  <1> USE DEF TreeInv
  <1>1. /\ UNCHANGED <<phys, hubOk, child>>
        /\ hub'.connected = hub.connected
    BY LookingStep
  <1>2. hub.timer # "none" => hub'.timer # "none"
    BY DEF Looking, Recv, ScanEnd, ReadStatus, ClearChange, DebounceFail, ResetFail, EnumNoAddr,
           WakeSelf, TimerStart, TypeOK, HubClass
  <1>3. WiresOK' /\ HubTree'
    BY <1>1, <1>2 DEF WiresOK, HubTree
  <1>4. t \in ThreadState /\ t' \in ThreadState
    BY ThreadTypes DEF Looking, Thread, TypeOK
  <1>5. ThreadOK'
    <2>1. CASE Recv
      <3>1. hub.buf \subseteq ExtPorts /\ hub.scan \subseteq ExtPorts
        BY DEF TypeOK, HubClass
      <3>2. \/ t'.hub = "root" /\ t'.todo = {RP} /\ t'.p = RP /\ t'.pc = "scan"
            \/ /\ t'.hub = "ext" /\ t'.todo \subseteq ExtPorts /\ t'.pc = "scan"
               /\ hub.connected
            \/ t' = t
        BY <2>1, <3>1 DEF Recv, Idle
      <3> QED
        BY <1>1, <3>2 DEF ThreadOK, OnPort
    <2>2. CASE ReadStatus
      <3>1. Min(t.todo) \in t.todo
        BY <1>4, <2>2, MinMember DEF ReadStatus, ThreadState
      <3>2. /\ t'.hub = t.hub /\ t'.todo \subseteq t.todo
            /\ \/ t'.pc = "clear" /\ t'.p = Min(t.todo)
               \/ t'.pc = "scan" /\ t'.p = t.p
        <4> DEFINE p == Min(t.todo)
                   st == phys[p] # NULL
                   c == p \in chg
                   read == [t EXCEPT !.pc = "clear", !.todo = @ \ {p}, !.p = p, !.st = st, !.c = c]
                   skip == [t EXCEPT !.todo = @ \ {p}]
        <4>1. (t' = read \/ t' = skip) /\ t.pc = "scan"
          BY <2>2 DEF ReadStatus
        <4> HIDE DEF p, st, c
        <4>2. /\ read.hub = t.hub /\ read.todo = t.todo \ {p}
              /\ read.pc = "clear" /\ read.p = p
          BY <1>4 DEF ThreadState
        <4>3. /\ skip.hub = t.hub /\ skip.todo = t.todo \ {p}
              /\ skip.pc = t.pc /\ skip.p = t.p
          BY <1>4 DEF ThreadState
        <4> HIDE DEF read, skip
        <4>4. (t' = read \/ t' = skip) /\ p = Min(t.todo)
          BY <4>1 DEF p
        <4> QED
          BY <4>1, <4>2, <4>3, <4>4
      <3> QED
        BY <1>1, <1>4, <2>2, <3>1, <3>2, Constants DEF ReadStatus, ThreadOK, OnPort
    <2>3. CASE ScanEnd
      BY <2>3 DEF ScanEnd, ThreadOK, OnPort, Idle
    <2>4. CASE ClearChange \/ ResetFail \/ EnumNoAddr \/ WakeSelf \/ DebounceFail
      <3>1. /\ t'.hub = t.hub /\ t'.todo \subseteq t.todo /\ t'.p = t.p
            /\ t'.pc \in {"scan", "debounce"} /\ (t'.pc = "debounce" => t.pc = "clear")
            /\ t.pc # "idle"
        BY <1>4, <2>4
           DEF ClearChange, ResetFail, EnumNoAddr, WakeSelf, DebounceFail, Goto, ThreadState
      <3> QED
        BY <1>1, <1>4, <3>1 DEF ThreadOK, OnPort
    <2> QED
      BY <2>1, <2>2, <2>3, <2>4 DEF Looking
  <1> QED
    BY <1>3, <1>5

LEMMA ReleasingTree ==
    ASSUME TreeInv, Releasing
    PROVE  WiresOK' /\ HubTree' /\ ThreadOK'
  <1> USE DEF TreeInv
  <1>1. /\ t.p \in Ports /\ phys' = phys /\ (hubOk' = hubOk \/ hubOk' = FALSE)
        /\ \E pc1 \in {"scan", "reset", "enum"} : t' = [t EXCEPT !.pc = pc1]
    BY ReleasingStep
  <1>2. WiresOK'
    BY <1>1 DEF WiresOK
  <1>3. t \in ThreadState
    BY DEF TypeOK
  <1>4. /\ t'.hub = t.hub /\ t'.todo = t.todo /\ t'.p = t.p
        /\ t'.pc \in {"scan", "reset", "enum"}
    BY <1>1, <1>3 DEF ThreadState
  <1>5. OnPort
    BY DEF OnPort, Releasing, DebounceOk, ResetDisabled, ResetOk, EnumFail
  <1>6. (t.p # RP => t.hub = "ext" /\ hub.connected) /\ (t.hub = "ext" => t.p # RP)
    BY <1>3, <1>5, Constants DEF ThreadOK, ThreadState
  <1>7. HubTree' /\ (t.p # RP => hub' = hub)
    <2>1. CASE UNCHANGED <<child, hub, devgen>>
      BY <2>1 DEF HubTree
    <2>2. ASSUME NEW c \in HubPort, ReleaseInto(t.p, c)
          PROVE  HubTree' /\ (t.p # RP => hub' = hub)
      <3>1. CASE t.p = RP
        <4>1. ~hub'.connected
          BY <1>1, <2>2, <3>1, Released
        <4>2. ASSUME NEW p \in ExtPorts
              PROVE  \/ child'[p] = NoChild
                     \/ child'[p] = child[p] /\ child[RP].dev # HUB
          <5>1. p \in Ports \ {t.p}
            BY <3>1, Constants
          <5>2. child'[p] = IF p \in Below(t.p) THEN NoChild ELSE child[p]
            BY <1>1, <2>2, <5>1, Released
          <5>3. child[RP].dev = HUB => p \in Below(t.p)
            BY <3>1, <5>1 DEF Below
          <5> QED
            BY <5>2, <5>3
        <4>3. \A p \in ExtPorts : ~child'[p].connected
          <5>1. ASSUME NEW p \in ExtPorts, child'[p] = child[p], child[RP].dev # HUB
                PROVE  ~child'[p].connected
            BY <5>1 DEF HubTree
          <5> QED
            BY <4>2, <5>1 DEF NoChild
        <4> QED
          BY <3>1, <4>1, <4>3 DEF HubTree
      <3>2. CASE t.p # RP
        <4>1. hub' = hub /\ child'[RP] = child[RP]
          BY <1>1, <2>2, <3>2, Released, Constants DEF Below
        <4>2. HubTree'
          BY <1>6, <3>2, <4>1 DEF HubTree
        <4> QED
          BY <3>2, <4>1, <4>2
      <3> QED
        BY <3>1, <3>2
    <2> QED
      BY <2>1, <2>2, ReleasingStep
  <1>8. t'.pc = "enum" => /\ child'[t.p].connected /\ child'[t.p].addr = 0
                          /\ t.p = RP => ~hub'.connected
    <2>1. SUFFICES ASSUME t'.pc = "enum"
                   PROVE  /\ child'[t.p].connected /\ child'[t.p].addr = 0
                          /\ t.p = RP => ~hub'.connected
      OBVIOUS
    <2>2. ResetOk
      BY <1>3, <2>1
         DEF Releasing, DebounceOk, ResetDisabled, ResetOk, EnumFail, Goto, ThreadState
    <2>3. ReleaseInto(t.p, [NoChild EXCEPT !.connected = TRUE])
      BY <2>2 DEF ResetOk
    <2>4. [NoChild EXCEPT !.connected = TRUE] \in HubPort
      BY Constants, PortUpdate
    <2>5. /\ child'[t.p] = [NoChild EXCEPT !.connected = TRUE]
          /\ t.p = RP => ~hub'.connected
      BY <1>1, <2>3, <2>4, Released
    <2> QED
      BY <2>5 DEF NoChild
  <1>9. ThreadOK'
    BY <1>3, <1>4, <1>5, <1>6, <1>7, <1>8 DEF ThreadOK, OnPort, ThreadState
  <1> QED
    BY <1>2, <1>7, <1>9

LEMMA EnumTree ==
    ASSUME TreeInv, NEW a \in Addrs,
           EnumAddrFail(a) \/ EnumAddr(a) \/ EnumDevice \/ usbh_hub_connect
    PROVE  WiresOK' /\ HubTree' /\ ThreadOK'
  <1> USE DEF TreeInv
  <1>1. t.p \in Ports /\ phys' = phys
    BY EnumStep
  <1>2. /\ t \in ThreadState /\ child \in [Ports -> HubPort] /\ child[t.p] \in HubPort
        /\ phys[t.p] \in Things \cup {NULL}
    BY <1>1 DEF TypeOK
  <1>3. /\ t.pc \in {"enum", "config"} /\ child[t.p].connected
        /\ t.p = RP => ~hub.connected
        /\ t.p # RP => t.hub = "ext" /\ hub.connected
    <2>1. t.pc \in {"enum", "config"}
      BY DEF EnumAddrFail, EnumAddr, EnumDevice, usbh_hub_connect
    <2> QED
      BY <1>2, <2>1 DEF ThreadOK, ThreadState
  <1>4. t'.hub = t.hub /\ t'.todo = t.todo /\ t'.p = t.p
    BY <1>2 DEF EnumAddrFail, EnumAddr, EnumDevice, usbh_hub_connect, Goto, ThreadState
  <1>5. \A q \in Ports \ {t.p} : child'[q] = child[q]
    BY <1>2, EnumStep
  <1>6. CASE EnumAddrFail(a)
    <2>1. hub' = hub /\ hubOk' = hubOk /\ t'.pc = "scan" /\ ~child'[t.p].connected
      BY <1>2, <1>6 DEF EnumAddrFail, world, Goto, ThreadState, Gone, HubPort
    <2>2. WiresOK'
      BY <1>1, <2>1 DEF WiresOK
    <2>3. HubTree'
      BY <1>1, <1>3, <1>5, <2>1, Constants DEF HubTree
    <2>4. ThreadOK'
      BY <1>2, <1>3, <1>4, <2>1 DEF ThreadOK, OnPort, ThreadState
    <2> QED
      BY <2>2, <2>3, <2>4
  <1>7. CASE EnumAddr(a)
    <2>1. /\ hub' = hub /\ (hubOk' <=> hubOk \/ phys[t.p] = HUB) /\ t'.pc = "config"
          /\ child'[t.p].connected = child[t.p].connected /\ child'[t.p].dev = child[t.p].dev
      BY <1>2, <1>7 DEF EnumAddr, Goto, ThreadState, HubPort
    <2>2. WiresOK'
      BY <1>1, <2>1 DEF WiresOK, Ports
    <2>3. HubTree'
      BY <1>1, <1>3, <1>5, <2>1, Constants DEF HubTree
    <2>4. ThreadOK'
      BY <1>2, <1>3, <1>4, <2>1 DEF ThreadOK, OnPort, ThreadState
    <2> QED
      BY <2>2, <2>3, <2>4
  <1>8. CASE EnumDevice
    <2>1. /\ hub' = hub /\ hubOk' = hubOk /\ t'.pc = "scan"
          /\ child'[t.p].connected = child[t.p].connected
      BY <1>2, <1>8 DEF EnumDevice, world, Goto, ThreadState, HubPort
    <2>2. WiresOK'
      BY <1>1, <2>1 DEF WiresOK
    <2>3. HubTree'
      BY <1>1, <1>3, <1>5, <2>1, Constants DEF HubTree
    <2>4. ThreadOK'
      BY <1>2, <1>3, <1>4, <2>1 DEF ThreadOK, OnPort, ThreadState
    <2> QED
      BY <2>2, <2>3, <2>4
  <1>9. CASE usbh_hub_connect
    <2>1. t.p = RP
      BY <1>1, <1>9 DEF usbh_hub_connect, WiresOK, Ports
    <2>2. /\ hub'.connected /\ hub'.timer = "armed" /\ hubOk' = hubOk
          /\ t'.pc \in {"scan", "wakeup"}
          /\ child'[RP].connected /\ child'[RP].dev = HUB
      BY <1>2, <1>3, <1>9, <2>1
         DEF usbh_hub_connect, world, Goto, TimerStart, TypeOK, HubClass, ThreadState, HubPort
    <2>3. t.hub = "root"
      BY <1>2, <1>3, <2>1, Constants DEF ThreadOK, OnPort, ThreadState
    <2>4. WiresOK'
      BY <1>1, <2>2 DEF WiresOK
    <2>5. HubTree'
      BY <2>2 DEF HubTree
    <2>6. ThreadOK'
      BY <1>2, <1>3, <1>4, <2>2, <2>3 DEF ThreadOK, OnPort, ThreadState
    <2> QED
      BY <2>4, <2>5, <2>6
  <1> QED
    BY <1>6, <1>7, <1>8, <1>9

LEMMA TreeStep == TreeInv /\ [Next]_vars => TreeInv'
  <1> SUFFICES ASSUME TreeInv, [Next]_vars PROVE TreeInv'
    OBVIOUS
  <1>1. CASE \/ \E p \in ExtPorts, d \in Devices \cup {NULL} : PlugExt(p, d)
             \/ \E d \in Things \cup {NULL} : PlugRoot(d)
             \/ Poll
    BY <1>1, WorldTree
  <1>2. CASE Thread
    <2>1. TypeOK'
      BY <1>2, ThreadKeepsTypes DEF TreeInv
    <2>2. WiresOK' /\ HubTree' /\ ThreadOK'
      BY <1>2, ThreadKinds, LookingTree, ReleasingTree, EnumTree, Constants
    <2> QED
      BY <2>1, <2>2 DEF TreeInv
  <1>3. CASE UNCHANGED vars
    BY <1>3 DEF vars, world, counts, devgen, TreeInv, TypeOK, WiresOK, HubTree, ThreadOK, OnPort
  <1> QED
    BY <1>1, <1>2, <1>3 DEF Next

LEMMA TreeInvariance == Spec => []TreeInv
  BY InitTree, TreeStep, PTL DEF Spec

\* However hubs and devices come and go, no device is left behind a hub that is
\* gone.
THEOREM NobodyOrphaned == Spec => []NoOrphans
  <1>1. TreeInv => NoOrphans
    BY DEF TreeInv, HubTree, NoOrphans
  <1> QED
    BY <1>1, TreeInvariance, PTL

-----------------------------------------------------------------------------
(***************************************************************************)
(* The message queue and the status poll.                                  *)
(***************************************************************************)

Message == {"root", "ext"}

LEMMA RootsFinite ==
    ASSUME NEW s \in Seq(Message)
    PROVE  IsFiniteSet(RootsIn(s)) /\ Cardinality(RootsIn(s)) \in Nat
  <1>1. IsFiniteSet(1..Len(s))
    BY FS_Interval
  <1>2. RootsIn(s) \in SUBSET (1..Len(s))
    BY DEF RootsIn
  <1> QED
    BY <1>1, <1>2, FS_Subset, FS_CardinalityType

\* Sending adds at most the message sent.
LEMMA RootsAppended ==
    ASSUME NEW s \in Seq(Message), NEW m \in Message
    PROVE  /\ m = "ext" => Cardinality(RootsIn(Append(s, m))) = Cardinality(RootsIn(s))
           /\ Cardinality(RootsIn(Append(s, m))) <= Cardinality(RootsIn(s)) + 1
  <1>1. /\ Len(s) \in Nat /\ Len(Append(s, m)) = Len(s) + 1
        /\ \A i \in 1..Len(s) : Append(s, m)[i] = s[i]
        /\ Append(s, m)[Len(s) + 1] = m
    OBVIOUS
  <1>2. CASE m = "ext"
    <2>1. RootsIn(Append(s, m)) = RootsIn(s)
      BY <1>1, <1>2 DEF RootsIn
    <2> QED
      BY <2>1, RootsFinite
  <1>3. CASE m = "root"
    <2>1. RootsIn(Append(s, m)) = RootsIn(s) \cup {Len(s) + 1}
      BY <1>1, <1>3 DEF RootsIn
    <2>2. Cardinality(RootsIn(s) \cup {Len(s) + 1}) <= Cardinality(RootsIn(s)) + 1
      <3>1. IsFiniteSet(RootsIn(s)) /\ Cardinality(RootsIn(s)) \in Nat
        BY RootsFinite
      <3>2. \/ Cardinality(RootsIn(s) \cup {Len(s) + 1}) = Cardinality(RootsIn(s))
            \/ Cardinality(RootsIn(s) \cup {Len(s) + 1}) = Cardinality(RootsIn(s)) + 1
        BY <3>1, FS_AddElement
      <3> QED
        BY <3>1, <3>2
    <2> QED
      BY <1>3, <2>1, <2>2
  <1> QED
    BY <1>2, <1>3 DEF Message

\* Taking a message adds none.
LEMMA RootsTaken ==
    ASSUME NEW s \in Seq(Message), s # <<>>
    PROVE  Cardinality(RootsIn(Tail(s))) <= Cardinality(RootsIn(s))
  <1> DEFINE f == [i \in RootsIn(Tail(s)) |-> i + 1]
  <1>1. /\ Len(s) \in Nat /\ Len(Tail(s)) = Len(s) - 1
        /\ \A i \in 1..Len(Tail(s)) : Tail(s)[i] = s[i + 1]
    OBVIOUS
  <1>2. \A i \in RootsIn(Tail(s)) : i \in Int /\ i + 1 \in RootsIn(s)
    BY <1>1 DEF RootsIn
  <1>3. f \in [RootsIn(Tail(s)) -> RootsIn(s)]
    BY <1>2
  <1>4. \A i, j \in RootsIn(Tail(s)) : f[i] = f[j] => i = j
    BY <1>2
  <1>5. f \in Injection(RootsIn(Tail(s)), RootsIn(s))
    BY <1>3, <1>4 DEF Injection, IsInjective
  <1> QED
    BY <1>5, RootsFinite, FS_Injection

Queued == \E i \in 1..Len(mq) : mq[i] = "ext"

\* A queue that is full of messages holds one of the external hub.
LEMMA FullQueue ==
    ASSUME TypeOK, QueueInv, roots + 1 < MqSize, Len(mq) = MqSize
    PROVE  Queued
  <1> SUFFICES ASSUME ~Queued PROVE FALSE
    OBVIOUS
  <1>1. mq \in Seq(Message) /\ MqSize \in Nat /\ MqSize > 0 /\ roots \in Nat
    BY HubAssumption DEF TypeOK, Message
  <1>2. RootsIn(mq) = 1..MqSize
    BY <1>1 DEF RootsIn, Queued, Message
  <1>3. Cardinality(RootsIn(mq)) = MqSize
    BY <1>1, <1>2, FS_Interval
  <1> QED
    BY <1>1, <1>3 DEF QueueInv

LEMMA QueueStep ==
    ASSUME TypeOK, QueueInv, [Next]_vars
    PROVE  /\ QueueInv'
           /\ roots' = roots \/ roots' = roots + 1
  <1>1. mq \in Seq(Message) /\ roots \in Nat /\ Cardinality(RootsIn(mq)) \in Nat
    BY RootsFinite, HubAssumption DEF TypeOK, Message
  <1>2. CASE mq' = mq /\ roots' = roots
    BY <1>1, <1>2 DEF QueueInv
  <1>3. ASSUME NEW d \in Things \cup {NULL}, PlugRoot(d)
        PROVE  QueueInv' /\ roots' = roots + 1
    <2>1. roots' = roots + 1 /\ (mq' = mq \/ mq' = Append(mq, "root"))
      BY <1>3, SentFromISR DEF PlugRoot
    <2>2. Cardinality(RootsIn(Append(mq, "root"))) <= Cardinality(RootsIn(mq)) + 1
      BY <1>1, RootsAppended DEF Message
    <2>3. Cardinality(RootsIn(mq')) <= Cardinality(RootsIn(mq)) + 1
      <3>1. CASE mq' = mq
        BY <1>1, <3>1
      <3>2. CASE mq' = Append(mq, "root")
        BY <2>2, <3>2
      <3> QED
        BY <2>1, <3>1, <3>2
    <2>4. Cardinality(RootsIn(mq')) \in Nat
      <3>1. mq' \in Seq(Message)
        BY <1>3, SentFromISR DEF PlugRoot, Message
      <3> QED
        BY <3>1, RootsFinite
    <2> QED
      BY <1>1, <2>1, <2>3, <2>4 DEF QueueInv
  <1>4. CASE roots' = roots /\ mq' = Append(mq, "ext")
    BY <1>1, <1>4, RootsAppended DEF QueueInv, Message
  <1>5. CASE Recv
    <2>1. mq # <<>> /\ mq' = Tail(mq) /\ roots' = roots
      BY <1>5 DEF Recv, counts
    <2>2. Cardinality(RootsIn(Tail(mq))) <= Cardinality(RootsIn(mq))
      BY <1>1, <2>1, RootsTaken
    <2>3. Cardinality(RootsIn(Tail(mq))) \in Nat
      <3>1. Tail(mq) \in Seq(Message)
        BY <1>1, <2>1
      <3> QED
        BY <3>1, RootsFinite
    <2> QED
      BY <1>1, <2>1, <2>2, <2>3 DEF QueueInv
  <1>6. CASE PollData
    <2>1. roots' = roots /\ (mq' = mq \/ mq' = Append(mq, "ext"))
      BY <1>6, SentFromISR DEF PollData, counts
    <2> QED
      BY <1>2, <1>4, <2>1
  <1>7. CASE Thread /\ ~Recv
    <2>1. roots' = roots
      BY <1>7, ThreadCounts
    <2>2. mq' = mq \/ mq' = Append(mq, "ext")
      BY <1>7 DEF Thread, ScanEnd, ReadStatus, ClearChange, DebounceOk, DebounceFail, ResetFail,
                  ResetDisabled, ResetOk, EnumFail, EnumNoAddr, EnumAddrFail, EnumAddr,
                  EnumDevice, usbh_hub_connect, WakeSelf
    <2> QED
      BY <1>2, <1>4, <2>1, <2>2
  <1>8. CASE \/ \E p \in ExtPorts, d \in Devices \cup {NULL} : PlugExt(p, d)
             \/ hub_int_timeout \/ PollNak \/ PollError
             \/ UNCHANGED vars
    <2>1. mq' = mq /\ roots' = roots
      BY <1>8 DEF PlugExt, hub_int_timeout, PollNak, PollError, vars, counts
    <2> QED
      BY <1>2, <2>1
  <1> QED
    BY <1>3, <1>5, <1>6, <1>7, <1>8 DEF Next, Poll

Attended == hub.timer = "armed" \/ hub.urb = "busy" \/ Queued \/ (t.pc # "idle" /\ t.hub = "ext")

LEMMA Appended ==
    ASSUME NEW s \in Seq(Message), NEW m \in Message
    PROVE  /\ \A i \in 1..Len(s) : i \in 1..Len(Append(s, m)) /\ Append(s, m)[i] = s[i]
           /\ Len(Append(s, m)) \in 1..Len(Append(s, m)) /\ Append(s, m)[Len(Append(s, m))] = m
  OBVIOUS

LEMMA Taken ==
    ASSUME NEW s \in Seq(Message), NEW i \in 1..Len(s), s[i] # Head(s)
    PROVE  \E j \in 1..Len(Tail(s)) : Tail(s)[j] = s[i]
  <1>1. i - 1 \in 1..Len(Tail(s)) /\ Tail(s)[i - 1] = s[i]
    OBVIOUS
  <1> QED
    BY <1>1

LEMMA PollStep ==
    ASSUME TreeInv, QueueInv, roots + 1 < MqSize, PollAlive, [Next]_vars
    PROVE  PollAlive'
  <1> USE DEF TreeInv
  <1>1. PollAlive <=> (hub.connected /\ hubOk /\ child[RP].connected => Attended)
    BY DEF PollAlive, Attended, Queued
  <1>2. PollAlive' <=> (hub'.connected /\ hubOk' /\ child'[RP].connected => Attended')
    BY DEF PollAlive, Attended, Queued
  <1>3. /\ t \in ThreadState /\ hub \in HubClass
        /\ mq \in Seq(Message)
    BY DEF TypeOK, Message
  <1>4. ASSUME UNCHANGED <<hub, child, hubOk, mq, t>>
        PROVE  PollAlive'
    BY <1>4 DEF PollAlive
  <1>5. ASSUME NEW d \in Things \cup {NULL}, PlugRoot(d)
        PROVE  PollAlive'
    BY <1>5 DEF PlugRoot, PollAlive
  <1>6. CASE Poll
    <2>1. UNCHANGED <<child, hubOk, t>> /\ hub'.connected = hub.connected
      BY <1>3, <1>6 DEF Poll, hub_int_timeout, PollNak, PollError, PollData, world, TimerStart,
                        HubClass
    <2>2. SUFFICES ASSUME hub.connected, hubOk, child[RP].connected
                   PROVE  Attended'
      BY <1>2, <2>1
    <2>3. CASE hub_int_timeout
      <3>1. phys[RP] # NULL
        BY <2>2, Constants DEF WiresOK
      <3>2. hub'.urb = "busy"
        BY <1>3, <2>2, <2>3, <3>1 DEF hub_int_timeout, HubClass
      <3> QED
        BY <3>2 DEF Attended
    <2>4. CASE PollNak \/ PollError
      <3>1. hub'.timer = "armed"
        BY <1>3, <2>2, <2>4 DEF PollNak, PollError, TimerStart, HubClass
      <3> QED
        BY <3>1 DEF Attended
    <2>5. CASE PollData
      <3>1. mq' = Append(mq, "ext") \/ (mq' = mq /\ Len(mq) = MqSize)
        BY <2>5, SentFromISR DEF PollData
      <3>2. CASE mq' = Append(mq, "ext")
        BY <1>3, <3>2, Appended DEF Attended, Queued, Message
      <3>3. CASE mq' = mq /\ Len(mq) = MqSize
        BY <3>3, FullQueue DEF Attended, Queued
      <3> QED
        BY <3>1, <3>2, <3>3
    <2> QED
      BY <1>6, <2>3, <2>4, <2>5 DEF Poll
  <1>7. CASE Recv
    <2>1. UNCHANGED <<child, hubOk>> /\ hub'.connected = hub.connected
          /\ hub'.timer = hub.timer /\ hub'.urb = hub.urb
      BY <1>3, <1>7 DEF Recv, world, HubClass
    <2>2. SUFFICES ASSUME hub.connected, Attended
                   PROVE  Attended'
      BY <1>1, <1>2, <2>1
    <2>3. CASE Head(mq) = "root"
      <3>1. Queued => Queued'
        BY <1>3, <1>7, <2>3, Taken DEF Recv, Queued
      <3> QED
        BY <1>7, <2>1, <2>2, <3>1 DEF Attended, Recv
    <2>4. CASE Head(mq) # "root"
      <3>1. t'.pc = "scan" /\ t'.hub = "ext"
        BY <1>7, <2>2, <2>4 DEF Recv, Idle
      <3> QED
        BY <3>1 DEF Attended
    <2> QED
      BY <2>3, <2>4
  <1>8. CASE Looking /\ ~Recv
    <2>1. UNCHANGED <<child, hubOk>> /\ hub'.connected = hub.connected
      BY <1>8, LookingStep
    <2>2. SUFFICES ASSUME hub.connected, Attended
                   PROVE  Attended'
      BY <1>1, <1>2, <2>1
    <2>3. CASE ScanEnd
      <3>1. CASE t.hub = "ext"
        <4>1. hub'.timer = "armed"
          BY <1>3, <2>2, <2>3, <3>1 DEF ScanEnd, TimerStart, HubClass
        <4> QED
          BY <4>1 DEF Attended
      <3>2. CASE t.hub # "ext"
        BY <2>2, <2>3, <3>2 DEF ScanEnd, Attended, Queued
      <3> QED
        BY <3>1, <3>2
    <2>4. CASE WakeSelf
      BY <1>3, <2>4, Appended DEF WakeSelf, Attended, Queued, Message
    <2>5. CASE ReadStatus
      <3>1. hub' = hub /\ mq' = mq
        BY <2>5 DEF ReadStatus
      <3>2. t'.hub = t.hub /\ t'.pc # "idle"
        BY <1>3, <2>5 DEF ReadStatus, ThreadState
      <3> QED
        BY <2>2, <3>1, <3>2 DEF Attended, Queued
    <2>6. CASE ClearChange \/ DebounceFail \/ ResetFail \/ EnumNoAddr
      <3>1. hub' = hub /\ mq' = mq
        BY <2>6 DEF ClearChange, DebounceFail, ResetFail, EnumNoAddr
      <3>2. t'.hub = t.hub /\ t'.pc # "idle"
        BY <1>3, <2>6 DEF ClearChange, DebounceFail, ResetFail, EnumNoAddr, Goto, ThreadState
      <3> QED
        BY <2>2, <3>1, <3>2 DEF Attended, Queued
    <2> QED
      BY <1>8, <2>3, <2>4, <2>5, <2>6 DEF Looking
  <1>9. ASSUME t'.hub = t.hub, t'.pc # "idle", t.hub = "ext"
        PROVE  PollAlive'
    BY <1>2, <1>9 DEF Attended
  <1>10. CASE Releasing
    <2>1. /\ t.p \in Ports /\ mq' = mq /\ (hubOk' = hubOk \/ hubOk' = FALSE)
          /\ t'.hub = t.hub /\ t'.pc # "idle"
      BY <1>3, <1>10, ReleasingStep DEF ThreadState
    <2>2. CASE UNCHANGED <<child, hub, devgen>>
      BY <1>1, <1>2, <2>1, <2>2 DEF Attended, Queued
    <2>3. ASSUME NEW c \in HubPort, ReleaseInto(t.p, c)
          PROVE  PollAlive'
      <3>1. CASE t.p = RP
        <4>1. ~hub'.connected
          BY <2>1, <2>3, <3>1, Released
        <4> QED
          BY <1>2, <4>1
      <3>2. CASE t.p # RP
        <4>1. OnPort
          BY <1>10 DEF OnPort, Releasing, DebounceOk, ResetDisabled, ResetOk, EnumFail
        <4>2. t.hub = "ext"
          BY <1>3, <3>2, <4>1 DEF ThreadOK, ThreadState
        <4> QED
          BY <1>9, <2>1, <4>2
      <3> QED
        BY <3>1, <3>2
    <2> QED
      BY <1>10, <2>2, <2>3, ReleasingStep
  <1>11. ASSUME NEW a \in Addrs,
                EnumAddrFail(a) \/ EnumAddr(a) \/ EnumDevice \/ usbh_hub_connect
         PROVE  PollAlive'
    <2>1. t.pc \in {"enum", "config"}
      BY <1>11 DEF EnumAddrFail, EnumAddr, EnumDevice, usbh_hub_connect
    <2>2. t'.hub = t.hub /\ t'.pc # "idle"
      BY <1>3, <1>11 DEF EnumAddrFail, EnumAddr, EnumDevice, usbh_hub_connect, Goto, ThreadState
    <2>3. CASE t.p = RP /\ ~usbh_hub_connect
      <3>1. ~hub.connected /\ hub' = hub
        BY <1>11, <2>1, <2>3 DEF ThreadOK, EnumAddrFail, EnumAddr, EnumDevice
      <3> QED
        BY <1>2, <3>1
    <2>4. CASE usbh_hub_connect
      <3>1. hub'.timer = "armed"
        BY <1>3, <2>4 DEF usbh_hub_connect, TimerStart, HubClass
      <3> QED
        BY <1>2, <3>1 DEF Attended
    <2>5. CASE t.p # RP
      <3>1. t.hub = "ext"
        BY <1>3, <2>1, <2>5 DEF ThreadOK, ThreadState
      <3> QED
        BY <1>9, <2>2, <3>1
    <2> QED
      BY <2>3, <2>4, <2>5
  <1>12. ASSUME NEW p \in ExtPorts, NEW d \in Devices \cup {NULL}, PlugExt(p, d)
         PROVE  PollAlive'
    BY <1>4, <1>12 DEF PlugExt
  <1>13. CASE UNCHANGED vars
    BY <1>4, <1>13 DEF vars, world
  <1>14. CASE Thread
    BY <1>7, <1>8, <1>10, <1>11, <1>14, ThreadKinds, Constants
  <1> QED
    BY <1>5, <1>6, <1>12, <1>13, <1>14 DEF Next

LEMMA PollInvariance == Spec => []PollInv
  <1>1. Init => PollInv
    <2> SUFFICES ASSUME Init PROVE PollInv
      OBVIOUS
    <2>1. ~hub.connected /\ roots = 0
      BY DEF Init, NoHub
    <2>2. RootsIn(mq) = {} \/ RootsIn(mq) = {1}
      <3>1. CASE mq = <<"root">>
        BY <3>1 DEF RootsIn
      <3>2. CASE mq = <<>>
        BY <3>2 DEF RootsIn
      <3> QED
        BY <3>1, <3>2 DEF Init
    <2>3. Cardinality(RootsIn(mq)) <= roots + 1
      <3>1. Cardinality({}) = 0
        BY FS_EmptySet
      <3>2. Cardinality({1}) = 1
        BY FS_Singleton
      <3> QED
        BY <2>1, <2>2, <3>1, <3>2
    <2> QED
      BY <2>1, <2>3 DEF PollInv, QueueInv, PollAlive
  <1>2. TreeInv /\ PollInv /\ [Next]_vars => PollInv'
    <2> SUFFICES ASSUME TreeInv, PollInv, [Next]_vars PROVE PollInv'
      OBVIOUS
    <2>1. QueueInv' /\ (roots' = roots \/ roots' = roots + 1)
      BY QueueStep DEF TreeInv, PollInv
    <2>2. ASSUME roots' + 1 < MqSize PROVE PollAlive'
      <3>1. roots + 1 < MqSize
        BY <2>1, <2>2, HubAssumption DEF TreeInv, TypeOK
      <3> QED
        BY <3>1, PollStep DEF PollInv
    <2> QED
      BY <2>1, <2>2 DEF PollInv
  <1> QED
    BY <1>1, <1>2, TreeInvariance, PTL DEF Spec

\* The poll of a hub that answers never dies, while the root port has not changed
\* so often that its messages could fill hub_mq: with the queue full of them, the
\* message of the completed poll would be lost, and nothing start the next one.
THEOREM PollSurvives == Spec => [](roots + 1 < MqSize => PollAlive)
  <1>1. PollInv => (roots + 1 < MqSize => PollAlive)
    BY DEF PollInv
  <1> QED
    BY <1>1, PollInvariance, PTL

-----------------------------------------------------------------------------
(***************************************************************************)
(* The device addresses.                                                   *)
(***************************************************************************)

LEMMA LeakedFinite ==
    ASSUME TypeOK
    PROVE  IsFiniteSet(Leaked) /\ Cardinality(Leaked) \in Nat
  <1>1. IsFiniteSet(Addrs)
    BY Constants, FS_Interval DEF Addrs
  <1>2. Leaked \in SUBSET Addrs
    BY DEF Leaked, TypeOK
  <1> QED
    BY <1>1, <1>2, FS_Subset, FS_CardinalityType

\* A step that leaks nothing keeps the bound.
LEMMA NothingLeaked ==
    ASSUME TypeOK, TypeOK', AddrInv, Leaked' \subseteq Leaked,
           faults' = faults \/ faults' = faults + 1
    PROVE  Cardinality(Leaked') <= faults'
  <1>1. /\ Cardinality(Leaked') \in Nat /\ Cardinality(Leaked) \in Nat
        /\ Cardinality(Leaked') <= Cardinality(Leaked)
    <2>1. IsFiniteSet(Leaked) /\ Cardinality(Leaked) \in Nat
      BY LeakedFinite
    <2>2. Leaked' \in SUBSET Leaked
      OBVIOUS
    <2> QED
      BY <2>1, <2>2, FS_Subset, FS_CardinalityType
  <1>2. faults \in Nat /\ Cardinality(Leaked) <= faults
    BY HubAssumption DEF TypeOK, AddrInv
  <1> QED
    BY <1>1, <1>2

LEMMA SameAddrs ==
    ASSUME TypeOK, TypeOK', AddrInv, alloctab' = alloctab,
           \A q \in Ports : child'[q].connected = child[q].connected /\ child'[q].addr = child[q].addr,
           faults' = faults \/ faults' = faults + 1
    PROVE  AddrInv'
  <1>1. Live' = Live /\ \A q \in Live : child'[q].addr = child[q].addr
    BY DEF Live
  <1>2. Used' = Used
    BY <1>1 DEF Used
  <1>3. Leaked' = Leaked
    BY <1>2 DEF Leaked
  <1> QED
    BY <1>1, <1>2, <1>3, NothingLeaked DEF AddrInv

\* A release gives back the addresses of what it releases, and of nothing else.
LEMMA ReleaseAddrs ==
    ASSUME TypeOK, TypeOK', AddrInv, NEW p \in Ports, NEW c \in HubPort, ReleaseInto(p, c),
           c.connected => c.addr = 0,
           faults' = faults \/ faults' = faults + 1
    PROVE  AddrInv'
  <1>1. /\ child'[p] = c
        /\ \A q \in Ports \ {p} : child'[q] = IF q \in Below(p) THEN NoChild ELSE child[q]
    BY Released
  <1>2. p \in Below(p) /\ Below(p) \subseteq Ports
    BY DEF Below
  <1>3. ASSUME NEW q \in Live'
        PROVE  q \in Live /\ q \notin Below(p) /\ child'[q] = child[q]
    <2>1. q \in Ports /\ child'[q].connected /\ child'[q].addr # 0
      BY DEF Live
    <2>2. q # p
      BY <1>1, <2>1
    <2>3. q \notin Below(p)
      BY <1>1, <2>1, <2>2 DEF NoChild
    <2> QED
      BY <1>1, <2>1, <2>2, <2>3 DEF Live
  <1>4. ASSUME NEW q \in Live, q \notin Below(p)
        PROVE  q \in Live'
    BY <1>1, <1>2, <1>4 DEF Live
  <1>5. alloctab' = alloctab \ UNION {Freed(child[q]) : q \in Below(p)}
    BY DEF ReleaseInto
  <1>6. \A q, r \in Live' : child'[q].addr = child'[r].addr => q = r
    BY <1>3 DEF AddrInv
  <1>7. Used' \subseteq alloctab'
    <2> SUFFICES ASSUME NEW q \in Live' PROVE child'[q].addr \in alloctab'
      BY DEF Used
    <2>1. q \in Live /\ q \notin Below(p) /\ child'[q] = child[q]
      BY <1>3
    <2>2. child[q].addr \in alloctab
      BY <2>1 DEF AddrInv, Used
    <2>3. ASSUME NEW r \in Below(p), child[q].addr \in Freed(child[r])
          PROVE  FALSE
      <3>1. child[r].connected /\ child[r].addr = child[q].addr
        BY <2>3 DEF Freed
      <3>2. r \in Live
        BY <1>2, <2>1, <3>1 DEF Live
      <3> QED
        BY <2>1, <3>1, <3>2 DEF AddrInv
    <2> QED
      BY <1>5, <2>1, <2>2, <2>3
  <1>8. Leaked' \subseteq Leaked
    <2> SUFFICES ASSUME NEW a \in Leaked' PROVE a \in Leaked
      OBVIOUS
    <2>1. a \in alloctab /\ a \in Addrs /\ a # MaxAddr /\ a \notin Used' /\ a \in alloctab'
      BY <1>5 DEF Leaked, TypeOK
    <2>2. ASSUME a \in Used PROVE FALSE
      <3>1. PICK q \in Live : a = child[q].addr
        BY <2>2 DEF Used
      <3>2. q \in Below(p)
        <4>1. ASSUME q \notin Below(p) PROVE FALSE
          BY <1>3, <1>4, <2>1, <3>1, <4>1 DEF Used
        <4> QED
          BY <4>1
      <3>3. a \in Freed(child[q])
        BY <2>1, <3>1, Constants DEF Freed, Live, Addrs
      <3> QED
        BY <1>5, <2>1, <3>2, <3>3
    <2> QED
      BY <2>1, <2>2 DEF Leaked
  <1> QED
    BY <1>6, <1>7, <1>8, NothingLeaked DEF AddrInv

\* A failed SET_ADDRESS loses the address it was about, and no other.
LEMMA FailAddrs ==
    ASSUME TypeOK, TypeOK', ThreadOK, AddrInv, NEW a \in Addrs, EnumAddrFail(a)
    PROVE  AddrInv'
  <1>1. /\ t.p \in Ports /\ child[t.p].addr = 0 /\ child \in [Ports -> HubPort]
        /\ a \notin alloctab /\ alloctab' = alloctab \cup {a}
        /\ faults' = faults + 1 /\ faults \in Nat
    BY HubAssumption
       DEF EnumAddrFail, ThreadOK, NextAddr, Failing, Fault, TypeOK, ThreadState
  <1>2. \A q \in Ports \ {t.p} : child'[q] = child[q]
    BY <1>1 DEF EnumAddrFail
  <1>3. ~child'[t.p].connected
    BY <1>1 DEF EnumAddrFail, Gone, HubPort
  <1>4. Live' = Live /\ \A q \in Live : child'[q] = child[q]
    BY <1>1, <1>2, <1>3 DEF Live
  <1>5. Used' = Used
    BY <1>4 DEF Used
  <1>6. Used' \subseteq alloctab'
    BY <1>1, <1>5 DEF AddrInv
  <1>7. Cardinality(Leaked') <= faults'
    <2>1. IsFiniteSet(Leaked) /\ Cardinality(Leaked) \in Nat /\ Cardinality(Leaked) <= faults
      BY LeakedFinite DEF AddrInv
    <2>2. IsFiniteSet(Leaked \cup {a}) /\ Cardinality(Leaked \cup {a}) \in Nat
          /\ Cardinality(Leaked \cup {a}) <= Cardinality(Leaked) + 1
      <3>1. \/ Cardinality(Leaked \cup {a}) = Cardinality(Leaked)
            \/ Cardinality(Leaked \cup {a}) = Cardinality(Leaked) + 1
        BY <2>1, FS_AddElement
      <3>2. IsFiniteSet(Leaked \cup {a})
        BY <2>1, FS_AddElement
      <3> QED
        BY <2>1, <3>1, <3>2
    <2>3. Leaked' \in SUBSET (Leaked \cup {a})
      BY <1>1, <1>5 DEF Leaked
    <2>4. Cardinality(Leaked') \in Nat /\ Cardinality(Leaked') <= Cardinality(Leaked \cup {a})
      BY <2>2, <2>3, FS_Subset, FS_CardinalityType
    <2> QED
      BY <1>1, <2>1, <2>2, <2>4
  <1> QED
    BY <1>4, <1>6, <1>7 DEF AddrInv

\* The address handed out is nobody else's.
LEMMA SetAddrs ==
    ASSUME TypeOK, TypeOK', ThreadOK, AddrInv, NEW a \in Addrs, EnumAddr(a)
    PROVE  AddrInv'
  <1>1. /\ t.p \in Ports /\ child[t.p].addr = 0 /\ child[t.p].connected
        /\ child \in [Ports -> HubPort]
        /\ a \notin alloctab /\ alloctab' = alloctab \cup {a}
        /\ faults' = faults /\ a # 0
    BY Constants
       DEF EnumAddr, ThreadOK, NextAddr, counts, TypeOK, ThreadState
  <1>2. \A q \in Ports \ {t.p} : child'[q] = child[q]
    BY <1>1 DEF EnumAddr
  <1>3. child'[t.p].connected /\ child'[t.p].addr = a
    BY <1>1 DEF EnumAddr, HubPort
  <1>4. Live' = Live \cup {t.p} /\ t.p \notin Live
    BY <1>1, <1>2, <1>3 DEF Live
  <1>5. \A q \in Live : child'[q] = child[q] /\ child[q].addr \in alloctab
    BY <1>2, <1>4 DEF AddrInv, Used, Live
  <1>6. Used' = Used \cup {a}
    BY <1>3, <1>4, <1>5 DEF Used
  <1>7. \A q, r \in Live' : child'[q].addr = child'[r].addr => q = r
    BY <1>1, <1>3, <1>4, <1>5 DEF AddrInv
  <1>8. Used' \subseteq alloctab'
    BY <1>1, <1>6 DEF AddrInv
  <1>9. Leaked' \subseteq Leaked
    BY <1>1, <1>6 DEF Leaked
  <1> QED
    BY <1>1, <1>7, <1>8, <1>9, NothingLeaked DEF AddrInv

LEMMA AddrStep == TreeInv /\ TreeInv' /\ AddrInv /\ [Next]_vars => AddrInv'
  <1> SUFFICES ASSUME TreeInv, TreeInv', AddrInv, [Next]_vars PROVE AddrInv'
    OBVIOUS
  <1>1. TypeOK /\ TypeOK' /\ ThreadOK
    BY DEF TreeInv
  <1>2. ASSUME UNCHANGED <<child, alloctab, faults>>
        PROVE  AddrInv'
    BY <1>1, <1>2, SameAddrs
  <1>3. CASE Looking
    <2>1. UNCHANGED <<child, alloctab>>
      BY <1>1, <1>3, LookingStep
    <2>2. faults' = faults \/ faults' = faults + 1
      BY <1>1, <1>3, ThreadCounts, ThreadKinds
    <2> QED
      BY <1>1, <2>1, <2>2, SameAddrs
  <1>4. CASE Releasing
    <2>1. faults' = faults \/ faults' = faults + 1
      BY <1>1, <1>4, ThreadCounts, ThreadKinds
    <2>2. CASE UNCHANGED <<child, hub, devgen>>
      BY <1>1, <2>1, <2>2, SameAddrs DEF devgen
    <2>3. ASSUME NEW c \in HubPort, ReleaseInto(t.p, c), c.connected => c.addr = 0
          PROVE  AddrInv'
      <3>1. t.p \in Ports
        BY <1>1 DEF TypeOK, ThreadState
      <3> QED
        BY <1>1, <2>1, <2>3, <3>1, ReleaseAddrs
    <2> QED
      BY <1>1, <1>4, <2>2, <2>3, ReleasingStep
  <1>5. ASSUME NEW a \in Addrs, EnumAddrFail(a) \/ EnumAddr(a)
        PROVE  AddrInv'
    BY <1>1, <1>5, FailAddrs, SetAddrs
  <1>6. CASE EnumDevice
    <2>1. \A q \in Ports : child'[q].connected = child[q].connected /\ child'[q].addr = child[q].addr
      BY <1>1, <1>6 DEF EnumDevice, TypeOK, HubPort
    <2> QED
      BY <1>1, <1>6, <2>1, SameAddrs DEF EnumDevice, devgen, counts
  <1>7. CASE usbh_hub_connect
    <2>1. \A q \in Ports : child'[q].connected = child[q].connected /\ child'[q].addr = child[q].addr
      BY <1>1, <1>7 DEF usbh_hub_connect, TypeOK, HubPort
    <2> QED
      BY <1>1, <1>7, <2>1, SameAddrs DEF usbh_hub_connect, devgen, counts
  <1>8. CASE \/ \E p \in ExtPorts, d \in Devices \cup {NULL} : PlugExt(p, d)
             \/ \E d \in Things \cup {NULL} : PlugRoot(d)
             \/ Poll
             \/ UNCHANGED vars
    <2>1. UNCHANGED <<child, alloctab, faults>>
      BY <1>8 DEF PlugExt, PlugRoot, Poll, hub_int_timeout, PollNak, PollError, PollData, vars,
                  devgen, counts
    <2> QED
      BY <1>2, <2>1
  <1> QED
    BY <1>3, <1>4, <1>5, <1>6, <1>7, <1>8, ThreadKinds DEF Next

LEMMA AddrInvariance == Spec => []AddrInv
  <1>1. Init => AddrInv
    <2> SUFFICES ASSUME Init PROVE AddrInv
      OBVIOUS
    <2>1. Live = {}
      BY DEF Init, Live, NoChild
    <2>2. Used = {}
      BY <2>1 DEF Used
    <2>3. Leaked = {} /\ faults = 0
      BY DEF Init, Leaked
    <2> QED
      BY <2>1, <2>2, <2>3, FS_EmptySet DEF AddrInv
  <1> QED
    BY <1>1, AddrStep, TreeInvariance, PTL DEF Spec

\* The map of device addresses and the ports agree: every connected port has an
\* address of its own that is marked as taken, and all but as many of the marked
\* ones as SET_ADDRESS has failed, and the highest, belong to a connected port.
THEOREM AddressesAgree == Spec => []AddressesAccounted
  <1>1. ASSUME TreeInv, AddrInv
        PROVE  AddressesAccounted
    <2> DEFINE f == [p \in Live |-> child[p].addr]
    <2>1. IsFiniteSet(Live)
      <3>1. IsFiniteSet(Ports)
        BY HubAssumption, FS_AddElement DEF Ports
      <3>2. Live \in SUBSET Ports
        BY DEF Live
      <3> QED
        BY <3>1, <3>2, FS_Subset
    <2>2. f \in Bijection(Live, Used)
      BY <1>1 DEF AddrInv, Bijection, Injection, Surjection, IsInjective, Used
    <2>3. Cardinality(Used) = Cardinality(Live)
      BY <2>1, <2>2, FS_Bijection DEF ExistsBijection
    <2>4. Used \subseteq alloctab /\ Cardinality(Leaked) <= faults
      BY <1>1 DEF AddrInv
    <2> QED
      BY <2>3, <2>4 DEF AddressesAccounted, Live, Used, Leaked
  <1> QED
    BY <1>1, TreeInvariance, AddrInvariance, PTL
=============================================================================
