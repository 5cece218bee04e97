----------------------- MODULE SourceUsbCherryProofs ------------------------
(***************************************************************************)
(* Proofs about module SourceUsbCherry, for any number of devices, hub     *)
(* ports and callers.                                                      *)
(***************************************************************************)
EXTENDS SourceUsbCherry, FiniteSetTheorems, WellFoundedInduction, TLAPS

(***************************************************************************)
(* The inductive invariant, in parts.                                      *)
(***************************************************************************)

\* Two enumerated devices share neither a minor nor a port.
DevicesDistinct ==
    \A d, e \in Enumerated : d # e => dev[d].name # dev[e].name /\ dev[d].port # dev[e].port

Releasing == hub.pc \in {"stop", "stopmtx", "stopwait", "free"}

\* The hub thread handles one device at a time.  It waits for stick_task only
\* after asking it to close, and frees an instance nobody has a handle of.
HubOK ==
    /\ hub.pc = "start" => hub.d \in Devices /\ Connected(hub.d)
    /\ Releasing => /\ hub.d \in Devices
                    /\ dev[hub.d].st = "dying" /\ dev[hub.d].port = hub.port
    /\ \A d \in Devices : dev[d].st = "dying" => Releasing /\ hub.d = d
    /\ hub.pc \in {"stopmtx", "stopwait"} => want_close
    /\ hub.pc = "free" => h # hub.d
    /\ hub.pc = "gone" => \A d \in Enumerated : dev[d].port # hub.port

\* Where stick_task has a handle, and what of: the device that has the name of
\* the claim.  The published handle is no other, and withdrawn before the close.
Holding == {"bind", "apply", "serve", "clear", "fail", "close", "failclose"}

HandleOK ==
    /\ h # NULL <=> pc \in Holding
    /\ h # NULL => /\ dev[h].st # "out" /\ dev[h].name = id.devname
                   /\ Connected(h) => dev[h].ref = 1
    /\ pc \in Holding \cup {"open"} => ~rx_idle
    /\ ser # NULL => ser = h /\ pc \in {"apply", "serve", "clear", "fail"}

\* While a claim lasts, the device is there as recorded until it is pulled; and
\* the close is wanted then, and only then, up to usbh_serial_stop.
ClaimOK ==
    claimed =>
        /\ bound.d \in Devices
        /\ ~bound.pulled =>
              /\ Connected(bound.d)
              /\ dev[bound.d].name = id.devname /\ dev[bound.d].port = id.port
        /\ want_close => bound.pulled
        /\ bound.pulled /\ ~want_close =>
              hub.pc = "stop" /\ hub.d = bound.d /\ dev[bound.d].name = id.devname
        /\ pc \notin {"notify", "drop"} => id.serial = bound.serial

\* A claim is signalled once: not again while stick_task has it.
SignalOnce == connect_sem = 1 => pc = "wait"

\* The source is ready in the RX loop and nowhere else; by then it has its key.
ServeOK ==
    /\ ready <=> pc = "serve"
    /\ pc \in {"apply", "serve"} => key = derive_key(id.serial)

CherryInv ==
    /\ TypeOK /\ DevicesDistinct /\ HubOK /\ HandleOK
    /\ ClaimOK /\ SignalOnce /\ ServeOK /\ ClaimHasOwner
-----------------------------------------------------------------------------
(***************************************************************************)
(* The lowest free minor, and the initial state.                           *)
(***************************************************************************)

\* A set of naturals that is not empty has a least member.
LEMMA LeastMember ==
    ASSUME NEW S \in SUBSET Nat, S # {}
    PROVE  \E m \in S : \A k \in S : m <= k
  <1> DEFINE R == OpToRel(<, Nat)
  <1>1. \E x \in S : \A y \in S : ~(<<y, x>> \in R)
    BY NatLessThanWellFounded, WFMin
  <1>2. \A x, y \in S : <<y, x>> \in R <=> y < x
    BY DEF OpToRel
  <1> HIDE DEF R
  <1>3. PICK x \in S : \A y \in S : ~(y < x)
    BY <1>1, <1>2
  <1>4. \A y \in S : x <= y
    BY <1>3
  <1> QED
    BY <1>4

\* There are more minors than devices: the next device finds a free one.
LEMMA FreeMinor ==
    ASSUME TypeOK
    PROVE  LET free == Names \ {dev[e].name : e \in Enumerated}
           IN  (CHOOSE m \in free : \A k \in free : m <= k) \in free
  <1> DEFINE free == Names \ {dev[e].name : e \in Enumerated}
             f == [m \in Names |-> CHOOSE e \in Devices : dev[e].name = m]
  <1>1. IsFiniteSet(Devices) /\ Cardinality(Devices) \in Nat
    BY CherryAssumption, FS_CardinalityType
  <1>2. IsFiniteSet(Names) /\ Cardinality(Devices) < Cardinality(Names)
    BY <1>1, FS_Interval DEF Names
  <1>3. free # {}
    <2> SUFFICES ASSUME free = {} PROVE FALSE
      OBVIOUS
    <2>1. \A m \in Names : \E e \in Devices : dev[e].name = m
      BY DEF Enumerated
    <2>2. \A m \in Names : f[m] \in Devices /\ dev[f[m]].name = m
      BY <2>1
    <2>3. f \in [Names -> Devices]
      BY <2>2
    <2> HIDE DEF f
    <2>4. \E x, y \in Names : x # y /\ f[x] = f[y]
      BY <1>1, <1>2, <2>3, FS_PigeonHole
    <2> QED
      BY <2>2, <2>4
  <1>4. free \in SUBSET Nat
    BY <1>1 DEF Names
  <1> HIDE DEF free
  <1>5. \E m \in free : \A k \in free : m <= k
    BY <1>3, <1>4, LeastMember
  <1>6. (CHOOSE m \in free : \A k \in free : m <= k) \in free
    BY <1>5
  <1> QED
    BY <1>6 DEF free

\* What the state is reset to is well typed.
LEMMA Constants ==
    /\ Out \in DevState /\ AllOut \in [Devices -> DevState]
    /\ HubIdle \in HubState /\ NoId \in Identity /\ Unbound \in Claimed
    /\ NULL \notin Devices /\ NULL \notin Ports /\ NULL \notin Callers
  <1>1. 0 \in Names
    BY CherryAssumption, FS_CardinalityType DEF Names
  <1>2. Out \in DevState
    BY <1>1 DEF Out, DevState
  <1>3. AllOut \in [Devices -> DevState]
    BY <1>2 DEF AllOut
  <1>4. HubIdle \in HubState /\ Unbound \in Claimed
    BY DEF HubIdle, HubState, Unbound, Claimed
  <1>5. NoId \in Identity
    BY <1>1 DEF NoId, Identity
  <1> QED
    BY <1>2, <1>3, <1>4, <1>5, CherryAssumption

LEMMA InitInv == Init => CherryInv
  <1> SUFFICES ASSUME Init PROVE CherryInv
    OBVIOUS
  <1>1. \A d \in Devices : dev[d].st = "out"
    BY DEF Init, AllOut, Out
  <1>2. TypeOK
    <2>1. /\ claimed \in BOOLEAN /\ want_close \in BOOLEAN /\ rx_idle \in BOOLEAN
          /\ ready \in BOOLEAN /\ killed \in BOOLEAN
      BY DEF Init
    <2>2. /\ dev \in [Devices -> DevState] /\ hub \in HubState
          /\ id \in Identity /\ bound \in Claimed
      BY Constants DEF Init
    <2> QED
      BY <2>1, <2>2 DEF Init, TypeOK
  <1>3. DevicesDistinct
    BY <1>1 DEF DevicesDistinct, Enumerated
  <1>4. HubOK /\ HandleOK
    BY <1>1 DEF Init, HubOK, HandleOK, Releasing, Holding, HubIdle
  <1>5. ClaimOK /\ SignalOnce /\ ServeOK /\ ClaimHasOwner
    BY DEF Init, ClaimOK, SignalOnce, ServeOK, ClaimHasOwner
  <1> QED
    BY <1>2, <1>3, <1>4, <1>5 DEF CherryInv

-----------------------------------------------------------------------------
(***************************************************************************)
(* Type correctness.                                                       *)
(***************************************************************************)

LEMMA HubUpdate ==
    ASSUME NEW r \in HubState,
           NEW pc1 \in {"idle", "start", "stop", "stopmtx", "stopwait", "free", "gone"}
    PROVE  [r EXCEPT !.pc = pc1] \in HubState
  BY DEF HubState

LEMMA DevUpdate ==
    ASSUME NEW r \in DevState
    PROVE  /\ [r EXCEPT !.ref = 0] \in DevState
           /\ [r EXCEPT !.ref = 1] \in DevState
           /\ [r EXCEPT !.st = "dying", !.ref = 0] \in DevState
  <1>1. \A q \in DevState : [q EXCEPT !.ref = 0] \in DevState
    BY DEF DevState
  <1>2. [r EXCEPT !.ref = 1] \in DevState
    BY DEF DevState
  <1>3. [r EXCEPT !.st = "dying"] \in DevState
    BY DEF DevState
  <1>4. [[r EXCEPT !.st = "dying"] EXCEPT !.ref = 0] \in DevState
    BY <1>1, <1>3
  <1> QED
    BY <1>1, <1>2, <1>4

LEMMA ClaimedUpdate ==
    ASSUME NEW r \in Claimed, NEW b \in BOOLEAN
    PROVE  [r EXCEPT !.pulled = b] \in Claimed
  BY DEF Claimed

LEMMA IdentityUpdate ==
    ASSUME NEW r \in Identity
    PROVE  [r EXCEPT !.serial = NULL] \in Identity
  BY DEF Identity

\* The hub thread's steps keep the types.
LEMMA HubTypes ==
    ASSUME CherryInv,
           \/ \E d \in Devices, p \in Ports : Enumerate(d, p)
           \/ \E d \in Devices : Release(d)
           \/ HubStep
           \/ StopExpire
    PROVE  TypeOK'
  <1> USE DEF CherryInv, TypeOK
  <1>1. ASSUME NEW d \in Devices, NEW p \in Ports, Enumerate(d, p)
        PROVE  TypeOK'
    <2> DEFINE free == Names \ {dev[e].name : e \in Enumerated}
               name == CHOOSE m \in free : \A k \in free : m <= k
               new == [st |-> "live", port |-> p, ref |-> 0, name |-> name]
    <2>1. name \in Names
      BY FreeMinor
    <2> HIDE DEF name
    <2>2. new \in DevState
      BY <2>1 DEF DevState
    <2>3. dev' = [dev EXCEPT ![d] = new]
      BY <1>1 DEF Enumerate, name
    <2> HIDE DEF new
    <2>4. dev' \in [Devices -> DevState]
      BY <2>2, <2>3
    <2>5. hub' \in HubState
      BY <1>1 DEF Enumerate, HubState
    <2> QED
      BY <1>1, <2>4, <2>5 DEF Enumerate, sVars, stickVars
  <1>2. ASSUME NEW d \in Devices, Release(d)
        PROVE  TypeOK'
    <2>1. [dev[d] EXCEPT !.st = "dying", !.ref = 0] \in DevState
      BY DevUpdate
    <2>2. dev' \in [Devices -> DevState]
      BY <1>2, <2>1 DEF Release
    <2>3. hub' \in HubState
      BY <1>2 DEF Release, HubState, DevState
    <2>4. (bound.pulled \/ d = bound.d) \in BOOLEAN
      BY DEF Claimed
    <2>5. bound' \in Claimed
      BY <1>2, <2>4, ClaimedUpdate DEF Release
    <2> QED
      BY <1>2, <2>2, <2>3, <2>5 DEF Release, sVars, stickVars
  <1>3. ASSUME NEW serial \in {hub.d, NULL}, InterfaceStart(serial)
        PROVE  TypeOK'
    <2>1. hub.d \in Devices
      BY <1>3 DEF InterfaceStart, HubOK
    <2>2. /\ dev[hub.d].name \in Names /\ dev[hub.d].port \in Ports \cup {NULL}
          /\ serial \in Devices \cup {NULL}
      BY <2>1 DEF DevState
    <2>3. id' \in Identity
      BY <1>3, <2>2 DEF InterfaceStart, Claim, Identity
    <2>4. bound' \in Claimed
      <3>1. [d |-> hub.d, serial |-> serial, pulled |-> FALSE] \in Claimed
        BY <2>1, <2>2 DEF Claimed
      <3> QED
        BY <1>3, <3>1 DEF InterfaceStart, Claim
    <2>5. claimed' \in BOOLEAN /\ want_close' \in BOOLEAN
      BY <1>3 DEF InterfaceStart, Claim
    <2> QED
      BY <1>3, <2>3, <2>4, <2>5, Constants DEF InterfaceStart, stickVars
  <1>4. ASSUME StopEnter \/ StopWithdraw \/ StopWait \/ Disconnected
        PROVE  TypeOK'
    <2>1. hub' \in HubState
      BY <1>4, HubUpdate, Constants DEF StopEnter, StopWithdraw, StopWait, Disconnected, Hub
    <2>2. (want_close \/ (claimed /\ hub.port = id.port)) \in BOOLEAN
      OBVIOUS
    <2>3. want_close' \in BOOLEAN
      BY <1>4, <2>2 DEF StopEnter, StopWithdraw, StopWait, Disconnected, sVars
    <2> QED
      BY <1>4, <2>1, <2>3 DEF StopEnter, StopWithdraw, StopWait, Disconnected, sVars, stickVars
  <1>5. CASE Free
    <2>1. dev' \in [Devices -> DevState]
      BY <1>5, Constants DEF Free
    <2>2. hub' \in HubState
      BY <1>5, HubUpdate DEF Free, Hub
    <2> QED
      BY <1>5, <2>1, <2>2 DEF Free, sVars, stickVars
  <1>6. CASE StopExpire
    <2>1. /\ claimed' \in BOOLEAN /\ want_close' \in BOOLEAN /\ rx_idle' \in BOOLEAN
          /\ ready' \in BOOLEAN /\ killed' \in BOOLEAN
      BY <1>6 DEF StopExpire
    <2> QED
      BY <1>6, <2>1, Constants DEF StopExpire
  <1> QED
    BY <1>1, <1>2, <1>3, <1>4, <1>5, <1>6 DEF HubStep

\* So do those of stick_task and of the callers.
LEMMA TaskTypes ==
    ASSUME CherryInv,
           \/ StickStep
           \/ \E c \in Callers : TxBegin(c) \/ TxEnd(c)
           \/ SetAttr
    PROVE  TypeOK'
  <1> USE DEF CherryInv, TypeOK
  <1>1. ASSUME NEW d \in Devices, Open(d)
        PROVE  TypeOK'
    <2>1. [dev[d] EXCEPT !.ref = 1] \in DevState
      BY DevUpdate
    <2>2. dev' \in [Devices -> DevState]
      BY <1>1, <2>1 DEF Open
    <2> QED
      BY <1>1, <2>2 DEF Open, Goto, sVars
  <1>2. CASE Close
    <2>1. dev' \in [Devices -> DevState]
      <3>1. h \in Devices
        BY <1>2 DEF Close, HandleOK, Holding
      <3>2. [dev[h] EXCEPT !.ref = 0] \in DevState
        BY <3>1, DevUpdate
      <3> QED
        BY <1>2, <3>1, <3>2 DEF Close, CloseHandle
    <2>2. id' \in Identity
      BY <1>2, IdentityUpdate DEF Close
    <2>3. rx_idle' \in BOOLEAN
      BY <1>2 DEF Close
    <2> QED
      BY <1>2, <2>1, <2>2, <2>3 DEF Close, CloseHandle, Goto
  <1>3. CASE Bind
    <2>1. key' \in Devices \cup {VidPid, NULL}
      BY <1>3 DEF Bind, derive_key, Identity
    <2>2. ser' \in Devices \cup {NULL} /\ pc' = "apply"
      BY <1>3 DEF Bind, Goto
    <2>3. UNCHANGED <<dev, hub, claimed, want_close, rx_idle, connect_sem, ready, id,
                      bound, h, killed, tx_mtx>>
      BY <1>3 DEF Bind, hubVars
    <2> QED
      BY <2>1, <2>2, <2>3
  <1>4. ASSUME NEW ok \in BOOLEAN, Apply(ok)
        PROVE  TypeOK'
    <2>1. ready' \in BOOLEAN /\ killed' \in BOOLEAN
      BY <1>4 DEF Apply
    <2>2. pc' \in {"serve", "fail"}
      BY <1>4 DEF Apply, Goto
    <2>3. UNCHANGED <<dev, hub, claimed, want_close, rx_idle, connect_sem, ser, id, key,
                      bound, h, tx_mtx>>
      BY <1>4 DEF Apply, hubVars
    <2> QED
      BY <2>1, <2>2, <2>3
  <1>5. CASE ServeEnd \/ ReadError
    <2>1. ready' \in BOOLEAN /\ killed' \in BOOLEAN
      BY <1>5 DEF ServeEnd, ReadError
    <2> QED
      BY <1>5, <2>1 DEF ServeEnd, ReadError, Goto, hubVars
  <1>6. CASE TakeConnect \/ Withdraw \/ NotifyDown
    BY <1>6 DEF TakeConnect, Withdraw, NotifyDown, Goto, hubVars, sVars
  <1>7. CASE ClaimRx \/ OpenFail \/ Drop
    <2>1. rx_idle' \in BOOLEAN /\ claimed' \in BOOLEAN
      BY <1>7 DEF ClaimRx, OpenFail, Drop
    <2> QED
      BY <1>7, <2>1 DEF ClaimRx, OpenFail, Drop, Goto, hubVars
  <1>8. ASSUME NEW c \in Callers, TxBegin(c) \/ TxEnd(c)
        PROVE  TypeOK'
    BY <1>8 DEF TxBegin, TxEnd, hubVars, sVars, stickVars
  <1>9. CASE SetAttr
    <2>1. killed' \in BOOLEAN
      BY <1>9 DEF SetAttr
    <2> QED
      BY <1>9, <2>1 DEF SetAttr, hubVars, sVars, stickVars
  <1> QED
    BY <1>1, <1>2, <1>3, <1>4, <1>5, <1>6, <1>7, <1>8, <1>9 DEF StickStep

-----------------------------------------------------------------------------
(***************************************************************************)
(* The hub thread keeps the other parts.                                   *)
(***************************************************************************)

Rest == DevicesDistinct /\ HubOK /\ HandleOK /\ ClaimOK /\ SignalOnce /\ ServeOK /\ ClaimHasOwner

LEMMA EnumerateStep ==
    ASSUME CherryInv, NEW d \in Devices, NEW p \in Ports, Enumerate(d, p)
    PROVE  Rest'
  <1> USE DEF CherryInv
  <1> DEFINE free == Names \ {dev[e].name : e \in Enumerated}
             name == CHOOSE m \in free : \A k \in free : m <= k
             new == [st |-> "live", port |-> p, ref |-> 0, name |-> name]
  <1>1. name \in free
    BY FreeMinor
  <1>2. dev' = [dev EXCEPT ![d] = new]
    BY DEF Enumerate
  <1> HIDE DEF name
  <1>3. \A e \in Enumerated : dev[e].name # name /\ dev[e].port # p
    BY <1>1 DEF Enumerate
  <1> HIDE DEF free
  <1>4. /\ dev'[d].st = "live" /\ dev'[d].name = name /\ dev'[d].port = p
        /\ \A e \in Devices \ {d} : dev'[e] = dev[e]
        /\ dev[d].st = "out"
    BY <1>2 DEF TypeOK, Enumerate
  <1>5. /\ hub.pc = "idle" /\ hub'.pc = "start" /\ hub'.d = d
        /\ UNCHANGED <<sVars, bound, stickVars, killed, tx_mtx>>
    BY DEF Enumerate
  <1> HIDE DEF new
  <1>6. DevicesDistinct'
    BY <1>3, <1>4 DEF DevicesDistinct, Enumerated
  <1>7. HubOK'
    BY <1>4, <1>5 DEF HubOK, Releasing, Connected
  <1>8. HandleOK'
    BY <1>4, <1>5, Constants DEF HandleOK, Connected, TypeOK, sVars, stickVars
  <1>9. ClaimOK'
    BY <1>4, <1>5 DEF ClaimOK, Connected, sVars, stickVars
  <1>10. (SignalOnce /\ ServeOK /\ ClaimHasOwner)'
    BY <1>5 DEF SignalOnce, ServeOK, ClaimHasOwner, sVars, stickVars, derive_key
  <1> QED
    BY <1>6, <1>7, <1>8, <1>9, <1>10 DEF Rest

LEMMA ReleaseStep ==
    ASSUME CherryInv, NEW d \in Devices, Release(d)
    PROVE  Rest'
  <1> USE DEF CherryInv
  <1>1. /\ dev'[d].st = "dying" /\ dev'[d].name = dev[d].name /\ dev'[d].port = dev[d].port
        /\ \A e \in Devices \ {d} : dev'[e] = dev[e]
        /\ dev[d].st = "live"
    BY DEF TypeOK, Release, DevState
  <1>2. /\ hub.pc = "idle" /\ hub'.pc = "stop" /\ hub'.d = d /\ hub'.port = dev[d].port
        /\ UNCHANGED <<sVars, stickVars, killed, tx_mtx>>
    BY DEF Release
  <1>3. /\ bound'.d = bound.d /\ bound'.serial = bound.serial
        /\ bound'.pulled <=> bound.pulled \/ d = bound.d
    BY DEF Release, TypeOK, Claimed
  <1>4. DevicesDistinct'
    BY <1>1 DEF DevicesDistinct, Enumerated
  <1>5. HubOK'
    BY <1>1, <1>2 DEF HubOK, Releasing, Connected
  <1>6. HandleOK'
    BY <1>1, <1>2, Constants DEF HandleOK, Connected, TypeOK, sVars, stickVars
  <1>7. ClaimOK'
    BY <1>1, <1>2, <1>3 DEF ClaimOK, Connected, sVars, stickVars
  <1>8. (SignalOnce /\ ServeOK /\ ClaimHasOwner)'
    BY <1>2 DEF SignalOnce, ServeOK, ClaimHasOwner, sVars, stickVars, derive_key
  <1> QED
    BY <1>4, <1>5, <1>6, <1>7, <1>8 DEF Rest

LEMMA InterfaceStartStep ==
    ASSUME CherryInv, NEW serial \in {hub.d, NULL}, InterfaceStart(serial)
    PROVE  Rest'
  <1> USE DEF CherryInv
  <1>1. /\ hub.pc = "start" /\ hub'.pc = "idle"
        /\ UNCHANGED <<dev, rx_idle, ser, ready, key, pc, h>>
    BY DEF InterfaceStart, HubIdle, stickVars
  <1>2. DevicesDistinct' /\ HubOK'
    BY <1>1 DEF DevicesDistinct, Enumerated, HubOK, Releasing, Connected
  <1>3. CASE claimed
    <2>1. UNCHANGED <<id, bound, want_close, claimed, connect_sem>>
      BY <1>3 DEF InterfaceStart
    <2>2. HandleOK' /\ ClaimOK' /\ SignalOnce' /\ ServeOK' /\ ClaimHasOwner'
      BY <1>1, <2>1, Constants
         DEF HandleOK, ClaimOK, SignalOnce, ServeOK, ClaimHasOwner, Connected, derive_key
    <2> QED
      BY <1>2, <2>2 DEF Rest
  <1>4. CASE ~claimed
    <2>1. /\ id'.devname = dev[hub.d].name /\ id'.port = dev[hub.d].port /\ id'.serial = serial
          /\ bound'.d = hub.d /\ bound'.serial = serial /\ bound'.pulled = FALSE
          /\ want_close' = FALSE /\ claimed' = TRUE /\ connect_sem' = 1
      BY <1>4 DEF InterfaceStart, Claim
    <2>2. pc = "wait" /\ h = NULL /\ ser = NULL
      BY <1>4 DEF ClaimHasOwner, HandleOK, Holding
    <2>3. HandleOK'
      BY <1>1, <2>2 DEF HandleOK, Holding
    <2>4. ClaimOK'
      BY <1>1, <2>1 DEF ClaimOK, HubOK, Connected
    <2>5. SignalOnce' /\ ServeOK' /\ ClaimHasOwner'
      BY <1>1, <2>1, <2>2 DEF SignalOnce, ServeOK, ClaimHasOwner
    <2> QED
      BY <1>2, <2>3, <2>4, <2>5 DEF Rest
  <1> QED
    BY <1>3, <1>4

\* What usbh_serial_stop takes for the claimed device is that device, or it has
\* been pulled before.
LEMMA MineIsBound ==
    ASSUME CherryInv, hub.pc = "stop", Mine(hub.d)
    PROVE  claimed /\ bound.pulled
  <1> USE DEF CherryInv
  <1>1. claimed /\ hub.d \in Devices /\ dev[hub.d].st = "dying"
    BY DEF HubOK, Releasing, Mine
  <1>2. dev[hub.d].name = id.devname
    BY <1>1, Constants DEF Mine, HandleOK
  <1>3. ASSUME ~bound.pulled PROVE FALSE
    <2>1. bound.d \in Devices /\ Connected(bound.d) /\ dev[bound.d].name = id.devname
      BY <1>1, <1>3 DEF ClaimOK
    <2> QED
      BY <1>1, <1>2, <2>1 DEF DevicesDistinct, Enumerated, Connected
  <1> QED
    BY <1>1, <1>3

LEMMA StopStep ==
    ASSUME CherryInv, StopEnter \/ StopWithdraw \/ StopWait
    PROVE  Rest'
  <1> USE DEF CherryInv
  <1>1. /\ UNCHANGED <<dev, claimed, rx_idle, connect_sem, ready, id, key, bound, pc, h>>
        /\ hub'.d = hub.d /\ hub'.port = hub.port
        /\ ser' = ser \/ ser' = NULL
    BY DEF StopEnter, StopWithdraw, StopWait, Hub, sVars, stickVars, TypeOK, HubState
  <1>2. DevicesDistinct' /\ SignalOnce' /\ ServeOK' /\ ClaimHasOwner'
    BY <1>1 DEF DevicesDistinct, Enumerated, SignalOnce, ServeOK, ClaimHasOwner, derive_key
  <1>3. HandleOK'
    BY <1>1, Constants DEF HandleOK, Connected
  <1>4. CASE StopEnter
    <2>1. hub.pc = "stop" /\ hub.d \in Devices
      BY <1>4 DEF StopEnter, HubOK, Releasing
    <2>2. CASE Mine(hub.d)
      <3>1. want_close' = TRUE /\ hub'.pc = "stopmtx"
        BY <1>4, <2>2 DEF StopEnter, Hub, TypeOK, HubState
      <3>2. HubOK'
        BY <1>1, <2>1, <3>1 DEF HubOK, Releasing, Connected
      <3>3. ClaimOK'
        BY <1>1, <2>1, <2>2, <3>1, MineIsBound DEF ClaimOK, Connected
      <3> QED
        BY <1>2, <1>3, <3>2, <3>3 DEF Rest
    <2>3. CASE ~Mine(hub.d)
      <3>1. want_close' = want_close /\ hub'.pc = "free"
        BY <1>4, <2>3 DEF StopEnter, Hub, TypeOK, HubState
      <3>2. h # hub.d
        BY <2>1, <2>3, Constants DEF Mine, HandleOK, ClaimHasOwner, Holding
      <3>3. HubOK'
        BY <1>1, <2>1, <3>1, <3>2 DEF HubOK, Releasing, Connected
      <3>4. ClaimOK'
        BY <1>1, <2>1, <2>3, <3>1 DEF ClaimOK, Connected, Mine
      <3> QED
        BY <1>2, <1>3, <3>3, <3>4 DEF Rest
    <2> QED
      BY <2>2, <2>3
  <1>5. CASE StopWithdraw \/ StopWait
    <2>1. /\ hub.pc \in {"stopmtx", "stopwait"} /\ want_close' = want_close
          /\ \/ hub'.pc = "stopwait"
             \/ hub'.pc = "free" /\ rx_idle
      BY <1>5 DEF StopWithdraw, StopWait, Hub, sVars, TypeOK, HubState
    <2>2. hub'.pc = "free" => h = NULL
      BY <2>1 DEF HandleOK
    <2>3. HubOK'
      BY <1>1, <2>1, <2>2, Constants DEF HubOK, Releasing, Connected
    <2>4. ClaimOK'
      BY <1>1, <2>1 DEF ClaimOK, Connected
    <2> QED
      BY <1>2, <1>3, <2>3, <2>4 DEF Rest
  <1> QED
    BY <1>4, <1>5

LEMMA FreeStep ==
    ASSUME CherryInv, Free
    PROVE  Rest'
  <1> USE DEF CherryInv
  <1>1. /\ hub.pc = "free" /\ hub.d \in Devices /\ dev[hub.d].st = "dying"
        /\ hub.port = dev[hub.d].port /\ h # hub.d
    BY DEF Free, HubOK, Releasing
  <1>2. /\ hub'.pc = "gone" /\ hub'.d = hub.d /\ hub'.port = hub.port
        /\ UNCHANGED <<sVars, bound, stickVars>>
    BY DEF Free, Hub, TypeOK, HubState
  <1>3. dev'[hub.d].st = "out" /\ \A e \in Devices \ {hub.d} : dev'[e] = dev[e]
    BY <1>1 DEF Free, TypeOK, Out
  <1>4. DevicesDistinct'
    BY <1>3 DEF DevicesDistinct, Enumerated
  <1>5. HubOK'
    BY <1>1, <1>2, <1>3 DEF HubOK, Releasing, DevicesDistinct, Enumerated
  <1>6. HandleOK'
    BY <1>1, <1>2, <1>3 DEF HandleOK, Connected, TypeOK, sVars, stickVars
  <1>7. ClaimOK'
    BY <1>1, <1>2, <1>3 DEF ClaimOK, Connected, sVars, stickVars
  <1>8. SignalOnce' /\ ServeOK' /\ ClaimHasOwner'
    BY <1>2 DEF SignalOnce, ServeOK, ClaimHasOwner, sVars, stickVars, derive_key
  <1> QED
    BY <1>4, <1>5, <1>6, <1>7, <1>8 DEF Rest

LEMMA DisconnectedStep ==
    ASSUME CherryInv, Disconnected
    PROVE  Rest'
  <1> USE DEF CherryInv
  <1>1. /\ hub.pc = "gone" /\ hub'.pc = "idle"
        /\ UNCHANGED <<dev, claimed, rx_idle, connect_sem, ser, ready, id, key, bound, pc, h>>
    BY DEF Disconnected, HubIdle, stickVars
  <1>2. want_close' <=> (want_close \/ (claimed /\ hub.port = id.port))
    BY DEF Disconnected
  <1>3. ASSUME claimed, hub.port = id.port PROVE bound.pulled
    BY <1>1, <1>3 DEF ClaimOK, HubOK, Enumerated, Connected
  <1>4. DevicesDistinct' /\ HubOK'
    BY <1>1 DEF DevicesDistinct, Enumerated, HubOK, Releasing
  <1>5. ClaimOK'
    BY <1>1, <1>2, <1>3 DEF ClaimOK, Connected
  <1>6. HandleOK' /\ SignalOnce' /\ ServeOK' /\ ClaimHasOwner'
    BY <1>1 DEF HandleOK, SignalOnce, ServeOK, ClaimHasOwner, derive_key, Connected
  <1> QED
    BY <1>4, <1>5, <1>6 DEF Rest

\* The restart after the panic brings back an initial state.
LEMMA ExpireStep ==
    ASSUME CherryInv, StopExpire
    PROVE  Rest'
  <1>1. \A d \in Devices : dev'[d].st = "out"
    BY DEF StopExpire, AllOut, Out
  <1>2. DevicesDistinct'
    BY <1>1 DEF DevicesDistinct, Enumerated
  <1>3. HubOK' /\ HandleOK'
    BY <1>1 DEF StopExpire, HubOK, HandleOK, Releasing, Holding, HubIdle
  <1>4. ClaimOK' /\ SignalOnce' /\ ServeOK' /\ ClaimHasOwner'
    BY DEF StopExpire, ClaimOK, SignalOnce, ServeOK, ClaimHasOwner
  <1> QED
    BY <1>2, <1>3, <1>4 DEF Rest

-----------------------------------------------------------------------------
(***************************************************************************)
(* So do stick_task and the callers.                                       *)
(***************************************************************************)

LEMMA OpenStep ==
    ASSUME CherryInv, NEW d \in Devices, Open(d)
    PROVE  Rest'
  <1> USE DEF CherryInv
  <1>1. /\ pc = "open" /\ pc' = "bind" /\ h' = d
        /\ dev[d].st = "live" /\ dev[d].name = id.devname
        /\ UNCHANGED <<hub, sVars, bound>>
    BY DEF Open, Goto, Openable, Connected
  <1>2. /\ dev'[d].st = "live" /\ dev'[d].name = dev[d].name /\ dev'[d].port = dev[d].port
        /\ dev'[d].ref = 1
        /\ \A e \in Devices \ {d} : dev'[e] = dev[e]
    <2>1. dev' = [dev EXCEPT ![d] = [dev[d] EXCEPT !.ref = 1]]
      BY DEF Open, TypeOK
    <2>2. dev[d] \in DevState
      BY DEF TypeOK
    <2> QED
      BY <1>1, <2>1, <2>2 DEF TypeOK, DevState
  <1>3. DevicesDistinct'
    BY <1>1, <1>2 DEF DevicesDistinct, Enumerated
  <1>4. HubOK'
    BY <1>1, <1>2 DEF HubOK, Releasing, Connected, Enumerated, sVars
  <1>5. HandleOK'
    BY <1>1, <1>2, Constants DEF HandleOK, Holding, Connected, sVars
  <1>6. ClaimOK'
    BY <1>1, <1>2 DEF ClaimOK, Connected, sVars
  <1>7. SignalOnce' /\ ServeOK' /\ ClaimHasOwner'
    BY <1>1 DEF SignalOnce, ServeOK, ClaimHasOwner, sVars
  <1> QED
    BY <1>3, <1>4, <1>5, <1>6, <1>7 DEF Rest

LEMMA CloseStep ==
    ASSUME CherryInv, Close
    PROVE  Rest'
  <1> USE DEF CherryInv
  <1>1. /\ pc \in {"close", "failclose"} /\ pc' = (IF pc = "close" THEN "notify" ELSE "drop")
        /\ h \in Devices /\ h' = NULL /\ ser' = ser /\ ser = NULL
        /\ UNCHANGED <<hub, claimed, want_close, connect_sem, ready, bound>>
    BY Constants DEF Close, CloseHandle, Goto, HandleOK, Holding, TypeOK
  <1>2. id'.devname = id.devname /\ id'.port = id.port
    BY DEF Close, TypeOK, Identity
  <1>3. /\ dev'[h].st = dev[h].st /\ dev'[h].name = dev[h].name /\ dev'[h].port = dev[h].port
        /\ \A e \in Devices \ {h} : dev'[e] = dev[e]
    BY <1>1 DEF Close, CloseHandle, TypeOK, DevState
  <1>4. \A e \in Devices : dev'[e].st = dev[e].st /\ dev'[e].name = dev[e].name
                           /\ dev'[e].port = dev[e].port
    BY <1>3
  <1>5. DevicesDistinct'
    BY <1>4 DEF DevicesDistinct, Enumerated
  <1>6. HubOK'
    BY <1>1, <1>4, Constants DEF HubOK, Releasing, Connected, Enumerated
  <1>7. HandleOK'
    BY <1>1 DEF HandleOK, Holding
  <1>8. ClaimOK'
    BY <1>1, <1>2, <1>4 DEF ClaimOK, Connected
  <1>9. SignalOnce' /\ ServeOK' /\ ClaimHasOwner'
    BY <1>1 DEF SignalOnce, ServeOK, ClaimHasOwner
  <1> QED
    BY <1>5, <1>6, <1>7, <1>8, <1>9 DEF Rest

\* The steps of stick_task that take a claim or give it up.
LEMMA ClaimStep ==
    ASSUME CherryInv, TakeConnect \/ ClaimRx \/ OpenFail \/ NotifyDown \/ Drop
    PROVE  Rest'
  <1> USE DEF CherryInv, TakeConnect, ClaimRx, OpenFail, NotifyDown, Drop, Goto
  <1>1. UNCHANGED <<dev, hub, want_close, ser, ready, id, key, bound, h>>
    BY DEF hubVars, sVars
  <1>2. h = NULL
    BY DEF HandleOK, Holding
  <1>3. DevicesDistinct' /\ HubOK'
    BY <1>1 DEF DevicesDistinct, Enumerated, HubOK, Releasing, Connected
  <1>4. pc' \notin Holding /\ (pc' = "open" => ~rx_idle')
    BY DEF HandleOK, Holding, hubVars, sVars
  <1>5. HandleOK'
    BY <1>1, <1>2, <1>4 DEF HandleOK
  <1>6. ClaimOK'
    BY <1>1 DEF ClaimOK, Connected, sVars
  <1>7. SignalOnce' /\ ServeOK' /\ ClaimHasOwner'
    BY <1>1 DEF SignalOnce, ServeOK, ClaimHasOwner, sVars
  <1> QED
    BY <1>3, <1>5, <1>6, <1>7 DEF Rest

\* The steps of stick_task with a handle, but for the open and the close.
LEMMA HoldingStep ==
    ASSUME CherryInv,
           Bind \/ (\E ok \in BOOLEAN : Apply(ok)) \/ ServeEnd \/ ReadError \/ Withdraw
    PROVE  Rest'
  <1> USE DEF CherryInv, Bind, Apply, ServeEnd, ReadError, Withdraw, Goto
  <1>1. UNCHANGED <<dev, hub, claimed, want_close, rx_idle, connect_sem, id, bound, h>>
    BY DEF hubVars, sVars
  <1>2. pc \in Holding /\ pc' \in Holding \ {"bind"} /\ h # NULL
    BY DEF HandleOK, Holding
  <1>3. DevicesDistinct' /\ HubOK'
    BY <1>1 DEF DevicesDistinct, Enumerated, HubOK, Releasing, Connected
  <1>4. ser' # NULL => ser' = h /\ pc' \in {"apply", "serve", "clear", "fail"}
    BY DEF HandleOK, Holding
  <1>5. HandleOK'
    BY <1>1, <1>2, <1>4 DEF HandleOK, Connected
  <1>6. ClaimOK'
    BY <1>1, <1>2 DEF ClaimOK, Connected, Holding
  <1>7. ServeOK'
    BY <1>1 DEF ServeOK, derive_key
  <1>8. SignalOnce' /\ ClaimHasOwner'
    BY <1>1, <1>2 DEF SignalOnce, ClaimHasOwner, Holding
  <1> QED
    BY <1>3, <1>5, <1>6, <1>7, <1>8 DEF Rest

\* The callers touch nothing of it.
LEMMA CallerStep ==
    ASSUME CherryInv,
           \/ \E c \in Callers : TxBegin(c) \/ TxEnd(c)
           \/ SetAttr
           \/ UNCHANGED vars
    PROVE  Rest'
  <1>1. UNCHANGED <<dev, hub, claimed, want_close, rx_idle, connect_sem, ser, ready, id, key,
                    bound, pc, h>>
    BY DEF TxBegin, TxEnd, SetAttr, vars, hubVars, sVars, stickVars
  <1> QED
    BY <1>1 DEF CherryInv, Rest, DevicesDistinct, Enumerated, HubOK, Releasing, Connected,
                HandleOK, ClaimOK, SignalOnce, ServeOK, ClaimHasOwner, derive_key

LEMMA CherryStep == CherryInv /\ [Next]_vars => CherryInv'
  <1> SUFFICES ASSUME CherryInv, [Next]_vars PROVE CherryInv'
    OBVIOUS
  <1>1. Rest'
    <2> USE DEF Next
    <2>1. CASE \E d \in Devices, p \in Ports : Enumerate(d, p)
      BY <2>1, EnumerateStep
    <2>2. CASE \E d \in Devices : Release(d)
      BY <2>2, ReleaseStep
    <2>3. CASE HubStep
      BY <2>3, InterfaceStartStep, StopStep, FreeStep, DisconnectedStep DEF HubStep
    <2>4. CASE StickStep
      BY <2>4, OpenStep, CloseStep, ClaimStep, HoldingStep DEF StickStep
    <2>5. CASE StopExpire
      BY <2>5, ExpireStep
    <2>6. CASE (\E c \in Callers : TxBegin(c) \/ TxEnd(c)) \/ SetAttr \/ UNCHANGED vars
      BY <2>6, CallerStep
    <2> QED
      BY <2>1, <2>2, <2>3, <2>4, <2>5, <2>6
  <1>2. TypeOK'
    <2>1. CASE UNCHANGED vars
      BY <2>1 DEF CherryInv, TypeOK, vars, sVars, stickVars
    <2>2. CASE Next
      BY <2>2, HubTypes, TaskTypes DEF Next
    <2> QED
      BY <2>1, <2>2
  <1> QED
    BY <1>1, <1>2 DEF CherryInv, Rest

LEMMA Invariance == Spec => []CherryInv
  BY InitInv, CherryStep, PTL DEF Spec

-----------------------------------------------------------------------------
(***************************************************************************)
(* What follows from it.                                                   *)
(***************************************************************************)

\* Neither stick_task's handle nor the published one outlives its instance: the
\* handshake of usbh_serial_stop with stick_task leaves no gap, for any number of
\* sticks behind the hub.
THEOREM NoHandleOutlivesItsDevice == Spec => []HandlesAlive
  <1>1. CherryInv => HandlesAlive
    BY DEF CherryInv, HandleOK, HandlesAlive
  <1> QED
    BY <1>1, Invariance, PTL

\* A ready source has the identity of the device claimed: the teardown of one
\* device never reaches the identity of the next.
THEOREM OwnIdentity == Spec => []IdentityIntact
  <1>1. ASSUME CherryInv, ready, ~want_close
        PROVE  h = bound.d /\ key = derive_key(bound.serial)
    <2> USE DEF CherryInv
    <2>1. pc = "serve" /\ claimed
      BY <1>1 DEF ServeOK, ClaimHasOwner
    <2>2. h \in Devices /\ dev[h].st # "out" /\ dev[h].name = id.devname
      BY <1>1, <2>1 DEF HandleOK, Holding, TypeOK
    <2>3. /\ bound.d \in Devices /\ dev[bound.d].st # "out"
          /\ dev[bound.d].name = id.devname /\ id.serial = bound.serial
      BY <1>1, <2>1 DEF ClaimOK, HubOK, Releasing, Connected
    <2>4. h = bound.d
      BY <1>1, <2>2, <2>3 DEF DevicesDistinct, Enumerated
    <2>5. key = derive_key(bound.serial)
      BY <1>1, <2>1, <2>3 DEF ServeOK
    <2> QED
      BY <2>4, <2>5
  <1>2. CherryInv => IdentityIntact
    BY <1>1 DEF IdentityIntact
  <1> QED
    BY <1>2, Invariance, PTL

\* Somebody is always about to serve a claim and to release it.
THEOREM ClaimsOwned == Spec => []ClaimHasOwner
  <1>1. CherryInv => ClaimHasOwner
    BY DEF CherryInv
  <1> QED
    BY <1>1, Invariance, PTL

\* A source that is ready stays so until the device it claimed is pulled, whatever
\* error a read returns and whichever other device comes or goes.
THEOREM ReadyLasts == Spec => ReadyUntilPulled
  <1>1. ASSUME CherryInv, [Next]_vars
        PROVE  [ready /\ ~ready' => bound.pulled]_vars
    <2> SUFFICES ASSUME ready, ~ready' PROVE bound.pulled
      OBVIOUS
    <2> USE DEF CherryInv
    <2>1. pc = "serve" /\ claimed /\ (want_close => bound.pulled)
      BY <1>1 DEF ServeOK, ClaimHasOwner, ClaimOK
    <2>2. StopExpire \/ ServeEnd \/ (ReadError /\ (~Connected(h) \/ dev[h].ref = 0))
      BY <1>1, <2>1
         DEF Next, HubStep, StickStep, vars, sVars, hubVars, stickVars, Enumerate, Release,
             InterfaceStart, StopEnter, StopWithdraw, StopWait, Free, Disconnected,
             TakeConnect, ClaimRx, Open, OpenFail, Bind, Apply, ReadError, Withdraw, Close,
             NotifyDown, Drop, TxBegin, TxEnd, SetAttr
    <2>3. CASE StopExpire
      BY <1>1, <2>1, <2>3 DEF StopExpire, HubOK
    <2>4. CASE ServeEnd
      BY <2>1, <2>4 DEF ServeEnd
    <2>5. CASE ReadError /\ (~Connected(h) \/ dev[h].ref = 0)
      <3>1. h \in Devices /\ dev[h].st # "out" /\ dev[h].name = id.devname /\ ~Connected(h)
        BY <1>1, <2>1, <2>5 DEF HandleOK, Holding, TypeOK
      <3> QED
        BY <1>1, <2>1, <3>1 DEF ClaimOK, DevicesDistinct, Enumerated, Connected
    <2> QED
      BY <2>2, <2>3, <2>4, <2>5
  <1> QED
    BY <1>1, Invariance, PTL DEF Spec, ReadyUntilPulled
=============================================================================
