--------------------------- MODULE UsbHostProofs ----------------------------
(***************************************************************************)
(* Proofs about module UsbHost, for any number of sticks, enumerations,    *)
(* blocks, faults and flash runs.                                          *)
(***************************************************************************)
EXTENDS UsbHost, TLAPS

(***************************************************************************)
(* The inductive invariant: the port and the USB source.                   *)
(***************************************************************************)

Event    == [ev : {"new", "gone"}, ses : Nat \ {0}]
DevState == [s : Sticks \cup {NULL}, mode : {"none", "app", "boot"}, ses : Nat]

\* The attached device is the last one that enumerated; no client is told of the
\* end of a device that is attached.
BusOK ==
    /\ ses \in Nat /\ bus \in DevState
    /\ bus # NoDev => bus.s \in Sticks /\ bus.mode # "none" /\ bus.ses = ses /\ ses # 0
    /\ held \subseteq {"cdc", "dfu"}
    /\ cdcq \in Seq(Event) /\ dfuq \in Seq(Event)
    /\ \A i \in 1..Len(cdcq) :
          cdcq[i].ses <= ses /\ (cdcq[i].ev = "gone" => bus.ses # cdcq[i].ses)

Opened == {"found", "init", "key", "apply", "serve", "clear", "close"}

\* stick_task has a device open from the start of the open to the close.  Until
\* then the library recovers the port for nobody else, so that this device is
\* the last one that enumerated.
SourceOK ==
    /\ spc \in {"wait", "open", "retry"} \cup Opened
    /\ opn \in Nat /\ disconnect_sem \in {0, 1}
    /\ connected \in BOOLEAN /\ ready \in BOOLEAN
    /\ opn # 0 <=> spc \in Opened
    /\ "cdc" \in held <=> opn # 0
    /\ opn # 0 => opn = ses
    /\ cdc = IF spc \in {"key", "apply", "serve"} THEN opn ELSE 0
    /\ connected => cdc # 0
    /\ ready => spc = "serve"

\* A disconnect signal that is pending while a device is open is about that one.
SignalOK ==
    /\ spc = "open" => disconnect_sem = 0
    /\ disconnect_sem = 1 /\ opn # 0 => bus = NoDev
    /\ spc \in {"clear", "close"} => bus = NoDev

KeyOf(s) == IF s \in HasSerial THEN s ELSE VidPid

\* The serial number is the one of the attached device if new_dev_cb has been
\* called for it; the key is derived from it while that device is open.
IdentityOK ==
    /\ noted \in 0..ses
    /\ bus # NoDev /\ noted = bus.ses =>
        /\ serial = SerialOf(bus)
        /\ spc \in {"apply", "serve"} => key = KeyOf(bus.s)
    /\ bus # NoDev /\ opn # 0 => bus.mode = "app"

PortInv == BusOK /\ SourceOK /\ SignalOK /\ IdentityOK
-----------------------------------------------------------------------------
(***************************************************************************)
(* The queues of events.                                                   *)
(***************************************************************************)

LEMMA EventAppend ==
    ASSUME NEW q \in Seq(Event), NEW e \in Event
    PROVE  /\ Append(q, e) \in Seq(Event) /\ Len(Append(q, e)) = Len(q) + 1
           /\ \A i \in 1..Len(q) : Append(q, e)[i] = q[i]
           /\ Append(q, e)[Len(q) + 1] = e
  OBVIOUS

LEMMA EventTail ==
    ASSUME NEW q \in Seq(Event), q # <<>>
    PROVE  /\ Tail(q) \in Seq(Event) /\ Len(Tail(q)) = Len(q) - 1 /\ Len(q) \in Nat \ {0}
           /\ \A i \in 1..Len(Tail(q)) : i + 1 \in 1..Len(q) /\ Tail(q)[i] = q[i + 1]
           /\ Head(q) = q[1] /\ Head(q) \in Event /\ 1 \in 1..Len(q)
  OBVIOUS

\* A device that is attached has a number, the one of the last enumeration.
LEMMA AttachedLast ==
    ASSUME BusOK, NEW n \in Nat, Attached(n)
    PROVE  bus # NoDev /\ n = ses /\ bus.ses = n
  BY BusAssumption DEF BusOK, Attached, NoDev, DevState
-----------------------------------------------------------------------------
(***************************************************************************)
(* The steps of the port.                                                  *)
(***************************************************************************)

LEMMA PortAttach ==
    ASSUME PortInv, NEW s \in Sticks, NEW m \in {"app", "boot"}, Attach(s, m), UNCHANGED srcVars
    PROVE  PortInv'
  <1>1. opn = 0 /\ spc \notin Opened
    BY DEF PortInv, SourceOK, Attach
  <1> DEFINE e == [ev |-> "new", ses |-> ses + 1]
  <1>2. e \in Event /\ ses \in Nat /\ cdcq \in Seq(Event) /\ dfuq \in Seq(Event)
    BY DEF PortInv, BusOK, Event
  <1>3. cdcq' = Append(cdcq, e) /\ dfuq' = Append(dfuq, e) /\ ses' = ses + 1
        /\ bus' = [s |-> s, mode |-> m, ses |-> ses + 1] /\ held' = held
    BY DEF Attach
  <1>4. /\ cdcq' \in Seq(Event) /\ dfuq' \in Seq(Event) /\ Len(cdcq') = Len(cdcq) + 1
        /\ \A i \in 1..Len(cdcq) : cdcq'[i] = cdcq[i]
        /\ cdcq'[Len(cdcq) + 1] = e
    BY <1>2, <1>3, EventAppend
  <1>5. Len(cdcq) \in Nat
    BY <1>2
  <1> HIDE DEF e
  <1>6. bus' # NoDev /\ bus' \in DevState /\ bus'.s = s /\ bus'.mode = m /\ bus'.ses = ses + 1
    BY <1>2, <1>3, BusAssumption DEF NoDev, DevState
  <1>7. e.ev = "new" /\ e.ses = ses + 1
    BY DEF e
  <1>8. BusOK'
    <2>1. ASSUME NEW i \in 1..Len(cdcq')
          PROVE  cdcq'[i].ses <= ses' /\ (cdcq'[i].ev = "gone" => bus'.ses # cdcq'[i].ses)
      <3>1. CASE i = Len(cdcq) + 1
        BY <3>1, <1>2, <1>3, <1>4, <1>7
      <3>2. CASE i # Len(cdcq) + 1
        <4>1. i \in 1..Len(cdcq)
          BY <3>2, <1>4, <1>5
        <4>2. cdcq[i] \in Event /\ cdcq[i].ses <= ses
          BY <4>1, <1>2 DEF PortInv, BusOK
        <4>3. cdcq'[i].ses <= ses /\ cdcq'[i].ses \in Nat
          BY <4>1, <4>2, <1>4 DEF Event
        <4> QED
          BY <4>3, <1>2, <1>3, <1>6
      <3> QED
        BY <3>1, <3>2
    <2> QED
      BY <2>1, <1>2, <1>3, <1>4, <1>6 DEF BusOK, PortInv
  <1>9. SourceOK'
    BY <1>1, <1>3 DEF PortInv, SourceOK, srcVars, idVars
  <1>10. SignalOK'
    BY <1>1 DEF PortInv, SignalOK, srcVars, idVars, Opened
  <1>11. IdentityOK'
    BY <1>1, <1>2, <1>3 DEF PortInv, IdentityOK, srcVars, idVars, Opened
  <1> QED
    BY <1>8, <1>9, <1>10, <1>11 DEF PortInv

LEMMA PortDetach ==
    ASSUME PortInv, Detach, UNCHANGED srcVars
    PROVE  PortInv'
  <1> DEFINE e == [ev |-> "gone", ses |-> bus.ses]
  <1>1. bus # NoDev /\ bus' = NoDev /\ ses' = ses /\ held' = held /\ ses \in Nat \ {0}
        /\ bus.ses = ses
    BY DEF PortInv, BusOK, Detach
  <1>2. e \in Event /\ cdcq \in Seq(Event) /\ dfuq \in Seq(Event) /\ Len(cdcq) \in Nat
    BY <1>1 DEF PortInv, BusOK, Event
  <1>3. cdcq' \in {cdcq, Append(cdcq, e)} /\ dfuq' \in {dfuq, Append(dfuq, e)}
    BY DEF Detach
  <1>4. bus'.ses = 0 /\ bus' \in DevState
    BY <1>1 DEF NoDev, DevState
  <1>5. e.ev = "gone" /\ e.ses = ses
    BY <1>1
  <1> HIDE DEF e
  <1>6. /\ cdcq' \in Seq(Event) /\ dfuq' \in Seq(Event)
        /\ \A i \in 1..Len(cdcq') : \/ i \in 1..Len(cdcq) /\ cdcq'[i] = cdcq[i]
                                    \/ cdcq'[i] = e
    <2>1. CASE cdcq' = cdcq
      BY <2>1, <1>2, <1>3, EventAppend
    <2>2. CASE cdcq' = Append(cdcq, e)
      <3>1. \A i \in 1..(Len(cdcq) + 1) : i \in 1..Len(cdcq) \/ i = Len(cdcq) + 1
        BY <1>2
      <3>2. /\ cdcq' \in Seq(Event) /\ Len(cdcq') = Len(cdcq) + 1 /\ cdcq'[Len(cdcq) + 1] = e
            /\ \A i \in 1..Len(cdcq) : cdcq'[i] = cdcq[i]
        BY <2>2, <1>2, EventAppend
      <3>3. dfuq' \in Seq(Event)
        BY <1>2, <1>3, EventAppend
      <3> QED
        BY <3>1, <3>2, <3>3
    <2> QED
      BY <1>3, <2>1, <2>2
  <1>7. BusOK'
    <2>1. ASSUME NEW i \in 1..Len(cdcq')
          PROVE  cdcq'[i].ses <= ses /\ 0 # cdcq'[i].ses
      <3>1. CASE i \in 1..Len(cdcq) /\ cdcq'[i] = cdcq[i]
        <4>1. cdcq[i] \in Event /\ cdcq[i].ses <= ses
          BY <3>1, <1>2 DEF PortInv, BusOK
        <4> QED
          BY <3>1, <4>1 DEF Event
      <3>2. CASE cdcq'[i] = e
        BY <3>2, <1>1, <1>5
      <3> QED
        BY <3>1, <3>2, <1>6
    <2> QED
      BY <2>1, <1>1, <1>4, <1>6 DEF BusOK, PortInv
  <1>8. SourceOK'
    BY <1>1 DEF PortInv, SourceOK, srcVars, idVars
  <1>9. SignalOK'
    BY <1>1 DEF PortInv, SignalOK, srcVars, idVars
  <1>10. IdentityOK'
    BY <1>1 DEF PortInv, IdentityOK, srcVars, idVars
  <1> QED
    BY <1>7, <1>8, <1>9, <1>10 DEF PortInv

\* The DFU client's own handling leaves the port to the source as it is.
LEMMA PortClient ==
    ASSUME PortInv, ClientEvent, UNCHANGED srcVars
    PROVE  PortInv'
  <1>1. dfuq' \in Seq(Event)
    BY EventTail DEF ClientEvent, PortInv, BusOK
  <1>2. held' \in {held, held \cup {"dfu"}, held \ {"dfu"}}
    BY DEF ClientEvent
  <1>3. UNCHANGED <<bus, ses, cdcq>>
    BY DEF ClientEvent
  <1>4. held' \subseteq {"cdc", "dfu"} /\ ("cdc" \in held' <=> "cdc" \in held)
    BY <1>2 DEF PortInv, BusOK
  <1>5. BusOK'
    BY <1>1, <1>3, <1>4 DEF PortInv, BusOK
  <1>6. SourceOK'
    BY <1>3, <1>4 DEF PortInv, SourceOK, srcVars, idVars
  <1>7. SignalOK' /\ IdentityOK'
    BY <1>3 DEF PortInv, SignalOK, IdentityOK, srcVars, idVars
  <1> QED
    BY <1>5, <1>6, <1>7 DEF PortInv
-----------------------------------------------------------------------------
(***************************************************************************)
(* The steps of the USB source.                                            *)
(***************************************************************************)

LEMMA PortEvent ==
    ASSUME PortInv, CdcEvent
    PROVE  PortInv'
  <1> DEFINE e == Head(cdcq)
  <1>1. cdcq # <<>> /\ cdcq' = Tail(cdcq) /\ cdcq \in Seq(Event)
        /\ UNCHANGED <<bus, ses, held, dfuq, key, cdc, opn, spc, svid, tx>>
    BY DEF CdcEvent, PortInv, BusOK
  <1>2. /\ cdcq' \in Seq(Event) /\ Len(cdcq') = Len(cdcq) - 1 /\ Len(cdcq) \in Nat \ {0}
        /\ \A i \in 1..Len(cdcq') : i + 1 \in 1..Len(cdcq) /\ cdcq'[i] = cdcq[i + 1]
        /\ e = cdcq[1] /\ e \in Event /\ 1 \in 1..Len(cdcq)
    BY <1>1, EventTail
  <1>3. e.ses \in Nat \ {0} /\ e.ev \in {"new", "gone"}
        /\ (e.ev = "gone" => bus.ses # e.ses)
    BY <1>2 DEF Event, PortInv, BusOK
  <1>6. BusOK'
    <2>1. \A i \in 1..Len(cdcq') :
             cdcq'[i].ses <= ses /\ (cdcq'[i].ev = "gone" => bus.ses # cdcq'[i].ses)
      BY <1>2 DEF PortInv, BusOK
    <2> QED
      BY <2>1, <1>1, <1>2 DEF PortInv, BusOK
  <1> DEFINE told == e.ev = "new" /\ Attached(e.ses) /\ opn # e.ses /\ ~connected
             ends == e.ev = "gone" /\ opn = e.ses /\ Listed
  <1>7. CASE told
    <2>1. /\ serial' = SerialOf(bus) /\ noted' = e.ses
          /\ UNCHANGED <<connected, ready, disconnect_sem>>
      BY <1>7 DEF CdcEvent
    <2>2. bus # NoDev /\ e.ses = ses /\ bus.ses = e.ses
      BY <1>7, <1>3, AttachedLast DEF PortInv
    <2>3. opn = 0 /\ spc \notin Opened
      BY <1>7, <2>2 DEF PortInv, SourceOK
    <2>4. SourceOK' /\ SignalOK'
      BY <2>1, <1>1 DEF PortInv, SourceOK, SignalOK
    <2>5. IdentityOK'
      BY <2>1, <2>2, <2>3, <1>1, <1>3 DEF PortInv, IdentityOK, SerialOf, BusOK, Opened
    <2> QED
      BY <2>4, <2>5, <1>6 DEF PortInv
  <1>8. CASE ends
    <2>1. ready' = FALSE /\ connected' = FALSE /\ disconnect_sem' = 1
          /\ UNCHANGED <<serial, noted>>
      BY <1>8 DEF CdcEvent
    <2>2. opn # 0 /\ opn = ses /\ spc # "open"
      BY <1>8, <1>3 DEF PortInv, SourceOK, Opened
    <2>3. bus = NoDev
      BY <2>2, <1>3, <1>8 DEF PortInv, BusOK
    <2>4. SourceOK'
      BY <2>1, <1>1 DEF PortInv, SourceOK
    <2>5. SignalOK' /\ IdentityOK'
      BY <2>1, <2>2, <2>3, <1>1 DEF PortInv, SignalOK, IdentityOK
    <2> QED
      BY <2>4, <2>5, <1>6 DEF PortInv
  <1>9. CASE ~told /\ ~ends
    <2>1. UNCHANGED <<serial, noted, connected, ready, disconnect_sem>>
      BY <1>9 DEF CdcEvent
    <2>2. SourceOK' /\ SignalOK' /\ IdentityOK'
      BY <2>1, <1>1 DEF PortInv, SourceOK, SignalOK, IdentityOK, SerialOf
    <2> QED
      BY <2>2, <1>6 DEF PortInv
  <1> QED
    BY <1>7, <1>8, <1>9

\* Only the bus and the queue of the source matter to BusOK.
LEMMA BusSame ==
    ASSUME BusOK, UNCHANGED <<bus, ses, cdcq, dfuq>>, held' \subseteq {"cdc", "dfu"}
    PROVE  BusOK'
  BY DEF BusOK

\* An open begins with the attached device, which runs its application.
LEMMA PortOpen ==
    ASSUME PortInv, OpenBegin \/ OpenStart \/ OpenFail
    PROVE  PortInv'
  <1>1. CASE OpenBegin
    <2>1. /\ bus.mode = "app" /\ spc = "open" /\ spc' = "found"
          /\ opn' = bus.ses /\ held' = held \cup {"cdc"}
          /\ UNCHANGED <<bus, ses, cdcq, dfuq, idVars, cdc, connected, ready, disconnect_sem>>
      BY <1>1 DEF OpenBegin
    <2>2. bus # NoDev /\ bus.ses = ses /\ ses \in Nat \ {0} /\ held' \subseteq {"cdc", "dfu"}
      BY <2>1 DEF PortInv, BusOK, NoDev
    <2>3. BusOK'
      BY <2>1, <2>2, BusSame DEF PortInv
    <2>4. SourceOK'
      BY <2>1, <2>2 DEF PortInv, SourceOK, Opened
    <2>5. SignalOK' /\ IdentityOK'
      BY <2>1, <2>2 DEF PortInv, SignalOK, IdentityOK, SerialOf, idVars
    <2> QED
      BY <2>3, <2>4, <2>5 DEF PortInv
  <1>2. CASE OpenFail
    <2>1. /\ spc \in {"open", "found", "init"} /\ spc' = "retry"
          /\ UNCHANGED <<bus, ses, cdcq, dfuq, idVars, cdc, connected, ready, disconnect_sem>>
          /\ \/ spc = "open" /\ UNCHANGED <<opn, held>>
             \/ spc \in {"found", "init"} /\ opn' = 0 /\ held' = held \ {"cdc"}
      BY <1>2 DEF OpenFail
    <2>2. BusOK'
      BY <2>1, BusSame DEF PortInv, BusOK
    <2>3. SourceOK'
      BY <2>1 DEF PortInv, SourceOK, Opened
    <2>4. SignalOK' /\ IdentityOK'
      BY <2>1, <2>3 DEF PortInv, SourceOK, SignalOK, IdentityOK, SerialOf, idVars, Opened
    <2> QED
      BY <2>2, <2>3, <2>4 DEF PortInv
  <1>3. CASE OpenStart
    <2>1. /\ spc = "found" /\ spc' = "init"
          /\ UNCHANGED <<busVars, idVars, cdc, connected, ready, disconnect_sem, opn>>
      BY <1>3 DEF OpenStart
    <2>2. BusOK'
      BY <2>1, BusSame DEF PortInv, BusOK, busVars
    <2>3. SourceOK'
      BY <2>1 DEF PortInv, SourceOK, Opened, busVars
    <2>4. SignalOK' /\ IdentityOK'
      BY <2>1 DEF PortInv, SignalOK, IdentityOK, SerialOf, idVars, busVars
    <2> QED
      BY <2>2, <2>3, <2>4 DEF PortInv
  <1> QED
    BY <1>1, <1>2, <1>3

\* The key is derived while the device is open, from its own serial number.
LEMMA PortKey ==
    ASSUME PortInv, KeyDone
    PROVE  PortInv'
  <1>1. /\ spc = "key" /\ spc' = "apply" /\ key' = derive_key
        /\ UNCHANGED <<busVars, vid, serial, noted, cdc, connected, ready, disconnect_sem, opn>>
    BY DEF KeyDone
  <1>2. BusOK' /\ SourceOK' /\ SignalOK'
    <2>1. BusOK'
      BY <1>1, BusSame DEF PortInv, BusOK, busVars
    <2>2. SourceOK'
      BY <1>1 DEF PortInv, SourceOK, Opened, busVars
    <2>3. SignalOK'
      BY <1>1 DEF PortInv, SignalOK, busVars
    <2> QED
      BY <2>1, <2>2, <2>3
  <1>3. ASSUME bus # NoDev, noted = bus.ses
        PROVE  key' = KeyOf(bus.s)
    <2>1. opn # 0
      BY <1>1 DEF PortInv, SourceOK, Opened
    <2>2. serial = SerialOf(bus) /\ bus.mode = "app"
      BY <1>3, <2>1 DEF PortInv, IdentityOK
    <2>3. bus.s \in Sticks /\ bus.s # NULL
      BY <1>3, BusAssumption DEF PortInv, BusOK
    <2> QED
      BY <2>2, <2>3, <1>1 DEF derive_key, SerialOf, KeyOf
  <1>4. IdentityOK'
    BY <1>1, <1>3 DEF PortInv, IdentityOK, busVars, SerialOf
  <1> QED
    BY <1>2, <1>4 DEF PortInv

\* The other steps of stick_task, and the ones of a writer.
LEMMA PortTask ==
    ASSUME PortInv,
           TakeConnect \/ Retry \/ OpenOk \/ Apply \/ ServeEnd \/ Clear \/ Close \/ TxBegin \/ TxEnd
    PROVE  PortInv'
  <1>1. UNCHANGED <<bus, ses, cdcq, dfuq>> /\ (~Close => UNCHANGED held) /\ (Close => held' = held \ {"cdc"})
    BY DEF TakeConnect, Retry, OpenOk, Apply, ServeEnd, Clear, Close, TxBegin, TxEnd, busVars
  <1>2. BusOK'
    BY <1>1, BusSame DEF PortInv, BusOK
  <1>3. SourceOK'
    <2>1. CASE TakeConnect \/ Retry
      BY <2>1, <1>1 DEF PortInv, SourceOK, Opened, TakeConnect, Retry, busVars, idVars
    <2>2. CASE OpenOk
      <3>1. connected' = TRUE /\ spc = "init" /\ spc' = "key" /\ cdc' = opn
            /\ UNCHANGED <<opn, held, cdcq, ses, ready, disconnect_sem>>
        BY <2>2 DEF OpenOk, busVars
      <3> QED
        BY <3>1 DEF PortInv, SourceOK, Opened
    <2>6. CASE Apply
      <3>1. ready' = TRUE /\ spc = "apply" /\ spc' = "serve"
            /\ UNCHANGED <<opn, held, cdcq, ses, cdc, connected, disconnect_sem>>
        BY <2>6 DEF Apply, busVars
      <3>2. ready' \in BOOLEAN /\ connected' \in BOOLEAN /\ (connected' => cdc' # 0)
        BY <3>1 DEF PortInv, SourceOK
      <3>3. opn' # 0 /\ cdc' = opn' /\ opn' = ses'
        BY <3>1 DEF PortInv, SourceOK, Opened
      <3> QED
        BY <3>1, <3>2, <3>3 DEF PortInv, SourceOK, Opened
    <2>3. CASE ServeEnd
      <3>1. ready' = FALSE /\ connected' = FALSE /\ spc = "serve" /\ spc' = "clear" /\ cdc' = 0
            /\ disconnect_sem' = 0 /\ UNCHANGED <<opn, held, cdcq, ses>>
        BY <2>3 DEF ServeEnd, busVars
      <3>2. ready' \in BOOLEAN /\ connected' \in BOOLEAN /\ ~connected' /\ ~ready'
        BY <3>1
      <3> QED
        BY <3>1, <3>2 DEF PortInv, SourceOK, Opened
    <2>7. CASE Clear
      BY <2>7, <1>1 DEF PortInv, SourceOK, Opened, Clear, busVars, idVars
    <2>4. CASE Close
      BY <2>4, <1>1 DEF PortInv, SourceOK, Opened, Close, busVars, idVars
    <2>5. CASE TxBegin \/ TxEnd
      BY <2>5, <1>1 DEF PortInv, SourceOK, Opened, TxBegin, TxEnd, busVars, idVars
    <2> QED
      BY <2>1, <2>2, <2>3, <2>4, <2>5, <2>6, <2>7
  <1>4. SignalOK'
    <2>1. CASE TakeConnect \/ Retry
      BY <2>1, <1>1 DEF PortInv, SourceOK, SignalOK, Opened, TakeConnect, Retry, busVars, idVars
    <2>2. CASE OpenOk \/ Apply
      BY <2>2, <1>1 DEF PortInv, SourceOK, SignalOK, Opened, OpenOk, Apply, busVars, idVars
    <2>3. CASE ServeEnd \/ Clear
      BY <2>3, <1>1 DEF PortInv, SourceOK, SignalOK, Opened, ServeEnd, Clear, busVars, idVars
    <2>4. CASE Close
      BY <2>4, <1>1 DEF PortInv, SourceOK, SignalOK, Opened, Close, busVars, idVars
    <2>5. CASE TxBegin \/ TxEnd
      BY <2>5, <1>1 DEF PortInv, SourceOK, SignalOK, Opened, TxBegin, TxEnd, busVars, idVars
    <2> QED
      BY <2>1, <2>2, <2>3, <2>4, <2>5
  <1>5. IdentityOK'
    <2>1. CASE TakeConnect \/ Retry
      BY <2>1, <1>1 DEF PortInv, IdentityOK, SerialOf, TakeConnect, Retry, idVars
    <2>2. CASE OpenOk \/ Apply
      BY <2>2, <1>1 DEF PortInv, IdentityOK, SerialOf, OpenOk, Apply, idVars
    <2>3. CASE ServeEnd
      BY <2>3, <1>1 DEF PortInv, IdentityOK, SerialOf, ServeEnd, idVars
    <2>4. CASE Clear \/ Close
      BY <2>4, <1>1 DEF PortInv, SignalOK, IdentityOK, Clear, Close, idVars
    <2>5. CASE TxBegin \/ TxEnd
      BY <2>5, <1>1 DEF PortInv, IdentityOK, SerialOf, TxBegin, TxEnd, idVars
    <2> QED
      BY <2>1, <2>2, <2>3, <2>4, <2>5
  <1> QED
    BY <1>2, <1>3, <1>4, <1>5 DEF PortInv
-----------------------------------------------------------------------------
(***************************************************************************)
(* The inductive invariant: the DFU client.                                *)
(***************************************************************************)

Ops     == {"none", "read", "upload", "erase", "full", "write", "status", "clear", "start", "zero"}
Content == {"old", "new", "blank", "mixed"}
StickState == [img : [Blocks -> Content], busy : BOOLEAN, err : BOOLEAN]
XferState  == [buf : Ops \cup {"garbage"}, op : Ops \cup {"garbage"}, k : Nat, ses : Nat,
               status : {"ok", "stall", "gone"}, reply : {"ok", "busy", "error"}, flying : BOOLEAN]
Commands == {"erase", "full", "write"}
Steps    == {"none", "over", "eeprom", "erase", "full", "write", "compare", "start"}
RunState == [pc : {"idle", "fill", "submit", "await", "pause"}, step : Steps, op : Ops,
             k : 0..NBlocks, ee : BOOLEAN, ses : Nat, s : Sticks \cup {NULL}, ok : BOOLEAN]

\* What each step of a run asks of the bootloader.
RunOK ==
    /\ f.pc = "idle" <=> f.step \in {"none", "over"}
    /\ f.step \in {"none", "over"} => f.op = "none"
    /\ f.step \in {"eeprom", "compare"} => f.op \in {"read", "upload"}
    /\ f.step = "start" => f.op \in {"start", "zero"}
    /\ f.step \in Commands => f.op \in {f.step, "status", "clear"}
    /\ f.pc = "pause" => f.step \in Commands /\ f.op = "status"
    /\ f.step = "write" => f.k \in Blocks
    /\ f.step \in {"eeprom", "erase", "full"} => f.k = 0

DfuTypeOK ==
    /\ dev \in Nat /\ done \in {0, 1} /\ xfer \in XferState /\ f \in RunState
    /\ avr \in [Sticks -> StickState] /\ mode \in [Sticks -> {"app", "boot"}]

\* The device of the client is the one of the last transfer or a later one.  The
\* transfer under way is the one the run waits for, or what an upload that was
\* given up has made of it.
XferOK ==
    /\ dev <= ses /\ xfer.ses <= ses /\ f.ses <= ses
    /\ dev # 0 => xfer.ses <= dev /\ f.ses <= dev
    /\ Attached(f.ses) => f.s = bus.s
    /\ f.pc = "submit" => xfer.buf \in {f.op, "garbage"}
    /\ f.pc = "await" => xfer.op \in {f.op, "garbage"}

\* The run has come to the verification or the start, or ended after them.
Late == f.step \in {"compare", "start"} \/ (f.step = "over" /\ f.ok)

\* By then, and whenever it has issued a transfer, it has done so on the stick it
\* began with or on a later enumeration.
Begun == f.pc = "await" \/ f.op \in {"status", "clear"} \/ f.step = "write" \/ Late
BegunOK == Begun => f.ses <= xfer.ses /\ (xfer.ses = f.ses => f.s \in Sticks)

Effect == IF f.step = "write" THEN avr[f.s].img[f.k] = "new" ELSE Holds(f.s, "blank")
Err    == avr[f.s].err = TRUE
Cut    == ~Attached(xfer.ses)
Failed == done = 1 /\ xfer.status # "ok"

\* The command of a step, an erase or the write of a block, may be answered late,
\* and the answer to one transfer be taken for that of another.  Yet the question
\* for its result is never answered "ok" unless the command had its effect: if
\* not, it is still under way, or has been refused, which the bootloader reports
\* until it is told to clear the error, or the stick is gone.
Sent   == xfer.flying \/ (done = 1 /\ (xfer.status = "ok" => Effect))
Asking ==
    \/ Effect
    \/ xfer.flying /\ xfer.op # "status"
    \/ ~xfer.flying /\ Err
    \/ Cut
Asked ==
    \/ Effect
    \/ xfer.flying /\ xfer.op # "status"
    \/ ~xfer.flying /\ Err /\ (done = 0 \/ Failed)
    \/ Cut
Told ==
    \/ Effect
    \/ xfer.flying /\ (done = 0 \/ Failed) /\ (Err \/ Cut)
    \/ ~xfer.flying /\ done = 1 /\ (xfer.status # "ok" \/ xfer.reply = "error")

CommandOK ==
    xfer.ses = f.ses /\ f.step \in Commands =>
        /\ f.op = f.step /\ f.pc = "await" => Sent
        /\ f.op = "status" /\ f.pc = "fill" => Asking
        /\ f.op = "status" /\ f.pc = "submit" => Asked
        /\ f.op = "status" /\ f.pc \in {"fill", "submit"} => xfer.op \in {f.step, "status", "garbage"}
        /\ f.op = "status" /\ f.pc = "await" => Told
        /\ f.pc = "pause" => Effect /\ xfer.op \in {"status", "garbage"}

\* While a block is written, the blocks before it are, and those after it are
\* still blank; so is this one until its one write has been carried out.
WriteOK ==
    xfer.ses = f.ses /\ f.step = "write" =>
        /\ \A j \in Blocks : /\ j < f.k => avr[f.s].img[j] = "new"
                             /\ j > f.k => avr[f.s].img[j] = "blank"
        /\ xfer.flying => xfer.op \notin {"erase", "full"}
        /\ xfer.flying /\ xfer.op = "write" => xfer.k = f.k /\ avr[f.s].img[f.k] = "blank"
        /\ f.op = "write" /\ f.pc \in {"fill", "submit"} =>
              avr[f.s].img[f.k] = "blank" /\ (xfer.flying => xfer.op # "write")

\* After the last block the stick holds the image, and nothing is under way that
\* could change it.
LateOK == xfer.ses = f.ses /\ Late => Holds(f.s, "new") /\ (xfer.flying => xfer.op \notin Commands)

FlashInv == DfuTypeOK /\ RunOK /\ XferOK /\ BegunOK /\ CommandOK /\ WriteOK /\ LateOK
HostInv  == PortInv /\ FlashInv
-----------------------------------------------------------------------------
(***************************************************************************)
(* The run: what follows what.                                             *)
(***************************************************************************)

\* Where the run of cul_dfu_flash goes, and what it keeps.
Goes(p, st, o) == f'.pc = p /\ f'.step = st /\ f'.op = o
Stays == f'.ses = f.ses /\ f'.s = f.s

LEMMA SetPc ==
    ASSUME NEW r \in RunState, NEW p \in {"idle", "fill", "submit", "await", "pause"}
    PROVE  LET r2 == [r EXCEPT !.pc = p] IN
           /\ r2 \in RunState /\ r2.pc = p /\ r2.step = r.step /\ r2.op = r.op
           /\ r2.k = r.k /\ r2.ee = r.ee /\ r2.ses = r.ses /\ r2.s = r.s /\ r2.ok = r.ok
  BY DEF RunState

LEMMA SetK ==
    ASSUME NEW r \in RunState, NEW k \in 0..NBlocks
    PROVE  LET r2 == [r EXCEPT !.k = k] IN
           /\ r2 \in RunState /\ r2.pc = r.pc /\ r2.step = r.step /\ r2.op = r.op
           /\ r2.k = k /\ r2.ee = r.ee /\ r2.ses = r.ses /\ r2.s = r.s /\ r2.ok = r.ok
  BY DEF RunState

LEMMA SetEe ==
    ASSUME NEW r \in RunState, NEW b \in BOOLEAN
    PROVE  LET r2 == [r EXCEPT !.ee = b] IN
           /\ r2 \in RunState /\ r2.pc = r.pc /\ r2.step = r.step /\ r2.op = r.op
           /\ r2.k = r.k /\ r2.ee = b /\ r2.ses = r.ses /\ r2.s = r.s /\ r2.ok = r.ok
  BY DEF RunState

LEMMA SetOk ==
    ASSUME NEW r \in RunState, NEW b \in BOOLEAN
    PROVE  LET r2 == [r EXCEPT !.ok = b] IN
           /\ r2 \in RunState /\ r2.pc = r.pc /\ r2.step = r.step /\ r2.op = r.op
           /\ r2.k = r.k /\ r2.ee = r.ee /\ r2.ses = r.ses /\ r2.s = r.s /\ r2.ok = b
  BY DEF RunState

LEMMA DoShape ==
    ASSUME f \in RunState, NEW st \in Steps, NEW op \in Ops, Do(st, op)
    PROVE  f' \in RunState /\ Goes("fill", st, op) /\ Stays /\ f'.k = f.k
  BY DEF Do, RunState, Goes, Stays

LEMMA EndShape ==
    ASSUME f \in RunState, NEW ok \in BOOLEAN, End(ok)
    PROVE  f' \in RunState /\ Goes("idle", "over", "none") /\ Stays /\ f'.k = 0 /\ f'.ok = ok
  <1> DEFINE r1 == [f EXCEPT !.pc = "idle", !.step = "over", !.op = "none"]
             r2 == [r1 EXCEPT !.k = 0]
             r3 == [r2 EXCEPT !.ee = FALSE]
             r4 == [r3 EXCEPT !.ok = ok]
  <1>1. f' = r4
    BY DEF End, Op0
  <1>2. r1 \in RunState /\ r1.pc = "idle" /\ r1.step = "over" /\ r1.op = "none"
        /\ r1.ses = f.ses /\ r1.s = f.s
    BY DEF RunState, Steps, Ops
  <1> HIDE DEF r1
  <1>3. r2 \in RunState /\ r2.pc = "idle" /\ r2.step = "over" /\ r2.op = "none"
        /\ r2.ses = f.ses /\ r2.s = f.s /\ r2.k = 0
    BY <1>2, SetK, DfuAssumption
  <1> HIDE DEF r2
  <1>4. r3 \in RunState /\ r3.pc = "idle" /\ r3.step = "over" /\ r3.op = "none"
        /\ r3.ses = f.ses /\ r3.s = f.s /\ r3.k = 0
    BY <1>3, SetEe
  <1> HIDE DEF r3
  <1> QED
    BY <1>1, <1>4, SetOk DEF Goes, Stays

LEMMA WriteShape ==
    ASSUME f \in RunState, NEW k \in 1..(NBlocks + 1), WriteNext(k)
    PROVE  /\ f' \in RunState /\ Stays
           /\ \/ k \in Blocks /\ Goes("fill", "write", "write") /\ f'.k = k
              \/ k = NBlocks + 1 /\ (Goes("fill", "compare", "read") \/ Goes("fill", "start", "start"))
  <1>1. CASE k <= NBlocks
    <2> DEFINE r == [f EXCEPT !.pc = "fill", !.step = "write", !.op = "write"]
    <2>1. f' = [r EXCEPT !.k = k]
      BY <1>1 DEF WriteNext
    <2>2. r \in RunState /\ r.pc = "fill" /\ r.step = "write" /\ r.op = "write"
          /\ r.ses = f.ses /\ r.s = f.s
      BY DEF RunState, Steps, Ops
    <2>3. k \in 0..NBlocks /\ k \in Blocks
      BY <1>1, DfuAssumption DEF Blocks
    <2> HIDE DEF r
    <2> QED
      BY <2>1, <2>2, <2>3, SetK DEF Goes, Stays
  <1>2. CASE ~(k <= NBlocks)
    <2>1. k = NBlocks + 1
      BY <1>2, DfuAssumption
    <2>2. Do("compare", "read") \/ Do("start", "start")
      BY <1>2 DEF WriteNext
    <2> QED
      BY <2>1, <2>2, DoShape DEF Ops, Steps
  <1> QED
    BY <1>1, <1>2

\* A step that has failed: the erase falls back to the whole chip.
LEMMA FailShape ==
    ASSUME f \in RunState, StepFails
    PROVE  /\ f' \in RunState /\ Stays
           /\ \/ f.step = "erase" /\ Goes("fill", "full", "full") /\ f'.k = f.k
              \/ f.step # "erase" /\ Goes("idle", "over", "none") /\ ~f'.ok /\ f'.k = 0
  <1>1. CASE f.step = "erase"
    BY <1>1, DoShape DEF StepFails, Ops, Steps
  <1>2. CASE f.step # "erase"
    <2>1. End(FALSE)
      BY <1>2 DEF StepFails
    <2>2. f' \in RunState /\ Goes("idle", "over", "none") /\ Stays /\ f'.k = 0 /\ f'.ok = FALSE
      BY <2>1, EndShape
    <2> QED
      BY <1>2, <2>2
  <1> QED
    BY <1>1, <1>2

\* What follows the answer to a command, or to the question for its result.
CommandNext(ok) ==
    \/ /\ (~ok \/ f.op = "clear") /\ f.step = "erase"
       /\ Goes("fill", "full", "full") /\ f'.k = f.k
    \/ Goes("idle", "over", "none") /\ ~f'.ok
    \/ /\ ok /\ f.op \notin {"status", "clear"}
       /\ Goes("fill", f.step, "status") /\ f'.k = f.k
    \/ /\ ok /\ f.op = "status" /\ xfer.reply = "ok"
       /\ \/ f.k + 1 \in Blocks /\ Goes("fill", "write", "write") /\ f'.k = f.k + 1
          \/ /\ f.k + 1 = NBlocks + 1
             /\ Goes("fill", "compare", "read") \/ Goes("fill", "start", "start")
    \/ /\ ok /\ f.op = "status" /\ xfer.reply = "error"
       /\ Goes("fill", f.step, "clear") /\ f'.k = f.k
    \/ /\ ok /\ f.op = "status" /\ xfer.reply \notin {"ok", "error"}
       /\ Goes("pause", f.step, "status") /\ f'.k = f.k

LEMMA CommandShape ==
    ASSUME f \in RunState, f.step \in Commands, NEW ok \in BOOLEAN, Result(ok)
    PROVE  f' \in RunState /\ Stays /\ CommandNext(ok)
  <1>1. f.step \notin {"eeprom", "compare", "start"} /\ f.k + 1 \in 1..(NBlocks + 1)
        /\ f.step \in Steps /\ f.op \in Ops
    BY DfuAssumption DEF Commands, RunState
  <1>2. CASE ~ok \/ f.op = "clear"
    <2>1. StepFails
      BY <1>1, <1>2 DEF Result
    <2> QED
      BY <2>1, <1>2, FailShape DEF CommandNext
  <1>3. CASE ok /\ f.op \notin {"status", "clear"}
    <2>1. Do(f.step, "status")
      BY <1>1, <1>3 DEF Result
    <2> QED
      BY <2>1, <1>1, <1>3, DoShape DEF CommandNext, Ops
  <1>4. CASE ok /\ f.op = "status" /\ xfer.reply = "ok"
    <2>1. End(FALSE) \/ WriteNext(f.k + 1)
      BY <1>1, <1>4 DEF Result
    <2>2. CASE End(FALSE)
      <3>1. f' \in RunState /\ Goes("idle", "over", "none") /\ Stays /\ f'.ok = FALSE
        BY <2>2, EndShape
      <3> QED
        BY <3>1 DEF CommandNext
    <2>3. CASE WriteNext(f.k + 1)
      BY <2>3, <1>1, <1>4, WriteShape DEF CommandNext
    <2> QED
      BY <2>1, <2>2, <2>3
  <1>5. CASE ok /\ f.op = "status" /\ xfer.reply = "error"
    <2>1. Do(f.step, "clear")
      BY <1>1, <1>5 DEF Result
    <2> QED
      BY <2>1, <1>1, <1>5, DoShape DEF CommandNext, Ops
  <1>6. CASE ok /\ f.op = "status" /\ xfer.reply \notin {"ok", "error"}
    <2>1. f' = [f EXCEPT !.pc = "pause"]
      BY <1>1, <1>6 DEF Result
    <2> QED
      BY <2>1, <1>1, <1>6, SetPc DEF CommandNext, Goes, Stays
  <1> QED
    BY <1>2, <1>3, <1>4, <1>5, <1>6

\* What follows a transfer of the steps around the commands.
OtherNext(ok) ==
    \/ f.step = "eeprom" /\ Goes("fill", "eeprom", "upload") /\ f'.k = f.k
    \/ f.step = "eeprom" /\ Goes("fill", "erase", "erase") /\ f'.k = f.k
    \/ f.step = "compare" /\ Goes("fill", "compare", "upload")
    \/ f.step = "compare" /\ Goes("fill", "start", "start")
    \/ f.step = "start" /\ f.op = "zero" /\ Goes("idle", "over", "none")
    \/ f.step = "start" /\ Goes("fill", "start", "zero")
    \/ Goes("idle", "over", "none") /\ ~f'.ok

LEMMA OtherShape ==
    ASSUME f \in RunState, f.step \in {"eeprom", "compare", "start"}, NEW ok \in BOOLEAN, Result(ok)
    PROVE  f' \in RunState /\ Stays /\ OtherNext(ok)
  <1>1. CASE f.step = "eeprom"
    <2>1. CASE ok /\ f.op = "read"
      <3>1. Do("eeprom", "upload")
        BY <1>1, <2>1 DEF Result
      <3> QED
        BY <1>1, <3>1, DoShape DEF OtherNext, Ops, Steps
    <2>2. CASE ~(ok /\ f.op = "read")
      <3> DEFINE r == [f EXCEPT !.pc = "fill", !.step = "erase", !.op = "erase"]
      <3>1. f' = [r EXCEPT !.ee = ok]
        BY <1>1, <2>2 DEF Result
      <3>2. r \in RunState /\ r.pc = "fill" /\ r.step = "erase" /\ r.op = "erase"
            /\ r.ses = f.ses /\ r.s = f.s /\ r.k = f.k
        BY DEF RunState, Steps, Ops
      <3> HIDE DEF r
      <3> QED
        BY <1>1, <3>1, <3>2, SetEe DEF OtherNext, Goes, Stays
    <2> QED
      BY <2>1, <2>2
  <1>2. CASE f.step = "compare"
    <2>1. Do("compare", "upload") \/ Do("start", "start")
      BY <1>2 DEF Result
    <2> QED
      BY <1>2, <2>1, DoShape DEF OtherNext, Ops, Steps
  <1>3. CASE f.step = "start"
    <2>1. (f.op = "zero" /\ End(TRUE)) \/ End(FALSE) \/ Do("start", "zero")
      BY <1>3 DEF Result
    <2>2. CASE f.op = "zero" /\ End(TRUE)
      BY <1>3, <2>2, EndShape DEF OtherNext
    <2>3. CASE End(FALSE)
      <3>1. f' \in RunState /\ Goes("idle", "over", "none") /\ Stays /\ f'.ok = FALSE
        BY <2>3, EndShape
      <3> QED
        BY <3>1 DEF OtherNext
    <2>4. CASE Do("start", "zero")
      BY <1>3, <2>4, DoShape DEF OtherNext, Ops, Steps
    <2> QED
      BY <2>1, <2>2, <2>3, <2>4
  <1> QED
    BY <1>1, <1>2, <1>3
-----------------------------------------------------------------------------
(***************************************************************************)
(* Transfers that end, and what else happens while a run waits.            *)
(***************************************************************************)

\* The claims about a run, one for each part of it.
RunInv == BegunOK /\ CommandOK /\ WriteOK /\ LateOK

\* Where something is claimed, the run has begun, on a stick.
LEMMA OnStick ==
    ASSUME DfuTypeOK, RunOK, BegunOK, xfer.ses = f.ses, Begun
    PROVE  f.s \in Sticks /\ avr[f.s] \in StickState
  BY DEF BegunOK, DfuTypeOK

LEMMA BegunWhere ==
    ASSUME RunOK
    PROVE  /\ f.step \in Commands /\ f.pc \in {"await", "pause"} => Begun
           /\ f.step \in Commands /\ f.op = "status" => Begun
           /\ f.step = "write" => Begun
           /\ Late => Begun
  BY DEF RunOK, Begun

\* A step that leaves run, transfer and images alone, and clears an error only as
\* the stick leaves the bus.
LEMMA RunSame ==
    ASSUME FlashInv, UNCHANGED <<f, xfer, done>>,
           \A s \in Sticks : avr'[s].img = avr[s].img,
           Cut => Cut',
           Cut' \/ \A s \in Sticks : avr'[s].err = avr[s].err
    PROVE  RunInv'
  <1> USE DEF FlashInv
  <1>1. BegunOK' /\ (Begun' <=> Begun) /\ (Late' <=> Late)
    BY DEF BegunOK, Begun, Late
  <1>2. ASSUME xfer.ses = f.ses, Begun
        PROVE  /\ f.s \in Sticks /\ (Effect => Effect') /\ (Err => Err' \/ Cut')
               /\ Holds(f.s, "new") => Holds(f.s, "new")'
    <2>1. f.s \in Sticks
      BY <1>2, OnStick
    <2>2. avr'[f.s].img = avr[f.s].img
      BY <2>1
    <2>3. Effect => Effect'
      BY <2>2 DEF Effect, Holds
    <2>4. Err => Err' \/ Cut'
      BY <2>1 DEF Err
    <2>5. Holds(f.s, "new") => Holds(f.s, "new")'
      BY <2>2 DEF Holds
    <2> QED
      BY <2>1, <2>3, <2>4, <2>5
  <1>3. CommandOK'
    <2> SUFFICES ASSUME xfer.ses = f.ses, f.step \in Commands
                 PROVE  CommandOK'
      BY DEF CommandOK
    <2>1. Sent /\ Begun => Sent'
      BY <1>2 DEF Sent
    <2>2. Asking /\ Begun => Asking'
      BY <1>2 DEF Asking
    <2>3. Asked /\ Begun => Asked'
      BY <1>2 DEF Asked, Failed
    <2>4. Told /\ Begun => Told'
      BY <1>2 DEF Told, Failed
    <2> QED
      BY <2>1, <2>2, <2>3, <2>4, <1>2, BegunWhere DEF CommandOK
  <1>4. WriteOK'
    <2> SUFFICES ASSUME xfer.ses = f.ses, f.step = "write"
                 PROVE  WriteOK'
      BY DEF WriteOK
    <2>1. f.s \in Sticks
      BY <1>2, BegunWhere
    <2>2. avr'[f.s].img = avr[f.s].img
      BY <2>1
    <2> QED
      BY <2>2 DEF WriteOK
  <1>5. LateOK'
    BY <1>1, <1>2, BegunWhere DEF LateOK
  <1> QED
    BY <1>1, <1>3, <1>4, <1>5 DEF RunInv

\* xfer_done_cb.
LEMMA EndedShape ==
    ASSUME xfer \in XferState, NEW st \in {"ok", "stall", "gone"}, NEW re \in {"ok", "busy", "error"},
           Ended(st, re)
    PROVE  /\ xfer' \in XferState /\ xfer'.flying = FALSE /\ xfer'.status = st /\ xfer'.reply = re
           /\ xfer'.op = xfer.op /\ xfer'.k = xfer.k /\ xfer'.ses = xfer.ses
           /\ xfer'.buf \in {xfer.buf, "garbage"}
           /\ done' = 1 /\ UNCHANGED <<dev, f, flashes>>
  <1> DEFINE b == IF xfer.op = "upload" /\ xfer.buf # "upload" THEN "garbage" ELSE xfer.buf
             x1 == [xfer EXCEPT !.flying = FALSE]
             x2 == [x1 EXCEPT !.status = st]
             x3 == [x2 EXCEPT !.reply = re]
             x4 == [x3 EXCEPT !.buf = b]
  <1>1. b \in Ops \cup {"garbage"} /\ b \in {xfer.buf, "garbage"}
    BY DEF XferState
  <1> HIDE DEF b
  <1>2. x1 \in XferState /\ x1.flying = FALSE /\ x1.op = xfer.op /\ x1.k = xfer.k
        /\ x1.ses = xfer.ses /\ x1.buf = xfer.buf
    BY DEF XferState
  <1>3. x2 \in XferState /\ x2.flying = FALSE /\ x2.op = xfer.op /\ x2.k = xfer.k
        /\ x2.ses = xfer.ses /\ x2.buf = xfer.buf /\ x2.status = st
    <2> HIDE DEF x1
    <2> QED
      BY <1>2 DEF XferState
  <1>4. x3 \in XferState /\ x3.flying = FALSE /\ x3.op = xfer.op /\ x3.k = xfer.k
        /\ x3.ses = xfer.ses /\ x3.buf = xfer.buf /\ x3.status = st /\ x3.reply = re
    <2> HIDE DEF x2
    <2> QED
      BY <1>3 DEF XferState
  <1>5. x4 \in XferState /\ x4.flying = FALSE /\ x4.op = xfer.op /\ x4.k = xfer.k
        /\ x4.ses = xfer.ses /\ x4.buf = b /\ x4.status = st /\ x4.reply = re
    <2> HIDE DEF x3
    <2> QED
      BY <1>1, <1>4 DEF XferState
  <1>6. xfer' = x4
    BY <1>2, <1>3, <1>4 DEF Ended, b
  <1>7. done' = 1 /\ UNCHANGED <<dev, f, flashes>>
    BY DEF Ended
  <1> QED
    BY <1>1, <1>5, <1>6, <1>7

\* A transfer is refused, or ends with its device.
LEMMA RunEndedBadly ==
    ASSUME FlashInv, xfer.flying, NEW st \in {"stall", "gone"}, Ended(st, xfer.reply),
           \A s \in Sticks : avr'[s].img = avr[s].img,
           Cut => Cut',
           xfer.ses = f.ses /\ f.s \in Sticks => Cut' \/ avr'[f.s].err = TRUE
    PROVE  RunInv'
  <1> USE DEF FlashInv
  <1>0. xfer.reply \in {"ok", "busy", "error"} /\ xfer \in XferState
    BY DEF DfuTypeOK, XferState
  <1>1. /\ xfer'.flying = FALSE /\ xfer'.status # "ok" /\ done' = 1 /\ f' = f
        /\ xfer'.op = xfer.op /\ xfer'.k = xfer.k /\ xfer'.ses = xfer.ses
    BY <1>0, EndedShape
  <1>2. BegunOK' /\ (Begun' <=> Begun) /\ (Late' <=> Late)
    BY <1>1 DEF BegunOK, Begun, Late
  <1>3. ASSUME xfer.ses = f.ses, Begun
        PROVE  /\ f.s \in Sticks /\ (Effect => Effect') /\ (Err' \/ Cut')
               /\ Holds(f.s, "new") => Holds(f.s, "new")'
    <2>1. f.s \in Sticks
      BY <1>3, OnStick
    <2>2. avr'[f.s].img = avr[f.s].img
      BY <2>1
    <2>3. Effect => Effect'
      BY <2>2, <1>1 DEF Effect, Holds
    <2>4. Err' \/ Cut'
      BY <2>1, <1>1, <1>3 DEF Err
    <2>5. Holds(f.s, "new") => Holds(f.s, "new")'
      BY <2>2, <1>1 DEF Holds
    <2> QED
      BY <2>1, <2>3, <2>4, <2>5
  <1>4. CommandOK'
    <2> SUFFICES ASSUME xfer.ses = f.ses, f.step \in Commands
                 PROVE  CommandOK'
      BY <1>1 DEF CommandOK
    <2>1. Sent'
      BY <1>1 DEF Sent
    <2>2. Begun => Asking'
      BY <1>1, <1>3 DEF Asking
    <2>3. Begun => Asked'
      BY <1>1, <1>3 DEF Asked, Failed
    <2>4. Told'
      BY <1>1 DEF Told, Failed
    <2> QED
      BY <2>1, <2>2, <2>3, <2>4, <1>1, <1>3, BegunWhere DEF CommandOK
  <1>5. WriteOK'
    <2> SUFFICES ASSUME xfer.ses = f.ses, f.step = "write"
                 PROVE  WriteOK'
      BY <1>1 DEF WriteOK
    <2>1. avr'[f.s].img = avr[f.s].img
      BY <1>3, BegunWhere
    <2> QED
      BY <2>1, <1>1 DEF WriteOK
  <1>6. LateOK'
    BY <1>1, <1>2, <1>3, BegunWhere DEF LateOK
  <1> QED
    BY <1>2, <1>4, <1>5, <1>6 DEF RunInv

\* What the bootloader makes of a transfer.
LEMMA ExecutedShape ==
    ASSUME NEW a \in StickState, NEW op \in Ops, NEW b \in Nat
    PROVE  LET a2 == Executed(a, op, b) IN
           /\ a2 \in StickState
           /\ op \in {"erase", "full"} => \A k \in Blocks : a2.img[k] = "blank"
           /\ op \notin Commands => a2.img = a.img
           /\ op = "write" =>
                /\ \A k \in Blocks : k # b => a2.img[k] = a.img[k]
                /\ b \in Blocks /\ a.img[b] = "blank" => a2.img[b] = "new"
           /\ op # "clear" => a2.err = a.err
  <1>1. CASE op \in {"erase", "full"}
    <2> DEFINE im == [k \in Blocks |-> "blank"]
    <2>1. im \in [Blocks -> Content] /\ \A k \in Blocks : im[k] = "blank"
      BY DEF Content
    <2>2. Executed(a, op, b) = [[a EXCEPT !.img = im] EXCEPT !.busy = TRUE]
      BY <1>1 DEF Executed
    <2> HIDE DEF im
    <2> DEFINE a1 == [a EXCEPT !.img = im]
    <2>3. a1 \in StickState /\ a1.img = im /\ a1.err = a.err
      BY <2>1 DEF StickState
    <2> HIDE DEF a1
    <2>4. [a1 EXCEPT !.busy = TRUE] \in StickState /\ [a1 EXCEPT !.busy = TRUE].img = im
          /\ [a1 EXCEPT !.busy = TRUE].err = a.err
      BY <2>3 DEF StickState
    <2> QED
      BY <1>1, <2>1, <2>2, <2>4 DEF Commands, a1
  <1>2. CASE op = "write"
    <2> DEFINE v  == IF a.img[b] = "blank" THEN "new" ELSE "mixed"
               im == [a.img EXCEPT ![b] = v]
    <2>1. Executed(a, op, b) = [a EXCEPT !.img = im]
      BY <1>2 DEF Executed
    <2>2. a.img \in [Blocks -> Content] /\ v \in Content
      BY DEF StickState, Content
    <2>3. /\ im \in [Blocks -> Content] /\ \A k \in Blocks : k # b => im[k] = a.img[k]
          /\ b \in Blocks => im[b] = v
      BY <2>2
    <2> HIDE DEF im
    <2>4. [a EXCEPT !.img = im] \in StickState /\ [a EXCEPT !.img = im].img = im
          /\ [a EXCEPT !.img = im].err = a.err
      BY <2>3 DEF StickState
    <2> QED
      BY <1>2, <2>1, <2>3, <2>4 DEF Commands
  <1>3. CASE op = "clear"
    <2>1. Executed(a, op, b) = [a EXCEPT !.err = FALSE]
      BY <1>3 DEF Executed
    <2>2. [a EXCEPT !.err = FALSE] \in StickState /\ [a EXCEPT !.err = FALSE].img = a.img
      BY DEF StickState
    <2> QED
      BY <1>3, <2>1, <2>2 DEF Commands
  <1>4. CASE op \notin {"erase", "full", "write", "clear"}
    <2>1. Executed(a, op, b) = a
      BY <1>4 DEF Executed
    <2> QED
      BY <1>4, <2>1 DEF Commands
  <1> QED
    BY <1>1, <1>2, <1>3, <1>4

\* The bootloader carries a transfer out: a command has its effect, the question
\* for its result is answered from the state of the bootloader.
LEMMA RunCompleted ==
    ASSUME FlashInv, BusOK, Complete
    PROVE  DfuTypeOK' /\ RunInv'
  <1> USE DEF FlashInv
  <1> DEFINE a  == avr[bus.s]
             a2 == Executed(a, xfer.op, xfer.k)
             re == IF xfer.op = "status" THEN Reported(a) ELSE xfer.reply
  <1>1. /\ xfer.flying /\ xfer.op # "zero" /\ xfer.op # "garbage"
        /\ Attached(xfer.ses) /\ xfer \in XferState /\ xfer.ses \in Nat
        /\ UNCHANGED <<bus, ses, mode>>
    BY DEF Complete, DfuTypeOK, XferState, busVars
  <1>2. bus # NoDev /\ bus.s \in Sticks /\ bus.ses = xfer.ses /\ ~Cut /\ ~Cut'
    <2>1. bus # NoDev /\ bus.ses = xfer.ses
      BY <1>1, AttachedLast
    <2>2. UNCHANGED xfer.ses
      BY <1>1 DEF Complete, Ended, XferState
    <2> QED
      BY <1>1, <2>1, <2>2 DEF Cut, Attached, BusOK
  <1>3. a \in StickState /\ xfer.op \in Ops /\ xfer.k \in Nat
    BY <1>1, <1>2 DEF DfuTypeOK, XferState
  <1>4. re \in {"ok", "busy", "error"} /\ (xfer.op = "status" /\ a.err = TRUE => re = "error")
    BY <1>1 DEF Reported, XferState
  <1>5. avr' = [avr EXCEPT ![bus.s] = a2] /\ Ended("ok", re)
    BY DEF Complete
  <1>6. /\ xfer' \in XferState /\ xfer'.flying = FALSE /\ xfer'.status = "ok" /\ xfer'.reply = re
        /\ xfer'.op = xfer.op /\ xfer'.k = xfer.k /\ xfer'.ses = xfer.ses
        /\ done' = 1 /\ UNCHANGED <<dev, f, flashes>>
    <2> HIDE DEF re
    <2> QED
      BY <1>1, <1>4, <1>5, EndedShape
  <1>7. /\ a2 \in StickState
        /\ xfer.op \in {"erase", "full"} => \A k \in Blocks : a2.img[k] = "blank"
        /\ xfer.op \notin Commands => a2.img = a.img
        /\ xfer.op = "write" =>
             /\ \A k \in Blocks : k # xfer.k => a2.img[k] = a.img[k]
             /\ xfer.k \in Blocks /\ a.img[xfer.k] = "blank" => a2.img[xfer.k] = "new"
        /\ xfer.op # "clear" => a2.err = a.err
    BY <1>3, ExecutedShape
  <1> HIDE DEF a2, re
  <1>8. avr' \in [Sticks -> StickState] /\ avr'[bus.s] = a2
    BY <1>2, <1>5, <1>7 DEF DfuTypeOK
  <1>9. DfuTypeOK'
    BY <1>1, <1>6, <1>8 DEF DfuTypeOK
  <1>10. BegunOK' /\ (Begun' <=> Begun) /\ (Late' <=> Late)
    BY <1>6 DEF BegunOK, Begun, Late
  <1>11. ASSUME xfer.ses = f.ses, Begun
         PROVE  f.s = bus.s /\ f.s \in Sticks
    <2>1. Attached(f.ses)
      BY <1>1, <1>11
    <2> QED
      BY <2>1, <1>2 DEF XferOK
  <1>12. CommandOK'
    <2> SUFFICES ASSUME xfer.ses = f.ses, f.step \in Commands, Begun
                 PROVE  CommandOK'
      BY <1>6, <1>10, BegunWhere DEF CommandOK, Begun
    <2>1. f.s = bus.s /\ f.s \in Sticks /\ avr[f.s] = a /\ avr'[f.s] = a2
      BY <1>8, <1>11
    <2>2. xfer.op = f.step => Effect'
      <3>1. CASE f.step = "write" /\ xfer.op = f.step
        <4>1. xfer.k = f.k /\ a.img[f.k] = "blank" /\ f.k \in Blocks
          BY <1>1, <2>1, <3>1 DEF WriteOK, RunOK
        <4> QED
          BY <4>1, <3>1, <2>1, <1>6, <1>7 DEF Effect
      <3>2. CASE f.step \in {"erase", "full"} /\ xfer.op = f.step
        BY <3>2, <2>1, <1>6, <1>7 DEF Effect, Holds
      <3> QED
        BY <3>1, <3>2 DEF Commands
    <2>3. xfer.op \notin Commands /\ Effect => Effect'
      BY <2>1, <1>6, <1>7 DEF Effect, Holds
    <2>4. xfer.op \in {f.step, "status"} /\ Effect => Effect'
      BY <2>2, <2>3 DEF Commands
    <2>5. f.op = f.step /\ f.pc = "await" => Sent'
      <3>1. f.op = f.step /\ f.pc = "await" => xfer.op = f.step
        BY <1>1 DEF XferOK
      <3> QED
        BY <3>1, <2>2, <1>6 DEF Sent
    <2>6. f.op = "status" /\ f.pc = "fill" => Asking'
      BY <2>2, <2>4, <1>1, <1>2 DEF CommandOK, Asking
    <2>7. f.op = "status" /\ f.pc = "submit" => Asked'
      BY <2>2, <2>4, <1>1, <1>2 DEF CommandOK, Asked
    <2>8. f.op = "status" /\ f.pc = "await" => Told'
      <3> SUFFICES ASSUME f.op = "status", f.pc = "await"
                   PROVE  Told'
        OBVIOUS
      <3>1. xfer.op = "status"
        BY <1>1 DEF XferOK
      <3>2. Told
        BY DEF CommandOK
      <3>3. Effect => Effect'
        BY <3>1, <2>4
      <3>4. Err => re = "error"
        BY <3>1, <2>1, <1>4 DEF Err
      <3> QED
        BY <3>2, <3>3, <3>4, <1>1, <1>2, <1>6 DEF Told
    <2>9. f.pc = "pause" => Effect'
      BY <2>4, <1>1 DEF CommandOK
    <2> QED
      BY <2>5, <2>6, <2>7, <2>8, <2>9, <1>6 DEF CommandOK
  <1>13. WriteOK'
    <2> SUFFICES ASSUME xfer.ses = f.ses, f.step = "write"
                 PROVE  WriteOK'
      BY <1>6 DEF WriteOK
    <2>1. f.s = bus.s /\ f.s \in Sticks /\ avr[f.s] = a /\ avr'[f.s] = a2
      BY <1>8, <1>11, BegunWhere
    <2>2. xfer.op \notin {"erase", "full"} /\ (xfer.op = "write" => xfer.k = f.k)
      BY <1>1 DEF WriteOK
    <2>3. \A j \in Blocks : j # f.k => a2.img[j] = a.img[j]
      BY <1>7, <2>2 DEF Commands
    <2>4. xfer.op # "write" => a2.img = a.img
      BY <1>7, <2>2 DEF Commands
    <2>5. \A j \in Blocks : (j < f.k => a2.img[j] = "new") /\ (j > f.k => a2.img[j] = "blank")
      BY <2>1, <2>3, DfuAssumption DEF WriteOK, Blocks, RunOK
    <2>6. f.op = "write" /\ f.pc \in {"fill", "submit"} => a2.img[f.k] = "blank"
      BY <2>1, <2>4, <1>1 DEF WriteOK
    <2> QED
      BY <2>1, <2>5, <2>6, <1>6 DEF WriteOK
  <1>14. LateOK'
    <2>1. ASSUME xfer.ses = f.ses, Late
          PROVE  Holds(f.s, "new")'
      <3>1. f.s = bus.s /\ f.s \in Sticks /\ avr[f.s] = a /\ avr'[f.s] = a2
        BY <2>1, <1>8, <1>11, BegunWhere
      <3>2. a2.img = a.img
        BY <2>1, <1>1, <1>7 DEF LateOK
      <3> QED
        BY <2>1, <3>1, <3>2, <1>6 DEF LateOK, Holds
    <2> QED
      BY <2>1, <1>6, <1>10 DEF LateOK
  <1> QED
    BY <1>9, <1>10, <1>12, <1>13, <1>14 DEF RunInv
-----------------------------------------------------------------------------
(***************************************************************************)
(* The steps of the run.                                                   *)
(***************************************************************************)

\* A run whose command fails claims nothing any more, and the steps around the
\* commands claim nothing new.
LEMMA RunAway ==
    ASSUME FlashInv, f.pc # "idle", NEW ok \in BOOLEAN, UNCHANGED <<bus, xfer, avr>>,
           \/ f.step \in {"eeprom", "compare", "start"} /\ Result(ok)
           \/ f.step \in Commands /\ (StepFails \/ Result(FALSE))
    PROVE  f' \in RunState /\ RunOK' /\ Stays /\ RunInv' /\ f'.pc \notin {"submit", "await"}
  <1> USE DEF FlashInv
  <1>1. CASE f.step \in {"eeprom", "compare", "start"} /\ Result(ok)
    <2>1. f' \in RunState /\ Stays /\ OtherNext(ok)
      BY <1>1, OtherShape DEF DfuTypeOK
    <2>2. RunOK' /\ f'.pc \notin {"submit", "await"} /\ f'.step \notin Commands \ {"erase"}
          /\ (f'.step = "erase" => f'.op = "erase" /\ f'.pc = "fill")
      BY <1>1, <2>1 DEF OtherNext, Goes, RunOK, Commands
    <2>3. Late' => Late
      BY <1>1, <2>1 DEF OtherNext, Goes, Late
    <2>4. BegunOK'
      <3>1. f'.op \notin {"status", "clear"}
        BY <1>1, <2>1 DEF OtherNext, Goes
      <3> QED
        BY <3>1, <2>1, <2>2, <2>3 DEF BegunOK, Begun, Stays, Commands
    <2>5. CommandOK' /\ WriteOK'
      BY <2>2 DEF CommandOK, WriteOK, Commands
    <2>6. LateOK'
      BY <2>1, <2>3 DEF LateOK, Holds, Stays
    <2> QED
      BY <2>1, <2>2, <2>4, <2>5, <2>6 DEF RunInv
  <1>2. CASE f.step \in Commands /\ (StepFails \/ Result(FALSE))
    <2>1. /\ f' \in RunState /\ Stays
          /\ \/ f.step = "erase" /\ Goes("fill", "full", "full") /\ f'.k = f.k
             \/ Goes("idle", "over", "none") /\ ~f'.ok
      <3>1. CASE StepFails
        BY <3>1, FailShape DEF DfuTypeOK
      <3>2. CASE Result(FALSE)
        <4>1. f' \in RunState /\ Stays /\ CommandNext(FALSE)
          BY <1>2, <3>2, CommandShape DEF DfuTypeOK
        <4> QED
          BY <4>1 DEF CommandNext
      <3> QED
        BY <1>2, <3>1, <3>2
    <2>2. RunOK' /\ f'.pc \notin {"submit", "await"} /\ ~Begun' /\ ~Late'
          /\ f'.step # "write" /\ f'.op # "status" /\ f'.pc # "pause"
      BY <2>1 DEF Goes, RunOK, Begun, Late, Commands
    <2>3. BegunOK' /\ CommandOK' /\ WriteOK' /\ LateOK'
      BY <2>2 DEF BegunOK, CommandOK, WriteOK, LateOK
    <2> QED
      BY <2>1, <2>2, <2>3 DEF RunInv
  <1> QED
    BY <1>1, <1>2

\* The command of a step, or the question for its result, has been answered.
LEMMA RunAnswered ==
    ASSUME FlashInv, f.step \in Commands, f.pc = "await", done = 1, done' = 0,
           Result(xfer.status = "ok"), UNCHANGED <<bus, xfer, avr>>
    PROVE  f' \in RunState /\ RunOK' /\ Stays /\ RunInv' /\ f'.pc \notin {"submit", "await"}
  <1> USE DEF FlashInv
  <1>1. CASE xfer.status # "ok"
    <2>1. Result(FALSE)
      BY <1>1
    <2> QED
      BY <2>1, RunAway
  <1>2. CASE xfer.status = "ok"
    <2>1. f' \in RunState /\ Stays /\ CommandNext(TRUE)
      <3>1. Result(TRUE)
        BY <1>2
      <3> QED
        BY <3>1, CommandShape DEF DfuTypeOK
    <2>2. f'.ses = f.ses /\ f'.s = f.s /\ xfer' = xfer /\ avr' = avr
      BY <2>1 DEF Stays
    <2>3. Begun /\ xfer.op \in {f.op, "garbage"} /\ f.op \in {f.step, "status", "clear"}
      BY DEF Begun, XferOK, RunOK
    <2>4. BegunOK'
      BY <2>2, <2>3 DEF BegunOK
    <2>5. CASE f.op = "clear"
      <3>1. Result(FALSE) \/ StepFails
        <4>1. StepFails
          BY <2>5 DEF Result, Commands
        <4> QED
          BY <4>1
      <3> QED
        BY <3>1, RunAway
    <2>6. CASE Goes("idle", "over", "none") /\ ~f'.ok
      <3>1. RunOK' /\ ~Begun' /\ ~Late' /\ f'.step \notin Commands /\ f'.pc = "idle"
        BY <2>6 DEF Goes, RunOK, Begun, Late, Commands
      <3>2. CommandOK' /\ WriteOK' /\ LateOK'
        BY <3>1 DEF CommandOK, WriteOK, LateOK, Commands
      <3> QED
        BY <2>1, <2>4, <3>1, <3>2 DEF RunInv
    <2>7. CASE f.op = f.step /\ Goes("fill", f.step, "status") /\ f'.k = f.k
      <3>1. f'.pc = "fill" /\ f'.step = f.step /\ f'.op = "status" /\ f'.k = f.k
        BY <2>7 DEF Goes
      <3>2. RunOK' /\ ~Late'
        BY <3>1 DEF RunOK, Late, Commands
      <3>3. CommandOK'
        <4> SUFFICES ASSUME xfer.ses = f.ses
                     PROVE  CommandOK'
          BY <2>2 DEF CommandOK
        <4>1. Sent
          BY <2>7 DEF CommandOK
        <4>2. Effect => Effect'
          BY <2>2, <3>1 DEF Effect, Holds
        <4>3. xfer.op # "status"
          BY <2>3, <2>7 DEF Commands
        <4>4. Asking'
          BY <1>2, <2>2, <4>1, <4>2, <4>3 DEF Sent, Asking
        <4> QED
          BY <3>1, <4>4, <2>2, <2>3, <2>7 DEF CommandOK
      <3>4. WriteOK'
        BY <2>2, <3>1 DEF WriteOK
      <3>5. LateOK'
        BY <3>2 DEF LateOK
      <3> QED
        BY <2>1, <2>4, <3>1, <3>2, <3>3, <3>4, <3>5 DEF RunInv
    <2>8. ASSUME f.op = "status", xfer.reply # "error", xfer.ses = f.ses
          PROVE  Effect
      <3>1. Told
        BY <2>8 DEF CommandOK
      <3> QED
        BY <3>1, <1>2, <2>8 DEF Told, Failed
    <2>9. CASE /\ f.op = "status" /\ xfer.reply = "ok"
               /\ f.k + 1 \in Blocks /\ Goes("fill", "write", "write") /\ f'.k = f.k + 1
      <3>1. f'.pc = "fill" /\ f'.step = "write" /\ f'.op = "write" /\ f'.k = f.k + 1
        BY <2>9 DEF Goes
      <3>2. RunOK' /\ ~Late'
        BY <3>1, <2>9 DEF RunOK, Late, Commands
      <3>3. CommandOK'
        BY <3>1 DEF CommandOK
      <3>4. WriteOK'
        <4> SUFFICES ASSUME xfer.ses = f.ses
                     PROVE  WriteOK'
          BY <2>2 DEF WriteOK
        <4>1. Effect
          BY <2>8, <2>9
        <4>2. xfer.op \in {"status", "garbage"}
          BY <2>3, <2>9
        <4>3. \A j \in Blocks : /\ j < f.k + 1 => avr[f.s].img[j] = "new"
                                /\ j > f.k => avr[f.s].img[j] = "blank"
          <5>1. CASE f.step = "write"
            BY <4>1, <5>1, DfuAssumption DEF WriteOK, Effect, Blocks, RunOK
          <5>2. CASE f.step \in {"erase", "full"}
            BY <4>1, <5>2, DfuAssumption DEF Effect, Holds, Blocks, RunOK
          <5> QED
            BY <5>1, <5>2 DEF Commands
        <4>4. avr[f.s].img[f.k + 1] = "blank"
          BY <2>9, <4>3, DfuAssumption DEF Blocks, DfuTypeOK, RunState
        <4>5. \A j \in Blocks : j > f.k + 1 => avr[f.s].img[j] = "blank"
          BY <4>3, DfuAssumption DEF Blocks, DfuTypeOK, RunState
        <4> QED
          BY <2>2, <3>1, <4>2, <4>3, <4>4, <4>5 DEF WriteOK
      <3>5. LateOK'
        BY <3>2 DEF LateOK
      <3> QED
        BY <2>1, <2>4, <3>1, <3>2, <3>3, <3>4, <3>5 DEF RunInv
    <2>10. CASE /\ f.op = "status" /\ xfer.reply = "ok" /\ f.k + 1 = NBlocks + 1
                /\ Goes("fill", "compare", "read") \/ Goes("fill", "start", "start")
      <3>1. f'.pc = "fill" /\ Late' /\ f'.step \notin Commands /\ RunOK'
        BY <2>10 DEF Goes, Late, Commands, RunOK
      <3>2. CommandOK' /\ WriteOK'
        BY <3>1 DEF CommandOK, WriteOK, Commands
      <3>3. f.k = NBlocks /\ f.step = "write"
        BY <2>10, DfuAssumption DEF DfuTypeOK, RunState, RunOK, Commands
      <3>4. LateOK'
        <4> SUFFICES ASSUME xfer.ses = f.ses
                     PROVE  LateOK'
          BY <2>2 DEF LateOK
        <4>1. avr[f.s].img[f.k] = "new"
          BY <2>8, <2>10, <3>3 DEF Effect
        <4>2. Holds(f.s, "new")
          BY <3>3, <4>1, DfuAssumption DEF WriteOK, Holds, Blocks
        <4>3. xfer.op \notin Commands
          BY <2>3, <2>10 DEF Commands
        <4> QED
          BY <2>2, <4>2, <4>3 DEF LateOK, Holds
      <3> QED
        BY <2>1, <2>4, <3>1, <3>2, <3>4 DEF RunInv
    <2>11. CASE f.op = "status" /\ Goes("fill", f.step, "clear") /\ f'.k = f.k
      <3>1. f'.pc = "fill" /\ f'.step = f.step /\ f'.op = "clear" /\ f'.k = f.k
        BY <2>11 DEF Goes
      <3>2. RunOK' /\ ~Late'
        BY <3>1 DEF RunOK, Late, Commands
      <3>3. CommandOK' /\ WriteOK'
        BY <2>2, <3>1 DEF CommandOK, WriteOK
      <3>4. LateOK'
        BY <3>2 DEF LateOK
      <3> QED
        BY <2>1, <2>4, <3>1, <3>2, <3>3, <3>4 DEF RunInv
    <2>12. CASE /\ f.op = "status" /\ xfer.reply \notin {"ok", "error"}
                /\ Goes("pause", f.step, "status") /\ f'.k = f.k
      <3>1. f'.pc = "pause" /\ f'.step = f.step /\ f'.op = "status" /\ f'.k = f.k
        BY <2>12 DEF Goes
      <3>2. RunOK' /\ ~Late'
        BY <3>1 DEF RunOK, Late, Commands
      <3>3. CommandOK'
        <4> SUFFICES ASSUME xfer.ses = f.ses
                     PROVE  CommandOK'
          BY <2>2 DEF CommandOK
        <4>1. Effect'
          BY <2>2, <2>8, <2>12, <3>1 DEF Effect, Holds
        <4>2. xfer'.op \in {"status", "garbage"}
          BY <2>2, <2>3, <2>12
        <4> QED
          BY <3>1, <4>1, <4>2 DEF CommandOK
      <3>4. WriteOK' /\ LateOK'
        BY <2>2, <3>1, <3>2 DEF WriteOK, LateOK
      <3> QED
        BY <2>1, <2>4, <3>1, <3>2, <3>3, <3>4 DEF RunInv
    <2> QED
      BY <2>1, <2>3, <2>5, <2>6, <2>7, <2>9, <2>10, <2>11, <2>12 DEF CommandNext
  <1> QED
    BY <1>1, <1>2

\* wait_ok asks again.
LEMMA RunAsksAgain ==
    ASSUME FlashInv, WaitAgain
    PROVE  FlashInv'
  <1> USE DEF FlashInv
  <1>1. /\ f.pc = "pause" /\ f.step \in Commands /\ f.op = "status"
        /\ UNCHANGED <<busVars, done, xfer, dev, avr, mode>> /\ Do(f.step, "status")
    BY DEF WaitAgain, RunOK, flashRest
  <1>2. f' \in RunState /\ Goes("fill", f.step, "status") /\ Stays /\ f'.k = f.k
    BY <1>1, DoShape DEF DfuTypeOK, Commands, Steps, Ops
  <1>3. f'.pc = "fill" /\ f'.step = f.step /\ f'.op = "status" /\ f'.k = f.k
        /\ f'.ses = f.ses /\ f'.s = f.s /\ Begun /\ ~Late'
    BY <1>1, <1>2 DEF Goes, Stays, Begun, Late, Commands
  <1>4. DfuTypeOK' /\ RunOK'
    BY <1>1, <1>2, <1>3 DEF DfuTypeOK, RunOK, Commands
  <1>5. XferOK'
    BY <1>1, <1>3 DEF XferOK, busVars, Attached
  <1>6. BegunOK'
    BY <1>1, <1>3 DEF BegunOK
  <1>7. CommandOK'
    <2>1. Effect => Effect'
      BY <1>1, <1>3 DEF Effect, Holds
    <2> QED
      BY <2>1, <1>1, <1>3 DEF CommandOK, Asking
  <1>8. WriteOK' /\ LateOK'
    BY <1>1, <1>3 DEF WriteOK, LateOK
  <1> QED
    BY <1>4, <1>5, <1>6, <1>7, <1>8

\* A step of the run that ends where RunAway and RunAnswered say.
LEMMA RunMoved ==
    ASSUME FlashInv, f' \in RunState, RunOK', Stays, RunInv', f'.pc \notin {"submit", "await"},
           UNCHANGED <<bus, ses, dev, xfer, avr, mode>>, done' \in {0, 1}
    PROVE  FlashInv'
  <1>1. XferOK'
    BY DEF FlashInv, XferOK, Stays, Attached
  <1>2. DfuTypeOK'
    BY DEF FlashInv, DfuTypeOK
  <1> QED
    BY <1>1, <1>2 DEF FlashInv, RunInv

LEMMA FillKeeps ==
    ASSUME FlashInv, CtrlFill
    PROVE  FlashInv'
  <1>0. f.pc = "fill" /\ UNCHANGED <<bus, ses, dev, avr, mode>> /\ f.step \in Steps
        /\ f.step \notin {"none", "over"}
    BY DEF CtrlFill, flashRest, busVars, FlashInv, DfuTypeOK, RunState, RunOK
  <1>1. CASE dev = 0
    <2>1. Result(FALSE) /\ UNCHANGED <<done, xfer>>
      BY <1>1 DEF CtrlFill
    <2>2. f.step \in Commands \/ f.step \in {"eeprom", "compare", "start"}
      BY <1>0 DEF Commands, Steps
    <2>3. f' \in RunState /\ RunOK' /\ Stays /\ RunInv' /\ f'.pc \notin {"submit", "await"}
      BY <1>0, <2>1, <2>2, RunAway
    <2>4. done' \in {0, 1}
      BY <2>1 DEF FlashInv, DfuTypeOK
    <2> QED
      BY <1>0, <2>1, <2>3, <2>4, RunMoved
  <1>2. CASE dev # 0
    <2> USE DEF FlashInv
    <2> DEFINE re == IF f.op = "status" THEN xfer.reply ELSE "busy"
               x1 == [xfer EXCEPT !.buf = f.op]
    <2>1. /\ xfer' = [x1 EXCEPT !.reply = re] /\ done' = 0 /\ f' = [f EXCEPT !.pc = "submit"]
      BY <1>2 DEF CtrlFill, DfuTypeOK, XferState
    <2>2. xfer \in XferState /\ f.op \in Ops /\ re \in {"ok", "busy", "error"}
      BY DEF DfuTypeOK, RunState, XferState
    <2> HIDE DEF re
    <2>3. x1 \in XferState /\ x1.buf = f.op /\ x1.op = xfer.op /\ x1.k = xfer.k
          /\ x1.ses = xfer.ses /\ x1.flying = xfer.flying
      BY <2>2 DEF XferState
    <2> HIDE DEF x1
    <2>4. xfer' \in XferState /\ xfer'.buf = f.op /\ xfer'.op = xfer.op /\ xfer'.k = xfer.k
          /\ xfer'.ses = xfer.ses /\ xfer'.flying = xfer.flying
      BY <2>1, <2>2, <2>3 DEF XferState
    <2>5. f' \in RunState /\ f'.pc = "submit" /\ f'.step = f.step /\ f'.op = f.op /\ f'.k = f.k
          /\ f'.ses = f.ses /\ f'.s = f.s /\ f'.ok = f.ok
      BY <2>1, SetPc DEF DfuTypeOK
    <2>6. DfuTypeOK'
      BY <1>0, <2>1, <2>4, <2>5 DEF DfuTypeOK
    <2>7. RunOK'
      BY <1>0, <2>5 DEF RunOK
    <2>8. XferOK'
      BY <1>0, <2>4, <2>5 DEF XferOK, Attached
    <2>9. BegunOK'
      BY <1>0, <2>4, <2>5 DEF BegunOK, Begun, Late
    <2>10. CommandOK'
      <3>1. Effect => Effect'
        BY <1>0, <2>5 DEF Effect, Holds
      <3>2. (Err => Err') /\ (Cut => Cut')
        BY <1>0, <2>4, <2>5 DEF Err, Cut, Attached
      <3>3. Asking => Asked'
        BY <2>1, <2>4, <3>1, <3>2 DEF Asking, Asked
      <3> QED
        BY <3>3, <1>0, <2>4, <2>5 DEF CommandOK
    <2>11. WriteOK'
      BY <1>0, <2>4, <2>5 DEF WriteOK
    <2>12. LateOK'
      BY <1>0, <2>4, <2>5 DEF LateOK, Late, Holds
    <2> QED
      BY <2>6, <2>7, <2>8, <2>9, <2>10, <2>11, <2>12
  <1> QED
    BY <1>1, <1>2

\* A transfer is submitted when no other is under way: what is claimed of the run
\* then rests on the one that has ended.
LEMMA SubmitKeeps ==
    ASSUME FlashInv, BusOK, CtrlSubmit
    PROVE  FlashInv'
  <1>0. f.pc = "submit" /\ UNCHANGED <<bus, ses, dev, avr, mode, done>> /\ f.step \in Steps
        /\ f.step \notin {"none", "over"}
    BY DEF CtrlSubmit, flashRest, busVars, FlashInv, DfuTypeOK, RunState, RunOK
  <1>1. CASE xfer.flying \/ ~Attached(dev)
    <2>1. Result(FALSE) /\ UNCHANGED xfer
      BY <1>1 DEF CtrlSubmit
    <2>2. f.step \in Commands \/ f.step \in {"eeprom", "compare", "start"}
      BY <1>0 DEF Commands, Steps
    <2>3. f' \in RunState /\ RunOK' /\ Stays /\ RunInv' /\ f'.pc \notin {"submit", "await"}
      BY <1>0, <2>1, <2>2, RunAway
    <2>4. done' \in {0, 1}
      BY <1>0 DEF FlashInv, DfuTypeOK
    <2> QED
      BY <1>0, <2>1, <2>3, <2>4, RunMoved
  <1>2. CASE ~xfer.flying /\ Attached(dev)
    <2> USE DEF FlashInv
    <2> DEFINE x1 == [xfer EXCEPT !.op = xfer.buf]
               x2 == [x1 EXCEPT !.k = f.k]
               x3 == [x2 EXCEPT !.ses = dev]
    <2>1. /\ xfer' = [x3 EXCEPT !.flying = TRUE] /\ f' = [f EXCEPT !.pc = "await"]
      BY <1>2 DEF CtrlSubmit
    <2>2. xfer \in XferState /\ xfer.buf \in Ops \cup {"garbage"} /\ f.k \in Nat /\ dev \in Nat
      BY DfuAssumption DEF DfuTypeOK, RunState, XferState
    <2>3. x1 \in XferState /\ x1.op = xfer.buf /\ x1.status = xfer.status /\ x1.reply = xfer.reply
      BY <2>2 DEF XferState
    <2> HIDE DEF x1
    <2>4. x2 \in XferState /\ x2.op = xfer.buf /\ x2.status = xfer.status /\ x2.reply = xfer.reply
          /\ x2.k = f.k
      BY <2>2, <2>3 DEF XferState
    <2> HIDE DEF x2
    <2>5. x3 \in XferState /\ x3.op = xfer.buf /\ x3.status = xfer.status /\ x3.reply = xfer.reply
          /\ x3.k = f.k /\ x3.ses = dev
      BY <2>2, <2>4 DEF XferState
    <2> HIDE DEF x3
    <2>6. xfer' \in XferState /\ xfer'.op = xfer.buf /\ xfer'.status = xfer.status
          /\ xfer'.reply = xfer.reply /\ xfer'.k = f.k /\ xfer'.ses = dev /\ xfer'.flying = TRUE
      BY <2>1, <2>5 DEF XferState
    <2>7. f' \in RunState /\ f'.pc = "await" /\ f'.step = f.step /\ f'.op = f.op /\ f'.k = f.k
          /\ f'.ses = f.ses /\ f'.s = f.s /\ f'.ok = f.ok
      BY <2>1, SetPc DEF DfuTypeOK
    <2>8. xfer.buf \in {f.op, "garbage"} /\ f.op # "garbage"
      BY <1>0 DEF XferOK, DfuTypeOK, RunState, Ops
    <2>9. dev # 0 /\ dev = ses /\ bus # NoDev /\ bus.s \in Sticks /\ f.ses <= dev /\ xfer.ses <= dev
          /\ f.ses \in Nat /\ xfer.ses \in Nat
      BY <1>2, <2>2, AttachedLast DEF Attached, BusOK, XferOK, DfuTypeOK, RunState, XferState
    <2>10. DfuTypeOK'
      BY <1>0, <2>6, <2>7 DEF DfuTypeOK
    <2>11. RunOK'
      BY <1>0, <2>7 DEF RunOK
    <2>12. XferOK'
      <3>1. dev' <= ses' /\ xfer'.ses <= ses' /\ f'.ses <= ses'
        BY <1>0, <2>6, <2>7 DEF XferOK
      <3>2. xfer'.ses <= dev' /\ f'.ses <= dev'
        BY <1>0, <2>2, <2>6, <2>7, <2>9
      <3>3. Attached(f.ses)' => f'.s = bus'.s
        BY <1>0, <2>7 DEF XferOK, Attached
      <3> QED
        BY <3>1, <3>2, <3>3, <2>6, <2>7, <2>8 DEF XferOK
    <2>13. BegunOK'
      <3>1. f'.ses <= xfer'.ses
        BY <2>6, <2>7, <2>9
      <3>2. ASSUME dev = f.ses
            PROVE  f.s \in Sticks
        BY <3>2, <1>2, <2>9 DEF XferOK
      <3> QED
        BY <3>1, <3>2, <2>6, <2>7 DEF BegunOK
    <2>14. ASSUME Begun, dev = f.ses
           PROVE  xfer.ses = f.ses /\ ~Cut
      <3>1. xfer.ses = f.ses
        BY <2>9, <2>14 DEF BegunOK
      <3> QED
        BY <3>1, <1>2, <2>14 DEF Cut
    <2>15. CommandOK'
      <3> SUFFICES ASSUME dev = f.ses, f.step \in Commands
                   PROVE  CommandOK'
        BY <2>6, <2>7 DEF CommandOK
      <3>1. Sent'
        BY <2>6 DEF Sent
      <3>2. f.op = "status" => Told'
        <4> SUFFICES ASSUME f.op = "status"
                     PROVE  Told'
          OBVIOUS
        <4>1. Asked /\ ~Cut
          BY <1>0, <2>14 DEF Begun, CommandOK
        <4>2. (Effect => Effect') /\ (Err => Err')
          BY <1>0, <2>7 DEF Effect, Holds, Err
        <4>3. Effect \/ (Err /\ (done = 0 \/ Failed))
          BY <4>1, <1>2 DEF Asked
        <4>4. Failed => Failed'
          BY <1>0, <2>6 DEF Failed
        <4> QED
          BY <4>2, <4>3, <4>4, <1>0, <2>6 DEF Told
      <3> QED
        BY <3>1, <3>2, <2>7 DEF CommandOK
    <2>16. WriteOK'
      <3> SUFFICES ASSUME dev = f.ses, f.step = "write"
                   PROVE  WriteOK'
        BY <2>6, <2>7 DEF WriteOK
      <3>1. xfer.ses = f.ses
        BY <2>14 DEF Begun
      <3>2. f.op \in {"write", "status", "clear"}
        BY DEF RunOK, Commands
      <3>3. f.op = "write" => avr[f.s].img[f.k] = "blank"
        BY <3>1, <1>0 DEF WriteOK
      <3> QED
        BY <3>1, <3>2, <3>3, <1>0, <2>6, <2>7, <2>8 DEF WriteOK
    <2>17. LateOK'
      <3> SUFFICES ASSUME dev = f.ses, Late
                   PROVE  LateOK'
        BY <2>6, <2>7 DEF LateOK, Late
      <3>1. xfer.ses = f.ses
        BY <2>14 DEF Begun
      <3>2. f.op \notin Commands
        BY <1>0 DEF Late, RunOK, Commands, Steps
      <3> QED
        BY <3>1, <3>2, <1>0, <2>6, <2>7, <2>8 DEF LateOK, Holds, Commands
    <2> QED
      BY <2>10, <2>11, <2>12, <2>13, <2>15, <2>16, <2>17
  <1> QED
    BY <1>1, <1>2

\* The end of a wait, in time or not.
LEMMA AwaitKeeps ==
    ASSUME FlashInv, CtrlAwait \/ CtrlTimeout \/ WaitExpire
    PROVE  FlashInv'
  <1>0. UNCHANGED <<bus, ses, dev, avr, mode, xfer>> /\ f.step \in Steps
        /\ f.pc \in {"await", "pause"} /\ f.step \notin {"none", "over"}
    BY DEF CtrlAwait, CtrlTimeout, WaitExpire, flashRest, busVars, FlashInv, DfuTypeOK, RunState,
           RunOK
  <1>1. f.step \in Commands \/ f.step \in {"eeprom", "compare", "start"}
    BY <1>0 DEF Commands, Steps
  <1>2. done' \in {0, 1}
    BY DEF CtrlAwait, CtrlTimeout, WaitExpire, FlashInv, DfuTypeOK
  <1>3. f' \in RunState /\ RunOK' /\ Stays /\ RunInv' /\ f'.pc \notin {"submit", "await"}
    <2>1. CASE CtrlAwait
      <3>1. f.pc = "await" /\ done = 1 /\ done' = 0 /\ Result(xfer.status = "ok")
        BY <2>1 DEF CtrlAwait
      <3>2. CASE f.step \in Commands
        BY <3>1, <3>2, <1>0, RunAnswered
      <3>3. CASE f.step \in {"eeprom", "compare", "start"}
        <4>1. (xfer.status = "ok") \in BOOLEAN
          OBVIOUS
        <4> QED
          BY <3>1, <3>3, <4>1, <1>0, RunAway
      <3> QED
        BY <3>2, <3>3, <1>1
    <2>2. CASE CtrlTimeout
      <3>1. Result(FALSE)
        BY <2>2 DEF CtrlTimeout
      <3> QED
        BY <3>1, <1>0, <1>1, RunAway
    <2>3. CASE WaitExpire
      <3>1. StepFails /\ f.step \in Commands
        BY <2>3 DEF WaitExpire, FlashInv, RunOK
      <3> QED
        BY <3>1, <1>0, RunAway
    <2> QED
      BY <2>1, <2>2, <2>3
  <1> QED
    BY <1>0, <1>2, <1>3, RunMoved

\* A new run claims nothing yet; it is on the stick that is attached as its device.
LEMMA StartKeeps ==
    ASSUME FlashInv, BusOK, FlashStart
    PROVE  FlashInv'
  <1> USE DEF FlashInv
  <1> DEFINE s0 == IF Attached(dev) THEN bus.s ELSE NULL
  <1>1. /\ f' = [pc |-> "fill", step |-> "eeprom", op |-> "read", k |-> 0, ee |-> FALSE,
                 ses |-> dev, s |-> s0, ok |-> FALSE]
        /\ UNCHANGED <<bus, ses, dev, done, xfer, avr, mode>> /\ dev # 0
    BY DEF FlashStart, busVars
  <1>2. s0 \in Sticks \cup {NULL} /\ dev \in Nat
    BY DEF BusOK, DevState, DfuTypeOK
  <1>3. f' \in RunState
    BY <1>1, <1>2, DfuAssumption DEF RunState, Steps, Ops
  <1>4. f'.pc = "fill" /\ f'.step = "eeprom" /\ f'.op = "read" /\ f'.k = 0 /\ f'.ses = dev
        /\ (Attached(dev) => f'.s = bus.s)
    BY <1>1
  <1>5. DfuTypeOK' /\ RunOK'
    BY <1>1, <1>3, <1>4 DEF DfuTypeOK, RunOK, Commands
  <1>6. XferOK'
    <2>1. dev' <= ses' /\ xfer'.ses <= ses' /\ f'.ses <= ses'
      BY <1>1, <1>4 DEF XferOK
    <2>2. xfer'.ses <= dev' /\ f'.ses <= dev'
      BY <1>1, <1>2, <1>4 DEF XferOK
    <2>3. Attached(f.ses)' => f'.s = bus'.s
      BY <1>1, <1>4 DEF Attached
    <2> QED
      BY <2>1, <2>2, <2>3, <1>4 DEF XferOK
  <1>7. ~Begun' /\ ~Late' /\ f'.step \notin Commands
    BY <1>4 DEF Begun, Late, Commands
  <1>8. BegunOK' /\ CommandOK' /\ WriteOK' /\ LateOK'
    BY <1>7 DEF BegunOK, CommandOK, WriteOK, LateOK, Commands
  <1> QED
    BY <1>5, <1>6, <1>8
-----------------------------------------------------------------------------
(***************************************************************************)
(* The steps of the bus, the sticks and the client.                        *)
(***************************************************************************)

\* The run and its transfer are left alone: only what the bus does matters.
LEMMA XferSame ==
    ASSUME FlashInv, UNCHANGED <<f, xfer>>, ses \in Nat, ses' \in Nat, ses <= ses',
           \/ UNCHANGED dev
           \/ dev' = 0
           \/ dev' = ses /\ ses' = ses,
           Attached(f.ses)' => f.s = bus'.s
    PROVE  XferOK'
  <1>1. xfer.ses \in Nat /\ f.ses \in Nat /\ dev \in Nat
    BY DEF FlashInv, DfuTypeOK, XferState, RunState
  <1>2. dev' <= ses' /\ xfer'.ses <= ses' /\ f'.ses <= ses'
    BY <1>1 DEF FlashInv, XferOK
  <1>3. dev' # 0 => xfer'.ses <= dev' /\ f'.ses <= dev'
    BY <1>1 DEF FlashInv, XferOK
  <1> QED
    BY <1>2, <1>3 DEF FlashInv, XferOK

LEMMA BusKeeps ==
    ASSUME FlashInv, BusOK,
           \/ \E s \in Sticks : Plug(s) \/ EraseDone(s)
           \/ Pull \/ EnterBoot
    PROVE  FlashInv'
  <1> USE DEF FlashInv
  <1>1. UNCHANGED <<f, xfer, done, dev>> /\ f.ses \in Nat /\ xfer.ses \in Nat /\ ses \in Nat
        /\ f.ses <= ses /\ xfer.ses <= ses
    BY DEF Plug, EraseDone, Pull, EnterBoot, dfuVars, DfuTypeOK, RunState, XferState, XferOK, BusOK
  <1>2. ASSUME NEW s \in Sticks, Plug(s)
        PROVE  FlashInv'
    <2>1. ses' = ses + 1 /\ bus'.ses = ses + 1 /\ UNCHANGED <<avr, mode>>
      BY <1>2 DEF Plug, Attach, dfuVars
    <2>2. ~Attached(f.ses)' /\ Cut'
      BY <1>1, <2>1 DEF Attached, Cut
    <2>3. XferOK'
      BY <1>1, <2>1, <2>2, XferSame
    <2>4. RunInv'
      BY <1>1, <2>1, <2>2, RunSame
    <2> QED
      BY <1>1, <2>1, <2>3, <2>4 DEF DfuTypeOK, RunOK, RunInv
  <1>3. ASSUME NEW s \in Sticks, EraseDone(s)
        PROVE  FlashInv'
    <2>1. UNCHANGED <<bus, ses, mode>> /\ avr' = [avr EXCEPT ![s].busy = FALSE]
      BY <1>3 DEF EraseDone, busVars
    <2>2. avr[s] \in StickState
      BY DEF DfuTypeOK
    <2> DEFINE a2 == [avr[s] EXCEPT !.busy = FALSE]
    <2>3. a2 \in StickState /\ a2.img = avr[s].img /\ a2.err = avr[s].err
      BY <2>2 DEF StickState
    <2>4. avr' = [avr EXCEPT ![s] = a2]
      BY <2>1
    <2> HIDE DEF a2
    <2>5. avr' \in [Sticks -> StickState] /\ \A t \in Sticks : avr'[t].img = avr[t].img /\ avr'[t].err = avr[t].err
      BY <2>3, <2>4 DEF DfuTypeOK
    <2>6. (Attached(f.ses)' <=> Attached(f.ses)) /\ (Cut' <=> Cut)
      BY <1>1, <2>1 DEF Attached, Cut
    <2>7. XferOK'
      BY <1>1, <2>1, <2>6, XferSame DEF XferOK
    <2>8. RunInv'
      BY <1>1, <2>5, <2>6, RunSame
    <2> QED
      BY <1>1, <2>1, <2>5, <2>7, <2>8 DEF DfuTypeOK, RunOK, RunInv
  <1>4. ASSUME Detach, avr' \in [Sticks -> StickState], mode' \in [Sticks -> {"app", "boot"}],
               \A s \in Sticks : avr'[s].img = avr[s].img
        PROVE  FlashInv'
    <2>1. ses' = ses /\ bus' = NoDev /\ bus'.ses = 0
      BY <1>4 DEF Detach, NoDev
    <2>2. ~Attached(f.ses)' /\ Cut'
      BY <1>1, <2>1 DEF Attached, Cut
    <2>3. XferOK'
      BY <1>1, <2>1, <2>2, XferSame
    <2>4. RunInv'
      BY <1>1, <1>4, <2>2, RunSame
    <2> QED
      BY <1>1, <1>4, <2>3, <2>4 DEF DfuTypeOK, RunOK, RunInv
  <1>5. ASSUME Pull
        PROVE  FlashInv'
    <2>1. Detach /\ bus # NoDev /\ bus.s \in Sticks
      BY <1>5 DEF Pull, Detach, BusOK
    <2> DEFINE a1 == [avr[bus.s] EXCEPT !.busy = FALSE]
               a2 == [a1 EXCEPT !.err = FALSE]
    <2>2. avr[bus.s] \in StickState
      BY <2>1 DEF DfuTypeOK
    <2>3. a1 \in StickState /\ a1.img = avr[bus.s].img
      BY <2>2 DEF StickState
    <2>4. a2 \in StickState /\ a2.img = avr[bus.s].img
      <3> HIDE DEF a1
      <3> QED
        BY <2>3 DEF StickState
    <2>5. avr' = [avr EXCEPT ![bus.s] = a2]
      BY <1>5, <2>1 DEF Pull, DfuTypeOK
    <2> HIDE DEF a1, a2
    <2>6. avr' \in [Sticks -> StickState] /\ \A s \in Sticks : avr'[s].img = avr[s].img
      BY <2>4, <2>5 DEF DfuTypeOK
    <2>7. mode' \in [Sticks -> {"app", "boot"}]
      BY <1>5, <2>1 DEF Pull, DfuTypeOK
    <2> QED
      BY <2>1, <2>6, <2>7, <1>4
  <1>6. ASSUME EnterBoot
        PROVE  FlashInv'
    BY <1>4, <1>6 DEF EnterBoot, DfuTypeOK
  <1> QED
    BY <1>2, <1>3, <1>5, <1>6

\* The end of a transfer.
LEMMA EndKeeps ==
    ASSUME FlashInv, BusOK, Complete \/ Refuse \/ Leave \/ EndGone
    PROVE  FlashInv'
  <1> USE DEF FlashInv
  <1>0. xfer.flying /\ xfer \in XferState /\ xfer.reply \in {"ok", "busy", "error"}
        /\ f.ses \in Nat /\ xfer.ses \in Nat /\ ses \in Nat
    BY DEF Complete, Refuse, Leave, EndGone, DfuTypeOK, XferState, RunState, BusOK
  <1>1. ASSUME NEW st \in {"ok", "stall", "gone"}, NEW re \in {"ok", "busy", "error"}, Ended(st, re)
        PROVE  /\ xfer' \in XferState /\ xfer'.op = xfer.op /\ xfer'.ses = xfer.ses
               /\ xfer'.buf \in {xfer.buf, "garbage"} /\ done' = 1 /\ UNCHANGED <<dev, f>>
               /\ RunOK'
               /\ ses' = ses /\ (Attached(f.ses)' => f.s = bus'.s) => XferOK'
    <2>1. /\ xfer' \in XferState /\ xfer'.op = xfer.op /\ xfer'.ses = xfer.ses
          /\ xfer'.buf \in {xfer.buf, "garbage"} /\ done' = 1 /\ UNCHANGED <<dev, f>>
      BY <1>0, <1>1, EndedShape
    <2>2. RunOK'
      BY <2>1 DEF RunOK
    <2>3. ses' = ses /\ (Attached(f.ses)' => f.s = bus'.s) => XferOK'
      BY <2>1 DEF XferOK
    <2> QED
      BY <2>1, <2>2, <2>3
  <1>2. CASE Complete
    <2>1. DfuTypeOK' /\ RunInv'
      BY <1>2, RunCompleted
    <2> DEFINE re == IF xfer.op = "status" THEN Reported(avr[bus.s]) ELSE xfer.reply
    <2>2. Ended("ok", re) /\ UNCHANGED <<bus, ses>> /\ re \in {"ok", "busy", "error"}
      BY <1>2, <1>0 DEF Complete, busVars, Reported
    <2> HIDE DEF re
    <2>3. Attached(f.ses)' => f.s = bus'.s
      BY <2>2, <1>1 DEF Attached, XferOK
    <2> QED
      BY <1>1, <2>1, <2>2, <2>3 DEF RunInv
  <1>3. CASE Refuse
    <2>1. Attached(xfer.ses) /\ bus # NoDev /\ bus.s \in Sticks /\ bus.ses = xfer.ses
      BY <1>0, <1>3, AttachedLast DEF Refuse, BusOK
    <2>2. avr' = [avr EXCEPT ![bus.s].err = TRUE] /\ Ended("stall", xfer.reply)
          /\ UNCHANGED <<bus, ses, mode>>
      BY <1>3 DEF Refuse, busVars
    <2> DEFINE a2 == [avr[bus.s] EXCEPT !.err = TRUE]
    <2>3. avr[bus.s] \in StickState
      BY <2>1 DEF DfuTypeOK
    <2>4. a2 \in StickState /\ a2.img = avr[bus.s].img /\ a2.err = TRUE
      BY <2>3 DEF StickState
    <2>5. avr' = [avr EXCEPT ![bus.s] = a2]
      BY <2>2
    <2> HIDE DEF a2
    <2>6. /\ avr' \in [Sticks -> StickState] /\ \A s \in Sticks : avr'[s].img = avr[s].img
          /\ avr'[bus.s].err = TRUE
      BY <2>1, <2>4, <2>5 DEF DfuTypeOK
    <2>7. xfer.ses = f.ses => f.s = bus.s
      BY <2>1 DEF XferOK
    <2>8. xfer'.ses = xfer.ses /\ xfer' \in XferState /\ done' = 1 /\ RunOK' /\ UNCHANGED <<dev, f>>
      BY <1>0, <1>1, <2>2
    <2>9. Cut => Cut'
      BY <2>1 DEF Cut
    <2>10. RunInv'
      BY <1>0, <2>2, <2>6, <2>7, <2>9, RunEndedBadly
    <2>11. Attached(f.ses)' => f.s = bus'.s
      BY <2>2, <2>8 DEF Attached, XferOK
    <2>12. XferOK'
      BY <1>0, <1>1, <2>2, <2>11
    <2> QED
      BY <2>2, <2>6, <2>8, <2>10, <2>12 DEF DfuTypeOK, RunInv
  <1>4. CASE Leave \/ EndGone
    <2>1. Ended("gone", xfer.reply) /\ UNCHANGED avr
      BY <1>4 DEF Leave, EndGone
    <2>2. xfer'.ses = xfer.ses /\ xfer' \in XferState /\ done' = 1 /\ RunOK' /\ UNCHANGED <<dev, f>>
      BY <1>0, <1>1, <2>1
    <2>3. /\ ses' = ses /\ mode' \in [Sticks -> {"app", "boot"}] /\ Cut'
          /\ Attached(f.ses)' => f.s = bus'.s
      <3>1. CASE Leave
        <4>1. bus # NoDev /\ bus' = NoDev /\ bus'.ses = 0 /\ ses' = ses /\ bus.s \in Sticks
          BY <3>1 DEF Leave, Detach, NoDev, BusOK
        <4>2. mode' \in [Sticks -> {"app", "boot"}]
          BY <3>1, <4>1 DEF Leave, DfuTypeOK
        <4> QED
          BY <4>1, <4>2, <1>0, <2>2 DEF Attached, Cut
      <3>2. CASE EndGone
        <4>1. UNCHANGED <<bus, ses, mode>> /\ Cut
          BY <3>2 DEF EndGone, busVars, Cut
        <4> QED
          BY <4>1, <2>2 DEF Attached, Cut, XferOK, DfuTypeOK
      <3> QED
        BY <1>4, <3>1, <3>2
    <2>4. RunInv'
      BY <1>0, <2>1, <2>3, RunEndedBadly
    <2>5. XferOK'
      BY <1>0, <1>1, <2>1, <2>3
    <2> QED
      BY <2>1, <2>2, <2>3, <2>4, <2>5 DEF DfuTypeOK, RunInv
  <1> QED
    BY <1>2, <1>3, <1>4

LEMMA ClientKeeps ==
    ASSUME FlashInv, BusOK, ClientEvent
    PROVE  FlashInv'
  <1> USE DEF FlashInv
  <1>1. UNCHANGED <<bus, ses, done, xfer, f, avr, mode>> /\ dfuq # <<>>
        /\ (dev' = dev \/ dev' = 0 \/ (dev' = Head(dfuq).ses /\ Attached(Head(dfuq).ses)))
    BY DEF ClientEvent
  <1>2. Head(dfuq).ses \in Nat
    BY <1>1, EventTail DEF BusOK, Event
  <1>3. ses \in Nat /\ (dev' = dev \/ dev' = 0 \/ dev' = ses) /\ dev' \in Nat
    BY <1>1, <1>2, AttachedLast DEF BusOK, DfuTypeOK
  <1>4. (Attached(f.ses)' <=> Attached(f.ses)) /\ (Cut' <=> Cut)
    BY <1>1 DEF Attached, Cut
  <1>5. XferOK'
    BY <1>1, <1>3, <1>4, XferSame DEF XferOK
  <1>6. RunInv'
    BY <1>1, <1>4, RunSame
  <1> QED
    BY <1>1, <1>3, <1>5, <1>6 DEF DfuTypeOK, RunOK, RunInv

\* The source neither plugs nor pulls anything, and leaves the DFU client alone.
LEMMA SourceKeeps ==
    ASSUME FlashInv, BusOK, UNCHANGED dfuVars, UNCHANGED <<bus, ses>>
    PROVE  FlashInv'
  <1> USE DEF FlashInv
  <1>1. UNCHANGED <<f, xfer, done, dev, avr, mode>> /\ ses \in Nat
    BY DEF dfuVars, BusOK
  <1>2. (Attached(f.ses)' <=> Attached(f.ses)) /\ (Cut' <=> Cut)
    BY <1>1 DEF Attached, Cut
  <1>3. XferOK'
    BY <1>1, <1>2, XferSame DEF XferOK
  <1>4. RunInv'
    BY <1>1, <1>2, RunSame
  <1> QED
    BY <1>1, <1>3, <1>4 DEF DfuTypeOK, RunOK, RunInv
-----------------------------------------------------------------------------
(***************************************************************************)
(* The invariant, and what follows from it.                                *)
(***************************************************************************)

LEMMA HostInitial == Init => HostInv
  <1> SUFFICES ASSUME Init PROVE HostInv
    OBVIOUS
  <1> USE DEF Init
  <1>1. BusOK
    BY BusAssumption DEF BusInit, BusOK, NoDev, DevState
  <1>2. SourceOK /\ SignalOK
    BY DEF BusInit, SrcInit, SourceOK, SignalOK, Opened
  <1>3. IdentityOK
    BY DEF BusInit, SrcInit, IdentityOK
  <1>4. DfuTypeOK
    <2>1. xfer \in XferState
      BY DEF DfuInit, XferState, Ops, Op0
    <2>2. f \in RunState
      BY DfuAssumption DEF DfuInit, RunState, Ops, Steps, Op0
    <2> DEFINE im == [k \in Blocks |-> "old"]
               a  == [img |-> im, busy |-> FALSE, err |-> FALSE]
    <2>3. im \in [Blocks -> Content]
      BY DEF Content
    <2> HIDE DEF im
    <2>4. a \in StickState
      BY <2>3 DEF StickState
    <2>5. avr = [s \in Sticks |-> a]
      BY DEF DfuInit, im
    <2> HIDE DEF a
    <2>6. avr \in [Sticks -> StickState]
      BY <2>4, <2>5
    <2> QED
      BY <2>1, <2>2, <2>6 DEF DfuInit, DfuTypeOK
  <1>5. f.pc = "idle" /\ f.step = "none" /\ f.op = "none" /\ f.ses = 0 /\ f.ok = FALSE
        /\ xfer.ses = 0 /\ dev = 0 /\ ses = 0
    BY DEF DfuInit, BusInit, Op0
  <1>6. RunOK /\ ~Begun /\ ~Late
    BY <1>5 DEF RunOK, Begun, Late, Commands
  <1>7. XferOK
    BY <1>5 DEF XferOK, Attached
  <1>8. BegunOK /\ CommandOK /\ WriteOK /\ LateOK
    BY <1>5, <1>6 DEF BegunOK, CommandOK, WriteOK, LateOK, Commands
  <1> QED
    BY <1>1, <1>2, <1>3, <1>4, <1>6, <1>7, <1>8 DEF HostInv, PortInv, FlashInv

LEMMA HostStep == HostInv /\ [Next]_vars => HostInv'
  <1> SUFFICES ASSUME HostInv, [Next]_vars PROVE HostInv'
    OBVIOUS
  <1>0. PortInv /\ FlashInv /\ BusOK
    BY DEF HostInv, PortInv
  <1>1. ASSUME Source
        PROVE  HostInv'
    <2>1. UNCHANGED dfuVars /\ SrcNext
      BY <1>1 DEF Source
    <2>2. UNCHANGED <<bus, ses>>
      BY <2>1 DEF SrcNext, StickTask, CdcEvent, TakeConnect, OpenBegin, OpenStart, OpenFail, Retry, OpenOk,
                  KeyDone, Apply, ServeEnd, Clear, Close, TxBegin, TxEnd, busVars
    <2>3. FlashInv'
      BY <1>0, <2>1, <2>2, SourceKeeps
    <2>4. PortInv'
      BY <1>0, <2>1, PortEvent, PortOpen, PortKey, PortTask DEF SrcNext, StickTask
    <2> QED
      BY <2>3, <2>4 DEF HostInv
  <1>2. ASSUME Dfu
        PROVE  HostInv'
    <2>0. UNCHANGED srcVars
      BY <1>2 DEF Dfu
    <2>1. ASSUME NEW s \in Sticks, Plug(s)
          PROVE  HostInv'
      <3>1. Attach(s, mode[s]) /\ mode[s] \in {"app", "boot"}
        BY <1>0, <2>1 DEF Plug, FlashInv, DfuTypeOK
      <3> QED
        BY <1>0, <2>0, <2>1, <3>1, PortAttach, BusKeeps DEF HostInv
    <2>2. ASSUME Pull \/ Enter
          PROVE  HostInv'
      <3>1. Detach /\ (Pull \/ EnterBoot)
        BY <2>2 DEF Pull, Enter, EnterBoot
      <3> QED
        BY <1>0, <2>0, <3>1, PortDetach, BusKeeps DEF HostInv
    <2>3. ASSUME Leave
          PROVE  HostInv'
      <3>1. Detach
        BY <2>3 DEF Leave
      <3> QED
        BY <1>0, <2>0, <2>3, <3>1, PortDetach, EndKeeps DEF HostInv
    <2>4. ASSUME ClientEvent
          PROVE  HostInv'
      BY <1>0, <2>0, <2>4, PortClient, ClientKeeps DEF HostInv
    <2>5. ASSUME \/ \E s \in Sticks : EraseDone(s)
                 \/ Complete \/ Refuse \/ EndGone
                 \/ FlashStart \/ FlashStep
          PROVE  HostInv'
      <3>1. UNCHANGED busVars
        BY <2>5 DEF EraseDone, Complete, Refuse, EndGone, FlashStart, FlashStep, CtrlFill,
                    CtrlSubmit, CtrlAwait, CtrlTimeout, WaitAgain, WaitExpire, flashRest
      <3>2. PortInv'
        BY <1>0, <2>0, <3>1 DEF PortInv, BusOK, SourceOK, SignalOK, IdentityOK, SerialOf,
                                srcVars, idVars, busVars
      <3>3. FlashInv'
        BY <1>0, <2>5, BusKeeps, EndKeeps, StartKeeps, FillKeeps, SubmitKeeps, AwaitKeeps,
           RunAsksAgain DEF FlashStep
      <3> QED
        BY <3>2, <3>3 DEF HostInv
    <2> QED
      BY <1>2, <2>1, <2>2, <2>3, <2>4, <2>5 DEF Dfu, DfuTask
  <1>3. ASSUME UNCHANGED vars
        PROVE  HostInv'
    <2>1. UNCHANGED busVars /\ UNCHANGED srcVars /\ UNCHANGED dfuVars
      BY <1>3 DEF vars
    <2>2. PortInv'
      BY <1>0, <2>1 DEF PortInv, BusOK, SourceOK, SignalOK, IdentityOK, SerialOf,
                        srcVars, idVars, busVars
    <2>3. FlashInv'
      BY <1>0, <2>1, SourceKeeps DEF busVars
    <2> QED
      BY <2>2, <2>3 DEF HostInv
  <1> QED
    BY <1>1, <1>2, <1>3 DEF Next

LEMMA HostInvariance == Spec => []HostInv
  BY HostInitial, HostStep, PTL DEF Spec

\* stick_task takes down only a device that is gone: no signal of an earlier open,
\* aborted half-way, ends the service of a later one.
THEOREM OnlyTheGone == Spec => []OnlyGoneTornDown
  <1>1. HostInv => OnlyGoneTornDown
    BY DEF HostInv, PortInv, SourceOK, SignalOK, OnlyGoneTornDown, Attached, NoDev, Opened
  <1> QED
    BY <1>1, HostInvariance, PTL

\* A source that is ready for an attached stick that was announced to it serves it
\* under that stick's own key.
THEOREM OwnKey == Spec => []KeyOfAttached
  <1>1. HostInv => KeyOfAttached
    <2> SUFFICES ASSUME HostInv, ready, Attached(cdc), noted = cdc
                 PROVE  key = KeyOf(bus.s)
      BY DEF KeyOfAttached, KeyOf
    <2>1. spc = "serve"
      BY DEF HostInv, PortInv, SourceOK
    <2>2. cdc \in Nat
      BY <2>1 DEF HostInv, PortInv, SourceOK
    <2>3. bus # NoDev /\ noted = bus.ses
      BY <2>2, AttachedLast DEF HostInv, PortInv
    <2> QED
      BY <2>1, <2>3 DEF HostInv, PortInv, IdentityOK
  <1> QED
    BY <1>1, HostInvariance, PTL

\* A flash run that reports success has written the whole image on the stick it
\* began with, whatever answers came late, were refused or taken for others, for
\* any number of blocks, faults and runs.
THEOREM WholeFlash == Spec => []FlashWhole
  <1>1. HostInv => FlashWhole
    <2> SUFFICES ASSUME HostInv, FlashOk, xfer.ses = f.ses
                 PROVE  f.s # NULL /\ Holds(f.s, "new")
      BY DEF FlashWhole
    <2>1. Late /\ Begun
      BY DEF FlashOk, Late, Begun
    <2>2. f.s \in Sticks
      BY <2>1 DEF HostInv, FlashInv, BegunOK
    <2>3. Holds(f.s, "new")
      BY <2>1 DEF HostInv, FlashInv, LateOK
    <2> QED
      BY <2>2, <2>3, BusAssumption
  <1> QED
    BY <1>1, HostInvariance, PTL
=============================================================================
