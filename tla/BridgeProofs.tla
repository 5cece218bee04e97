---------------------------- MODULE BridgeProofs ----------------------------
(***************************************************************************)
(* Proofs about module Bridge, for any number of sinks, sources and        *)
(* calling tasks, any table size and any idle time.                        *)
(***************************************************************************)
EXTENDS Bridge, TLAPS

(***************************************************************************)
(* The table look-ups return 0 or an entry that matches.                   *)
(***************************************************************************)

\* FirstIdx yields a member of the set or 0.
LEMMA FirstIdxMember ==
    ASSUME NEW S
    PROVE  FirstIdx(S) = 0 \/ FirstIdx(S) \in S
  BY DEF FirstIdx

\* find_sink_idx_locked: a non-zero result is the entry of that sink.
LEMMA FindSinkIdx ==
    ASSUME TypeOK, NEW who
    PROVE  /\ find_sink_idx(who) \in 0..Len(sinks)
           /\ find_sink_idx(who) # 0 => sinks[find_sink_idx(who)].sink = who
  <1> DEFINE S == {i \in DOMAIN sinks : sinks[i].sink = who}
  <1>1. DOMAIN sinks = 1..Len(sinks) /\ Len(sinks) \in Nat
    BY DEF TypeOK
  <1>2. FirstIdx(S) = 0 \/ FirstIdx(S) \in S
    BY FirstIdxMember
  <1>3. find_sink_idx(who) = FirstIdx(S)
    BY DEF find_sink_idx
  <1> HIDE DEF S
  <1>4. ASSUME FirstIdx(S) \in S
        PROVE  FirstIdx(S) \in 1..Len(sinks) /\ sinks[FirstIdx(S)].sink = who
    BY <1>1, <1>4 DEF S
  <1>5. QED
    BY <1>1, <1>2, <1>3, <1>4

\* find_sink_id_locked: a result is an entry of the table.
LEMMA FindSinkId ==
    ASSUME TypeOK, NEW id
    PROVE  find_sink_id(id) \in 0..Len(sinks)
  <1> DEFINE S == {i \in DOMAIN sinks : sinks[i].id = id}
  <1>1. DOMAIN sinks = 1..Len(sinks) /\ Len(sinks) \in Nat
    BY DEF TypeOK
  <1>2. FirstIdx(S) = 0 \/ FirstIdx(S) \in S
    BY FirstIdxMember
  <1>3. find_sink_id(id) = FirstIdx(S)
    BY DEF find_sink_id
  <1>4. QED
    BY <1>1, <1>2, <1>3

\* Updating one caller's activation keeps the activations well formed.
CallsOK == /\ call \in [Callers -> CallState]
           /\ \A c \in Callers : call[c].pc # "idle" => call[c].src # NULL

\* Return leaves a well-formed activation behind.
LEMMA ReturnOK ==
    ASSUME CallsOK, NEW c \in Callers, NEW ret \in Results, Return(c, ret)
    PROVE  CallsOK'
  <1>1. NoCall(ret) \in CallState /\ NoCall(ret).pc = "idle"
    BY DEF NoCall, CallState, TxPc
  <1>2. QED
    BY <1>1 DEF Return, CallsOK

\* Moving a caller that holds a source on to another phase does, too.
LEMMA GotoOK ==
    ASSUME CallsOK, NEW c \in Callers, NEW p \in TxPc, call[c].pc # "idle", Goto(c, p)
    PROVE  CallsOK'
  <1> DEFINE r == [call[c] EXCEPT !.pc = p]
  <1>1. call[c] \in CallState
    BY DEF CallsOK
  <1>2. r \in CallState /\ r.src = call[c].src
    BY <1>1 DEF CallState
  <1>3. call' = [call EXCEPT ![c] = r]
    BY DEF Goto
  <1> HIDE DEF r
  <1>4. QED
    BY <1>2, <1>3 DEF CallsOK

\* A use of a source keeps the counts of late uses well formed.
LEMMA UsesType ==
    ASSUME TypeOK, NEW u \in Users, NEW s \in Sources, Uses(u, s)
    PROVE  late' \in [Sources -> [Users -> Nat]]
  <1>1. late[s] \in [Users -> Nat] /\ late[s][u] + 1 \in Nat
    BY DEF TypeOK
  <1>2. [late[s] EXCEPT ![u] = late[s][u] + 1] \in [Users -> Nat]
    BY <1>1
  <1>3. QED
    BY <1>2 DEF Uses, TypeOK

-----------------------------------------------------------------------------
(***************************************************************************)
(* Type correctness.                                                       *)
(***************************************************************************)

\* Every action of the bridge keeps the types, the owner index inside the
\* table and a source in the hands of every caller.
LEMMA TypeOKStep == TypeOK /\ [Next]_vars => TypeOK'
  <1> SUFFICES ASSUME TypeOK, [Next]_vars
               PROVE  TypeOK'
    OBVIOUS
  <1> USE BridgeAssumption
  <1>1. ASSUME NEW s \in Sources, bridge_attach_source(s)
        PROVE  TypeOK'
    <2>1. late' \in [Sources -> [Users -> Nat]]
      BY <1>1 DEF bridge_attach_source, TypeOK
    <2>2. QED
      BY <1>1, <2>1 DEF bridge_attach_source, TypeOK, txVars, rxVars
  <1>2. ASSUME NEW s \in Sources, bridge_detach_source(s)
        PROVE  TypeOK'
    BY <1>2 DEF bridge_detach_source, TypeOK, txVars, rxVars
  <1>3. ASSUME NEW s \in Sources, SourceReadyChanges(s)
        PROVE  TypeOK'
    BY <1>3 DEF SourceReadyChanges, TypeOK, txVars, rxVars
  <1>4. ASSUME NEW s \in Sinks, NEW id \in Ids \cup {NULL}, bridge_attach_sink(s, id)
        PROVE  TypeOK'
    <2>1. [sink |-> s, id |-> id] \in SinkEntry
      BY DEF SinkEntry
    <2>2. /\ sinks' \in Seq(SinkEntry)
          /\ Len(sinks') = Len(sinks) + 1
          /\ Len(sinks') <= BRIDGE_MAX_SINKS
      BY <1>4, <2>1 DEF bridge_attach_sink, TypeOK
    <2>3. tx_owner_idx' \in 0..Len(sinks')
      BY <1>4, <2>2 DEF bridge_attach_sink, TypeOK, txVars
    <2>4. heard' \in [SinkIdx -> [Events -> Nat]]
      BY <1>4 DEF bridge_attach_sink, TypeOK
    <2>5. QED
      BY <1>4, <2>2, <2>3, <2>4 DEF bridge_attach_sink, TypeOK, txVars, srcVars
  <1>5. ASSUME NEW e \in Events, EnterFanout(e)
        PROVE  TypeOK'
    <2>1. pump' \in [Events -> PumpState]
      BY <1>5 DEF EnterFanout, TypeOK, PumpState
    <2>2. QED
      BY <1>5, <2>1 DEF EnterFanout, TypeOK, txVars, srcVars
  <1>6. ASSUME NEW e \in Events, SnapshotSinks(e)
        PROVE  TypeOK'
    <2>1. [pc |-> "fan", n |-> Len(sinks), next |-> 1] \in PumpState
      BY DEF TypeOK, PumpState
    <2>2. pump' \in [Events -> PumpState]
      BY <1>6, <2>1 DEF SnapshotSinks, TypeOK
    <2>3. sent' \in [Events -> Nat]
      BY <1>6 DEF SnapshotSinks, TypeOK
    <2>4. late' \in [Sources -> [Users -> Nat]]
      <3>1. e[1] \in Sources
        BY DEF Events
      <3>2. CASE e[2] = "rx"
        BY <1>6, <3>1, <3>2, UsesType DEF SnapshotSinks, Users
      <3>3. CASE e[2] # "rx"
        BY <1>6, <3>3 DEF SnapshotSinks, TypeOK
      <3>4. QED
        BY <3>2, <3>3
    <2>5. QED
      BY <1>6, <2>2, <2>3, <2>4 DEF SnapshotSinks, TypeOK, txVars, srcVars
  <1>7. ASSUME NEW e \in Events, CallSink(e)
        PROVE  TypeOK'
    <2>1. pump' \in [Events -> PumpState]
      <3>1. pump[e] \in PumpState /\ pump[e].next + 1 \in Nat
        BY DEF TypeOK, PumpState
      <3>2. [pump[e] EXCEPT !.next = pump[e].next + 1] \in PumpState
        BY <3>1 DEF PumpState
      <3>3. pump' = [pump EXCEPT ![e] = [pump[e] EXCEPT !.next = pump[e].next + 1]]
        BY <1>7 DEF CallSink
      <3>4. QED
        BY <3>2, <3>3 DEF TypeOK
    <2>2. heard' \in [SinkIdx -> [Events -> Nat]]
      <3> DEFINE i == pump[e].next
      <3>1. heard' = [heard EXCEPT ![i] = [heard[i] EXCEPT ![e] = heard[i][e] + 1]]
        BY <1>7 DEF CallSink
      <3>2. CASE i \in SinkIdx
        <4>1. heard[i] \in [Events -> Nat]
          BY <3>2 DEF TypeOK
        <4>2. [heard[i] EXCEPT ![e] = heard[i][e] + 1] \in [Events -> Nat]
          BY <4>1
        <4>3. QED
          BY <3>1, <4>2 DEF TypeOK
      <3>3. CASE i \notin SinkIdx
        BY <3>1, <3>3 DEF TypeOK
      <3>4. QED
        BY <3>2, <3>3
    <2>3. QED
      BY <1>7, <2>1, <2>2 DEF CallSink, TypeOK, txVars, srcVars
  <1>8. ASSUME NEW e \in Events, LeaveFanout(e)
        PROVE  TypeOK'
    <2>1. NoPump \in PumpState
      BY DEF NoPump, PumpState
    <2>2. pump' \in [Events -> PumpState]
      BY <1>8, <2>1 DEF LeaveFanout, TypeOK
    <2>3. QED
      BY <1>8, <2>2 DEF LeaveFanout, TypeOK, txVars, srcVars
  <1>9. ASSUME NEW c \in Callers, NEW who \in Sinks \cup {NULL}, TxCheckSource(c, who)
        PROVE  TypeOK'
    <2>0. CallsOK
      BY DEF CallsOK, TypeOK
    <2>1. CASE source \in ready
      <3> DEFINE r == [pc  |-> IF who = NULL THEN "tx" ELSE "lock",
                       who |-> who, src |-> source, ret |-> "none"]
      <3>1. r \in CallState /\ r.src # NULL
        BY <2>1 DEF CallState, TxPc, Results, TypeOK
      <3>2. call' = [call EXCEPT ![c] = r]
        BY <1>9, <2>1 DEF TxCheckSource
      <3> HIDE DEF r
      <3>3. QED
        BY <1>9, <3>1, <3>2 DEF TxCheckSource, TypeOK, rxVars, srcVars
    <2>2. CASE source \notin ready
      <3>1. CallsOK'
        BY <1>9, <2>2, <2>0, ReturnOK DEF TxCheckSource, Results
      <3>2. QED
        BY <1>9, <3>1 DEF TxCheckSource, CallsOK, TypeOK, rxVars, srcVars
    <2>3. QED
      BY <2>1, <2>2
  <1>10. ASSUME NEW c \in Callers, TxLockCheck(c)
         PROVE  TypeOK'
    <2>1. find_sink_idx(call[c].who) \in 0..Len(sinks)
      BY FindSinkIdx
    <2>2. tx_owner_idx' \in 0..Len(sinks)
      BY <1>10, <2>1 DEF TxLockCheck, TypeOK
    <2>3. CallsOK
      BY DEF CallsOK, TypeOK
    <2>4. CallsOK'
      BY <1>10, <2>3, GotoOK, ReturnOK DEF TxLockCheck, TxPc, Results
    <2>5. QED
      BY <1>10, <2>2, <2>4 DEF TxLockCheck, CallsOK, TypeOK, rxVars, srcVars
  <1>11. ASSUME NEW c \in Callers, SourceTx(c)
         PROVE  TypeOK'
    <2>1. CallsOK
      BY DEF CallsOK, TypeOK
    <2>2. CallsOK'
      BY <1>11, <2>1, GotoOK, ReturnOK DEF SourceTx, TxPc, Results
    <2>3. late' \in [Sources -> [Users -> Nat]]
      BY <1>11, UsesType DEF SourceTx, TypeOK, CallState, Users
    <2>4. QED
      BY <1>11, <2>2, <2>3 DEF SourceTx, CallsOK, TypeOK, rxVars, srcVars
  <1>12. ASSUME NEW c \in Callers, TxStamp(c)
         PROVE  TypeOK'
    <2>1. CallsOK
      BY DEF CallsOK, TypeOK
    <2>2. CallsOK'
      BY <1>12, <2>1, ReturnOK DEF TxStamp, Results
    <2>3. QED
      BY <1>12, <2>2 DEF TxStamp, CallsOK, TypeOK, rxVars, srcVars
  <1>13. ASSUME SetTxAuto
         PROVE  TypeOK'
    BY <1>13 DEF SetTxAuto, TypeOK, rxVars, srcVars
  <1>14. ASSUME NEW id \in Ids, PinTxMaster(id)
         PROVE  TypeOK'
    BY <1>14, FindSinkId DEF PinTxMaster, TypeOK, rxVars, srcVars
  <1>15. ASSUME Tick
         PROVE  TypeOK'
    BY <1>15 DEF Tick, TypeOK, rxVars, srcVars
  <1>16. ASSUME UNCHANGED vars
         PROVE  TypeOK'
    BY <1>16 DEF vars, srcVars, txVars, rxVars, TypeOK
  <1>17. QED
    BY <1>1, <1>2, <1>3, <1>4, <1>5, <1>6, <1>7, <1>8, <1>9, <1>10, <1>11, <1>12, <1>13,
       <1>14, <1>15, <1>16
       DEF Next, Wiring, Fanout, Transmit, TxStep, Operator

\* The state of the bridge is always well formed: the lock's owner is an entry
\* of the sink table and no transfer is ever handed a NULL source.
THEOREM TypeCorrect == Spec => []TypeOK
  <1>1. Init => TypeOK
    BY BridgeAssumption
    DEF Init, bridge_init, TypeOK, NoCall, CallState, TxPc, Results, NoPump, PumpState
  <1>2. QED
    BY <1>1, TypeOKStep, PTL DEF Spec
-----------------------------------------------------------------------------
(***************************************************************************)
(* The use of a source without the mutex.  That nobody uses a detached     *)
(* source twice is not inductive: one needs to know that the wired source  *)
(* is the attached one, that an attached source has no late uses, and that *)
(* a user who has been late once holds the source no more.                 *)
(***************************************************************************)
WiredIsAttached == rx_sink = {source} \ {NULL}

AttachedNotLate == \A s \in Sources, u \in Users : s = source => late[s][u] = 0

\* u has looked s up and has not used it yet.
Holds(u, s) ==
    \/ u = "rx" /\ pump[<<s, "rx">>].pc = "entered"
    \/ u \in Callers /\ call[u].pc \in {"lock", "tx"} /\ call[u].src = s

LateHoldsNoMore ==
    \A s \in Sources, u \in Users : s # source /\ Holds(u, s) => late[s][u] = 0

\* The inductive invariant of the use of a source.
UseInv == DetachedUsedOnce /\ WiredIsAttached /\ AttachedNotLate /\ LateHoldsNoMore

\* Whoever uses the source it holds and then lets go of it is late at most once.
LEMMA UseKeeps ==
    ASSUME TypeOK, UseInv, UNCHANGED <<source, rx_sink>>,
           NEW u \in Users, NEW s \in Sources, Holds(u, s), Uses(u, s), ~Holds(u, s)',
           \A v \in Users, t \in Sources : Holds(v, t)' => Holds(v, t)
    PROVE  UseInv'
  <1>1. late \in [Sources -> [Users -> Nat]]
    BY DEF TypeOK
  <1>2. CASE s = source
    <2>1. UNCHANGED late
      BY <1>2 DEF Uses
    <2>2. QED
      BY <2>1 DEF UseInv, DetachedUsedOnce, WiredIsAttached, AttachedNotLate, LateHoldsNoMore
  <1>3. CASE s # source
    <2>1. late[s][u] = 0
      BY <1>3 DEF UseInv, LateHoldsNoMore
    <2>2. /\ late'[s][u] = 1
          /\ \A t \in Sources, v \in Users : t # s \/ v # u => late'[t][v] = late[t][v]
      BY <1>1, <1>3, <2>1 DEF Uses
    <2>3. DetachedUsedOnce'
      BY <2>2 DEF UseInv, DetachedUsedOnce
    <2>4. AttachedNotLate'
      BY <1>3, <2>2 DEF UseInv, AttachedNotLate
    <2>5. LateHoldsNoMore'
      BY <2>2 DEF UseInv, LateHoldsNoMore
    <2>6. QED
      BY <2>3, <2>4, <2>5 DEF UseInv, WiredIsAttached
  <1>4. QED
    BY <1>2, <1>3

\* A step in which nobody uses a source, and only the attached one is looked up.
LEMMA LookUpKeeps ==
    ASSUME UseInv, UNCHANGED <<source, rx_sink, late>>,
           \A v \in Users, t \in Sources : Holds(v, t)' => Holds(v, t) \/ t = source
    PROVE  UseInv'
  BY DEF UseInv, DetachedUsedOnce, WiredIsAttached, AttachedNotLate, LateHoldsNoMore

\* Every step of the bridge preserves the strengthened invariant.
LEMMA UseStep == TypeOK /\ UseInv /\ [Next]_vars => UseInv'
  <1> SUFFICES ASSUME TypeOK, UseInv, [Next]_vars
               PROVE  UseInv'
    OBVIOUS
  <1> USE BridgeAssumption
  <1>1. ASSUME NEW s \in Sources, bridge_attach_source(s)
        PROVE  UseInv'
    <2>1. source' = s /\ UNCHANGED <<pump, call>>
      BY <1>1 DEF bridge_attach_source, txVars, rxVars
    <2>2. /\ \A u \in Users : late'[s][u] = 0
          /\ \A t \in Sources : t # s => late'[t] = late[t]
      BY <1>1 DEF bridge_attach_source, TypeOK
    <2>3. WiredIsAttached'
      BY <1>1 DEF bridge_attach_source, UseInv, WiredIsAttached
    <2>4. DetachedUsedOnce' /\ AttachedNotLate'
      BY <2>1, <2>2 DEF UseInv, DetachedUsedOnce, AttachedNotLate
    <2>5. \A u \in Users, t \in Sources : Holds(u, t)' <=> Holds(u, t)
      BY <2>1 DEF Holds
    <2>6. LateHoldsNoMore'
      BY <2>1, <2>2, <2>5 DEF UseInv, LateHoldsNoMore, AttachedNotLate
    <2>7. QED
      BY <2>3, <2>4, <2>6 DEF UseInv
  <1>2. ASSUME NEW s \in Sources, bridge_detach_source(s)
        PROVE  UseInv'
    <2>1. source = s /\ source' = NULL /\ UNCHANGED <<pump, call, late>>
      BY <1>2 DEF bridge_detach_source, txVars, rxVars
    <2>2. WiredIsAttached'
      BY <1>2 DEF bridge_detach_source, UseInv, WiredIsAttached
    <2>3. DetachedUsedOnce' /\ AttachedNotLate'
      BY <2>1 DEF UseInv, DetachedUsedOnce, AttachedNotLate
    <2>4. LateHoldsNoMore'
      BY <2>1 DEF UseInv, LateHoldsNoMore, AttachedNotLate, Holds
    <2>5. QED
      BY <2>2, <2>3, <2>4 DEF UseInv
  <1>3. ASSUME NEW e \in Events, EnterFanout(e)
        PROVE  UseInv'
    <2>1. /\ UNCHANGED <<source, rx_sink, late, call>>
          /\ \A f \in Events : f # e => pump'[f] = pump[f]
          /\ e[2] = "rx" => e[1] \in rx_sink
      BY <1>3 DEF EnterFanout, TypeOK, srcVars, txVars
    <2>2. e[2] = "rx" => e[1] = source
      BY <2>1 DEF UseInv, WiredIsAttached
    <2>3. \A t \in Sources : <<t, "rx">> \in Events /\ (<<t, "rx">> = e => t = e[1] /\ e[2] = "rx")
      BY DEF Events
    <2>4. \A v \in Users, t \in Sources : Holds(v, t)' => Holds(v, t) \/ t = source
      BY <2>1, <2>2, <2>3 DEF Holds
    <2>5. QED
      BY <2>1, <2>4, LookUpKeeps
  <1>4. ASSUME NEW e \in Events, SnapshotSinks(e)
        PROVE  UseInv'
    <2>1. /\ UNCHANGED <<source, rx_sink, call>>
          /\ \A f \in Events : f # e => pump'[f] = pump[f]
          /\ pump[e].pc = "entered" /\ pump'[e].pc = "fan"
      BY <1>4 DEF SnapshotSinks, TypeOK, srcVars, txVars
    <2>2. \A t \in Sources : <<t, "rx">> \in Events
      BY DEF Events
    <2>3. \A v \in Users, t \in Sources : Holds(v, t)' => Holds(v, t)
      BY <2>1, <2>2 DEF Holds
    <2>4. CASE e[2] = "rx"
      <3>1. e[1] \in Sources /\ e = <<e[1], "rx">> /\ "rx" \in Users
        BY <2>4 DEF Events, Users
      <3>2. Holds("rx", e[1]) /\ ~Holds("rx", e[1])' /\ Uses("rx", e[1])
        BY <1>4, <2>1, <2>4, <3>1 DEF SnapshotSinks, Holds
      <3>3. QED
        BY <2>1, <2>3, <3>1, <3>2, UseKeeps
    <2>5. CASE e[2] # "rx"
      BY <1>4, <2>1, <2>3, <2>5, LookUpKeeps DEF SnapshotSinks
    <2>6. QED
      BY <2>4, <2>5
  <1>5. ASSUME NEW e \in Events, CallSink(e) \/ LeaveFanout(e)
        PROVE  UseInv'
    <2>1. /\ UNCHANGED <<source, rx_sink, call, late>>
          /\ \A f \in Events : f # e => pump'[f] = pump[f]
          /\ pump'[e].pc # "entered"
      <3>1. pump[e] \in PumpState /\ pump \in [Events -> PumpState]
        BY DEF TypeOK
      <3>2. CASE CallSink(e)
        <4>1. pump'[e].pc = pump[e].pc
          BY <3>1, <3>2 DEF CallSink, PumpState
        <4>2. QED
          BY <3>1, <3>2, <4>1 DEF CallSink, srcVars, txVars
      <3>3. CASE LeaveFanout(e)
        BY <3>1, <3>3 DEF LeaveFanout, NoPump, srcVars, txVars
      <3>4. QED
        BY <1>5, <3>2, <3>3
    <2>2. \A t \in Sources : <<t, "rx">> \in Events
      BY DEF Events
    <2>3. \A v \in Users, t \in Sources : Holds(v, t)' => Holds(v, t)
      BY <2>1, <2>2 DEF Holds
    <2>4. QED
      BY <2>1, <2>3, LookUpKeeps
  <1>6. ASSUME NEW c \in Callers, NEW who \in Sinks \cup {NULL}, TxCheckSource(c, who)
        PROVE  UseInv'
    <2>1. /\ UNCHANGED <<source, rx_sink, late, pump>>
          /\ \A d \in Callers : d # c => call'[d] = call[d]
          /\ call'[c].pc \in {"lock", "tx"} => call'[c].src = source
      BY <1>6 DEF TxCheckSource, Return, NoCall, TypeOK, srcVars, rxVars
    <2>2. \A v \in Users, t \in Sources : Holds(v, t)' => Holds(v, t) \/ t = source
      BY <2>1 DEF Holds
    <2>3. QED
      BY <2>1, <2>2, LookUpKeeps
  <1>7. ASSUME NEW c \in Callers, TxLockCheck(c) \/ TxStamp(c)
        PROVE  UseInv'
    <2>1. /\ UNCHANGED <<source, rx_sink, late, pump>>
          /\ \A d \in Callers : d # c => call'[d] = call[d]
          /\ call'[c].pc \in {"lock", "tx"} => call[c].pc = "lock" /\ call'[c].src = call[c].src
      BY <1>7 DEF TxLockCheck, TxStamp, Goto, Return, NoCall, TypeOK, CallState, srcVars, rxVars
    <2>2. \A v \in Users, t \in Sources : Holds(v, t)' => Holds(v, t)
      BY <2>1 DEF Holds
    <2>3. QED
      BY <2>1, <2>2, LookUpKeeps
  <1>8. ASSUME NEW c \in Callers, SourceTx(c)
        PROVE  UseInv'
    <2>1. /\ UNCHANGED <<source, rx_sink, pump>>
          /\ \A d \in Callers : d # c => call'[d] = call[d]
          /\ call[c].pc = "tx" /\ call'[c].pc \notin {"lock", "tx"}
      BY <1>8 DEF SourceTx, Goto, Return, NoCall, TypeOK, CallState, srcVars, rxVars
    <2>2. PICK s \in Sources : s = call[c].src
      BY <2>1 DEF TypeOK, CallState
    <2>3. Holds(c, s) /\ ~Holds(c, s)' /\ Uses(c, s) /\ c \in Users
      BY <1>8, <2>1, <2>2 DEF SourceTx, Holds, Users
    <2>4. \A v \in Users, t \in Sources : Holds(v, t)' => Holds(v, t)
      BY <2>1 DEF Holds
    <2>5. QED
      BY <2>1, <2>3, <2>4, UseKeeps
  <1>9. ASSUME UNCHANGED <<source, rx_sink, late, call, pump>>
        PROVE  UseInv'
    BY <1>9, LookUpKeeps DEF Holds
  <1>10. QED
    BY <1>1, <1>2, <1>3, <1>4, <1>5, <1>6, <1>7, <1>8, <1>9
    DEF Next, Wiring, SourceReadyChanges, bridge_attach_sink, Fanout, Transmit, TxStep, Operator,
        SetTxAuto, PinTxMaster, Tick, vars, srcVars, txVars, rxVars

\* A source that was detached or replaced is used at most once more by its
\* receive path and by each task that was transmitting: for any number of
\* sources and tasks, and however often sources are swapped.
THEOREM DetachedUsedAtMostOnce == Spec => []DetachedUsedOnce
  <1>1. Init => UseInv
    BY BridgeAssumption
    DEF Init, bridge_init, UseInv, DetachedUsedOnce, WiredIsAttached, AttachedNotLate,
        LateHoldsNoMore
  <1>2. UseInv => DetachedUsedOnce
    BY DEF UseInv
  <1>3. QED
    BY <1>1, <1>2, UseStep, TypeCorrect, PTL DEF Spec

-----------------------------------------------------------------------------
(***************************************************************************)
(* The fanout.  FanoutExact is not inductive: that a sink attached in the  *)
(* middle of a fanout starts even needs to know that the snapshot is never *)
(* longer than the table.                                                  *)
(***************************************************************************)
SnapshotWithinTable ==
    \A e \in Events : pump[e].pc = "fan" =>
        pump[e].n <= Len(sinks) /\ 1 <= pump[e].next /\ pump[e].next <= pump[e].n + 1

\* The inductive invariant of the fanout.
FanoutInv == FanoutExact /\ SnapshotWithinTable

\* Every step of the bridge preserves the strengthened invariant.
LEMMA FanoutStep == TypeOK /\ FanoutInv /\ [Next]_vars => FanoutInv'
  <1> SUFFICES ASSUME TypeOK, FanoutInv, [Next]_vars
               PROVE  FanoutInv'
    OBVIOUS
  <1> USE BridgeAssumption
  <1>0. DOMAIN sinks = 1..Len(sinks) /\ Len(sinks) \in Nat /\ Len(sinks) <= BRIDGE_MAX_SINKS
    BY DEF TypeOK
  <1>1. ASSUME NEW s \in Sinks, NEW id \in Ids \cup {NULL}, bridge_attach_sink(s, id)
        PROVE  FanoutInv'
    <2>1. DOMAIN sinks' = 1..Len(sinks') /\ Len(sinks') = Len(sinks) + 1
      BY <1>1 DEF bridge_attach_sink, TypeOK
    <2>2. Len(sinks) + 1 \in SinkIdx
      BY <1>1, <1>0 DEF bridge_attach_sink, SinkIdx
    <2>3. /\ heard' = [heard EXCEPT ![Len(sinks) + 1] = sent]
          /\ UNCHANGED <<pump, sent>>
      BY <1>1 DEF bridge_attach_sink
    <2>4. heard'[Len(sinks) + 1] = sent
      BY <2>2, <2>3 DEF TypeOK
    <2>5. \A i \in 1..Len(sinks) : i \in SinkIdx /\ heard'[i] = heard[i]
      BY <1>0, <2>3 DEF TypeOK, SinkIdx
    <2>6. SnapshotWithinTable'
      BY <1>0, <2>1, <2>3 DEF SnapshotWithinTable, FanoutInv, TypeOK, PumpState
    <2>8. ASSUME NEW i \in SinkIdx, i = Len(sinks) + 1, NEW e \in Events
          PROVE  heard'[i][e] + (IF Pending(i, e)' THEN 1 ELSE 0) = sent'[e]
      <3>2. pump[e] \in PumpState /\ sent[e] \in Nat
        BY DEF TypeOK
      <3>3. ~Pending(i, e)'
        BY <1>0, <2>3, <2>8, <3>2 DEF Pending, FanoutInv, SnapshotWithinTable, PumpState
      <3>4. QED
        BY <2>3, <2>4, <2>8, <3>2, <3>3
    <2>9. ASSUME NEW i \in 1..Len(sinks), NEW e \in Events
          PROVE  heard'[i][e] + (IF Pending(i, e)' THEN 1 ELSE 0) = sent'[e]
      <3>1. Pending(i, e)' <=> Pending(i, e)
        BY <2>3 DEF Pending
      <3>2. QED
        BY <1>0, <2>3, <2>5, <3>1 DEF FanoutInv, FanoutExact
    <2>10. FanoutExact'
      <3>1. \A i \in DOMAIN sinks' : i \in 1..Len(sinks) \/ (i \in SinkIdx /\ i = Len(sinks) + 1)
        BY <1>0, <2>1, <2>2
      <3>2. QED
        BY <2>8, <2>9, <3>1 DEF FanoutExact
    <2>11. QED
      BY <2>6, <2>10 DEF FanoutInv
  <1>2. ASSUME NEW e \in Events, EnterFanout(e) \/ SnapshotSinks(e) \/ LeaveFanout(e)
        PROVE  FanoutInv'
    <2>1. UNCHANGED <<sinks, heard>>
      BY <1>2 DEF EnterFanout, SnapshotSinks, LeaveFanout
    <2>2. \A f \in Events \ {e} : pump'[f] = pump[f] /\ sent'[f] = sent[f]
      BY <1>2 DEF EnterFanout, SnapshotSinks, LeaveFanout, TypeOK
    <2>3. pump[e] \in PumpState /\ sent[e] \in Nat
      BY DEF TypeOK
    <2>4. \/ pump[e].pc # "fan" /\ pump'[e].pc # "fan" /\ sent'[e] = sent[e]
          \/ /\ pump[e].pc # "fan"
             /\ pump'[e] = [pc |-> "fan", n |-> Len(sinks), next |-> 1]
             /\ sent'[e] = sent[e] + 1
          \/ /\ pump[e].next > pump[e].n
             /\ pump'[e].pc # "fan" /\ sent'[e] = sent[e]
      BY <1>2, <2>3 DEF EnterFanout, SnapshotSinks, LeaveFanout, NoPump, TypeOK, PumpState
    <2>5. SnapshotWithinTable'
      BY <1>0, <2>1, <2>2, <2>4 DEF SnapshotWithinTable, FanoutInv
    <2>7. ASSUME NEW i \in 1..Len(sinks)
          PROVE  heard[i][e] + (IF Pending(i, e)' THEN 1 ELSE 0) = sent'[e]
      <3>1. heard[i][e] \in Nat
        BY <1>0 DEF TypeOK, SinkIdx
      <3>2. heard[i][e] + (IF Pending(i, e) THEN 1 ELSE 0) = sent[e]
        BY <1>0 DEF FanoutInv, FanoutExact
      <3>3. QED
        BY <1>0, <2>3, <2>4, <3>1, <3>2 DEF Pending, PumpState
    <2>8. ASSUME NEW i \in 1..Len(sinks), NEW f \in Events \ {e}
          PROVE  heard[i][f] + (IF Pending(i, f)' THEN 1 ELSE 0) = sent'[f]
      <3>1. Pending(i, f)' <=> Pending(i, f)
        BY <2>2 DEF Pending
      <3>2. QED
        BY <1>0, <2>2, <3>1 DEF FanoutInv, FanoutExact
    <2>9. FanoutExact'
      BY <1>0, <2>1, <2>7, <2>8 DEF FanoutExact
    <2>10. QED
      BY <2>5, <2>9 DEF FanoutInv
  <1>3. ASSUME NEW e \in Events, CallSink(e)
        PROVE  FanoutInv'
    <2> DEFINE k == pump[e].next
    <2>1. UNCHANGED <<sinks, sent>>
      BY <1>3 DEF CallSink
    <2>2. pump[e] \in PumpState /\ sent[e] \in Nat
      BY DEF TypeOK
    <2>3. k \in 1..Len(sinks) /\ k <= pump[e].n /\ k \in SinkIdx
      BY <1>0, <1>3, <2>2 DEF CallSink, FanoutInv, SnapshotWithinTable, PumpState, SinkIdx
    <2>4. /\ pump'[e].pc = "fan" /\ pump'[e].n = pump[e].n /\ pump'[e].next = k + 1
          /\ \A f \in Events \ {e} : pump'[f] = pump[f]
      BY <1>3, <2>2 DEF CallSink, TypeOK, PumpState
    <2>5. heard' = [heard EXCEPT ![k] = [heard[k] EXCEPT ![e] = heard[k][e] + 1]]
      BY <1>3 DEF CallSink
    <2>6. heard'[k][e] = heard[k][e] + 1
      BY <2>3, <2>5 DEF TypeOK
    <2>7. \A i \in SinkIdx, f \in Events : (i # k \/ f # e) => heard'[i][f] = heard[i][f]
      BY <2>3, <2>5 DEF TypeOK
    <2>8. SnapshotWithinTable'
      <3>1. \A f \in Events \ {e} : pump'[f].pc = "fan" =>
               /\ pump'[f].n <= Len(sinks') /\ 1 <= pump'[f].next
               /\ pump'[f].next <= pump'[f].n + 1
        BY <2>1, <2>4 DEF SnapshotWithinTable, FanoutInv
      <3>2. /\ pump'[e].n <= Len(sinks') /\ 1 <= pump'[e].next
            /\ pump'[e].next <= pump'[e].n + 1
        BY <1>0, <1>3, <2>1, <2>2, <2>3, <2>4
        DEF CallSink, SnapshotWithinTable, FanoutInv, PumpState
      <3>3. QED
        BY <3>1, <3>2 DEF SnapshotWithinTable
    <2>10. ASSUME NEW i \in 1..Len(sinks), NEW f \in Events
           PROVE  heard'[i][f] + (IF Pending(i, f)' THEN 1 ELSE 0) = sent[f]
      <3>0. i \in SinkIdx
        BY <1>0 DEF TypeOK, SinkIdx
      <3>1. i \in SinkIdx /\ heard[i][f] \in Nat
        BY <3>0 DEF TypeOK
      <3>2. heard[i][f] + (IF Pending(i, f) THEN 1 ELSE 0) = sent[f]
        BY <1>0 DEF FanoutInv, FanoutExact
      <3>3. CASE f # e
        BY <2>4, <2>7, <3>1, <3>2, <3>3 DEF Pending
      <3>4. CASE f = e /\ i # k
        <4>1. Pending(i, e)' <=> Pending(i, e)
          BY <1>3, <2>2, <2>3, <2>4, <3>4 DEF Pending, CallSink, PumpState
        <4>2. QED
          BY <2>7, <3>1, <3>2, <3>4, <4>1
      <3>5. CASE f = e /\ i = k
        <4>1. Pending(i, e) /\ ~Pending(i, e)'
          BY <1>3, <2>2, <2>3, <2>4, <3>5 DEF Pending, CallSink, PumpState
        <4>2. heard'[i][e] = heard[i][e] + 1
          BY <2>6, <3>5
        <4>3. QED
          BY <2>2, <3>1, <3>2, <3>5, <4>1, <4>2
      <3>6. QED
        BY <3>3, <3>4, <3>5
    <2>11. FanoutExact'
      BY <1>0, <2>1, <2>10 DEF FanoutExact
    <2>12. QED
      BY <2>8, <2>11 DEF FanoutInv
  <1>4. ASSUME UNCHANGED <<sinks, rxVars>>
        PROVE  FanoutInv'
    BY <1>4 DEF FanoutInv, FanoutExact, SnapshotWithinTable, Pending, rxVars
  <1>5. QED
    BY <1>1, <1>2, <1>3, <1>4
    DEF Next, Wiring, bridge_attach_source, bridge_detach_source, SourceReadyChanges, Fanout,
        Transmit, TxStep, TxCheckSource, TxLockCheck, SourceTx, TxStamp, Operator, SetTxAuto,
        PinTxMaster, Tick, vars

\* The fanout hands every event of every source to every sink exactly once,
\* whatever sinks are attached while it runs.
THEOREM FanoutCorrect == Spec => []FanoutExact
  <1>1. Init => FanoutInv
    <2> SUFFICES ASSUME Init PROVE FanoutInv
      OBVIOUS
    <2>1. sinks = <<>> /\ DOMAIN sinks = {}
      BY DEF Init, bridge_init
    <2>2. FanoutExact
      BY <2>1 DEF FanoutExact
    <2>3. SnapshotWithinTable
      BY DEF Init, NoPump, SnapshotWithinTable
    <2>4. QED
      BY <2>2, <2>3 DEF FanoutInv
  <1>2. FanoutInv => FanoutExact
    BY DEF FanoutInv
  <1>3. QED
    BY <1>1, <1>2, FanoutStep, TypeCorrect, PTL DEF Spec
-----------------------------------------------------------------------------
(***************************************************************************)
(* The TX lock implements module TxMaster.                                 *)
(***************************************************************************)

\* Who is writing, as a predicate: the form in which the steps below use it.
LEMMA WritersMember ==
  \A s : s \in Writers <=>
            s # NULL /\ \E c \in Callers : call[c].pc \in {"tx", "stamp"} /\ call[c].who = s
  BY DEF Writers

\* The same in the next state.
LEMMA WritersMemberPrimed ==
  \A s : s \in Writers' <=>
            s # NULL /\ \E c \in Callers : call'[c].pc \in {"tx", "stamp"} /\ call'[c].who = s
  BY DEF Writers

\* A transfer that leaves takes at most its own sink out of the writers.
LEMMA LeavesWriters ==
  ASSUME NEW c \in Callers, NEW r, TypeOK, call[c].pc \in {"tx", "stamp"}, Return(c, r)
  PROVE  /\ call[c].who # NULL => /\ call[c].who \in Writers
                                  /\ Writers' \in {Writers, Writers \ {call[c].who}}
         /\ call[c].who = NULL => Writers' = Writers
  <1> DEFINE w == call[c].who
  <1>1. call'[c].pc = "idle" /\ \A d \in Callers \ {c} : call'[d] = call[d]
    BY DEF Return, NoCall, TypeOK
  <1>2. \A s : s \in Writers' => s \in Writers
    BY <1>1, WritersMember, WritersMemberPrimed
  <1>3. \A s : s \in Writers /\ s # w => s \in Writers'
    BY <1>1, WritersMember, WritersMemberPrimed
  <1>4. NULL \notin Writers
    BY WritersMember
  <1>5. w # NULL => w \in Writers
    BY WritersMember
  <1> HIDE DEF w
  <1>6. w = NULL => Writers' = Writers
    BY <1>2, <1>3, <1>4
  <1>7. CASE w \in Writers'
    <2>1. Writers' = Writers
      BY <1>2, <1>3, <1>7
    <2>2. QED
      BY <1>5, <1>6, <2>1 DEF w
  <1>8. CASE w \notin Writers'
    <2>1. Writers' = Writers \ {w}
      BY <1>2, <1>3, <1>8
    <2>2. QED
      BY <1>5, <1>6, <2>1 DEF w
  <1>9. QED
    BY <1>7, <1>8

\* A step of a caller that neither enters nor leaves a sink's transfer.
LEMMA KeepsWriters ==
  ASSUME NEW c \in Callers, TypeOK,
         \A d \in Callers \ {c} : call'[d] = call[d],
         (call[c].pc \in {"tx", "stamp"} /\ call[c].who # NULL)
            <=> (call'[c].pc \in {"tx", "stamp"} /\ call'[c].who # NULL),
         call[c].pc \in {"tx", "stamp"} => call'[c].who = call[c].who
  PROVE  Writers' = Writers
  <1>1. \A s : s \in Writers' <=> s \in Writers
    BY WritersMember, WritersMemberPrimed
  <1>2. QED
    BY <1>1

\* The entries of the sink table hold sinks.
LEMMA EntrySink ==
  ASSUME TypeOK, NEW i \in 1..Len(sinks)
  PROVE  sinks[i].sink \in Sinks
  <1>1. sinks \in Seq(SinkEntry)
    BY DEF TypeOK
  <1>2. sinks[i] \in SinkEntry
    BY <1>1
  <1>3. QED
    BY <1>2 DEF SinkEntry

\* The steps of TxMaster, the one that breaks its promise included.
LateNext == TM!Next \/ \E s \in Sinks : TM!Overtake(s)

\* Every step of the bridge is one of them or leaves the lock alone.
LEMMA LockStep == TypeOK /\ [Next]_vars => [LateNext]_(TM!tmVars)
  <1> SUFFICES ASSUME TypeOK, [Next]_vars
               PROVE  [LateNext]_(TM!tmVars)
    OBVIOUS
  <1> USE BridgeAssumption
  <1>0. Len(sinks) \in Nat /\ DOMAIN sinks = 1..Len(sinks) /\ tx_owner_idx \in 0..Len(sinks)
    BY DEF TypeOK
  <1>1. ASSUME UNCHANGED <<sinks, txVars>>
        PROVE  UNCHANGED TM!tmVars
    BY <1>1 DEF txVars, TM!tmVars, Pinned, Master, Silent, Writers
  <1>2. ASSUME NEW s \in Sinks, NEW id \in Ids \cup {NULL}, bridge_attach_sink(s, id)
        PROVE  UNCHANGED TM!tmVars
    <2>1. tx_owner_idx # 0 => sinks'[tx_owner_idx] = sinks[tx_owner_idx]
      BY <1>0, <1>2 DEF bridge_attach_sink, TypeOK
    <2>2. UNCHANGED txVars
      BY <1>2 DEF bridge_attach_sink
    <2>3. Master' = Master
      BY <2>1, <2>2 DEF Master, txVars
    <2>4. QED
      BY <2>2, <2>3 DEF txVars, TM!tmVars, Pinned, Silent, Writers
  <1>3. ASSUME NEW c \in Callers, NEW who \in Sinks \cup {NULL}, TxCheckSource(c, who)
        PROVE  UNCHANGED TM!tmVars
    <2>1. /\ call[c].pc = "idle"
          /\ \A d \in Callers \ {c} : call'[d] = call[d]
          /\ ~(call'[c].pc \in {"tx", "stamp"} /\ call'[c].who # NULL)
      BY <1>3 DEF TxCheckSource, Return, NoCall, TypeOK
    <2>2. Writers' = Writers
      BY <2>1, KeepsWriters
    <2>3. UNCHANGED <<sinks, tx_mode, tx_owner_idx, tx_age>>
      BY <1>3 DEF TxCheckSource
    <2>4. QED
      BY <2>2, <2>3 DEF TM!tmVars, Pinned, Master, Silent
  <1>4. ASSUME NEW c \in Callers, TxLockCheck(c)
        PROVE  [LateNext]_(TM!tmVars)
    <2> DEFINE w == call[c].who
               idx == find_sink_idx(w)
    <2>1. /\ idx \in 0..Len(sinks)
          /\ idx # 0 => sinks[idx].sink = w /\ w \in Sinks
      BY <1>0, FindSinkIdx, EntrySink
    <2>2. UNCHANGED <<sinks, tx_mode, tx_age>>
      BY <1>4 DEF TxLockCheck
    <2>3. ASSUME TxAllowed(idx), tx_owner_idx' = idx, Goto(c, "tx")
          PROVE  (TM!Admit(w) \/ TM!Overtake(w)) /\ w \in Sinks
      <3>1. idx # 0
        BY <2>3 DEF TxAllowed
      <3>2. Master' = w
        BY <2>1, <2>2, <2>3, <3>1 DEF Master
      <3>3. Master = w \/ TM!Free \/ (~Pinned /\ Silent /\ Writers # {})
        <4>1. CASE idx = tx_owner_idx
          BY <2>1, <3>1, <4>1 DEF Master
        <4>2. CASE tx_mode = "AUTO" /\ Idle
          BY <4>2 DEF TM!Free, Master, Pinned, Silent, Idle
        <4>3. QED
          BY <2>3, <4>1, <4>2 DEF TxAllowed
      <3>4. /\ call'[c].pc = "tx" /\ call'[c].who = w
            /\ call[c].pc = "lock"
            /\ \A d \in Callers \ {c} : call'[d] = call[d]
        BY <1>4, <2>3 DEF Goto, TxLockCheck, TypeOK, CallState
      <3>5. w # NULL
        BY <2>1, <3>1
      <3>6. \A s : s \in Writers' <=> s \in Writers \cup {w}
        BY <3>4, <3>5, WritersMember, WritersMemberPrimed
      <3>7. Writers' = Writers \cup {w}
        BY <3>6
      <3>8. Pinned' = Pinned /\ Silent' = Silent
        BY <2>2 DEF Pinned, Silent
      <3>9. QED
        BY <2>1, <3>1, <3>2, <3>3, <3>7, <3>8 DEF TM!Admit, TM!Overtake, TM!Take
    <2>4. ASSUME Return(c, "TX_LOCKED"), UNCHANGED tx_owner_idx
          PROVE  UNCHANGED TM!tmVars
      <3>1. /\ call[c].pc = "lock" /\ call'[c].pc = "idle"
            /\ \A d \in Callers \ {c} : call'[d] = call[d]
        BY <1>4, <2>4 DEF Return, NoCall, TxLockCheck, TypeOK
      <3>2. Writers' = Writers
        BY <3>1, KeepsWriters
      <3>3. QED
        BY <2>2, <2>4, <3>2 DEF TM!tmVars, Pinned, Master, Silent
    <2>5. (\E s \in Sinks : TM!Admit(s) \/ TM!Overtake(s)) => LateNext
      BY DEF LateNext, TM!Next
    <2>6. QED
      BY <1>4, <2>3, <2>4, <2>5 DEF TxLockCheck
  <1>5. ASSUME NEW c \in Callers, SourceTx(c)
        PROVE  [LateNext]_(TM!tmVars)
    <2>1. UNCHANGED <<Pinned, Master, Silent>>
      BY <1>5 DEF SourceTx, Pinned, Master, Silent
    <2>2. call[c].pc = "tx" /\ call[c].who \in Sinks \cup {NULL}
      BY <1>5 DEF SourceTx, TypeOK, CallState
    <2>3. ASSUME Goto(c, "stamp")
          PROVE  Writers' = Writers
      <3>1. /\ call'[c].pc = "stamp" /\ call'[c].who = call[c].who
            /\ \A d \in Callers \ {c} : call'[d] = call[d]
        BY <2>3 DEF Goto, TypeOK, CallState
      <3>2. QED
        BY <2>2, <3>1, KeepsWriters
    <2>4. ASSUME Return(c, "FAIL")
          PROVE  Writers' = Writers \/ \E s \in Sinks : TM!Finish(s)
      BY <2>1, <2>2, <2>4, LeavesWriters DEF TM!Finish
    <2>5. QED
      BY <1>5, <2>1, <2>3, <2>4 DEF SourceTx, LateNext, TM!Next, TM!tmVars
  <1>6. ASSUME NEW c \in Callers, TxStamp(c)
        PROVE  LateNext
    <2>1. UNCHANGED <<Pinned, Master>> /\ Silent' = FALSE
      BY <1>6 DEF TxStamp, Pinned, Master, Silent
    <2>2. call[c].pc = "stamp" /\ call[c].who \in Sinks \cup {NULL} /\ Return(c, "OK")
      BY <1>6 DEF TxStamp, TypeOK, CallState
    <2>3. CASE call[c].who = NULL
      BY <2>1, <2>2, <2>3, LeavesWriters DEF LateNext, TM!Next, TM!SystemSent
    <2>4. CASE call[c].who # NULL
      BY <2>1, <2>2, <2>4, LeavesWriters DEF LateNext, TM!Next, TM!Finish
    <2>5. QED
      BY <2>3, <2>4
  <1>7. ASSUME SetTxAuto
        PROVE  TM!Auto
    BY <1>7 DEF SetTxAuto, TM!Auto, Pinned, Master, Silent, Writers
  <1>8. ASSUME NEW id \in Ids, PinTxMaster(id)
        PROVE  \E s \in Sinks : TM!Pin(s)
    <2> DEFINE i == find_sink_id(id)
    <2>1. i \in 1..Len(sinks)
      BY <1>0, <1>8, FindSinkId DEF PinTxMaster
    <2>2. sinks[i].sink \in Sinks
      BY <2>1, EntrySink
    <2>3. Pinned' = TRUE /\ Master' = sinks[i].sink /\ UNCHANGED <<Silent, Writers>>
      BY <1>8, <2>1 DEF PinTxMaster, Pinned, Master, Silent, Writers
    <2>4. QED
      BY <2>2, <2>3 DEF TM!Pin
  <1>9. ASSUME Tick
        PROVE  TM!IdleTimeout \/ UNCHANGED TM!tmVars
    <2>1. UNCHANGED <<Pinned, Master, Writers>> /\ Silent = FALSE
      BY <1>9 DEF Tick, Pinned, Master, Silent, Writers, TypeOK
    <2>2. Silent' = TRUE \/ Silent' = FALSE
      BY DEF Silent
    <2>3. QED
      BY <2>1, <2>2 DEF TM!IdleTimeout, TM!tmVars
  <1>10. QED
    BY <1>1, <1>2, <1>3, <1>4, <1>5, <1>6, <1>7, <1>8, <1>9
    DEF Next, Wiring, bridge_attach_source, bridge_detach_source, SourceReadyChanges, Fanout,
        EnterFanout, SnapshotSinks, CallSink, LeaveFanout, Transmit, TxStep, Operator,
        LateNext, TM!Next, vars

\* But for one kind of step the bridge implements the single-writer lock of
\* bridge.h: a sink writes only after it was admitted as master, a pinned master
\* changes only by the operator's hand, and AUTO mode changes the master only
\* when there is none or when no transfer has been completed for the idle time.
\* In that last case, and in no other, it does so with a transfer under way.
THEOREM LockRefinement == Spec => OvertakesOnlyInSilence
  <1>1. Init => TM!Init
    <2> SUFFICES ASSUME Init PROVE TM!Init
      OBVIOUS
    <2>1. Writers = {}
      <3>1. \A c \in Callers : call[c].pc = "idle"
        BY DEF Init, NoCall
      <3>2. QED
        BY <3>1 DEF Writers
    <2>2. Pinned = FALSE /\ Master = NULL /\ Silent \in BOOLEAN
      BY DEF Init, bridge_init, Pinned, Master, Silent
    <2>3. QED
      BY <2>1, <2>2 DEF TM!Init
  <1>2. QED
    BY <1>1, LockStep, TypeCorrect, PTL DEF Spec, OvertakesOnlyInSilence, TM!SpecWithOvertaking, LateNext
=============================================================================
