------------------------------- MODULE Bridge -------------------------------
(***************************************************************************)
(* firmware/main/bridge.c: one source, a table of sinks, the fanout of     *)
(* what the source receives, and the TX lock that lets one sink at a time  *)
(* be the source's TX master.                                              *)
(*                                                                         *)
(* The bridge has no task of its own.  Its functions run in the tasks of   *)
(* their callers and every one of them is a sequence of critical sections  *)
(* under s_br.mtx with unlocked calls into sources and sinks in between;   *)
(* an action is one such section, or one unlocked call.                    *)
(*                                                                         *)
(* Time enters only through now - tx_last_us > BRIDGE_TX_AUTO_IDLE_US.     *)
(* tx_age stands for now - tx_last_us in ticks and saturates one tick      *)
(* above the limit, where the comparison no longer changes.  Statistics    *)
(* that are only displayed are left out.                                   *)
(***************************************************************************)
EXTENDS Integers, Sequences, FiniteSets

CONSTANTS
    Sinks,              \* the sink_t objects
    Ids,                \* the short ids sinks are attached under
    Sources,            \* the source_t objects
    Callers,            \* the tasks that call bridge_tx_to_source
    NULL,               \* the NULL pointer, the empty id
    BRIDGE_MAX_SINKS,   \* size of the sink table
    IdleTicks,          \* BRIDGE_TX_AUTO_IDLE_US in ticks of the model's clock
    MaxPumps,           \* bound: chunks each source delivers
    MaxDowns            \* bound: times each source signals that it is down

ASSUME BridgeAssumption ==
    /\ NULL \notin Sinks \cup Ids \cup Sources
    /\ "rx" \notin Callers
    /\ BRIDGE_MAX_SINKS \in Nat \ {0}
    /\ IdleTicks \in Nat
    /\ MaxPumps \in Nat
    /\ MaxDowns \in Nat

VARIABLES
    source,         \* s_br.source
    rx_sink,        \* the sources whose rx_sink is bridge_on_source_rx
    ready,          \* the sources whose ready() is true (set by the source)
    sinks,          \* s_br.sinks[] and s_br.sink_ids[], sink_count long
    tx_mode,        \* s_br.tx_mode
    tx_owner_idx,   \* s_br.tx_owner_idx; 0 is the code's -1, nobody
    tx_age,         \* now - s_br.tx_last_us, saturated
    call,           \* the activation of bridge_tx_to_source in each caller
    pump,           \* the fanout under way, per source and kind of event
    sent,           \* history: fanouts begun, likewise
    heard,          \* history: events each sink has been handed, and those
                    \* whose fanout had begun before it was attached
    late            \* history: uses of a source since it was unwired, per user

txVars  == <<tx_mode, tx_owner_idx, tx_age, call>>
rxVars  == <<pump, sent, heard>>
srcVars == <<source, rx_sink, ready>>
vars    == <<srcVars, sinks, txVars, rxVars, late>>

\* What a fanout carries: received bytes or the news that the device is gone.
Events  == Sources \X {"rx", "down"}
SinkIdx == 1..BRIDGE_MAX_SINKS

\* Who works with a source without holding the mutex: the receive path of the
\* source and the tasks inside bridge_tx_to_source.
Users   == Callers \cup {"rx"}
TxPc    == {"idle", "lock", "tx", "stamp"}
Results == {"none", "OK", "INVALID_STATE", "TX_LOCKED", "FAIL"}

SinkEntry == [sink : Sinks, id : Ids \cup {NULL}]
CallState == [pc : TxPc, who : Sinks \cup {NULL}, src : Sources \cup {NULL}, ret : Results]
PumpState == [pc : {"idle", "entered", "fan"}, n : Nat, next : Nat]

NoPump == [pc |-> "idle", n |-> 0, next |-> 1]
NoCall(ret) == [pc |-> "idle", who |-> NULL, src |-> NULL, ret |-> ret]

(***************************************************************************)
(* find_sink_idx_locked and find_sink_id_locked: the first entry that      *)
(* matches, 0 (the code's -1) when there is none.                          *)
(***************************************************************************)
FirstIdx(S) ==
    LET first == {i \in S : \A j \in S : i <= j}
    IN  IF first = {} THEN 0 ELSE CHOOSE i \in first : TRUE

find_sink_idx(who) == FirstIdx({i \in DOMAIN sinks : sinks[i].sink = who})
find_sink_id(id)   == FirstIdx({i \in DOMAIN sinks : sinks[i].id = id})

-----------------------------------------------------------------------------
bridge_init ==
    /\ source = NULL
    /\ rx_sink = {}
    /\ sinks = <<>>
    /\ tx_mode = "AUTO"
    /\ tx_owner_idx = 0
    /\ tx_age = IdleTicks + 1

Init ==
    /\ bridge_init
    /\ ready = {}
    /\ call = [c \in Callers |-> NoCall("none")]
    /\ pump = [e \in Events |-> NoPump]
    /\ sent = [e \in Events |-> 0]
    /\ heard = [i \in SinkIdx |-> [e \in Events |-> 0]]
    /\ late = [s \in Sources |-> [u \in Users |-> 0]]

\* Mutant: the swap leaves the old source wired.
attach_source_KeepsOldWired(s) ==
    /\ rx_sink' = rx_sink \cup {s}
    /\ source' = s
    /\ late' = [late EXCEPT ![s] = [u \in Users |-> 0]]
    /\ UNCHANGED <<ready, sinks, txVars, rxVars>>

\* bridge_attach_source: a source that was attached before is unwired first.
bridge_attach_source(s) ==
    /\ rx_sink' = (rx_sink \ {source}) \cup {s}
    /\ source' = s
    /\ late' = [late EXCEPT ![s] = [u \in Users |-> 0]]
    /\ UNCHANGED <<ready, sinks, txVars, rxVars>>

bridge_detach_source(s) ==
    /\ source = s
    /\ rx_sink' = rx_sink \ {s}
    /\ source' = NULL
    /\ UNCHANGED <<ready, sinks, txVars, rxVars, late>>

\* u works with s, which may have been detached since u looked it up.
Uses(u, s) ==
    late' = IF s = source THEN late ELSE [late EXCEPT ![s][u] = @ + 1]

\* bridge_attach_sink; main.c attaches a sink at most once.  With the table
\* full the call returns ESP_ERR_NO_MEM and changes nothing.
bridge_attach_sink(s, id) ==
    /\ find_sink_idx(s) = 0
    /\ Len(sinks) < BRIDGE_MAX_SINKS
    /\ sinks' = Append(sinks, [sink |-> s, id |-> id])
    /\ heard' = [heard EXCEPT ![Len(sinks) + 1] = sent]
    /\ UNCHANGED <<srcVars, txVars, pump, sent, late>>

\* The device behind a source comes up or goes away.
SourceReadyChanges(s) ==
    /\ ready' \in {ready \cup {s}, ready \ {s}}
    /\ UNCHANGED <<source, rx_sink, sinks, txVars, rxVars, late>>

-----------------------------------------------------------------------------
(***************************************************************************)
(* bridge_on_source_rx and bridge_notify_source_down: snapshot the table   *)
(* under the mutex, then call the sinks one by one without it.             *)
(***************************************************************************)

\* The source's receive path has read rx_sink and is about to call it; a
\* source signals its going down without looking at rx_sink.
EnterFanout(e) ==
    /\ pump[e].pc = "idle"
    /\ sent[e] < (IF e[2] = "rx" THEN MaxPumps ELSE MaxDowns)
    /\ e[2] = "rx" => e[1] \in rx_sink
    /\ pump' = [pump EXCEPT ![e].pc = "entered"]
    /\ UNCHANGED <<srcVars, sinks, txVars, sent, heard, late>>

SnapshotSinks(e) ==
    /\ pump[e].pc = "entered"
    /\ pump' = [pump EXCEPT ![e] = [pc |-> "fan", n |-> Len(sinks), next |-> 1]]
    /\ sent' = [sent EXCEPT ![e] = @ + 1]
    /\ IF e[2] = "rx" THEN Uses("rx", e[1]) ELSE UNCHANGED late
    /\ UNCHANGED <<srcVars, sinks, txVars, heard>>

\* Mutant: the loop runs over the live table instead of the snapshot.
CallSink_LiveTable(e) ==
    LET p == pump[e]
    IN  /\ p.pc = "fan"
        /\ p.next <= Len(sinks)
        /\ heard' = [heard EXCEPT ![p.next][e] = @ + 1]
        /\ pump' = [pump EXCEPT ![e].next = @ + 1]
        /\ UNCHANGED <<srcVars, sinks, txVars, sent, late>>

\* sink_on_source_rx / sink_on_source_down on the next sink of the snapshot.
CallSink(e) ==
    LET p == pump[e]
    IN  /\ p.pc = "fan"
        /\ p.next <= p.n
        /\ heard' = [heard EXCEPT ![p.next][e] = @ + 1]
        /\ pump' = [pump EXCEPT ![e].next = @ + 1]
        /\ UNCHANGED <<srcVars, sinks, txVars, sent, late>>

LeaveFanout(e) ==
    /\ pump[e].pc = "fan"
    /\ pump[e].next > pump[e].n
    /\ pump' = [pump EXCEPT ![e] = NoPump]
    /\ UNCHANGED <<srcVars, sinks, txVars, sent, heard, late>>

Fanout(e) ==
    \/ EnterFanout(e)
    \/ SnapshotSinks(e)
    \/ CallSink(e)
    \/ LeaveFanout(e)
-----------------------------------------------------------------------------
(***************************************************************************)
(* bridge_tx_to_source(who, ...), who = NULL for the firmware itself.      *)
(***************************************************************************)
Return(c, ret) == call' = [call EXCEPT ![c] = NoCall(ret)]
Goto(c, pc)    == call' = [call EXCEPT ![c].pc = pc]

\* First section: snapshot the source and test that it is ready.
TxCheckSource(c, who) ==
    /\ call[c].pc = "idle"
    /\ IF source \in ready
       THEN call' = [call EXCEPT ![c] = [pc  |-> IF who = NULL THEN "tx" ELSE "lock",
                                         who |-> who, src |-> source, ret |-> "none"]]
       ELSE Return(c, "INVALID_STATE")
    /\ UNCHANGED <<srcVars, sinks, tx_mode, tx_owner_idx, tx_age, rxVars, late>>

Idle == tx_owner_idx = 0 \/ tx_age > IdleTicks

\* Mutant: the idle timeout also expires a pinned lock.
TxAllowed_IdleUnpins(idx) == idx # 0 /\ (idx = tx_owner_idx \/ Idle)

TxAllowed(idx) ==
    /\ idx # 0
    /\ \/ idx = tx_owner_idx
       \/ tx_mode = "AUTO" /\ Idle

\* Mutant: a rejected call refreshes the time stamp.
TxLockCheck_RejectStamps(c) ==
    LET my_idx == find_sink_idx(call[c].who)
    IN  /\ call[c].pc = "lock"
        /\ \/ TxAllowed(my_idx) /\ tx_owner_idx' = my_idx /\ Goto(c, "tx") /\ UNCHANGED tx_age
           \/ ~TxAllowed(my_idx) /\ tx_age' = 0 /\ Return(c, "TX_LOCKED") /\ UNCHANGED tx_owner_idx
        /\ UNCHANGED <<srcVars, sinks, tx_mode, rxVars, late>>

\* Second section: the lock.  The claim does not touch tx_last_us.
TxLockCheck(c) ==
    LET my_idx == find_sink_idx(call[c].who)
    IN  /\ call[c].pc = "lock"
        /\ \/ /\ TxAllowed(my_idx)
              /\ tx_owner_idx' = my_idx
              /\ Goto(c, "tx")
           \/ /\ ~TxAllowed(my_idx)
              /\ Return(c, "TX_LOCKED")
              /\ UNCHANGED tx_owner_idx
        /\ UNCHANGED <<srcVars, sinks, tx_mode, tx_age, rxVars, late>>

\* source_tx on the snapshot, without the mutex; the transfer may fail.
SourceTx(c) ==
    /\ call[c].pc = "tx"
    /\ Goto(c, "stamp") \/ Return(c, "FAIL")
    /\ Uses(c, call[c].src)
    /\ UNCHANGED <<srcVars, sinks, tx_mode, tx_owner_idx, tx_age, rxVars>>

\* Third section, after a transfer that succeeded.
TxStamp(c) ==
    /\ call[c].pc = "stamp"
    /\ tx_age' = 0
    /\ Return(c, "OK")
    /\ UNCHANGED <<srcVars, sinks, tx_mode, tx_owner_idx, rxVars, late>>

TxStep(c) == TxLockCheck(c) \/ SourceTx(c) \/ TxStamp(c)

\* bridge_set_tx_master: "auto", or the id of a sink; an unknown id changes
\* nothing (ESP_ERR_NOT_FOUND).
SetTxAuto ==
    /\ tx_mode' = "AUTO"
    /\ tx_owner_idx' = 0
    /\ UNCHANGED <<srcVars, sinks, tx_age, call, rxVars, late>>

PinTxMaster(id) ==
    /\ find_sink_id(id) # 0
    /\ tx_mode' = "PINNED"
    /\ tx_owner_idx' = find_sink_id(id)
    /\ UNCHANGED <<srcVars, sinks, tx_age, call, rxVars, late>>

\* A tick of esp_timer_get_time.
Tick ==
    /\ tx_age <= IdleTicks
    /\ tx_age' = tx_age + 1
    /\ UNCHANGED <<srcVars, sinks, tx_mode, tx_owner_idx, call, rxVars, late>>

-----------------------------------------------------------------------------
Wiring ==
    \/ \E s \in Sources : \/ bridge_attach_source(s)
                          \/ bridge_detach_source(s)
                          \/ SourceReadyChanges(s)
    \/ \E s \in Sinks, id \in Ids \cup {NULL} : bridge_attach_sink(s, id)

Transmit ==
    \E c \in Callers : TxStep(c) \/ \E who \in Sinks \cup {NULL} : TxCheckSource(c, who)

Operator == SetTxAuto \/ \E id \in Ids : PinTxMaster(id)

Next ==
    \/ Wiring
    \/ \E e \in Events : Fanout(e)
    \/ Transmit
    \/ Operator
    \/ Tick

Spec == Init /\ [][Next]_vars

\* The clock runs, and a task inside bridge_tx_to_source leaves it: the mutex
\* sections are short and source_tx has a timeout.
Fairness ==
    /\ WF_vars(Tick)
    /\ \A c \in Callers : WF_vars(TxStep(c))

FairSpec == Spec /\ Fairness
-----------------------------------------------------------------------------
\* The type of the state.  A caller past the first section holds a source, and
\* the lock's owner is an entry of the sink table.
TypeOK ==
    /\ source \in Sources \cup {NULL}
    /\ rx_sink \in SUBSET Sources
    /\ ready \in SUBSET Sources
    /\ sinks \in Seq(SinkEntry) /\ Len(sinks) <= BRIDGE_MAX_SINKS
    /\ tx_mode \in {"AUTO", "PINNED"}
    /\ tx_owner_idx \in 0..Len(sinks)
    /\ tx_age \in 0..(IdleTicks + 1)
    /\ call \in [Callers -> CallState]
    /\ \A c \in Callers : call[c].pc # "idle" => call[c].src # NULL
    /\ pump \in [Events -> PumpState]
    /\ sent \in [Events -> Nat]
    /\ heard \in [SinkIdx -> [Events -> Nat]]
    /\ late \in [Sources -> [Users -> Nat]]

\* bridge.h promises that a detached or replaced source is out of the fanout.
\* The receive path and the transmitting tasks look the source up first and use
\* it later, without the mutex, so each may still use one that was detached in
\* between; but only for the chunk it had in hand, never a second time.
DetachedUsedOnce == \A s \in Sources, u \in Users : late[s][u] <= 1

\* The fanout loses and repeats nothing: a sink has been handed every event of
\* every source since it was attached exactly once, but for the event whose
\* fanout has not reached it yet.  The sinks are called without the mutex while
\* others are being attached.
Pending(i, e) ==
    /\ pump[e].pc = "fan"
    /\ pump[e].next <= i
    /\ i <= pump[e].n

FanoutExact ==
    \A i \in DOMAIN sinks, e \in Events :
        heard[i][e] + (IF Pending(i, e) THEN 1 ELSE 0) = sent[e]

\* The refinement mapping: what bridge.h calls pinned, the TX master, a silent
\* line and the sinks whose transfer is under way.
Pinned  == tx_mode = "PINNED"
Master  == IF tx_owner_idx = 0 THEN NULL ELSE sinks[tx_owner_idx].sink
Silent  == tx_age > IdleTicks
Writers == {call[c].who : c \in {d \in Callers : call[d].pc \in {"tx", "stamp"}}} \ {NULL}

TM == INSTANCE TxMaster WITH pinned <- Pinned, master <- Master,
                             silent <- Silent, writers <- Writers

\* The lock is the single-writer lock bridge.h promises (module TxMaster).  It is
\* not: see the finding in the README.
ImplementsTxMaster == TM!Spec

\* It is that lock but for one kind of step: in AUTO mode a sink may overtake
\* the master in the middle of its transfer, and then only when no transfer at
\* all has been completed for the idle time.
OvertakesOnlyInSilence == TM!SpecWithOvertaking

\* The AUTO lock cannot wedge.  Whatever came before (a failed transfer, an
\* owner that died, a detached source), a sink that keeps trying while everyone
\* else is silent and nobody pins the lock gets its transfer through in the end.
AutoTakeover ==
    \A c \in Callers, s \in Sinks :
        (/\ <>[](/\ tx_mode = "AUTO"
                 /\ find_sink_idx(s) # 0
                 /\ call[c].pc # "idle" => call[c].who = s
                 /\ \A d \in Callers \ {c} : call[d].pc = "idle")
         /\ []<>(call[c].pc = "lock"))
        => []<>(call[c].pc = "tx")
=============================================================================
