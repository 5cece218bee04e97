---------------------------- MODULE SinkTcpProofs ---------------------------
(***************************************************************************)
(* Proofs about module SinkTcp, for any number of slots and connections,   *)
(* any set of line codings and every kind of source.                       *)
(***************************************************************************)
EXTENDS SinkTcp, FiniteSetTheorems, TLAPS

(***************************************************************************)
(* The inductive invariant, in parts.                                      *)
(***************************************************************************)

\* accept_task holds a socket from the accept to the start of the client task,
\* and from the admission on the slot it has filled for it.
AcceptOK ==
    /\ acc.pc # "accept" => acc.cs \in Conns /\ pc[acc.cs] = "accepted"
    /\ acc.pc = "spawn" =>
          /\ acc.slot \in Slots
          /\ clients[acc.slot].active /\ clients[acc.slot].sock = acc.cs

\* A task serves the slot that holds its socket, and no active slot is without
\* a task, one about to be started, or one that could not be.
SlotsServed ==
    /\ \A c \in Conns : Held(c) =>
          /\ slot[c] \in Slots
          /\ clients[slot[c]].active /\ clients[slot[c]].sock = c
    /\ \A i \in Slots : clients[i].active =>
          /\ clients[i].sock \in Conns
          /\ \/ acc.pc = "spawn" /\ acc.slot = i /\ acc.cs = clients[i].sock
             \/ Held(clients[i].sock) /\ slot[clients[i].sock] = i

\* A subnegotiation under way has a request.
RequestsOK == \A c \in Conns : pc[c] \in {"subneg", "got"} => loc[c].set \in Requests

TcpInv == TypeOK /\ AcceptOK /\ SlotsServed /\ RequestsOK

-----------------------------------------------------------------------------
(***************************************************************************)
(* Type correctness and the bookkeeping of slots and tasks.                *)
(***************************************************************************)

\* The constants of the state are well typed.
LEMMA Constants ==
    /\ NoLocals \in TaskLocals /\ FreeSlot \in ClientState
    /\ AtAccept \in AcceptState /\ WebIdle \in WebState
    /\ NULL \notin Conns /\ NULL \notin Slots /\ NULL \notin Codings
  BY SinkTcpAssumption
     DEF NoLocals, FreeSlot, AtAccept, WebIdle, TaskLocals, ClientState, AcceptState, WebState

\* The record updates of the actions stay in their types.
LEMMA ClientUpdate ==
    ASSUME NEW r \in ClientState, NEW b \in BOOLEAN
    PROVE  /\ [r EXCEPT !.is_controller = b] \in ClientState
           /\ [r EXCEPT !.active = FALSE, !.sock = NULL, !.is_controller = b] \in ClientState
  BY Constants DEF ClientState

LEMMA LocalsUpdate ==
    ASSUME NEW r \in TaskLocals, NEW v \in Codings, NEW s \in 0..1
    PROVE  [r EXCEPT !.val = v, !.src = s] \in TaskLocals
  BY DEF TaskLocals

\* A request replaces one parameter of a coding.
LEMMA RequestedCoding ==
    ASSUME NEW c \in Conns, loc[c].set \in Requests, loc[c].val \in Codings
    PROVE  Requested(c) \in Codings
  <1>1. CASE loc[c].set \in [param : {"baud"}, value : Bauds]
    <2>1. loc[c].set.param = "baud" /\ loc[c].set.value \in Bauds
      BY <1>1
    <2>2. QED
      BY <2>1 DEF Requested, Codings
  <1>2. CASE loc[c].set \in [param : {"fmt"}, value : Formats]
    <2>1. loc[c].set.param = "fmt" /\ loc[c].set.value \in Formats
      BY <1>2
    <2>2. QED
      BY <2>1 DEF Requested, Codings
  <1>3. QED
    BY <1>1, <1>2 DEF Requests

\* The coding a departing controller falls back to.
LEMMA ResolvedCoding ==
    ASSUME nvs \in Codings \cup {NULL}
    PROVE  Resolve.val \in Codings /\ Resolve.src \in 0..1
  BY SinkTcpAssumption DEF Resolve

LEMMA InitTcpInv == Init => TcpInv
  <1> SUFFICES ASSUME Init
               PROVE  TcpInv
    OBVIOUS
  <1>1. TypeOK
    <2>1. stick \in StickState
      BY SinkTcpAssumption DEF Init, StickState
    <2>2. pc \in [Conns -> TaskPc] /\ budget \in [Conns -> 0..MaxCommands]
      BY SinkTcpAssumption DEF Init, TaskPc
    <2>3. gen \in 0..MaxGens /\ drops \in 0..MaxDrops /\ lc \in Codings
      BY SinkTcpAssumption DEF Init
    <2>4. ready \in BOOLEAN /\ gone \in BOOLEAN /\ kind \in Kinds
      BY DEF Init
    <2>5. clients \in [Slots -> ClientState] /\ slot \in [Conns -> Slots \cup {NULL}]
          /\ loc \in [Conns -> TaskLocals]
      BY Constants DEF Init
    <2>6. acc \in AcceptState /\ web \in WebState /\ active_clients \in Int
          /\ ctrl_client \in Slots \cup {NULL} /\ nvs \in Codings \cup {NULL} /\ lc_source \in 0..2
      BY Constants DEF Init
    <2>7. shut \subseteq Conns /\ hungup \subseteq Conns
      BY DEF Init
    <2>8. QED
      BY <2>1, <2>2, <2>3, <2>4, <2>5, <2>6, <2>7 DEF TypeOK
  <1>2. AcceptOK /\ SlotsServed /\ RequestsOK
    BY DEF Init, AcceptOK, SlotsServed, RequestsOK, Serving, Held, FreeSlot, AtAccept
  <1>3. QED
    BY <1>1, <1>2 DEF TcpInv

\* accept_task rejects a connection: its locals and the sockets stay typed.
LEMMA RejectTypes ==
    ASSUME TypeOK, Reject
    PROVE  /\ acc' \in AcceptState /\ pc' \in [Conns -> TaskPc]
           /\ shut' \subseteq Conns /\ hungup' \subseteq Conns /\ UNCHANGED slotVars
  BY Constants DEF Reject, Close, TypeOK, TaskPc

\* The dropping of all clients leaves typed slots, and shuts down sockets only.
LEMMA DropTypes ==
    ASSUME TcpInv, DropAllClients
    PROVE  /\ clients' \in [Slots -> ClientState] /\ ctrl_client' = NULL
           /\ active_clients' \in Int /\ shut' \subseteq Conns
  <1>1. clients \in [Slots -> ClientState] /\ active_clients \in Int /\ shut \subseteq Conns
    BY DEF TcpInv, TypeOK
  <1>2. \A i \in Slots : [clients[i] EXCEPT !.is_controller = FALSE] \in ClientState
    BY <1>1 DEF ClientState
  <1>3. \A i \in Slots : clients[i].active => clients[i].sock \in Conns
    BY DEF TcpInv, SlotsServed
  <1>4. QED
    BY <1>1, <1>2, <1>3 DEF DropAllClients

\* Every action keeps the types.
LEMMA TypeStep == TcpInv /\ [Next]_vars => TypeOK'
  <1> SUFFICES ASSUME TcpInv, [Next]_vars
               PROVE  TypeOK'
    OBVIOUS
  <1> USE SinkTcpAssumption
  <1> USE DEF slotVars, connVars, sockVars, srcVars, lcVars
  <1>0. TypeOK
    BY DEF TcpInv
  <1>1. ASSUME NEW c \in Conns, Connect(c)
        PROVE  TypeOK'
    BY <1>0, <1>1 DEF Connect, TypeOK, TaskPc
  <1>2. ASSUME NEW c \in Conns, Hangup(c)
        PROVE  TypeOK'
    BY <1>0, <1>2 DEF Hangup, TypeOK
  <1>3. ASSUME NEW c \in Conns, SendError(c)
        PROVE  TypeOK'
    BY <1>0, <1>3 DEF SendError, TypeOK
  <1>4. ASSUME NEW c \in Conns, Accept(c)
        PROVE  TypeOK'
    <2>1. acc' \in AcceptState
      BY <1>4, Constants DEF Accept, AcceptState
    <2>2. pc' \in [Conns -> TaskPc]
      BY <1>0, <1>4 DEF Accept, TypeOK, TaskPc
    <2>3. QED
      BY <1>0, <1>4, <2>1, <2>2 DEF Accept, TypeOK
  <1>5. CASE Gate
    <2>1. CASE Reject
      BY <1>0, <1>5, <2>1, RejectTypes DEF Gate, TypeOK
    <2>2. CASE acc' = [acc EXCEPT !.pc = "admit", !.gen = gen] /\ UNCHANGED <<slotVars, pc, sockVars>>
      <3>1. acc' \in AcceptState
        BY <1>0, <2>2 DEF TypeOK, AcceptState
      <3>2. QED
        BY <1>0, <1>5, <2>2, <3>1 DEF Gate, TypeOK
    <2>3. QED
      BY <1>5, <2>1, <2>2 DEF Gate
  <1>6. CASE Admit
    <2>1. CASE Reject
      BY <1>0, <1>6, <2>1, RejectTypes DEF Admit, TypeOK
    <2>2. ASSUME NEW i \in find_free_slot,
                 clients' = [clients EXCEPT ![i] = [active |-> TRUE, sock |-> acc.cs,
                                                   is_controller |-> FALSE, gen |-> acc.gen]],
                 active_clients' = active_clients + 1,
                 acc' = [acc EXCEPT !.pc = "spawn", !.slot = i],
                 UNCHANGED <<ctrl_client, pc, sockVars>>
          PROVE  TypeOK'
      <3>1. i \in Slots /\ acc \in AcceptState
        BY <1>0 DEF find_free_slot, TypeOK
      <3>2. [active |-> TRUE, sock |-> acc.cs, is_controller |-> FALSE, gen |-> acc.gen] \in ClientState
        BY <3>1 DEF AcceptState, ClientState
      <3>3. clients' \in [Slots -> ClientState]
        BY <1>0, <2>2, <3>1, <3>2 DEF TypeOK
      <3>4. acc' \in AcceptState
        BY <2>2, <3>1 DEF AcceptState
      <3>5. active_clients' \in Int
        BY <1>0, <2>2 DEF TypeOK
      <3>6. QED
        BY <1>0, <1>6, <2>2, <3>3, <3>4, <3>5 DEF Admit, TypeOK
    <2>3. QED
      BY <1>6, <2>1, <2>2 DEF Admit
  <1>7. CASE Spawn
    <2>1. acc.cs \in Conns /\ acc.slot \in Slots
      BY <1>7 DEF TcpInv, AcceptOK, Spawn
    <2>2. pc' \in [Conns -> TaskPc] /\ slot' \in [Conns -> Slots \cup {NULL}]
      BY <1>0, <1>7, <2>1 DEF Spawn, TypeOK, TaskPc
    <2>3. QED
      BY <1>0, <1>7, <2>2, Constants DEF Spawn, TypeOK
  <1>8. ASSUME NEW c \in Conns, comport_acquire(c)
        PROVE  TypeOK'
    <2>1. CASE UNCHANGED <<ctrl_client, clients>>
      BY <1>0, <1>8, <2>1 DEF comport_acquire, Command, TypeOK
    <2>2. CASE /\ ctrl_client' = slot[c]
               /\ clients' = [clients EXCEPT ![slot[c]].is_controller = TRUE]
      <3>1. slot[c] \in Slots
        BY <1>8 DEF comport_acquire, Command, Serving, Held, TcpInv, SlotsServed
      <3>2. [clients[slot[c]] EXCEPT !.is_controller = TRUE] \in ClientState
        BY <1>0, <3>1, ClientUpdate DEF TypeOK
      <3>3. clients' \in [Slots -> ClientState]
        BY <1>0, <2>2, <3>1, <3>2 DEF TypeOK
      <3>4. QED
        BY <1>0, <1>8, <2>2, <3>1, <3>3 DEF comport_acquire, Command, TypeOK
    <2>3. QED
      BY <1>8, <2>1, <2>2 DEF comport_acquire
  <1>9. ASSUME NEW c \in Conns, NEW r \in Requests, SubnegBegin(c, r)
        PROVE  TypeOK'
    <2>1. /\ c \in DOMAIN pc /\ pc[c] = "recv" /\ slot[c] \in Slots
          /\ clients[slot[c]].is_controller \in BOOLEAN
      BY <1>0, <1>9 DEF SubnegBegin, Command, Serving, Held, TcpInv, SlotsServed, TypeOK, ClientState
    <2>2. [NoLocals EXCEPT !.ctrl = clients[slot[c]].is_controller, !.set = r] \in TaskLocals
      BY <2>1, Constants DEF TaskLocals
    <2>3. loc' \in [Conns -> TaskLocals] /\ pc' \in [Conns -> TaskPc]
      BY <1>0, <1>9, <2>2 DEF SubnegBegin, TypeOK, TaskPc
    <2>4. QED
      BY <1>0, <1>9, <2>3 DEF SubnegBegin, Command, TypeOK
  <1>10. ASSUME NEW c \in Conns, SubnegGet(c)
        PROVE  TypeOK'
    <2>1. [loc[c] EXCEPT !.val = lc] \in TaskLocals
      BY <1>0 DEF TypeOK, TaskLocals
    <2>2. loc' \in [Conns -> TaskLocals] /\ pc' \in [Conns -> TaskPc]
      BY <1>0, <1>10, <2>1 DEF SubnegGet, TypeOK, TaskPc
    <2>3. QED
      BY <1>0, <1>10, <2>2 DEF SubnegGet, TypeOK
  <1>11. ASSUME NEW c \in Conns, SubnegApply(c)
        PROVE  TypeOK'
    <2>1. Requested(c) \in Codings
      BY <1>0, <1>11, RequestedCoding DEF SubnegApply, TcpInv, RequestsOK, TypeOK, TaskLocals
    <2>2. loc' \in [Conns -> TaskLocals] /\ pc' \in [Conns -> TaskPc]
      BY <1>0, <1>11, Constants DEF SubnegApply, TypeOK, TaskPc
    <2>3. QED
      BY <1>0, <1>11, <2>1, <2>2 DEF SubnegApply, apply_lc, TypeOK
  <1>12. ASSUME NEW c \in Conns, Cleanup(c)
        PROVE  TypeOK'
    <2>1. slot[c] \in Slots
      BY <1>12 DEF Cleanup, Serving, Held, TcpInv, SlotsServed
    <2>2. clients[slot[c]] \in ClientState
      BY <1>0, <2>1 DEF TypeOK
    <2> DEFINE b == clients[slot[c]].is_controller /\ ~(ctrl_client = slot[c])
               r == [clients[slot[c]] EXCEPT !.active = FALSE, !.sock = NULL, !.is_controller = b]
    <2>6. r \in ClientState
      <3>1. b \in BOOLEAN
        OBVIOUS
      <3>2. QED
        BY <2>2, <3>1, ClientUpdate
    <2>7. clients' = [clients EXCEPT ![slot[c]] = r]
      BY <1>12 DEF Cleanup, close_client
    <2> HIDE DEF r
    <2>3. clients' \in [Slots -> ClientState]
      BY <1>0, <2>1, <2>6, <2>7 DEF TypeOK
    <2>4. pc' \in [Conns -> TaskPc]
      BY <1>0, <1>12 DEF Cleanup, TypeOK, TaskPc
    <2>5. QED
      BY <1>0, <1>12, <2>3, <2>4 DEF Cleanup, close_client, Close, TypeOK
  <1>13. ASSUME NEW c \in Conns, RevertResolve(c)
        PROVE  TypeOK'
    <2>1. [loc[c] EXCEPT !.val = Resolve.val, !.src = Resolve.src] \in TaskLocals
      BY <1>0, ResolvedCoding, LocalsUpdate DEF TypeOK
    <2>2. loc' \in [Conns -> TaskLocals] /\ pc' \in [Conns -> TaskPc]
      BY <1>0, <1>13, <2>1 DEF RevertResolve, TypeOK, TaskPc
    <2>3. QED
      BY <1>0, <1>13, <2>2 DEF RevertResolve, TypeOK
  <1>14. ASSUME NEW c \in Conns, RevertApply(c)
        PROVE  TypeOK'
    <2>1. loc[c].val \in Codings /\ loc[c].src \in 0..2
      BY <1>0 DEF TypeOK, TaskLocals
    <2>2. loc' \in [Conns -> TaskLocals] /\ pc' \in [Conns -> TaskPc]
      BY <1>0, <1>14, Constants DEF RevertApply, TypeOK, TaskPc
    <2>3. QED
      BY <1>0, <1>14, <2>1, <2>2 DEF RevertApply, apply_lc, ApplyMayFail, TypeOK
  <1>15. CASE StickOpen
    <2>1. stick' \in StickState
      BY <1>0, <1>15 DEF StickOpen, TypeOK, StickState
    <2>2. gen' \in 0..MaxGens
      BY <1>0, <1>15 DEF StickOpen, TypeOK
    <2>3. QED
      BY <1>0, <1>15, <2>1, <2>2 DEF StickOpen, TypeOK
  <1>16. CASE StickReady
    <2>1. stick' \in StickState /\ stick.val \in Codings /\ stick.src \in 0..2
      BY <1>0, <1>16 DEF StickReady, TypeOK, StickState
    <2>2. QED
      BY <1>0, <1>16, <2>1 DEF StickReady, apply_lc, ApplyMayFail, TypeOK
  <1>17. CASE DeviceGone
    BY <1>0, <1>17 DEF DeviceGone, TypeOK
  <1>18. CASE StickTeardown
    <2>1. stick' \in StickState
      BY <1>0, <1>18 DEF StickTeardown, TypeOK, StickState
    <2>2. QED
      BY <1>0, <1>18, <2>1 DEF StickTeardown, TypeOK
  <1>19. CASE StickNotifyDown
    <2>1. stick' \in StickState
      BY <1>0, <1>19 DEF StickNotifyDown, TypeOK, StickState
    <2>2. QED
      BY <1>0, <1>19, <2>1, DropTypes DEF StickNotifyDown, TypeOK
  <1>20. CASE RadioReboot
    BY <1>0, <1>20, DropTypes DEF RadioReboot, TypeOK
  <1>21. ASSUME NEW val \in Codings, WebPost(val)
         PROVE  TypeOK'
    <2>1. web' \in WebState /\ nvs' \in Codings \cup {NULL}
      BY <1>0, <1>21 DEF WebPost, TypeOK, WebState
    <2>2. QED
      BY <1>0, <1>21, <2>1 DEF WebPost, TypeOK
  <1>22. CASE WebCheck
    <2>1. web' \in WebState
      BY <1>0, <1>22, Constants DEF WebCheck, TypeOK, WebState
    <2>2. QED
      BY <1>0, <1>22, <2>1 DEF WebCheck, TypeOK
  <1>23. CASE WebApply
    <2>1. web.val \in Codings /\ web.src \in 0..2
      BY <1>0 DEF TypeOK, WebState
    <2>2. QED
      BY <1>0, <1>23, <2>1, Constants DEF WebApply, apply_lc, ApplyMayFail, TypeOK
  <1>24. CASE UNCHANGED vars
    BY <1>0, <1>24 DEF vars, TypeOK
  <1>25. QED
    BY <1>1, <1>2, <1>3, <1>4, <1>5, <1>6, <1>7, <1>8, <1>9, <1>10, <1>11, <1>12, <1>13, <1>14,
       <1>15, <1>16, <1>17, <1>18, <1>19, <1>20, <1>21, <1>22, <1>23, <1>24
       DEF Next, ClientTask, Progress, AcceptTask, StickTask, Web

\* Every action keeps slots, sockets and tasks matched.
LEMMA TcpStep == TcpInv /\ [Next]_vars => TcpInv'
  <1> SUFFICES ASSUME TcpInv, [Next]_vars
               PROVE  (AcceptOK /\ SlotsServed /\ RequestsOK)'
    BY TypeStep DEF TcpInv
  <1> USE DEF slotVars, connVars, sockVars, srcVars, lcVars
  <1>0. /\ TypeOK /\ AcceptOK /\ SlotsServed /\ RequestsOK
        /\ clients \in [Slots -> ClientState] /\ pc \in [Conns -> TaskPc]
        /\ slot \in [Conns -> Slots \cup {NULL}] /\ loc \in [Conns -> TaskLocals]
    BY DEF TcpInv, TypeOK
  \* Steps of the tasks that neither touch the slots nor enter or leave service.
  <1>1. ASSUME UNCHANGED <<acc, pc, slot, loc, clients>>
        PROVE  (AcceptOK /\ SlotsServed /\ RequestsOK)'
    BY <1>0, <1>1 DEF AcceptOK, SlotsServed, RequestsOK, Serving, Held
  <1>2. ASSUME NEW c \in Conns, Connect(c)
        PROVE  (AcceptOK /\ SlotsServed /\ RequestsOK)'
    <2>1. /\ pc[c] = "none" /\ pc' = [pc EXCEPT ![c] = "backlog"]
          /\ UNCHANGED <<acc, slot, loc, clients>>
      BY <1>2 DEF Connect
    <2>2. QED
      BY <1>0, <2>1 DEF AcceptOK, SlotsServed, RequestsOK, Serving, Held
  <1>3. ASSUME NEW c \in Conns, Accept(c)
        PROVE  (AcceptOK /\ SlotsServed /\ RequestsOK)'
    <2>1. /\ pc[c] = "backlog" /\ pc' = [pc EXCEPT ![c] = "accepted"]
          /\ acc.pc = "accept" /\ acc'.pc = "gate" /\ acc'.cs = c
          /\ UNCHANGED <<slot, loc, clients>>
      BY <1>3 DEF Accept, AtAccept
    <2>2. QED
      BY <1>0, <2>1 DEF AcceptOK, SlotsServed, RequestsOK, Serving, Held
  <1>4. ASSUME acc.pc \in {"gate", "admit"}, Reject, UNCHANGED <<slot, loc>>
        PROVE  (AcceptOK /\ SlotsServed /\ RequestsOK)'
    <2>1. /\ acc.cs \in Conns /\ pc[acc.cs] = "accepted"
          /\ pc' = [pc EXCEPT ![acc.cs] = "closed"]
          /\ acc'.pc = "accept" /\ UNCHANGED clients
      BY <1>0, <1>4 DEF AcceptOK, Reject, AtAccept
    <2>2. QED
      BY <1>0, <1>4, <2>1 DEF AcceptOK, SlotsServed, RequestsOK, Serving, Held
  <1>5. CASE Gate
    <2>1. CASE acc' = [acc EXCEPT !.pc = "admit", !.gen = gen] /\ UNCHANGED <<slotVars, pc, sockVars>>
      <3>1. /\ acc.pc = "gate" /\ acc'.pc = "admit" /\ acc'.cs = acc.cs
            /\ UNCHANGED <<pc, slot, loc, clients>>
        BY <1>0, <1>5, <2>1 DEF Gate, TypeOK, AcceptState
      <3>2. QED
        BY <1>0, <3>1 DEF AcceptOK, SlotsServed, RequestsOK, Serving, Held
    <2>2. QED
      BY <1>4, <1>5, <2>1 DEF Gate
  <1>6. CASE Admit
    <2>1. ASSUME NEW i \in find_free_slot,
                 clients' = [clients EXCEPT ![i] = [active |-> TRUE, sock |-> acc.cs,
                                                   is_controller |-> FALSE, gen |-> acc.gen]],
                 acc' = [acc EXCEPT !.pc = "spawn", !.slot = i],
                 UNCHANGED <<ctrl_client, pc, sockVars>>
          PROVE  (AcceptOK /\ SlotsServed /\ RequestsOK)'
      <3>1. /\ i \in Slots /\ ~clients[i].active
            /\ acc.pc = "admit" /\ acc'.pc = "spawn" /\ acc'.cs = acc.cs /\ acc'.slot = i
            /\ acc.cs \in Conns /\ pc[acc.cs] = "accepted"
            /\ UNCHANGED <<pc, slot, loc>>
        BY <1>0, <1>6, <2>1 DEF Admit, find_free_slot, TypeOK, AcceptState, AcceptOK
      <3>2. /\ clients'[i].active /\ clients'[i].sock = acc.cs
            /\ \A j \in Slots \ {i} : clients'[j] = clients[j]
        BY <1>0, <2>1, <3>1
      <3>3. QED
        BY <1>0, <3>1, <3>2 DEF AcceptOK, SlotsServed, RequestsOK, Serving, Held
    <2>2. QED
      BY <1>4, <1>6, <2>1 DEF Admit
  <1>7. CASE Spawn
    <2>1. /\ acc.pc = "spawn" /\ acc.cs \in Conns /\ pc[acc.cs] = "accepted" /\ acc.slot \in Slots
          /\ clients[acc.slot].active /\ clients[acc.slot].sock = acc.cs
      BY <1>0, <1>7 DEF Spawn, AcceptOK
    <2>2. /\ pc' = [pc EXCEPT ![acc.cs] = "recv"] \/ pc' = [pc EXCEPT ![acc.cs] = "unserved"]
          /\ slot' = [slot EXCEPT ![acc.cs] = acc.slot]
          /\ acc'.pc = "accept" /\ UNCHANGED <<loc, clients>>
      BY <1>7 DEF Spawn, AtAccept
    <2>3. QED
      BY <1>0, <2>1, <2>2 DEF AcceptOK, SlotsServed, RequestsOK, Serving, Held
  \* Acquiring or losing the control of the wire leaves the matching alone.
  <1>8. ASSUME UNCHANGED <<acc, pc, slot, loc>>,
               \A i \in Slots : clients'[i].active = clients[i].active /\ clients'[i].sock = clients[i].sock
        PROVE  (AcceptOK /\ SlotsServed /\ RequestsOK)'
    BY <1>0, <1>8 DEF AcceptOK, SlotsServed, RequestsOK, Serving, Held
  <1>9. ASSUME NEW c \in Conns, comport_acquire(c)
        PROVE  (AcceptOK /\ SlotsServed /\ RequestsOK)'
    <2>1. UNCHANGED <<acc, pc, slot, loc>>
      BY <1>9 DEF comport_acquire, Command
    <2>2. CASE clients' = [clients EXCEPT ![slot[c]].is_controller = TRUE]
      <3>1. \A i \in Slots : clients'[i].active = clients[i].active /\ clients'[i].sock = clients[i].sock
        BY <1>0, <2>2 DEF ClientState
      <3>2. QED
        BY <1>8, <2>1, <3>1
    <2>3. QED
      BY <1>1, <1>9, <2>1, <2>2 DEF comport_acquire
  <1>10. ASSUME DropAllClients, UNCHANGED <<acc, pc, slot, loc>>
         PROVE  (AcceptOK /\ SlotsServed /\ RequestsOK)'
    <2>1. \A i \in Slots : clients'[i].active = clients[i].active /\ clients'[i].sock = clients[i].sock
      BY <1>0, <1>10 DEF DropAllClients, ClientState
    <2>2. QED
      BY <1>8, <1>10, <2>1
  \* A command under way keeps its task in service.
  <1>11. ASSUME NEW c \in Conns, NEW p \in {"recv", "subneg", "got"}, Serving(c),
                pc' = [pc EXCEPT ![c] = p], UNCHANGED <<acc, slot, clients>>
         PROVE  (AcceptOK /\ SlotsServed)'
    BY <1>0, <1>11 DEF AcceptOK, SlotsServed, Serving, Held
  <1>12. ASSUME NEW c \in Conns, NEW r \in Requests, SubnegBegin(c, r)
         PROVE  (AcceptOK /\ SlotsServed /\ RequestsOK)'
    <2>1. /\ pc[c] = "recv" /\ pc' = [pc EXCEPT ![c] = "subneg"] /\ UNCHANGED <<acc, slot, clients>>
          /\ loc' = [loc EXCEPT ![c] = [NoLocals EXCEPT !.ctrl = clients[slot[c]].is_controller, !.set = r]]
      BY <1>12 DEF SubnegBegin, Command
    <2>2. loc'[c].set = r /\ \A d \in Conns \ {c} : loc'[d] = loc[d]
      BY <1>0, <2>1 DEF NoLocals
    <2>3. QED
      BY <1>0, <1>11, <2>1, <2>2 DEF RequestsOK, Serving, Held
  <1>13. ASSUME NEW c \in Conns, SubnegGet(c)
         PROVE  (AcceptOK /\ SlotsServed /\ RequestsOK)'
    <2>1. /\ pc[c] = "subneg" /\ pc' = [pc EXCEPT ![c] = "got"] /\ UNCHANGED <<acc, slot, clients>>
          /\ loc' = [loc EXCEPT ![c].val = lc]
      BY <1>13 DEF SubnegGet
    <2>2. \A d \in Conns : loc'[d].set = loc[d].set
      BY <1>0, <2>1 DEF TaskLocals
    <2>3. QED
      BY <1>0, <1>11, <2>1, <2>2 DEF RequestsOK, Serving, Held
  <1>14. ASSUME NEW c \in Conns, SubnegApply(c)
         PROVE  (AcceptOK /\ SlotsServed /\ RequestsOK)'
    <2>1. /\ pc[c] = "got" /\ pc' = [pc EXCEPT ![c] = "recv"] /\ UNCHANGED <<acc, slot, clients>>
          /\ loc' = [loc EXCEPT ![c] = NoLocals]
      BY <1>14 DEF SubnegApply
    <2>2. QED
      BY <1>0, <1>11, <2>1 DEF RequestsOK, Serving, Held
  <1>15. ASSUME NEW c \in Conns, Cleanup(c)
         PROVE  (AcceptOK /\ SlotsServed /\ RequestsOK)'
    <2>1. /\ pc[c] = "recv" /\ slot[c] \in Slots
          /\ clients[slot[c]].active /\ clients[slot[c]].sock = c
      BY <1>0, <1>15 DEF Cleanup, SlotsServed, Serving, Held
    <2>2. /\ ~clients'[slot[c]].active
          /\ \A j \in Slots \ {slot[c]} : clients'[j] = clients[j]
      BY <1>0, <1>15, <2>1 DEF Cleanup, close_client, ClientState
    <2>3. /\ \E p \in {"revert", "closed"} : pc' = [pc EXCEPT ![c] = p]
          /\ UNCHANGED <<acc, slot, loc>>
      BY <1>15 DEF Cleanup
    <2>4. QED
      BY <1>0, <2>1, <2>2, <2>3 DEF AcceptOK, SlotsServed, RequestsOK, Serving, Held
  \* A task that is past its cleanup touches no slot.
  <1>16. ASSUME NEW c \in Conns, RevertResolve(c) \/ RevertApply(c)
         PROVE  (AcceptOK /\ SlotsServed /\ RequestsOK)'
    <2>1. /\ pc[c] \in {"revert", "reapply"}
          /\ \E p \in {"reapply", "closed"} : pc' = [pc EXCEPT ![c] = p]
          /\ UNCHANGED <<acc, slot, clients>>
      BY <1>16 DEF RevertResolve, RevertApply
    <2>2. \A d \in Conns \ {c} : loc'[d] = loc[d]
      BY <1>0, <1>16 DEF RevertResolve, RevertApply
    <2>3. QED
      BY <1>0, <2>1, <2>2 DEF AcceptOK, SlotsServed, RequestsOK, Serving, Held
  <1>17. ASSUME NEW c \in Conns, Hangup(c) \/ SendError(c)
         PROVE  UNCHANGED <<acc, pc, slot, loc, clients>>
    BY <1>17 DEF Hangup, SendError
  <1>18. ASSUME StickOpen \/ StickReady \/ StickTeardown \/ DeviceGone \/ Web \/ UNCHANGED vars
         PROVE  UNCHANGED <<acc, pc, slot, loc, clients>>
    BY <1>18 DEF StickOpen, StickReady, StickTeardown, DeviceGone, Web, WebPost, WebCheck, WebApply, vars
  <1>19. ASSUME StickNotifyDown \/ RadioReboot
         PROVE  DropAllClients /\ UNCHANGED <<acc, pc, slot, loc>>
    BY <1>19 DEF StickNotifyDown, RadioReboot
  <1>20. QED
    BY <1>1, <1>2, <1>3, <1>5, <1>6, <1>7, <1>9, <1>10, <1>12, <1>13, <1>14, <1>15, <1>16, <1>17, <1>18, <1>19
       DEF Next, ClientTask, Progress, AcceptTask, StickTask

\* The state of slots, tasks and line codings is well typed for every number of
\* slots and connections: in particular a task in service always has a slot, and
\* only sockets of connections are ever shut down.
THEOREM TypeCorrectness == Spec => []TypeOK
  <1>1. Init => TcpInv
    BY InitTcpInv
  <1>2. TcpInv /\ [Next]_vars => TcpInv'
    BY TcpStep
  <1>3. TcpInv => TypeOK
    BY DEF TcpInv
  <1>4. QED
    BY <1>1, <1>2, <1>3, PTL DEF Spec

-----------------------------------------------------------------------------
(***************************************************************************)
(* Slots: the count of clients and the controller.                         *)
(***************************************************************************)

\* accept_task fills slot i.
Fills(i) ==
    /\ acc.pc = "admit" /\ ~clients[i].active
    /\ clients' = [clients EXCEPT ![i] = [active |-> TRUE, sock |-> acc.cs,
                                          is_controller |-> FALSE, gen |-> acc.gen]]
    /\ active_clients' = active_clients + 1
    /\ acc' = [acc EXCEPT !.pc = "spawn", !.slot = i]
    /\ UNCHANGED <<ctrl_client, pc, slot, sockVars, srcVars>>

\* What a step may do to the slots: nothing, while every task in service stays
\* there with its slot; or one of four changes.
LEMMA SlotChanges ==
    ASSUME TcpInv, [Next]_vars
    PROVE  \/ UNCHANGED slotVars /\ \A c \in Conns : Serving(c) => Serving(c)' /\ slot'[c] = slot[c]
           \/ \E i \in Slots : Fills(i)
           \/ \E c \in Conns : comport_acquire(c)
           \/ \E c \in Conns : Cleanup(c)
           \/ DropAllClients /\ UNCHANGED <<acc, pc, slot>>
  <1> DEFINE Calm == UNCHANGED slotVars /\ \A c \in Conns : Serving(c) => Serving(c)' /\ slot'[c] = slot[c]
  <1> USE DEF slotVars, connVars, sockVars, srcVars, lcVars
  <1>0. /\ pc \in [Conns -> TaskPc] /\ slot \in [Conns -> Slots \cup {NULL}] /\ AcceptOK
    BY DEF TcpInv, TypeOK
  <1>1. ASSUME NEW c \in Conns, NEW p, pc' = [pc EXCEPT ![c] = p], UNCHANGED <<slotVars, slot>>,
               p \in {"recv", "subneg", "got"} \/ ~Serving(c)
        PROVE  Calm
    BY <1>0, <1>1 DEF Serving, Held
  <1>2. ASSUME UNCHANGED <<slotVars, pc, slot>>
        PROVE  Calm
    BY <1>2 DEF Serving, Held
  <1>3. ASSUME NEW c \in Conns, Connect(c) \/ Accept(c)
        PROVE  Calm
    BY <1>1, <1>3 DEF Connect, Accept, Serving, Held
  <1>4. ASSUME acc.pc \in {"gate", "admit"}, Reject, UNCHANGED slot
        PROVE  Calm
    <2>1. acc.cs \in Conns /\ pc[acc.cs] = "accepted"
      BY <1>0, <1>4 DEF AcceptOK
    <2>2. QED
      BY <1>1, <1>4, <2>1 DEF Reject, Serving, Held
  <1>5. ASSUME Gate
        PROVE  Calm
    BY <1>2, <1>4, <1>5 DEF Gate
  <1>6. ASSUME Admit
        PROVE  Calm \/ \E i \in Slots : Fills(i)
    BY <1>4, <1>6 DEF Admit, Fills, find_free_slot
  <1>7. ASSUME Spawn
        PROVE  Calm
    <2>1. acc.cs \in Conns /\ pc[acc.cs] = "accepted"
      BY <1>0, <1>7 DEF Spawn, AcceptOK
    <2>2. /\ pc' = [pc EXCEPT ![acc.cs] = "recv"] \/ pc' = [pc EXCEPT ![acc.cs] = "unserved"]
          /\ slot' = [slot EXCEPT ![acc.cs] = acc.slot]
          /\ UNCHANGED slotVars
      BY <1>7 DEF Spawn
    <2>3. QED
      BY <1>0, <2>1, <2>2 DEF Serving, Held
  <1>8. ASSUME NEW c \in Conns, (\E r \in Requests : SubnegBegin(c, r)) \/ SubnegGet(c) \/ SubnegApply(c)
        PROVE  Calm
    BY <1>1, <1>8 DEF SubnegBegin, SubnegGet, SubnegApply, Command
  <1>9. ASSUME NEW c \in Conns, RevertResolve(c) \/ RevertApply(c)
        PROVE  Calm
    BY <1>1, <1>9 DEF RevertResolve, RevertApply, Serving, Held
  <1>10. ASSUME NEW c \in Conns, Hangup(c) \/ SendError(c)
         PROVE  Calm
    BY <1>2, <1>10 DEF Hangup, SendError
  <1>11. ASSUME StickOpen \/ StickReady \/ StickTeardown \/ DeviceGone \/ Web \/ UNCHANGED vars
         PROVE  Calm
    <2>1. UNCHANGED <<slotVars, pc, slot>>
      BY <1>11 DEF StickOpen, StickReady, StickTeardown, DeviceGone, Web, WebPost, WebCheck, WebApply, vars
    <2>2. QED
      BY <1>2, <2>1
  <1>12. ASSUME StickNotifyDown \/ RadioReboot
         PROVE  DropAllClients /\ UNCHANGED <<acc, pc, slot>>
    BY <1>12 DEF StickNotifyDown, RadioReboot
  <1>13. ASSUME NEW c \in Conns, ClientTask(c)
         PROVE  Calm \/ comport_acquire(c) \/ Cleanup(c)
    BY <1>8, <1>9, <1>13 DEF ClientTask, Progress
  <1>14. AcceptTask => Calm \/ \E i \in Slots : Fills(i)
    BY <1>3, <1>5, <1>6, <1>7 DEF AcceptTask
  <1>15. StickTask \/ DeviceGone \/ RadioReboot \/ Web \/ UNCHANGED vars
           => Calm \/ (DropAllClients /\ UNCHANGED <<acc, pc, slot>>)
    BY <1>11, <1>12 DEF StickTask
  <1>16. QED
    BY <1>3, <1>10, <1>13, <1>14, <1>15 DEF Next

\* S.stats.active_clients counts the active slots.
Active  == {i \in Slots : clients[i].active}
CountOK == active_clients = Cardinality(Active)

LEMMA CountStep == TcpInv /\ CountOK /\ [Next]_vars => CountOK'
  <1> SUFFICES ASSUME TcpInv, CountOK, [Next]_vars
               PROVE  CountOK'
    OBVIOUS
  <1>0. clients \in [Slots -> ClientState]
    BY DEF TcpInv, TypeOK
  <1>1. IsFiniteSet(Active)
    BY SinkTcpAssumption, FS_Subset DEF Active
  <1>2. ASSUME UNCHANGED active_clients, \A i \in Slots : clients'[i].active = clients[i].active
        PROVE  CountOK'
    <2>1. Active' = Active
      BY <1>2 DEF Active
    <2>2. QED
      BY <1>2, <2>1 DEF CountOK
  <1>3. ASSUME UNCHANGED slotVars
        PROVE  CountOK'
    BY <1>2, <1>3 DEF slotVars
  <1>4. ASSUME NEW i \in Slots, Fills(i)
        PROVE  CountOK'
    <2>1. Active' = Active \cup {i} /\ i \notin Active /\ active_clients' = active_clients + 1
      BY <1>0, <1>4 DEF Fills, Active
    <2>2. QED
      BY <1>1, <2>1, FS_AddElement DEF CountOK
  <1>5. ASSUME NEW c \in Conns, comport_acquire(c)
        PROVE  CountOK'
    <2>1. \A i \in Slots : clients'[i].active = clients[i].active
      BY <1>0, <1>5 DEF comport_acquire, ClientState
    <2>2. QED
      BY <1>2, <1>5, <2>1 DEF comport_acquire
  <1>6. ASSUME NEW c \in Conns, Cleanup(c)
        PROVE  CountOK'
    <2>1. slot[c] \in Slots /\ slot[c] \in Active
      BY <1>6 DEF Cleanup, Serving, Held, TcpInv, SlotsServed, Active
    <2>2. /\ ~clients'[slot[c]].active
          /\ \A j \in Slots \ {slot[c]} : clients'[j] = clients[j]
          /\ active_clients' = active_clients - 1
      BY <1>0, <1>6, <2>1 DEF Cleanup, close_client, ClientState
    <2>3. Active' = Active \ {slot[c]}
      BY <2>1, <2>2 DEF Active
    <2>4. QED
      BY <1>1, <2>1, <2>2, <2>3, FS_RemoveElement DEF CountOK
  <1>7. ASSUME DropAllClients
        PROVE  CountOK'
    <2>1. \A i \in Slots : clients'[i].active = clients[i].active
      BY <1>0, <1>7 DEF DropAllClients, ClientState
    <2>2. QED
      BY <1>2, <1>7, <2>1 DEF DropAllClients
  <1>8. QED
    BY <1>3, <1>4, <1>5, <1>6, <1>7, SlotChanges

\* Slots, sockets and tasks match one to one, and active_clients counts the
\* slots in use: through accepts, drops, hang-ups and the reuse of a slot while
\* the task that served it before is still reverting the line coding.
THEOREM SlotsMatched == Spec => []OneTaskPerSlot
  <1>1. Init => TcpInv /\ CountOK
    <2>1. Init => Active = {}
      BY DEF Init, Active, FreeSlot
    <2>2. QED
      BY <2>1, InitTcpInv, FS_EmptySet DEF CountOK, Init
  <1>2. TcpInv /\ CountOK /\ [Next]_vars => (TcpInv /\ CountOK)'
    BY TcpStep, CountStep
  <1>3. TcpInv /\ CountOK => OneTaskPerSlot
    BY DEF TcpInv, CountOK, Active, OneTaskPerSlot, SlotsServed
  <1>4. QED
    BY <1>1, <1>2, <1>3, PTL DEF Spec

\* The controller of the wire.
LEMMA ControllerStep == TcpInv /\ ControllerIsServed /\ [Next]_vars => ControllerIsServed'
  <1> SUFFICES ASSUME TcpInv, ControllerIsServed, [Next]_vars
               PROVE  ControllerIsServed'
    OBVIOUS
  <1>0. /\ clients \in [Slots -> ClientState] /\ pc \in [Conns -> TaskPc]
        /\ ctrl_client \in Slots \cup {NULL} /\ SlotsServed
    BY DEF TcpInv, TypeOK
  <1>1. ASSUME UNCHANGED slotVars, \A c \in Conns : Serving(c) => Serving(c)' /\ slot'[c] = slot[c]
        PROVE  ControllerIsServed'
    BY <1>1 DEF slotVars, ControllerIsServed
  <1>2. ASSUME NEW i \in Slots, Fills(i)
        PROVE  ControllerIsServed'
    <2>1. ctrl_client # i
      BY <1>0, <1>2, Constants DEF Fills, ControllerIsServed, SlotsServed, Held
    <2>2. /\ ~clients'[i].is_controller
          /\ \A j \in Slots \ {i} : clients'[j] = clients[j]
          /\ UNCHANGED <<ctrl_client, pc, slot>>
      BY <1>0, <1>2 DEF Fills
    <2>3. QED
      BY <1>0, <2>1, <2>2 DEF ControllerIsServed, Serving, Held
  <1>3. ASSUME NEW c \in Conns, comport_acquire(c)
        PROVE  ControllerIsServed'
    <2>1. /\ pc[c] = "recv" /\ slot[c] \in Slots /\ clients[slot[c]].sock = c
          /\ UNCHANGED <<pc, slot>>
      BY <1>0, <1>3 DEF comport_acquire, Command, SlotsServed, Serving, Held
    <2>2. CASE UNCHANGED <<ctrl_client, clients>>
      BY <2>1, <2>2 DEF ControllerIsServed, Serving, Held
    <2>3. CASE /\ ctrl_client = NULL /\ ctrl_client' = slot[c]
               /\ clients' = [clients EXCEPT ![slot[c]].is_controller = TRUE]
      <3>1. /\ clients'[slot[c]].is_controller /\ clients'[slot[c]].sock = c
            /\ \A j \in Slots \ {slot[c]} : clients'[j] = clients[j] /\ ~clients[j].is_controller
        BY <1>0, <2>1, <2>3, Constants DEF ClientState, ControllerIsServed
      <3>2. QED
        BY <2>1, <2>3, <3>1 DEF ControllerIsServed, Serving, Held
    <2>4. QED
      BY <1>3, <2>2, <2>3 DEF comport_acquire
  <1>4. ASSUME NEW c \in Conns, Cleanup(c)
        PROVE  ControllerIsServed'
    <2>1. /\ slot[c] \in Slots /\ UNCHANGED slot
          /\ \A d \in Conns \ {c} : pc'[d] = pc[d]
          /\ \A j \in Slots \ {slot[c]} : clients'[j] = clients[j]
      BY <1>0, <1>4 DEF Cleanup, close_client, SlotsServed, Serving, Held
    <2>2. CASE ctrl_client = slot[c]
      <3>1. ctrl_client' = NULL /\ ~clients'[slot[c]].is_controller
        BY <1>0, <1>4, <2>1, <2>2 DEF Cleanup, close_client, ClientState
      <3>2. QED
        BY <2>1, <2>2, <3>1, Constants DEF ControllerIsServed
    <2>3. CASE ctrl_client # slot[c]
      <3>1. ctrl_client' = ctrl_client /\ ~clients'[slot[c]].is_controller
        BY <1>0, <1>4, <2>1, <2>3 DEF Cleanup, close_client, ClientState, ControllerIsServed
      <3>2. QED
        BY <1>0, <2>1, <2>3, <3>1, Constants DEF ControllerIsServed, Serving, Held
    <2>4. QED
      BY <2>2, <2>3
  <1>5. ASSUME DropAllClients, UNCHANGED <<acc, pc, slot>>
        PROVE  ControllerIsServed'
    <2>1. ctrl_client' = NULL /\ \A i \in Slots : ~clients'[i].is_controller
      BY <1>0, <1>5 DEF DropAllClients, ClientState
    <2>2. QED
      BY <2>1, Constants DEF ControllerIsServed
  <1>6. QED
    BY <1>1, <1>2, <1>3, <1>4, <1>5, SlotChanges

\* RFC2217 control of the wire belongs to at most one connection, the one both
\* S.ctrl_client and its slot's flag name, and its task is there to release it.
THEOREM ControllerServed == Spec => []ControllerIsServed
  <1>1. Init => TcpInv /\ ControllerIsServed
    <2>1. Init => ControllerIsServed
      BY Constants DEF Init, ControllerIsServed, FreeSlot
    <2>2. QED
      BY <2>1, InitTcpInv
  <1>2. TcpInv /\ ControllerIsServed /\ [Next]_vars => (TcpInv /\ ControllerIsServed)'
    BY TcpStep, ControllerStep
  <1>3. QED
    BY <1>1, <1>2, PTL DEF Spec

-----------------------------------------------------------------------------
(***************************************************************************)
(* Sessions of a USB device that has been taken down.                      *)
(***************************************************************************)

\* accept_task holds a socket it let through the gate for a device that is gone.
AccStale == acc.pc = "admit" /\ (acc.gen < gen \/ stick.pc = "wait")

\* Why there is at most one stale session: it passed the gate before the device
\* went down, so it is the one accept_task had in its hands, and while it still
\* has it there no slot holds another.
StaleOK ==
    /\ ready => stick.pc = "live"
    /\ acc.gen <= gen /\ \A i \in Slots : clients[i].gen <= gen
    /\ \A i \in Slots : Stale(i) => ~AccStale
    /\ \A i, j \in Slots : Stale(i) /\ Stale(j) => i = j

StaleInv == kind = "usb" => StaleOK

LEMMA InitStaleInv == Init => StaleInv
  <1> SUFFICES ASSUME Init, kind = "usb"
               PROVE  StaleOK
    BY DEF StaleInv
  <1>1. /\ ~ready /\ acc.pc = "accept" /\ acc.gen = 0 /\ gen = 0
        /\ \A i \in Slots : ~clients[i].active /\ clients[i].gen = 0
    BY DEF Init, FreeSlot, AtAccept
  <1>2. QED
    BY <1>1 DEF StaleOK, Stale, Usable, AccStale

\* A step that admits nobody, reopens no socket and leaves the device alone.
LEMMA QuietStep ==
    ASSUME StaleOK,
           \A i \in Slots : /\ clients'[i].active = clients[i].active
                            /\ clients'[i].sock = clients[i].sock
                            /\ clients'[i].gen = clients[i].gen,
           shut \subseteq shut', hungup \subseteq hungup',
           gen' = gen, stick'.pc = stick.pc, ready' => ready,
           acc'.gen <= gen, acc'.pc = "admit" => acc.pc = "admit" /\ acc'.gen = acc.gen
    PROVE  StaleOK'
  <1>1. \A i \in Slots : Stale(i)' => Stale(i)
    BY DEF Stale, Usable
  <1>2. AccStale' => AccStale
    BY DEF AccStale
  <1>3. QED
    BY <1>1, <1>2 DEF StaleOK

LEMMA StaleStep == TcpInv /\ StaleInv /\ [Next]_vars => StaleInv'
  <1> SUFFICES ASSUME TcpInv, StaleOK, kind = "usb", kind' = "usb", [Next]_vars
               PROVE  StaleOK'
    <2>1. [Next]_vars => kind' = kind
      BY DEF Next, vars, srcVars, Connect, Hangup, SendError, ClientTask, comport_acquire, SubnegBegin,
             Progress, SubnegGet, SubnegApply, Cleanup, RevertResolve, RevertApply, AcceptTask, Accept,
             Gate, Admit, Spawn, StickTask, StickOpen, StickReady, StickTeardown, StickNotifyDown,
             DeviceGone, RadioReboot, Web, WebPost, WebCheck, WebApply
    <2>2. QED
      BY <2>1 DEF StaleInv
  <1> USE DEF slotVars, connVars, sockVars, srcVars, lcVars
  <1>0. /\ clients \in [Slots -> ClientState] /\ acc \in AcceptState
        /\ gen \in 0..MaxGens /\ stick \in StickState /\ AcceptOK /\ SlotsServed
    BY DEF TcpInv, TypeOK
  <1>g. /\ gen \in Int /\ acc.gen \in Int /\ acc.gen <= gen
        /\ \A i \in Slots : clients[i].gen \in Int /\ clients[i].gen <= gen
        /\ 0 <= gen
    BY <1>0, SinkTcpAssumption DEF ClientState, AcceptState, StaleOK
  <1>1. ASSUME UNCHANGED <<clients, ready, gen, stick, acc>>, shut \subseteq shut', hungup \subseteq hungup'
        PROVE  StaleOK'
    BY <1>1, <1>g, QuietStep
  <1>2. ASSUME NEW c \in Conns, Connect(c) \/ Hangup(c) \/ SendError(c)
        PROVE  StaleOK'
    BY <1>1, <1>2 DEF Connect, Hangup, SendError
  <1>3. ASSUME UNCHANGED <<clients, ready, gen, stick, shut, hungup>>, acc'.gen = 0, acc'.pc # "admit"
        PROVE  StaleOK'
    BY <1>3, <1>g, QuietStep
  <1>4. ASSUME NEW c \in Conns, Accept(c)
        PROVE  StaleOK'
    <2>1. acc'.pc = "gate" /\ acc'.gen = 0
      BY <1>4 DEF Accept, AtAccept
    <2>2. QED
      BY <1>3, <1>4, <2>1 DEF Accept
  \* The socket that is closed is in no slot.
  <1>5. ASSUME acc.pc \in {"gate", "admit"}, Reject, UNCHANGED srcVars
        PROVE  StaleOK'
    <2>1. acc.cs \in Conns /\ pc[acc.cs] = "accepted"
      BY <1>0, <1>5 DEF AcceptOK
    <2>2. \A i \in Slots : clients[i].active => clients[i].sock # acc.cs
      BY <1>0, <1>5, <2>1 DEF SlotsServed, Serving, Held
    <2>3. /\ UNCHANGED <<clients, gen, stick, ready>> /\ acc'.pc = "accept" /\ acc'.gen = 0
          /\ shut' = shut \ {acc.cs} /\ hungup' = hungup \ {acc.cs}
      BY <1>5 DEF Reject, Close, AtAccept
    <2>4. \A i \in Slots : Stale(i)' => Stale(i)
      BY <2>2, <2>3 DEF Stale, Usable
    <2>5. QED
      BY <1>g, <2>3, <2>4 DEF StaleOK, AccStale
  <1>6. ASSUME Gate
        PROVE  StaleOK'
    <2>1. CASE ready /\ acc' = [acc EXCEPT !.pc = "admit", !.gen = gen] /\ UNCHANGED <<slotVars, pc, sockVars>>
      <3>1. /\ stick.pc = "live" /\ acc'.pc = "admit" /\ acc'.gen = gen
            /\ UNCHANGED <<clients, gen, stick, ready, shut, hungup>>
        BY <1>0, <1>6, <2>1 DEF Gate, StaleOK, AcceptState
      <3>2. ~AccStale'
        BY <1>g, <3>1 DEF AccStale
      <3>3. \A i \in Slots : Stale(i)' => Stale(i)
        BY <3>1 DEF Stale, Usable
      <3>4. QED
        BY <1>g, <3>1, <3>2, <3>3 DEF StaleOK
    <2>2. QED
      BY <1>5, <1>6, <2>1 DEF Gate
  <1>7. ASSUME NEW i \in Slots, Fills(i)
        PROVE  StaleOK'
    <2>1. /\ clients'[i].gen = acc.gen /\ acc.pc = "admit"
          /\ \A j \in Slots \ {i} : clients'[j] = clients[j]
          /\ acc'.pc = "spawn" /\ acc'.gen = acc.gen
          /\ UNCHANGED <<gen, stick, ready, shut, hungup>>
      BY <1>0, <1>7 DEF Fills, AcceptState
    <2>2. \A j \in Slots \ {i} : Stale(j)' => Stale(j)
      BY <2>1 DEF Stale, Usable
    <2>3. Stale(i)' => AccStale
      BY <2>1 DEF Stale, AccStale
    <2>4. QED
      BY <1>g, <2>1, <2>2, <2>3 DEF StaleOK, AccStale
  <1>8. ASSUME Admit
        PROVE  StaleOK'
    BY <1>5, <1>7, <1>8 DEF Admit, Fills, find_free_slot
  <1>9. ASSUME Spawn
        PROVE  StaleOK'
    <2>1. acc'.pc = "accept" /\ acc'.gen = 0
      BY <1>9 DEF Spawn, AtAccept
    <2>2. QED
      BY <1>3, <1>9, <2>1 DEF Spawn
  <1>10. ASSUME NEW c \in Conns, comport_acquire(c)
         PROVE  StaleOK'
    <2>1. \A i \in Slots : /\ clients'[i].active = clients[i].active
                           /\ clients'[i].sock = clients[i].sock
                           /\ clients'[i].gen = clients[i].gen
      BY <1>0, <1>10 DEF comport_acquire, ClientState
    <2>2. UNCHANGED <<acc, shut, hungup, gen, stick, ready>>
      BY <1>10 DEF comport_acquire
    <2>3. QED
      BY <1>g, <2>1, <2>2, QuietStep
  <1>11. ASSUME NEW c \in Conns, (\E r \in Requests : SubnegBegin(c, r)) \/ SubnegGet(c) \/ SubnegApply(c)
                                 \/ RevertResolve(c) \/ RevertApply(c)
         PROVE  StaleOK'
    BY <1>1, <1>11 DEF SubnegBegin, SubnegGet, SubnegApply, RevertResolve, RevertApply
  \* The slot of the socket that is closed is the only one that holds it.
  <1>12. ASSUME NEW c \in Conns, Cleanup(c)
         PROVE  StaleOK'
    <2>1. slot[c] \in Slots
      BY <1>0, <1>12 DEF Cleanup, Serving, Held, SlotsServed
    <2>2. /\ ~clients'[slot[c]].active /\ clients'[slot[c]].gen = clients[slot[c]].gen
          /\ \A j \in Slots \ {slot[c]} : clients'[j] = clients[j]
      BY <1>0, <1>12, <2>1 DEF Cleanup, close_client, ClientState
    <2>3. \A j \in Slots : clients[j].active /\ clients[j].sock = c => j = slot[c]
      BY <1>0, <1>12 DEF Cleanup, SlotsServed, AcceptOK
    <2>4. /\ shut' = shut \ {c} /\ hungup' = hungup \ {c}
          /\ UNCHANGED <<acc, gen, stick, ready>>
      BY <1>12 DEF Cleanup, close_client, Close
    <2>5. \A j \in Slots : Stale(j)' => Stale(j)
      BY <2>2, <2>3, <2>4 DEF Stale, Usable
    <2>6. QED
      BY <1>g, <2>2, <2>4, <2>5 DEF StaleOK, AccStale
  <1>13. ASSUME StickOpen
         PROVE  StaleOK'
    <2>1. /\ stick.pc = "wait" /\ stick'.pc = "opened" /\ gen' = gen + 1
          /\ UNCHANGED <<clients, acc, shut, hungup, ready>>
      BY <1>13 DEF StickOpen
    <2>2. \A i \in Slots : Stale(i)' => Stale(i)
      BY <2>1 DEF Stale, Usable
    <2>3. AccStale' => AccStale
      BY <2>1 DEF AccStale
    <2>4. QED
      BY <1>g, <2>1, <2>2, <2>3 DEF StaleOK
  \* The device stays attached, or is being taken down.
  <1>14. ASSUME StickReady \/ StickTeardown
         PROVE  StaleOK'
    <2>1. /\ stick.pc # "wait" /\ stick'.pc # "wait" /\ (ready' => stick'.pc = "live")
          /\ UNCHANGED <<clients, acc, gen, shut, hungup>>
      BY <1>0, <1>14 DEF StickReady, StickTeardown, StickState
    <2>2. \A i \in Slots : Stale(i)' => Stale(i)
      BY <2>1 DEF Stale, Usable
    <2>3. AccStale' => AccStale
      BY <2>1 DEF AccStale
    <2>4. QED
      BY <1>g, <2>1, <2>2, <2>3 DEF StaleOK
  <1>15. ASSUME DeviceGone
         PROVE  StaleOK'
    BY <1>15, <1>g, QuietStep DEF DeviceGone
  \* Nobody in a slot survives the dropping of all clients.
  <1>16. ASSUME StickNotifyDown
         PROVE  StaleOK'
    <2>1. /\ stick.pc = "torn" /\ UNCHANGED <<acc, gen, ready>>
          /\ \A i \in Slots : /\ clients'[i].active = clients[i].active
                              /\ clients'[i].sock = clients[i].sock
                              /\ clients'[i].gen = clients[i].gen
          /\ shut' = shut \cup {clients[i].sock : i \in {j \in Slots : clients[j].active}}
      BY <1>0, <1>16 DEF StickNotifyDown, DropAllClients, ClientState
    <2>2. \A i \in Slots : ~Stale(i)'
      BY <2>1 DEF Stale, Usable
    <2>3. QED
      BY <1>g, <2>1, <2>2 DEF StaleOK
  <1>17. ASSUME Web \/ UNCHANGED vars
         PROVE  StaleOK'
    BY <1>1, <1>17 DEF Web, WebPost, WebCheck, WebApply, vars
  <1>18. ~RadioReboot
    BY DEF RadioReboot
  <1>19. ASSUME NEW c \in Conns, ClientTask(c)
         PROVE  StaleOK'
    BY <1>10, <1>11, <1>12, <1>19 DEF ClientTask, Progress
  <1>20. AcceptTask \/ StickTask => StaleOK'
    BY <1>4, <1>6, <1>8, <1>9, <1>13, <1>14, <1>16 DEF AcceptTask, StickTask
  <1>21. QED
    BY <1>2, <1>15, <1>17, <1>18, <1>19, <1>20 DEF Next

\* The accept gate is tested without a lock; whatever the number of slots and
\* of devices plugged in, one session at most outlives the device it was for.
THEOREM OneStaleSession == Spec => []AtMostOneStaleSession
  <1>1. Init => TcpInv /\ StaleInv
    BY InitTcpInv, InitStaleInv
  <1>2. TcpInv /\ StaleInv /\ [Next]_vars => (TcpInv /\ StaleInv)'
    BY TcpStep, StaleStep
  <1>3. StaleInv => AtMostOneStaleSession
    BY DEF StaleInv, StaleOK, AtMostOneStaleSession
  <1>4. QED
    BY <1>1, <1>2, <1>3, PTL DEF Spec

-----------------------------------------------------------------------------
(***************************************************************************)
(* The wire of a UART source, whose controller only its own task replaces. *)
(***************************************************************************)

\* What makes the wire revert: a task that was told it is controller stays it
\* until it has applied the request, and a coding it leaves behind has a
\* controller, or a task on its way to revert it.
WireOK ==
    /\ stick.pc = "wait"
    /\ \A c \in Conns : pc[c] \in {"subneg", "got"} /\ loc[c].ctrl => ctrl_client = slot[c]
    /\ lc_source = 2 => ctrl_client # NULL \/ \E c \in Conns : pc[c] \in {"revert", "reapply"}

UartInv == kind = "uart" => WireOK

LEMMA InitUartInv == Init => UartInv
  BY DEF Init, UartInv, WireOK

\* Steps that leave the control, the line coding and the commands alone.
LEMMA WireQuiet ==
    ASSUME WireOK, pc \in [Conns -> TaskPc], UNCHANGED <<ctrl_client, lc_source, slot, loc, stick>>,
           NEW c \in Conns, NEW p, pc' = [pc EXCEPT ![c] = p],
           p \notin {"subneg", "got"}, pc[c] \notin {"revert", "reapply"}
    PROVE  WireOK'
  BY DEF WireOK

LEMMA UartStep == TcpInv /\ ControllerIsServed /\ UartInv /\ [Next]_vars => UartInv'
  <1> SUFFICES ASSUME TcpInv, ControllerIsServed, WireOK, kind = "uart", [Next]_vars
               PROVE  WireOK'
    <2>1. [Next]_vars => kind' = kind
      BY DEF Next, vars, srcVars, Connect, Hangup, SendError, ClientTask, comport_acquire, SubnegBegin,
             Progress, SubnegGet, SubnegApply, Cleanup, RevertResolve, RevertApply, AcceptTask, Accept,
             Gate, Admit, Spawn, StickTask, StickOpen, StickReady, StickTeardown, StickNotifyDown,
             DeviceGone, RadioReboot, Web, WebPost, WebCheck, WebApply
    <2>2. QED
      BY <2>1 DEF UartInv
  <1> USE DEF slotVars, connVars, sockVars, srcVars, lcVars
  <1>0. /\ clients \in [Slots -> ClientState] /\ pc \in [Conns -> TaskPc]
        /\ loc \in [Conns -> TaskLocals] /\ slot \in [Conns -> Slots \cup {NULL}]
        /\ web \in WebState /\ AcceptOK /\ SlotsServed
    BY DEF TcpInv, TypeOK
  <1>1. ASSUME UNCHANGED <<pc, slot, loc, stick, ctrl_client, lc_source>>
        PROVE  WireOK'
    BY <1>1 DEF WireOK
  <1>2. ASSUME NEW c \in Conns, Connect(c) \/ Accept(c)
        PROVE  WireOK'
    BY <1>0, <1>2, WireQuiet DEF Connect, Accept
  <1>3. ASSUME acc.pc \in {"gate", "admit"}, Reject, UNCHANGED <<slot, loc, stick, lc_source>>
        PROVE  WireOK'
    <2>1. acc.cs \in Conns /\ pc[acc.cs] = "accepted"
      BY <1>0, <1>3 DEF AcceptOK
    <2>2. QED
      <3>1. pc' = [pc EXCEPT ![acc.cs] = "closed"] /\ UNCHANGED <<ctrl_client, lc_source, slot, loc, stick>>
        BY <1>3 DEF Reject
      <3>2. QED
        BY <1>0, <2>1, <3>1 DEF WireOK
  <1>4. ASSUME Gate \/ Admit
        PROVE  WireOK'
    BY <1>1, <1>3, <1>4 DEF Gate, Admit
  <1>5. ASSUME Spawn
        PROVE  WireOK'
    <2>1. acc.cs \in Conns /\ pc[acc.cs] = "accepted"
      BY <1>0, <1>5 DEF Spawn, AcceptOK
    <2>2. /\ pc' = [pc EXCEPT ![acc.cs] = "recv"] \/ pc' = [pc EXCEPT ![acc.cs] = "unserved"]
          /\ \A d \in Conns \ {acc.cs} : slot'[d] = slot[d]
          /\ UNCHANGED <<loc, stick, ctrl_client, lc_source>>
      BY <1>0, <1>5 DEF Spawn
    <2>3. QED
      BY <1>0, <2>1, <2>2 DEF WireOK
  <1>6. ASSUME NEW c \in Conns, comport_acquire(c)
        PROVE  WireOK'
    <2>1. slot[c] \in Slots /\ UNCHANGED <<pc, slot, loc, stick, lc_source>>
      BY <1>0, <1>6 DEF comport_acquire, Command, Serving, Held, SlotsServed
    <2>2. \A d \in Conns : Serving(d) => slot[d] # NULL
      BY <1>0, Constants DEF SlotsServed, Held
    <2>3. QED
      BY <1>6, <2>1, <2>2, Constants DEF comport_acquire, WireOK, Serving, Held
  <1>7. ASSUME NEW c \in Conns, NEW r \in Requests, SubnegBegin(c, r)
        PROVE  WireOK'
    <2>1. /\ pc[c] = "recv" /\ slot[c] \in Slots
          /\ clients[slot[c]].is_controller <=> ctrl_client = slot[c]
      BY <1>0, <1>7 DEF SubnegBegin, Command, Serving, Held, SlotsServed, ControllerIsServed
    <2>2. /\ loc'[c].ctrl = clients[slot[c]].is_controller
          /\ \A d \in Conns \ {c} : loc'[d] = loc[d] /\ pc'[d] = pc[d]
          /\ UNCHANGED <<slot, stick, ctrl_client, lc_source>>
      BY <1>0, <1>7 DEF SubnegBegin, NoLocals
    <2>3. QED
      BY <2>1, <2>2 DEF WireOK
  <1>8. ASSUME NEW c \in Conns, SubnegGet(c)
        PROVE  WireOK'
    <2>1. /\ pc[c] = "subneg" /\ pc' = [pc EXCEPT ![c] = "got"] /\ loc'[c].ctrl = loc[c].ctrl
          /\ \A d \in Conns \ {c} : loc'[d] = loc[d]
          /\ UNCHANGED <<slot, stick, ctrl_client, lc_source>>
      BY <1>0, <1>8 DEF SubnegGet, TaskLocals
    <2>2. QED
      BY <1>0, <2>1 DEF WireOK
  \* A coding set by RFC2217 is set by the controller, who is still there.
  <1>9. ASSUME NEW c \in Conns, SubnegApply(c)
        PROVE  WireOK'
    <2>1. /\ pc[c] = "got" /\ pc' = [pc EXCEPT ![c] = "recv"]
          /\ \A d \in Conns \ {c} : loc'[d] = loc[d]
          /\ UNCHANGED <<slot, stick, ctrl_client>>
      BY <1>0, <1>9 DEF SubnegApply
    <2>2. loc[c].ctrl => ctrl_client # NULL
      BY <1>0, <2>1, Constants DEF WireOK, SlotsServed, Serving, Held
    <2>3. lc_source' = 2 => lc_source = 2 \/ ctrl_client # NULL
      BY <1>9, <2>2 DEF SubnegApply, apply_lc
    <2>4. QED
      BY <1>0, <2>1, <2>3 DEF WireOK
  \* The departing controller's own task reverts the wire.
  <1>10. ASSUME NEW c \in Conns, Cleanup(c)
         PROVE  WireOK'
    <2>1. pc[c] = "recv" /\ UNCHANGED <<slot, loc, stick, lc_source>>
      BY <1>10 DEF Cleanup
    <2>2. CASE ctrl_client = slot[c]
      <3>1. ctrl_client' = NULL /\ pc' = [pc EXCEPT ![c] = "revert"]
        BY <1>10, <2>2 DEF Cleanup
      <3>2. \A d \in Conns : pc[d] \in {"subneg", "got"} => slot[d] # slot[c]
        BY <1>0, <2>1 DEF SlotsServed, Serving, Held
      <3>3. QED
        BY <1>0, <2>1, <2>2, <3>1, <3>2 DEF WireOK
    <2>3. CASE ctrl_client # slot[c]
      <3>1. pc' = [pc EXCEPT ![c] = "closed"] /\ UNCHANGED ctrl_client
        BY <1>10, <2>3 DEF Cleanup
      <3>2. QED
        BY <1>0, <2>1, <3>1 DEF WireOK
    <2>4. QED
      BY <2>2, <2>3
  <1>11. ASSUME NEW c \in Conns, RevertResolve(c)
         PROVE  WireOK'
    <2>1. /\ pc[c] = "revert" /\ pc' = [pc EXCEPT ![c] = "reapply"]
          /\ \A d \in Conns \ {c} : loc'[d] = loc[d]
          /\ UNCHANGED <<slot, stick, ctrl_client, lc_source>>
      BY <1>0, <1>11 DEF RevertResolve
    <2>2. QED
      BY <1>0, <2>1 DEF WireOK
  <1>12. ASSUME NEW c \in Conns, RevertApply(c)
         PROVE  WireOK'
    <2>1. /\ pc' = [pc EXCEPT ![c] = "closed"] /\ lc_source' = loc[c].src /\ loc[c].src # 2
          /\ \A d \in Conns \ {c} : loc'[d] = loc[d]
          /\ UNCHANGED <<slot, stick, ctrl_client>>
      BY <1>0, <1>12 DEF RevertApply, apply_lc, ApplyMayFail, TaskLocals
    <2>2. QED
      BY <1>0, <2>1 DEF WireOK
  <1>13. ASSUME Web
         PROVE  WireOK'
    <2>1. UNCHANGED <<pc, slot, loc, stick, ctrl_client>>
      BY <1>13 DEF Web, WebPost, WebCheck, WebApply
    <2>2. lc_source' = lc_source \/ lc_source' \in {0, 1}
      BY <1>0, <1>13 DEF Web, WebPost, WebCheck, WebApply, apply_lc, ApplyMayFail, WebState
    <2>3. QED
      BY <2>1, <2>2 DEF WireOK
  <1>14. ~StickTask /\ ~DeviceGone /\ ~RadioReboot
    BY DEF WireOK, StickTask, StickOpen, StickReady, StickTeardown, StickNotifyDown, DeviceGone, RadioReboot
  <1>15. ASSUME NEW c \in Conns, Hangup(c) \/ SendError(c)
         PROVE  WireOK'
    BY <1>1, <1>15 DEF Hangup, SendError
  <1>16. ASSUME UNCHANGED vars
         PROVE  WireOK'
    BY <1>1, <1>16 DEF vars
  <1>17. ASSUME NEW c \in Conns, ClientTask(c)
         PROVE  WireOK'
    BY <1>6, <1>7, <1>8, <1>9, <1>10, <1>11, <1>12, <1>17 DEF ClientTask, Progress
  <1>18. AcceptTask => WireOK'
    BY <1>2, <1>4, <1>5 DEF AcceptTask
  <1>19. QED
    BY <1>2, <1>13, <1>14, <1>15, <1>16, <1>17, <1>18 DEF Next

\* With a UART source, "on controller disconnect the wire reverts": whoever
\* disconnects when, no line coding set by RFC2217 outlives the controller,
\* whatever the web interface does meanwhile.
THEOREM WireRevertsToDefault == Spec => []WireReverts
  <1>1. Init => TcpInv /\ ControllerIsServed /\ UartInv
    <2>1. Init => ControllerIsServed
      BY Constants DEF Init, ControllerIsServed, FreeSlot
    <2>2. QED
      BY <2>1, InitTcpInv, InitUartInv
  <1>2. /\ TcpInv /\ ControllerIsServed /\ UartInv /\ [Next]_vars
        => (TcpInv /\ ControllerIsServed /\ UartInv)'
    BY TcpStep, ControllerStep, UartStep
  <1>3. UartInv => WireReverts
    BY DEF UartInv, WireOK, WireReverts, Settled
  <1>4. QED
    BY <1>1, <1>2, <1>3, PTL DEF Spec

-----------------------------------------------------------------------------
(***************************************************************************)
(* The look at the controller flag and the use of it, for every source.    *)
(***************************************************************************)

\* A request that will be applied comes from the controller, or from a
\* connection that has been dropped since.
RequestsOwned ==
    \A c \in Conns :
        pc[c] \in {"subneg", "got"} /\ loc[c].ctrl => ctrl_client = slot[c] \/ c \in shut

\* Steps that begin and end no request, and take the control from nobody.
LEMMA OwnedQuiet ==
    ASSUME RequestsOwned,
           \A c \in Conns : pc'[c] \in {"subneg", "got"}
                            => UNCHANGED <<pc[c], slot[c], loc[c]>> /\ (c \in shut => c \in shut'),
           UNCHANGED ctrl_client
    PROVE  RequestsOwned'
  BY DEF RequestsOwned

LEMMA OwnedStep == TcpInv /\ ControllerIsServed /\ RequestsOwned /\ [Next]_vars => RequestsOwned'
  <1> SUFFICES ASSUME TcpInv, ControllerIsServed, RequestsOwned, [Next]_vars
               PROVE  RequestsOwned'
    OBVIOUS
  <1> USE DEF slotVars, connVars, sockVars, srcVars, lcVars
  <1>0. /\ clients \in [Slots -> ClientState] /\ pc \in [Conns -> TaskPc]
        /\ loc \in [Conns -> TaskLocals] /\ slot \in [Conns -> Slots \cup {NULL}]
        /\ AcceptOK /\ SlotsServed
    BY DEF TcpInv, TypeOK
  <1>1. ASSUME NEW c \in Conns, Connect(c) \/ Hangup(c) \/ SendError(c) \/ Accept(c)
        PROVE  RequestsOwned'
    BY <1>0, <1>1, OwnedQuiet DEF Connect, Hangup, SendError, Accept
  <1>2. ASSUME Gate \/ Admit
        PROVE  RequestsOwned'
    <2>1. acc.cs \in Conns /\ pc[acc.cs] = "accepted"
      BY <1>0, <1>2 DEF AcceptOK, Gate, Admit
    <2>2. CASE Reject /\ UNCHANGED <<slot, loc>>
      <3>1. /\ pc' = [pc EXCEPT ![acc.cs] = "closed"] /\ shut' = shut \ {acc.cs}
            /\ UNCHANGED <<ctrl_client, slot, loc>>
        BY <2>2 DEF Reject, Close
      <3>2. QED
        BY <1>0, <2>1, <3>1, OwnedQuiet
    <2>3. CASE UNCHANGED <<ctrl_client, pc, slot, loc, shut>>
      BY <2>3, OwnedQuiet
    <2>4. QED
      BY <1>2, <2>2, <2>3 DEF Gate, Admit
  <1>3. ASSUME Spawn
        PROVE  RequestsOwned'
    <2>1. acc.cs \in Conns /\ pc[acc.cs] = "accepted"
      BY <1>0, <1>3 DEF Spawn, AcceptOK
    <2>2. /\ \A d \in Conns \ {acc.cs} : slot'[d] = slot[d] /\ pc'[d] = pc[d]
          /\ pc'[acc.cs] \in {"recv", "unserved"}
          /\ UNCHANGED <<loc, shut, ctrl_client>>
      BY <1>0, <1>3, <2>1 DEF Spawn
    <2>3. QED
      BY <2>2, OwnedQuiet
  \* The control is taken when nobody has it.
  <1>4. ASSUME NEW c \in Conns, comport_acquire(c)
        PROVE  RequestsOwned'
    <2>1. \A d \in Conns : Serving(d) => slot[d] # NULL
      BY <1>0, Constants DEF SlotsServed, Held
    <2>2. QED
      BY <1>4, <2>1 DEF comport_acquire, RequestsOwned, Serving
  <1>5. ASSUME NEW c \in Conns, NEW r \in Requests, SubnegBegin(c, r)
        PROVE  RequestsOwned'
    <2>1. slot[c] \in Slots /\ (clients[slot[c]].is_controller <=> ctrl_client = slot[c])
      BY <1>0, <1>5 DEF SubnegBegin, Command, Serving, Held, SlotsServed, ControllerIsServed
    <2>2. /\ loc'[c].ctrl = clients[slot[c]].is_controller
          /\ \A d \in Conns \ {c} : loc'[d] = loc[d] /\ pc'[d] = pc[d]
          /\ UNCHANGED <<slot, ctrl_client, shut>>
      BY <1>0, <1>5 DEF SubnegBegin, NoLocals
    <2>3. QED
      BY <2>1, <2>2 DEF RequestsOwned
  <1>6. ASSUME NEW c \in Conns, SubnegGet(c)
        PROVE  RequestsOwned'
    <2>1. /\ pc[c] = "subneg" /\ pc' = [pc EXCEPT ![c] = "got"] /\ loc'[c].ctrl = loc[c].ctrl
          /\ \A d \in Conns \ {c} : loc'[d] = loc[d]
          /\ UNCHANGED <<slot, ctrl_client, shut>>
      BY <1>0, <1>6 DEF SubnegGet, TaskLocals
    <2>2. QED
      BY <1>0, <2>1 DEF RequestsOwned
  <1>7. ASSUME NEW c \in Conns, SubnegApply(c)
        PROVE  RequestsOwned'
    <2>1. /\ pc' = [pc EXCEPT ![c] = "recv"] /\ \A d \in Conns \ {c} : loc'[d] = loc[d]
          /\ UNCHANGED <<slot, ctrl_client, shut>>
      BY <1>0, <1>7 DEF SubnegApply
    <2>2. QED
      BY <1>0, <2>1, OwnedQuiet
  \* The control is given up by the task that has it, which has no request.
  <1>8. ASSUME NEW c \in Conns, Cleanup(c)
        PROVE  RequestsOwned'
    <2>1. /\ pc[c] = "recv" /\ UNCHANGED <<slot, loc>> /\ shut' = shut \ {c}
          /\ ctrl_client' = ctrl_client \/ ctrl_client = slot[c]
      BY <1>8 DEF Cleanup, close_client, Close
    <2>2. \E p \in {"revert", "closed"} : pc' = [pc EXCEPT ![c] = p]
      BY <1>8 DEF Cleanup
    <2>3. \A d \in Conns \ {c} : pc[d] \in {"subneg", "got"} => slot[d] # slot[c]
      BY <1>0, <2>1 DEF SlotsServed, Serving, Held
    <2>4. QED
      BY <1>0, <2>1, <2>2, <2>3 DEF RequestsOwned
  <1>9. ASSUME NEW c \in Conns, RevertResolve(c) \/ RevertApply(c)
        PROVE  RequestsOwned'
    <2>1. /\ \E p \in {"reapply", "closed"} : pc' = [pc EXCEPT ![c] = p]
          /\ \A d \in Conns \ {c} : loc'[d] = loc[d]
          /\ UNCHANGED <<slot, ctrl_client, shut>>
      BY <1>0, <1>9 DEF RevertResolve, RevertApply
    <2>2. QED
      BY <1>0, <2>1, OwnedQuiet
  \* A connection with a request has a slot, and is shut down with it.
  <1>10. ASSUME DropAllClients, UNCHANGED connVars
         PROVE  RequestsOwned'
    <2>1. \A c \in Conns : Serving(c) => c \in shut'
      BY <1>0, <1>10 DEF DropAllClients, SlotsServed, Held
    <2>2. QED
      BY <1>10, <2>1 DEF RequestsOwned, Serving
  <1>11. ASSUME UNCHANGED <<slotVars, connVars, sockVars>>
         PROVE  RequestsOwned'
    BY <1>11, OwnedQuiet
  <1>12. StickTask \/ DeviceGone \/ RadioReboot \/ Web => RequestsOwned'
    BY <1>10, <1>11 DEF StickTask, StickOpen, StickReady, StickTeardown, StickNotifyDown, DeviceGone,
                        RadioReboot, Web, WebPost, WebCheck, WebApply
  <1>13. ASSUME NEW c \in Conns, ClientTask(c)
         PROVE  RequestsOwned'
    BY <1>4, <1>5, <1>6, <1>7, <1>8, <1>9, <1>13 DEF ClientTask, Progress
  <1>14. AcceptTask => RequestsOwned'
    BY <1>1, <1>2, <1>3 DEF AcceptTask
  <1>15. QED
    BY <1>1, <1>11, <1>12, <1>13, <1>14 DEF Next, vars

\* A request that changes the line coding comes from the controller, or from a
\* connection that was dropped between the look at its flag and the use of it:
\* the control is never taken over from a live session, whatever the source.
THEOREM ControllerOrDroppedSets == Spec => SetByControllerOrDropped
  <1> DEFINE Inv == TcpInv /\ ControllerIsServed /\ RequestsOwned
  <1>1. Init => Inv
    BY InitTcpInv, Constants DEF Init, ControllerIsServed, FreeSlot, RequestsOwned
  <1>2. Inv /\ [Next]_vars => Inv'
    BY TcpStep, ControllerStep, OwnedStep
  <1>3. Inv /\ [Next]_vars
        => [ \A c \in Conns :
                /\ pc[c] = "got" /\ pc'[c] = "recv"
                /\ <<lc, lc_source>>' # <<lc, lc_source>>
                => ctrl_client = slot[c] \/ c \in shut ]_vars
    <2> SUFFICES ASSUME Inv, [Next]_vars, NEW c \in Conns, pc[c] = "got", pc'[c] = "recv",
                        <<lc, lc_source>>' # <<lc, lc_source>>
                 PROVE  ctrl_client = slot[c] \/ c \in shut
      OBVIOUS
    <2>1. pc \in [Conns -> TaskPc] /\ SlotsServed /\ AcceptOK
      BY DEF TcpInv, TypeOK
    <2>2. PICK d \in Conns : SubnegApply(d) \/ RevertApply(d) \/ StickReady \/ WebApply
      BY DEF Next, vars, slotVars, connVars, sockVars, srcVars, lcVars, Connect, Hangup, SendError,
             ClientTask, comport_acquire, SubnegBegin, Progress, SubnegGet, Cleanup, RevertResolve,
             AcceptTask, Accept, Gate, Admit, Spawn, StickTask, StickOpen, StickTeardown, StickNotifyDown,
             DeviceGone, RadioReboot, Web, WebPost, WebCheck
    <2>3. SubnegApply(c)
      BY <2>1, <2>2 DEF SubnegApply, RevertApply, StickReady, WebApply, connVars
    <2>4. QED
      BY <2>3 DEF SubnegApply, RequestsOwned
  <1>4. QED
    BY <1>1, <1>2, <1>3, PTL DEF Spec, SetByControllerOrDropped

-----------------------------------------------------------------------------
(***************************************************************************)
(* The refinement of PortLease.                                            *)
(***************************************************************************)

\* A socket is in one slot only.
LEMMA SocketsDistinct ==
    ASSUME TcpInv, NEW i \in Slots, NEW j \in Slots, clients[i].active, clients[j].active,
           clients[i].sock = clients[j].sock
    PROVE  i = j
  BY DEF TcpInv, SlotsServed, AcceptOK, Serving, Held

\* There are at most as many sessions as slots in use.
LEMMA SessionsFit ==
    /\ IsFiniteSet(Active)
    /\ Cardinality(Sessions) <= Cardinality(Active)
    /\ Cardinality(Sessions) \in Nat /\ Cardinality(Active) \in Nat
  <1>1. IsFiniteSet(Active)
    BY SinkTcpAssumption, FS_Subset DEF Active
  <1> DEFINE f == [i \in Active |-> clients[i].sock]
  <1>2. f \in Surjection(Active, Sessions)
    <2>1. f \in [Active -> Sessions] /\ \A s \in Sessions : \E i \in Active : f[i] = s
      BY DEF Active, Sessions
    <2>2. QED
      BY <2>1 DEF Surjection
  <1> HIDE DEF f
  <1>3. IsFiniteSet(Sessions) /\ Cardinality(Sessions) <= Cardinality(Active)
    BY <1>1, <1>2, FS_Surjection
  <1>4. QED
    BY <1>1, <1>3, FS_CardinalityType

\* A step that neither fills nor closes a slot.
LEMMA SessionsStay ==
    ASSUME \A i \in Slots : /\ clients'[i].active = clients[i].active
                            /\ clients'[i].sock = clients[i].sock
    PROVE  Sessions' = Sessions
  BY DEF Sessions

\* The sessions' own slots, and who owns the wire.
LEMMA OwnerServed ==
    ASSUME TcpInv, ControllerIsServed
    PROVE  /\ \A c \in Conns : Serving(c) => slot[c] \in Slots /\ c \in Sessions
           /\ ctrl_client = NULL => Owner = NULL
           /\ ctrl_client # NULL => /\ ctrl_client \in Slots /\ clients[ctrl_client].active
                                    /\ Owner \in Conns /\ slot[Owner] = ctrl_client
                                    /\ Owner = clients[ctrl_client].sock
  BY DEF TcpInv, TypeOK, SlotsServed, ControllerIsServed, Sessions, Owner, Held

LEMMA FillsImplements ==
    ASSUME TcpInv, ControllerIsServed, NEW i \in Slots, Fills(i)
    PROVE  PL!Open(acc.cs) /\ acc.cs \in Conns
  <1>0. /\ clients \in [Slots -> ClientState] /\ acc.pc = "admit" /\ ~clients[i].active
        /\ clients' = [clients EXCEPT ![i] = [active |-> TRUE, sock |-> acc.cs,
                                              is_controller |-> FALSE, gen |-> acc.gen]]
        /\ ctrl_client' = ctrl_client
    BY DEF Fills, TcpInv, TypeOK
  <1>1. acc.cs \in Conns /\ pc[acc.cs] = "accepted"
    BY <1>0 DEF TcpInv, AcceptOK
  <1>2. acc.cs \notin Sessions
    BY <1>0, <1>1 DEF TcpInv, SlotsServed, Serving, Held, Sessions
  <1>3. /\ clients'[i].active /\ clients'[i].sock = acc.cs
        /\ \A j \in Slots \ {i} : clients'[j] = clients[j]
    BY <1>0
  <1>4. Sessions' = Sessions \cup {acc.cs}
    BY <1>0, <1>3 DEF Sessions
  <1>5. Cardinality(Sessions) < Cardinality(Slots)
    <2>1. Active \in SUBSET Slots /\ Active # Slots
      BY <1>0 DEF Active
    <2>2. Cardinality(Active) <= Cardinality(Slots) /\ Cardinality(Active) # Cardinality(Slots)
      BY <2>1, SinkTcpAssumption, FS_Subset
    <2>3. Cardinality(Slots) \in Nat
      BY SinkTcpAssumption, FS_CardinalityType
    <2>4. QED
      BY <2>2, <2>3, SessionsFit
  <1>6. Owner' = Owner
    BY <1>0, <1>3, OwnerServed DEF Owner
  <1>7. PL!Cardinality(Sessions) = Cardinality(Sessions)
    BY DEF PL!Cardinality, Cardinality
  <1>8. QED
    BY <1>1, <1>2, <1>4, <1>5, <1>6, <1>7 DEF PL!Open

LEMMA AcquireImplements ==
    ASSUME TcpInv, ControllerIsServed, NEW c \in Conns, comport_acquire(c)
    PROVE  PL!Claim(c) \/ UNCHANGED PL!leaseVars
  <1>0. /\ clients \in [Slots -> ClientState] /\ pc[c] = "recv"
        /\ slot[c] \in Slots /\ c \in Sessions /\ clients[slot[c]].sock = c
    BY OwnerServed DEF TcpInv, TypeOK, SlotsServed, comport_acquire, Command, Serving, Held
  <1>1. CASE UNCHANGED <<ctrl_client, clients>>
    BY <1>1 DEF PL!leaseVars, Sessions, Owner
  <1>2. CASE /\ ctrl_client = NULL /\ ctrl_client' = slot[c]
             /\ clients' = [clients EXCEPT ![slot[c]].is_controller = TRUE]
    <2>1. \A i \in Slots : /\ clients'[i].active = clients[i].active
                           /\ clients'[i].sock = clients[i].sock
      BY <1>0, <1>2 DEF ClientState
    <2>2. Sessions' = Sessions
      BY <2>1, SessionsStay
    <2>3. Owner = NULL /\ Owner' = c
      BY <1>0, <1>2, <2>1, Constants DEF Owner
    <2>4. QED
      BY <1>0, <2>2, <2>3 DEF PL!Claim
  <1>3. QED
    BY <1>1, <1>2 DEF comport_acquire

\* The slot is closed, and ownership released only if it was this connection's.
LEMMA CleanupImplements ==
    ASSUME TcpInv, ControllerIsServed, NEW c \in Conns, Cleanup(c)
    PROVE  PL!Leave(c)
  <1>0. /\ clients \in [Slots -> ClientState] /\ pc[c] = "recv"
        /\ slot[c] \in Slots /\ c \in Sessions
        /\ clients[slot[c]].active /\ clients[slot[c]].sock = c
    BY OwnerServed DEF TcpInv, TypeOK, SlotsServed, Cleanup, Serving, Held
  <1>1. /\ ~clients'[slot[c]].active
        /\ \A j \in Slots \ {slot[c]} : clients'[j] = clients[j]
        /\ ctrl_client' = IF ctrl_client = slot[c] THEN NULL ELSE ctrl_client
    BY <1>0 DEF Cleanup, close_client, ClientState
  <1>2. \A j \in Slots \ {slot[c]} : clients[j].active => clients[j].sock # c
    BY <1>0, SocketsDistinct
  <1>3. Sessions' = Sessions \ {c}
    BY <1>0, <1>1, <1>2 DEF Sessions
  <1>4. CASE ctrl_client = slot[c]
    <2>1. Owner = c /\ Owner' = NULL
      BY <1>0, <1>1, <1>4, Constants DEF Owner
    <2>2. QED
      BY <1>0, <1>3, <2>1 DEF PL!Leave
  <1>5. CASE ctrl_client # slot[c]
    <2>1. Owner' = Owner /\ Owner # c
      BY <1>1, <1>5, OwnerServed, Constants DEF Owner
    <2>2. QED
      BY <1>0, <1>3, <2>1 DEF PL!Leave
  <1>6. QED
    BY <1>4, <1>5

LEMMA LeaseStep ==
    ASSUME TcpInv, ControllerIsServed, [Next]_vars
    PROVE  [PL!Next]_(PL!leaseVars)
  <1>1. CASE UNCHANGED slotVars
    BY <1>1 DEF slotVars, PL!leaseVars, Sessions, Owner
  <1>2. ASSUME DropAllClients
        PROVE  PL!Revoke
    <2>1. /\ clients \in [Slots -> ClientState] /\ ctrl_client' = NULL
          /\ clients' = [i \in Slots |-> [clients[i] EXCEPT !.is_controller = FALSE]]
      BY <1>2 DEF DropAllClients, TcpInv, TypeOK
    <2>2. \A i \in Slots : /\ clients'[i].active = clients[i].active
                           /\ clients'[i].sock = clients[i].sock
      BY <2>1 DEF ClientState
    <2>3. QED
      BY <2>1, <2>2, SessionsStay DEF PL!Revoke, Owner
  <1>3. QED
    BY <1>1, <1>2, SlotChanges, FillsImplements, AcquireImplements, CleanupImplements DEF PL!Next

\* The slots, the tasks and S.ctrl_client implement the lease of module PortLease,
\* for any number of slots and connections and every kind of source: there are
\* never more sessions than slots, and ownership of the wire is taken only when
\* it is free and never passes from one connection to another.
THEOREM LeaseRefinement == Spec => ImplementsPortLease
  <1>1. Init => PL!Init
    BY DEF Init, PL!Init, Sessions, Owner, FreeSlot
  <1>2. Spec => [](TcpInv /\ ControllerIsServed)
    <2>1. Init => TcpInv /\ ControllerIsServed
      <3>1. Init => ControllerIsServed
        BY Constants DEF Init, ControllerIsServed, FreeSlot
      <3>2. QED
        BY <3>1, InitTcpInv
    <2>2. TcpInv /\ ControllerIsServed /\ [Next]_vars => (TcpInv /\ ControllerIsServed)'
      BY TcpStep, ControllerStep
    <2>3. QED
      BY <2>1, <2>2, PTL DEF Spec
  <1>3. QED
    BY <1>1, <1>2, LeaseStep, PTL DEF Spec, ImplementsPortLease, PL!Spec
=============================================================================
