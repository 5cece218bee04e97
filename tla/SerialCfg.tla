----------------------------- MODULE SerialCfg ------------------------------
(***************************************************************************)
(* firmware/main/serialcfg.c: the line codings stored per device, a table  *)
(* of SERIALCFG_MAX blobs in NVS.                                          *)
(*                                                                         *)
(* The web server's task is the only writer.  The tasks of the sources     *)
(* look codings up at the same time; there is no lock around the table, a  *)
(* look-up reads it slot by slot and only each blob is read atomically.    *)
(* A store that fails in NVS changes nothing and is not an action.         *)
(***************************************************************************)
EXTENDS Integers, FiniteSets

CONSTANTS
    Keys,            \* device keys, as derived by the source
    Codings,         \* serialcfg_lc_t
    NULL,
    Readers,         \* tasks that call serialcfg_lookup
    SERIALCFG_MAX

ASSUME SerialCfgAssumption ==
    /\ SERIALCFG_MAX \in Nat \ {0}
    /\ NULL \notin Keys \cup Codings

VARIABLES
    table,           \* the blobs "scfg0", "scfg1", ...
    rd,              \* the serialcfg_lookup under way in each reader
    seen             \* history: codings the key had during that look-up

cfgVars == <<table, rd, seen>>

Slot    == 0..(SERIALCFG_MAX - 1)
entry_t == [used : BOOLEAN, key : Keys \cup {NULL}, lc : Codings \cup {NULL}]
Blank   == [used |-> FALSE, key |-> NULL, lc |-> NULL]

First(S) == CHOOSE i \in S : \A j \in S : i <= j

\* load_slot succeeds, and succeeds with the given key.
load_slot(i) == table[i].used
Matches(k)   == {i \in Slot : load_slot(i) /\ table[i].key = k}
Free         == {i \in Slot : ~load_slot(i)}

\* The coding a look-up finds that is not disturbed, NULL when it misses.
Stored(k) == IF Matches(k) = {} THEN NULL ELSE table[First(Matches(k))].lc

CfgInit ==
    /\ table = [i \in Slot |-> Blank]
    /\ rd = [r \in Readers |-> [pc |-> "idle", key |-> NULL, i |-> 0, ret |-> NULL]]
    /\ seen = [r \in Readers |-> {}]

\* The look-ups under way see the change.
Observe ==
    seen' = [r \in Readers |-> IF rd[r].pc = "scan" THEN seen[r] \cup {Stored(rd[r].key)'}
                                                    ELSE seen[r]]

\* Mutant: slot 0 is overwritten although another slot is free.
TargetSlot_NoFree(k) == IF Matches(k) # {} THEN First(Matches(k)) ELSE 0

\* The slot that holds the key, else the first free one, else slot 0.
TargetSlot(k) ==
    IF Matches(k) # {} THEN First(Matches(k)) ELSE IF Free # {} THEN First(Free) ELSE 0

serialcfg_upsert(k, lc) ==
    /\ table' = [table EXCEPT ![TargetSlot(k)] = [used |-> TRUE, key |-> k, lc |-> lc]]
    /\ UNCHANGED rd
    /\ Observe

\* Mutant: the table is compacted, the last entry moves into the hole.
delete_Compacts(k) ==
    /\ Matches(k) # {}
    /\ LET hole == First(Matches(k))
           last == CHOOSE i \in Slot \ Free : \A j \in Slot \ Free : j <= i
       IN  table' = [table EXCEPT ![hole] = table[last], ![last] = [table[last] EXCEPT !.used = FALSE]]
    /\ UNCHANGED rd
    /\ Observe

serialcfg_delete(k) ==
    /\ Matches(k) # {}
    /\ table' = [table EXCEPT ![First(Matches(k))].used = FALSE]
    /\ UNCHANGED rd
    /\ Observe

LookupStart(r, k) ==
    /\ rd[r].pc # "scan"
    /\ rd' = [rd EXCEPT ![r] = [pc |-> "scan", key |-> k, i |-> 0, ret |-> NULL]]
    /\ seen' = [seen EXCEPT ![r] = {Stored(k)}]
    /\ UNCHANGED table

\* One turn of the loop in serialcfg_lookup.
LookupSlot(r) ==
    LET l == rd[r]
    IN  /\ l.pc = "scan"
        /\ \/ /\ l.i \notin Slot
              /\ rd' = [rd EXCEPT ![r].pc = "done"]
           \/ /\ l.i \in Matches(l.key)
              /\ rd' = [rd EXCEPT ![r].pc = "done", ![r].ret = table[l.i].lc]
           \/ /\ l.i \in Slot \ Matches(l.key)
              /\ rd' = [rd EXCEPT ![r].i = l.i + 1]
        /\ UNCHANGED <<table, seen>>

CfgNext ==
    \/ \E k \in Keys : serialcfg_delete(k) \/ \E lc \in Codings : serialcfg_upsert(k, lc)
    \/ \E r \in Readers : LookupSlot(r) \/ \E k \in Keys : LookupStart(r, k)

CfgSpec == CfgInit /\ [][CfgNext]_cfgVars
-----------------------------------------------------------------------------
\* The type of the state: every slot in use holds a key and a coding.
CfgTypeOK ==
    /\ table \in [Slot -> entry_t]
    /\ \A i \in Slot : table[i].used => table[i].key \in Keys /\ table[i].lc \in Codings
    /\ rd \in [Readers -> [pc : {"idle", "scan", "done"}, key : Keys \cup {NULL},
                           i : 0..SERIALCFG_MAX, ret : Codings \cup {NULL}]]
    /\ \A r \in Readers : rd[r].pc = "scan" => rd[r].key \in Keys
    /\ seen \in [Readers -> SUBSET (Codings \cup {NULL})]

\* A device key occupies at most one slot, whatever was stored, deleted and
\* evicted before: no older coding of a key hides behind the current one to
\* come back when that is deleted.
KeysUnique ==
    \A i, j \in Slot : load_slot(i) /\ load_slot(j) /\ table[i].key = table[j].key => i = j

\* Although a look-up takes no lock and the table changes under it, its answer
\* was the stored coding of the key at some moment of the look-up; a miss means
\* that the key was absent at some moment.
LookupRegular == \A r \in Readers : rd[r].pc = "done" => rd[r].ret \in seen[r]

StoreMap == [k \in Keys |-> Stored(k)]

CS == INSTANCE CfgStore WITH store <- StoreMap, Capacity <- SERIALCFG_MAX

\* The table implements the bounded map of serialcfg.h (module CfgStore).
ImplementsCfgStore == CS!Spec
=============================================================================
