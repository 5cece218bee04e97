--------------------------- MODULE SettingsProofs ---------------------------
(***************************************************************************)
(* Proofs about what the firmware keeps in NVS and what it does with it:   *)
(* module SerialCfg, the line codings, for any number of slots, keys and   *)
(* readers, and module Net, the credentials and the ways in, for any       *)
(* credentials, limits and queue length.  The modules share no name.       *)
(***************************************************************************)
EXTENDS SerialCfg, Net, FiniteSetTheorems, WellFoundedInduction, TLAPS

\* A set of slots that is not empty has a first member.
LEMMA FirstMember ==
    ASSUME NEW S \in SUBSET Slot, S # {}
    PROVE  First(S) \in S
  <1> DEFINE R == OpToRel(<, Nat)
  <1>1. S \subseteq Nat
    BY SerialCfgAssumption DEF Slot
  <1>2. \E x \in S : \A y \in S : ~(<<y, x>> \in R)
    BY <1>1, NatLessThanWellFounded, WFMin
  <1>3. \A x, y \in S : <<y, x>> \in R <=> y < x
    BY <1>1 DEF OpToRel
  <1> HIDE DEF R
  <1>4. \E x \in S : \A y \in S : x <= y
    <2>1. PICK x \in S : \A y \in S : ~(<<y, x>> \in R)
      BY <1>2
    <2>2. \A y \in S : ~(y < x)
      BY <1>3, <2>1
    <2>3. \A y \in S : x \in Nat /\ y \in Nat
      BY <1>1
    <2>4. \A y \in S : x <= y
      BY <2>2, <2>3
    <2>5. QED
      BY <2>4
  <1>5. QED
    BY <1>4 DEF First

-----------------------------------------------------------------------------
(***************************************************************************)
(* Reading the table.                                                      *)
(***************************************************************************)

\* The target of a store is a slot; it holds the key already, or the key is
\* nowhere in the table.
LEMMA TargetSlotOK ==
    ASSUME NEW k
    PROVE  /\ TargetSlot(k) \in Slot
           /\ TargetSlot(k) \in Matches(k) \/ Matches(k) = {}
           /\ Matches(k) = {} /\ Free # {} => TargetSlot(k) \in Free
  <1>1. Matches(k) \in SUBSET Slot /\ Free \in SUBSET Slot /\ 0 \in Slot
    BY SerialCfgAssumption DEF Matches, Free, Slot
  <1>2. CASE Matches(k) # {}
    BY <1>1, <1>2, FirstMember DEF TargetSlot
  <1>3. CASE Matches(k) = {} /\ Free # {}
    BY <1>1, <1>3, FirstMember DEF TargetSlot
  <1>4. CASE Matches(k) = {} /\ Free = {}
    BY <1>1, <1>4 DEF TargetSlot
  <1>5. QED
    BY <1>2, <1>3, <1>4

\* The part of CfgTypeOK that is about the table.
TableOK ==
    /\ table \in [Slot -> entry_t]
    /\ \A i \in Slot : table[i].used => table[i].key \in Keys /\ table[i].lc \in Codings

\* What is stored for a key is a coding, and NULL when no slot holds the key.
LEMMA StoredType ==
    TableOK => \A k : /\ Stored(k) \in Codings \cup {NULL}
                      /\ Stored(k) = NULL <=> Matches(k) = {}
  <1> SUFFICES ASSUME TableOK, NEW k
               PROVE  /\ Stored(k) \in Codings \cup {NULL}
                      /\ Stored(k) = NULL <=> Matches(k) = {}
    OBVIOUS
  <1>1. CASE Matches(k) = {}
    BY <1>1 DEF Stored
  <1>2. CASE Matches(k) # {}
    <2>1. First(Matches(k)) \in Matches(k)
      BY <1>2, FirstMember DEF Matches
    <2>2. table[First(Matches(k))].lc \in Codings
      BY <2>1 DEF Matches, load_slot, TableOK
    <2>3. QED
      BY <1>2, <2>2, SerialCfgAssumption DEF Stored
  <1>3. QED
    BY <1>1, <1>2

\* With unique keys, any slot that holds a key tells what is stored for it.
LEMMA StoredIs ==
    KeysUnique => \A k : \A i \in Matches(k) : Stored(k) = table[i].lc
  <1> SUFFICES ASSUME KeysUnique, NEW k, NEW i \in Matches(k)
               PROVE  Stored(k) = table[i].lc
    OBVIOUS
  <1>1. Matches(k) \in SUBSET Slot /\ Matches(k) # {}
    BY DEF Matches
  <1>2. First(Matches(k)) \in Matches(k)
    BY <1>1, FirstMember
  <1>3. First(Matches(k)) = i
    BY <1>2 DEF Matches, KeysUnique
  <1>4. QED
    BY <1>1, <1>3 DEF Stored

\* The same facts about the next state.
LEMMA StoredPrimed ==
    /\ TableOK' => \A k : /\ Stored(k)' \in Codings \cup {NULL}
                          /\ Stored(k)' = NULL <=> Matches(k)' = {}
    /\ KeysUnique' => \A k : \A i \in Matches(k)' : Stored(k)' = table'[i].lc
  <1>1. (TableOK => \A k : /\ Stored(k) \in Codings \cup {NULL}
                           /\ Stored(k) = NULL <=> Matches(k) = {})'
    BY StoredType, PTL
  <1>2. (KeysUnique => \A k : \A i \in Matches(k) : Stored(k) = table[i].lc)'
    BY StoredIs, PTL
  <1>3. QED
    BY <1>1, <1>2
-----------------------------------------------------------------------------
(***************************************************************************)
(* Writing the table.  The key of a used slot never moves to another slot: *)
(* a store or a deletion leaves a key where it is or removes it.           *)
(***************************************************************************)

\* serialcfg_upsert.
LEMMA UpsertTable ==
    ASSUME TableOK, KeysUnique, NEW k \in Keys, NEW lc \in Codings, serialcfg_upsert(k, lc)
    PROVE  /\ TableOK' /\ KeysUnique'
           /\ Matches(k)' = {TargetSlot(k)} /\ table'[TargetSlot(k)].lc = lc
           /\ \A o \in Keys \ {k} : Matches(o)' = Matches(o) \ {TargetSlot(k)}
           /\ \A i \in Slot \ {TargetSlot(k)} : table'[i] = table[i]
  <1> DEFINE t == TargetSlot(k)
             e == [used |-> TRUE, key |-> k, lc |-> lc]
  <1>1. t \in Slot /\ (t \in Matches(k) \/ Matches(k) = {})
    BY TargetSlotOK
  <1>2. table' = [table EXCEPT ![t] = e]
    BY DEF serialcfg_upsert
  <1>3. e \in entry_t /\ e.used = TRUE /\ e.key = k /\ e.lc = lc
    BY DEF entry_t
  <1> HIDE DEF t, e
  <1>4. table'[t] = e /\ \A i \in Slot \ {t} : table'[i] = table[i]
    BY <1>1, <1>2 DEF TableOK
  <1>5. TableOK'
    BY <1>1, <1>2, <1>3, <1>4 DEF TableOK
  <1>6. \A i \in Slot : i \in Matches(k) => i = t
    BY <1>1 DEF Matches, KeysUnique
  <1>7. KeysUnique'
    BY <1>3, <1>4, <1>6 DEF KeysUnique, Matches, load_slot
  <1>8. Matches(k)' = {t}
    BY <1>1, <1>3, <1>4, <1>6 DEF Matches, load_slot
  <1>9. \A o \in Keys \ {k} : Matches(o)' = Matches(o) \ {t}
    BY <1>1, <1>3, <1>4 DEF Matches, load_slot
  <1>10. QED
    BY <1>3, <1>4, <1>5, <1>7, <1>8, <1>9 DEF t

\* serialcfg_delete.
LEMMA DeleteTable ==
    ASSUME TableOK, KeysUnique, NEW k \in Keys, serialcfg_delete(k)
    PROVE  /\ TableOK' /\ KeysUnique'
           /\ Matches(k)' = {}
           /\ \A o \in Keys \ {k} : Matches(o)' = Matches(o)
           /\ \A i \in Slot : table'[i].lc = table[i].lc
  <1> DEFINE d == First(Matches(k))
  <1>1. d \in Matches(k)
    BY FirstMember DEF serialcfg_delete, Matches
  <1>2. d \in Slot /\ table[d].key = k
    BY <1>1 DEF Matches
  <1>3. table' = [table EXCEPT ![d] = [table[d] EXCEPT !.used = FALSE]]
    BY DEF serialcfg_delete
  <1> HIDE DEF d
  <1>4. table[d] \in entry_t
    BY <1>2 DEF TableOK
  <1>5. /\ table'[d] \in entry_t /\ table'[d].used = FALSE
        /\ table'[d].key = table[d].key /\ table'[d].lc = table[d].lc
        /\ \A i \in Slot \ {d} : table'[i] = table[i]
    BY <1>2, <1>3, <1>4 DEF TableOK, entry_t
  <1>6. TableOK'
    BY <1>2, <1>3, <1>5 DEF TableOK
  <1>7. KeysUnique'
    BY <1>5 DEF KeysUnique, load_slot
  <1>8. Matches(k)' = {}
    BY <1>1, <1>5 DEF Matches, load_slot, KeysUnique
  <1>9. \A o \in Keys \ {k} : Matches(o)' = Matches(o)
    BY <1>2, <1>5 DEF Matches, load_slot
  <1>10. QED
    BY <1>2, <1>5, <1>6, <1>7, <1>8, <1>9
-----------------------------------------------------------------------------
(***************************************************************************)
(* The inductive invariant.  A look-up that has not found its key at the   *)
(* slots before i has either missed it while it was absent, or the key is  *)
(* at i or later.                                                          *)
(***************************************************************************)
ReadersOK ==
    /\ rd \in [Readers -> [pc : {"idle", "scan", "done"}, key : Keys \cup {NULL},
                           i : 0..SERIALCFG_MAX, ret : Codings \cup {NULL}]]
    /\ \A r \in Readers : rd[r].pc = "scan" => rd[r].key \in Keys /\ rd[r].ret = NULL
    /\ seen \in [Readers -> SUBSET (Codings \cup {NULL})]

ScanOK ==
    \A r \in Readers : rd[r].pc = "scan" =>
        /\ Stored(rd[r].key) \in seen[r]
        /\ NULL \in seen[r] \/ \E j \in Matches(rd[r].key) : rd[r].i <= j

\* The inductive invariant.
CfgInv == TableOK /\ KeysUnique /\ ReadersOK /\ ScanOK /\ LookupRegular

\* A change of the table that leaves every key where it is or removes it keeps
\* the look-ups under way correct.
LEMMA ObserveStep ==
    ASSUME CfgInv, TableOK', KeysUnique', UNCHANGED rd, Observe,
           \A k \in Keys : Matches(k) # {} => Matches(k)' = Matches(k) \/ Matches(k)' = {}
    PROVE  CfgInv'
  <1>1. \A r \in Readers : rd[r].pc = "scan" =>
            /\ seen'[r] = seen[r] \cup {Stored(rd[r].key)'}
            /\ rd[r].key \in Keys
    BY DEF Observe, CfgInv, ReadersOK
  <1>2. \A r \in Readers : rd[r].pc # "scan" => seen'[r] = seen[r]
    BY DEF Observe
  <1>3. \A k : Stored(k)' \in Codings \cup {NULL} /\ (Stored(k)' = NULL <=> Matches(k)' = {})
    BY StoredPrimed
  <1>4. \A r \in Readers : rd[r].pc = "scan" => Stored(rd[r].key)' \in Codings \cup {NULL}
    BY <1>3
  <1>5. seen' \in [Readers -> SUBSET (Codings \cup {NULL})]
    BY <1>4 DEF Observe, CfgInv, ReadersOK
  <1>6. ReadersOK'
    BY <1>5 DEF CfgInv, ReadersOK
  <1>7. LookupRegular'
    BY <1>2 DEF CfgInv, LookupRegular
  <1>8. ASSUME NEW r \in Readers, rd'[r].pc = "scan"
        PROVE  /\ Stored(rd[r].key)' \in seen'[r]
               /\ NULL \in seen'[r] \/ \E j \in Matches(rd[r].key)' : rd'[r].i <= j
    <2>1. PICK k \in Keys : k = rd[r].key
      BY <1>1, <1>8
    <2>2. rd[r].pc = "scan" /\ rd'[r] = rd[r] /\ k = rd'[r].key
      BY <1>8, <2>1
    <2>3. seen'[r] = seen[r] \cup {Stored(k)'}
      BY <1>1, <2>1, <2>2
    <2>4. NULL \in seen[r] \/ \E j \in Matches(k) : rd[r].i <= j
      BY <2>1, <2>2 DEF CfgInv, ScanOK
    <2>5. NULL \in seen'[r] \/ \E j \in Matches(k)' : rd[r].i <= j
      BY <1>3, <2>3, <2>4
    <2>6. QED
      BY <2>1, <2>2, <2>3, <2>5
  <1>9. ScanOK'
    BY <1>8 DEF ScanOK
  <1>10. QED
    BY <1>6, <1>7, <1>9 DEF CfgInv

\* serialcfg_lookup begins.
LEMMA LookupStartStep ==
    ASSUME CfgInv, NEW r \in Readers, NEW k \in Keys, LookupStart(r, k)
    PROVE  CfgInv'
  <1> DEFINE new == [pc |-> "scan", key |-> k, i |-> 0, ret |-> NULL]
  <1>1. table' = table /\ rd' = [rd EXCEPT ![r] = new] /\ seen' = [seen EXCEPT ![r] = {Stored(k)}]
    BY DEF LookupStart
  <1>2. TableOK' /\ KeysUnique'
    BY <1>1 DEF CfgInv, TableOK, KeysUnique, load_slot
  <1>3. \A o : Stored(o)' = Stored(o) /\ Matches(o)' = Matches(o)
    BY <1>1 DEF Stored, Matches, load_slot
  <1>4. Stored(k) \in Codings \cup {NULL} /\ (Stored(k) = NULL <=> Matches(k) = {})
    BY StoredType DEF CfgInv
  <1>5. new \in [pc : {"idle", "scan", "done"}, key : Keys \cup {NULL},
                  i : 0..SERIALCFG_MAX, ret : Codings \cup {NULL}]
    BY SerialCfgAssumption
  <1>6. new.pc = "scan" /\ new.key = k /\ new.i = 0 /\ new.ret = NULL
    OBVIOUS
  <1> HIDE DEF new
  <1>7. /\ rd'[r] = new /\ seen'[r] = {Stored(k)}
        /\ \A q \in Readers \ {r} : rd'[q] = rd[q] /\ seen'[q] = seen[q]
    BY <1>1 DEF CfgInv, ReadersOK
  <1>8. ReadersOK'
    BY <1>1, <1>4, <1>5, <1>6, <1>7 DEF CfgInv, ReadersOK
  <1>9. LookupRegular'
    BY <1>6, <1>7 DEF CfgInv, LookupRegular
  <1>10. \A j \in Matches(k) : 0 <= j
    BY SerialCfgAssumption DEF Matches, Slot
  <1>11. \A q \in Readers \ {r} : rd'[q].pc = "scan" =>
            /\ Stored(rd[q].key) \in seen[q]
            /\ NULL \in seen[q] \/ \E j \in Matches(rd[q].key) : rd[q].i <= j
    BY <1>7 DEF CfgInv, ScanOK
  <1>12. ASSUME NEW q \in Readers, rd'[q].pc = "scan", NEW o, o = rd'[q].key
         PROVE  /\ Stored(o) \in seen'[q]
                /\ NULL \in seen'[q] \/ \E j \in Matches(o) : rd'[q].i <= j
    <2>1. CASE q = r
      BY <1>4, <1>6, <1>7, <1>10, <1>12, <2>1
    <2>2. CASE q # r
      BY <1>7, <1>11, <1>12, <2>2
    <2>3. QED
      BY <2>1, <2>2
  <1>13. ScanOK'
    BY <1>3, <1>12 DEF ScanOK
  <1>14. QED
    BY <1>2, <1>8, <1>9, <1>13 DEF CfgInv

\* One turn of the loop of serialcfg_lookup.
LEMMA LookupSlotStep ==
    ASSUME CfgInv, NEW r \in Readers, LookupSlot(r)
    PROVE  CfgInv'
  <1> DEFINE T == [pc : {"idle", "scan", "done"}, key : Keys \cup {NULL},
                   i : 0..SERIALCFG_MAX, ret : Codings \cup {NULL}]
             k == rd[r].key
             n == rd[r].i
  <1>1. table' = table /\ seen' = seen
    BY DEF LookupSlot
  <1>2. TableOK' /\ KeysUnique'
    BY <1>1 DEF CfgInv, TableOK, KeysUnique, load_slot
  <1>3. \A o : Stored(o)' = Stored(o) /\ Matches(o)' = Matches(o)
    BY <1>1 DEF Stored, Matches, load_slot
  <1>4. /\ rd[r] \in T /\ rd[r].pc = "scan" /\ rd[r].ret = NULL /\ k \in Keys
        /\ n \in 0..SERIALCFG_MAX
    BY DEF LookupSlot, CfgInv, ReadersOK
  <1>5. Stored(k) \in seen[r] /\ (NULL \in seen[r] \/ \E j \in Matches(k) : n <= j)
    BY <1>4 DEF CfgInv, ScanOK
  <1>6. \A q \in Readers \ {r} : rd'[q] = rd[q]
    BY DEF LookupSlot, CfgInv, ReadersOK
  <1>7. rd' \in [Readers -> T] <=> rd'[r] \in T
    BY <1>6 DEF LookupSlot, CfgInv, ReadersOK
  <1>8. \/ /\ n \notin Slot
           /\ rd'[r] = [rd[r] EXCEPT !.pc = "done"]
        \/ /\ n \in Matches(k)
           /\ rd'[r] = [rd[r] EXCEPT !.pc = "done", !.ret = table[n].lc]
        \/ /\ n \in Slot /\ n \notin Matches(k)
           /\ rd'[r] = [rd[r] EXCEPT !.i = n + 1]
    BY DEF LookupSlot, CfgInv, ReadersOK
  <1>9. ASSUME rd'[r] \in T, rd'[r].key = k,
               rd'[r].pc = "done" => rd'[r].ret \in seen[r],
               rd'[r].pc = "scan" => rd'[r].ret = NULL,
               rd'[r].pc = "scan" => NULL \in seen[r] \/ \E j \in Matches(k) : rd'[r].i <= j
        PROVE  CfgInv'
    <2>1. ReadersOK'
      BY <1>1, <1>4, <1>6, <1>7, <1>9 DEF CfgInv, ReadersOK
    <2>2. LookupRegular'
      BY <1>1, <1>6, <1>9 DEF CfgInv, LookupRegular
    <2>3. ASSUME NEW q \in Readers, rd'[q].pc = "scan", NEW o, o = rd'[q].key
          PROVE  /\ Stored(o) \in seen[q]
                 /\ NULL \in seen[q] \/ \E j \in Matches(o) : rd'[q].i <= j
      <3>1. CASE q = r
        BY <1>5, <1>9, <2>3, <3>1
      <3>2. CASE q # r
        BY <1>6, <2>3, <3>2 DEF CfgInv, ScanOK
      <3>3. QED
        BY <3>1, <3>2
    <2>4. ScanOK'
      BY <1>1, <1>3, <2>3 DEF ScanOK
    <2>5. QED
      BY <1>2, <2>1, <2>2, <2>4 DEF CfgInv
  <1>10. CASE n \notin Slot /\ rd'[r] = [rd[r] EXCEPT !.pc = "done"]
    <2>1. ~\E j \in Matches(k) : n <= j
      BY <1>4, <1>10, SerialCfgAssumption DEF Matches, Slot
    <2>2. QED
      BY <1>4, <1>5, <1>9, <1>10, <2>1
  <1>11. CASE n \in Matches(k) /\ rd'[r] = [rd[r] EXCEPT !.pc = "done", !.ret = table[n].lc]
    <2>1. Stored(k) = table[n].lc
      BY <1>11, StoredIs DEF CfgInv
    <2>2. Stored(k) \in Codings \cup {NULL}
      BY StoredType DEF CfgInv
    <2>3. QED
      BY <1>4, <1>5, <1>9, <1>11, <2>1, <2>2
  <1>12. CASE n \in Slot /\ n \notin Matches(k) /\ rd'[r] = [rd[r] EXCEPT !.i = n + 1]
    <2>1. n + 1 \in 0..SERIALCFG_MAX
      BY <1>12, SerialCfgAssumption DEF Slot
    <2>2. \A j \in Matches(k) : n <= j => n + 1 <= j
      BY <1>12, SerialCfgAssumption DEF Matches, Slot
    <2>3. QED
      BY <1>4, <1>5, <1>9, <1>12, <2>1, <2>2
  <1>13. QED
    BY <1>8, <1>10, <1>11, <1>12

\* CfgInit and every step.
LEMMA CfgInvInit == CfgInit => CfgInv
  <1> SUFFICES ASSUME CfgInit PROVE CfgInv
    OBVIOUS
  <1>1. TableOK /\ KeysUnique
    BY DEF CfgInit, TableOK, KeysUnique, load_slot, Blank, entry_t
  <1>2. ReadersOK /\ ScanOK /\ LookupRegular
    BY SerialCfgAssumption DEF CfgInit, ReadersOK, ScanOK, LookupRegular
  <1>3. QED
    BY <1>1, <1>2 DEF CfgInv

\* Every step of the table's writers and readers preserves the invariant.
LEMMA CfgInvStep == CfgInv /\ [CfgNext]_cfgVars => CfgInv'
  <1> SUFFICES ASSUME CfgInv, [CfgNext]_cfgVars
               PROVE  CfgInv'
    OBVIOUS
  <1>1. ASSUME NEW k \in Keys, serialcfg_delete(k)
        PROVE  CfgInv'
    <2>1. /\ TableOK' /\ KeysUnique' /\ Matches(k)' = {}
          /\ \A o \in Keys \ {k} : Matches(o)' = Matches(o)
      BY <1>1, DeleteTable DEF CfgInv
    <2>2. UNCHANGED rd /\ Observe
      BY <1>1 DEF serialcfg_delete
    <2>3. QED
      BY <2>1, <2>2, ObserveStep
  <1>2. ASSUME NEW k \in Keys, NEW lc \in Codings, serialcfg_upsert(k, lc)
        PROVE  CfgInv'
    <2> DEFINE t == TargetSlot(k)
    <2>1. /\ TableOK' /\ KeysUnique' /\ Matches(k)' = {t}
          /\ \A o \in Keys \ {k} : Matches(o)' = Matches(o) \ {t}
      BY <1>2, UpsertTable DEF CfgInv
    <2>2. UNCHANGED rd /\ Observe
      BY <1>2 DEF serialcfg_upsert
    <2>3. \A o : \A i \in Matches(o) : Matches(o) = {i}
      BY DEF CfgInv, KeysUnique, Matches
    <2>4. Matches(k) # {} => t \in Matches(k)
      BY TargetSlotOK
    <2> HIDE DEF t
    <2>5. \A o \in Keys : Matches(o) # {} => Matches(o)' = Matches(o) \/ Matches(o)' = {}
      <3> SUFFICES ASSUME NEW o \in Keys, NEW i \in Matches(o)
                   PROVE  Matches(o)' = Matches(o) \/ Matches(o)' = {}
        OBVIOUS
      <3>1. CASE o = k
        BY <2>1, <2>3, <2>4, <3>1
      <3>2. CASE o # k
        BY <2>1, <2>3, <3>2
      <3>3. QED
        BY <3>1, <3>2
    <2>6. QED
      BY <2>1, <2>2, <2>5, ObserveStep
  <1>3. ASSUME UNCHANGED cfgVars
        PROVE  CfgInv'
    <2>1. table' = table /\ rd' = rd /\ seen' = seen
      BY <1>3 DEF cfgVars
    <2>2. TableOK' /\ KeysUnique'
      BY <2>1 DEF CfgInv, TableOK, KeysUnique, load_slot
    <2>3. \A o : Matches(o)' = Matches(o)
      BY <2>1 DEF Matches, load_slot
    <2>4. \A o : Stored(o)' = Stored(o)
      BY <2>1, <2>3 DEF Stored
    <2>5. ReadersOK' /\ LookupRegular'
      BY <2>1 DEF CfgInv, ReadersOK, LookupRegular
    <2>6. ScanOK'
      BY <2>1, <2>3, <2>4 DEF CfgInv, ScanOK
    <2>7. QED
      BY <2>2, <2>5, <2>6 DEF CfgInv
  <1>4. QED
    BY <1>1, <1>2, <1>3, LookupStartStep, LookupSlotStep DEF CfgNext

\* The table and the look-ups are well formed.
THEOREM CfgTypeCorrect == CfgSpec => []CfgTypeOK
  <1>1. CfgInv => CfgTypeOK
    BY DEF CfgInv, TableOK, ReadersOK, CfgTypeOK
  <1>2. QED
    BY <1>1, CfgInvInit, CfgInvStep, PTL DEF CfgSpec

\* No key is ever in two slots.
THEOREM KeysStayUnique == CfgSpec => []KeysUnique
  <1>1. CfgInv => KeysUnique
    BY DEF CfgInv
  <1>2. QED
    BY <1>1, CfgInvInit, CfgInvStep, PTL DEF CfgSpec

\* A look-up without a lock answers what was stored at some moment of it.
THEOREM LookupCorrect == CfgSpec => []LookupRegular
  <1>1. CfgInv => LookupRegular
    BY DEF CfgInv
  <1>2. QED
    BY <1>1, CfgInvInit, CfgInvStep, PTL DEF CfgSpec
-----------------------------------------------------------------------------
(***************************************************************************)
(* The table implements module CfgStore.                                   *)
(***************************************************************************)

\* With no free slot the stored keys are as many as there are slots.
LEMMA FullTable ==
    ASSUME CfgInv, Free = {}
    PROVE  Cardinality({k \in Keys : Stored(k) # NULL}) = SERIALCFG_MAX
  <1> DEFINE H == {k \in Keys : Stored(k) # NULL}
             f == [i \in Slot |-> table[i].key]
  <1>1. IsFiniteSet(Slot) /\ Cardinality(Slot) = SERIALCFG_MAX
    <2>1. SERIALCFG_MAX - 1 \in Int /\ ~(0 > SERIALCFG_MAX - 1)
      BY SerialCfgAssumption
    <2>2. /\ IsFiniteSet(0..(SERIALCFG_MAX - 1))
          /\ Cardinality(0..(SERIALCFG_MAX - 1)) =
                IF 0 > SERIALCFG_MAX - 1 THEN 0 ELSE (SERIALCFG_MAX - 1) - 0 + 1
      BY <2>1, FS_Interval
    <2>3. QED
      BY <2>1, <2>2, SerialCfgAssumption DEF Slot
  <1>2. \A i \in Slot : table[i].used /\ table[i].key \in Keys
    BY DEF Free, load_slot, CfgInv, TableOK
  <1>3. \A k \in Keys : Stored(k) # NULL <=> Matches(k) # {}
    BY StoredType DEF CfgInv
  <1>4. \A i \in Slot : i \in Matches(table[i].key)
    BY <1>2 DEF Matches, load_slot
  <1>5. \A i \in Slot : table[i].key \in H
    BY <1>2, <1>3, <1>4
  <1>6. f \in [Slot -> H]
    BY <1>5
  <1>7. IsInjective(f)
    BY <1>2 DEF IsInjective, CfgInv, KeysUnique, load_slot
  <1>8. \A k \in H : \E i \in Slot : f[i] = k
    BY <1>3 DEF Matches
  <1> HIDE DEF f, H
  <1>9. f \in Bijection(Slot, H)
    BY <1>6, <1>7, <1>8 DEF Bijection, Injection, Surjection
  <1>10. ExistsBijection(Slot, H)
    BY <1>9 DEF ExistsBijection
  <1>11. Cardinality(H) = SERIALCFG_MAX
    BY <1>1, <1>10, FS_Bijection
  <1>12. QED
    BY <1>11 DEF H

\* CfgStore counts with the same Cardinality.
LEMMA SameCardinality == \A S : CS!Cardinality(S) = Cardinality(S)
  BY DEF CS!Cardinality, Cardinality, CS!IsFiniteSet, IsFiniteSet

\* What is stored for a key stays when its slots and their codings stay.
LEMMA StoredStays ==
    ASSUME CfgInv, TableOK', KeysUnique', NEW k \in Keys, Matches(k)' = Matches(k),
           \A i \in Matches(k) : table'[i].lc = table[i].lc
    PROVE  Stored(k)' = Stored(k)
  <1>1. CASE Matches(k) = {}
    BY <1>1, StoredType, StoredPrimed DEF CfgInv
  <1>2. ASSUME NEW i \in Matches(k)
        PROVE  Stored(k)' = Stored(k)
    BY <1>2, StoredIs, StoredPrimed DEF CfgInv
  <1>3. QED
    BY <1>1, <1>2

\* Every step is a step of CfgStore or leaves the map alone.
LEMMA CfgStoreStep == CfgInv /\ [CfgNext]_cfgVars => [CS!Next]_StoreMap
  <1> SUFFICES ASSUME CfgInv, [CfgNext]_cfgVars
               PROVE  [CS!Next]_StoreMap
    OBVIOUS
  <1>1. ASSUME NEW k \in Keys, serialcfg_delete(k)
        PROVE  CS!Forget(k)
    <2>1. /\ TableOK' /\ KeysUnique' /\ Matches(k)' = {}
          /\ \A o \in Keys \ {k} : Matches(o)' = Matches(o)
          /\ \A i \in Slot : table'[i].lc = table[i].lc
      BY <1>1, DeleteTable DEF CfgInv
    <2>2. Stored(k)' = NULL
      BY <2>1, StoredPrimed
    <2>3. \A o : Matches(o) \subseteq Slot
      BY DEF Matches
    <2>4. \A o \in Keys \ {k} : Stored(o)' = Stored(o)
      BY <2>1, <2>3, StoredStays
    <2>5. QED
      BY <2>2, <2>4 DEF CS!Forget, StoreMap
  <1>2. ASSUME NEW k \in Keys, NEW lc \in Codings, serialcfg_upsert(k, lc)
        PROVE  CS!Put(k, lc) \/ \E o \in Keys : CS!PutEvicting(k, lc, o)
    <2> DEFINE t == TargetSlot(k)
    <2>1. /\ TableOK' /\ KeysUnique' /\ Matches(k)' = {t} /\ table'[t].lc = lc
          /\ \A o \in Keys \ {k} : Matches(o)' = Matches(o) \ {t}
          /\ \A i \in Slot \ {t} : table'[i] = table[i]
      BY <1>2, UpsertTable DEF CfgInv
    <2>2. /\ t \in Slot
          /\ t \in Matches(k) \/ Matches(k) = {}
          /\ Matches(k) = {} /\ Free # {} => t \in Free
      BY TargetSlotOK
    <2> HIDE DEF t
    <2>3. Stored(k)' = lc
      BY <2>1, StoredPrimed
    <2>4. \A o : Matches(o) \subseteq Slot
      BY DEF Matches
    <2>5. ASSUME NEW o \in Keys \ {k}, t \notin Matches(o)
          PROVE  Stored(o)' = Stored(o)
      <3>1. Matches(o)' = Matches(o)
        BY <2>1, <2>5
      <3>2. \A i \in Matches(o) : table'[i].lc = table[i].lc
        BY <2>1, <2>4, <2>5
      <3>3. QED
        BY <2>1, <3>1, <3>2, StoredStays
    <2>6. CASE \A o \in Keys \ {k} : t \notin Matches(o)
      BY <2>3, <2>5, <2>6 DEF CS!Put, StoreMap
    <2>7. ASSUME NEW o \in Keys \ {k}, t \in Matches(o)
          PROVE  CS!PutEvicting(k, lc, o)
      <3>1. t \notin Free /\ t \notin Matches(k)
        BY <2>7 DEF Matches, Free
      <3>2. Matches(k) = {} /\ Free = {}
        BY <2>2, <3>1
      <3>3. Cardinality({h \in Keys : Stored(h) # NULL}) = SERIALCFG_MAX
        BY <3>2, FullTable
      <3>4. CS!Held = {h \in Keys : Stored(h) # NULL}
        BY DEF CS!Held, StoreMap
      <3>5. Stored(k) = NULL
        BY <3>2, StoredType DEF CfgInv
      <3>6. Matches(o) = {t}
        BY <2>7 DEF CfgInv, KeysUnique, Matches
      <3>7. Stored(o)' = NULL
        BY <2>1, <3>6, StoredPrimed
      <3>8. \A h \in Keys \ {k, o} : t \notin Matches(h)
        BY <2>7 DEF Matches
      <3>9. \A h \in Keys \ {k, o} : Stored(h)' = Stored(h)
        BY <2>5, <3>8
      <3>10. StoreMap' = [StoreMap EXCEPT ![k] = lc, ![o] = NULL]
        BY <2>3, <3>7, <3>9 DEF StoreMap
      <3>11. k \notin CS!Held /\ Cardinality(CS!Held) = SERIALCFG_MAX
        BY <3>3, <3>4, <3>5
      <3>12. o # k
        BY <2>7
      <3>13. QED
        BY <3>10, <3>11, <3>12, SameCardinality DEF CS!PutEvicting
    <2>8. QED
      BY <2>6, <2>7
  <1>3. ASSUME UNCHANGED table
        PROVE  UNCHANGED StoreMap
    BY <1>3 DEF StoreMap, Stored, Matches, load_slot
  <1>4. QED
    BY <1>1, <1>2, <1>3 DEF CfgNext, LookupStart, LookupSlot, cfgVars, CS!Next

\* The NVS table is the bounded map serialcfg.h describes: storing changes the
\* entry of its key, and another one only when there is no room.
THEOREM CfgRefinement == CfgSpec => ImplementsCfgStore
  <1>1. CfgInit => CS!Init
    <2> SUFFICES ASSUME CfgInit PROVE CS!Init
      OBVIOUS
    <2>1. \A k : Matches(k) = {}
      BY DEF CfgInit, Matches, load_slot, Blank
    <2>2. QED
      BY <2>1 DEF CS!Init, StoreMap, Stored
  <1>2. QED
    BY <1>1, CfgInvInit, CfgInvStep, CfgStoreStep, PTL DEF CfgSpec, ImplementsCfgStore, CS!Spec
-----------------------------------------------------------------------------
(***************************************************************************)
(* Net: the inductive invariant, in parts.                                 *)
(***************************************************************************)

\* What an event says about the number of stations on the access point.
Delta(e) == IF e = "join" THEN 1 ELSE IF e = "leave" THEN -1 ELSE 0

\* h[i] is the number of stations there were when the i-th event was posted.
Stations(h) ==
    /\ h \in [0..Len(events) -> 0..MaxClients]
    /\ h[Len(events)] = joined
    /\ \A i \in 1..Len(events) : h[i] = h[i - 1] + Delta(events[i])

\* The count is that number for the events handled so far, or less after the
\* teardown has cleared it; then the events to come take the number to zero.
CountOK ==
    \E h : /\ Stations(h)
           /\ s_ap_clients <= h[0]
           /\ s_ap_clients = h[0] \/ \E k \in 0..Len(events) : h[k] = 0

\* While the access point is torn down nobody raises it, and whoever is about to
\* set the flag has put the driver in APSTA mode.  One teardown at a time is
\* scheduled.
ApOK ==
    /\ s_ap_active => ap_on \/ teardown = "flag"
    /\ evt = "flag" \/ fallback = "flag" => ap_on
    /\ teardown \in {"stop", "flag"} => s_ap_active /\ ~Starting
    /\ teardown = "stop" => ap_on
    /\ teardown = "flag" => ~ap_on
    /\ joined > 0 => ap_on
    /\ phase = "boot" => fallback = "none"
    /\ teardown # "none" => s_ap_teardown_pending

NetInv == TypeOK /\ ApOK /\ ApFlagTruthful /\ CountOK

-----------------------------------------------------------------------------
(***************************************************************************)
(* Net: the count of stations and the events under way.                    *)
(***************************************************************************)

LEMMA CountKept ==
    ASSUME CountOK, UNCHANGED <<events, joined, s_ap_clients>>
    PROVE  CountOK'
  BY DEF CountOK, Stations

LEMMA CountNone == events = << >> /\ joined = 0 /\ s_ap_clients = 0 => CountOK
  <1> SUFFICES ASSUME events = << >>, joined = 0, s_ap_clients = 0
               PROVE  CountOK
    OBVIOUS
  <1>1. PICK h : h = [i \in {0} |-> 0]
    OBVIOUS
  <1>2. Stations(h)
    BY <1>1, NetAssumption DEF Stations
  <1>3. QED
    BY <1>1, <1>2 DEF CountOK

\* A driver posts an event.
LEMMA CountPosted ==
    ASSUME TypeOK, CountOK, NEW e \in Events, events' = Append(events, e),
           joined' \in 0..MaxClients, joined' = joined + Delta(e), UNCHANGED s_ap_clients
    PROVE  CountOK'
  <1> DEFINE m == Len(events)
  <1>1. m \in Nat /\ events \in Seq(Events) /\ MaxClients \in Nat
    BY NetAssumption DEF TypeOK
  <1>2. PICK h : /\ Stations(h)
                 /\ s_ap_clients <= h[0]
                 /\ s_ap_clients = h[0] \/ \E k \in 0..m : h[k] = 0
    BY DEF CountOK
  <1>3. Len(events') = m + 1 /\ events'[m + 1] = e /\ \A i \in 1..m : events'[i] = events[i]
    BY <1>1
  <1> HIDE DEF m
  <1>4. /\ h \in [0..m -> 0..MaxClients] /\ h[m] = joined
        /\ \A i \in 1..m : h[i] = h[i - 1] + Delta(events[i])
    BY <1>2 DEF Stations, m
  <1>5. PICK g : g = [i \in 0..(m + 1) |-> IF i = m + 1 THEN joined' ELSE h[i]]
    OBVIOUS
  <1>6. g \in [0..(m + 1) -> 0..MaxClients] /\ g[m + 1] = joined'
    BY <1>1, <1>4, <1>5
  <1>7. ASSUME NEW i \in 1..(m + 1)
        PROVE  g[i] = g[i - 1] + Delta(events'[i])
    BY <1>1, <1>3, <1>4, <1>5
  <1>8. Stations(g)'
    BY <1>3, <1>6, <1>7 DEF Stations, Delta
  <1>9. g[0] = h[0] /\ \A k \in 0..m : g[k] = h[k] /\ k \in 0..(m + 1)
    BY <1>1, <1>5
  <1>10. QED
    BY <1>2, <1>3, <1>8, <1>9 DEF CountOK

\* The event task handles one.
LEMMA CountHandled ==
    ASSUME TypeOK, CountOK, events # << >>, events' = Tail(events), UNCHANGED joined,
           s_ap_clients' = IF Head(events) = "join" THEN s_ap_clients + 1
                           ELSE IF Head(events) = "leave" /\ s_ap_clients > 0
                           THEN s_ap_clients - 1 ELSE s_ap_clients
    PROVE  CountOK'
  <1> DEFINE m == Len(events)
  <1>1. m \in Nat \ {0} /\ events \in Seq(Events) /\ MaxClients \in Nat /\ s_ap_clients \in Nat
    BY NetAssumption DEF TypeOK
  <1>2. PICK h : /\ Stations(h)
                 /\ s_ap_clients <= h[0]
                 /\ s_ap_clients = h[0] \/ \E k \in 0..m : h[k] = 0
    BY DEF CountOK
  <1>3. /\ Len(events') = m - 1 /\ Head(events) = events[1]
        /\ \A i \in 1..(m - 1) : events'[i] = events[i + 1]
    BY <1>1
  <1> HIDE DEF m
  <1>4. /\ h \in [0..m -> 0..MaxClients] /\ h[m] = joined
        /\ \A i \in 1..m : h[i] = h[i - 1] + Delta(events[i])
    BY <1>2 DEF Stations, m
  <1>0. PICK g : g = [i \in 0..(m - 1) |-> h[i + 1]]
    OBVIOUS
  <1>5. /\ g \in [0..(m - 1) -> 0..MaxClients] /\ g[m - 1] = joined'
    BY <1>1, <1>4, <1>0
  <1>6. \A i \in 1..(m - 1) : g[i] = g[i - 1] + Delta(events'[i])
    BY <1>1, <1>3, <1>4, <1>0
  <1>7. Stations(g)'
    BY <1>3, <1>5, <1>6 DEF Stations, Delta
  <1>8. g[0] = h[1] /\ h[1] = h[0] + Delta(Head(events)) /\ h[0] \in Nat /\ h[1] \in Nat
    BY <1>1, <1>3, <1>4, <1>0
  <1>9. /\ s_ap_clients' <= g[0]
        /\ s_ap_clients = h[0] => s_ap_clients' = g[0]
    BY <1>1, <1>2, <1>8 DEF Delta
  <1>10. ASSUME NEW k \in 0..m, h[k] = 0
         PROVE  s_ap_clients = h[0] \/ \E j \in 0..(m - 1) : g[j] = 0
    <2>1. CASE k = 0
      BY <1>2, <1>8, <1>10, <2>1, <1>1
    <2>2. CASE k # 0
      <3>1. k - 1 \in 0..(m - 1) /\ g[k - 1] = h[k]
        BY <1>1, <1>0, <2>2
      <3>2. QED
        BY <1>10, <3>1
    <2>3. QED
      BY <2>1, <2>2
  <1>11. QED
    BY <1>2, <1>3, <1>7, <1>9, <1>10 DEF CountOK
\* The teardown cuts the stations off.
LEMMA CountCutOff ==
    /\ TypeOK /\ CountOK
    /\ events' = events \o [i \in 1..joined |-> "leave"]
    /\ joined' = 0 /\ UNCHANGED s_ap_clients
    => CountOK'
  <1>0. SUFFICES ASSUME TypeOK, CountOK, events' = events \o [i \in 1..joined |-> "leave"],
                        joined' = 0, UNCHANGED s_ap_clients
                 PROVE  CountOK'
    OBVIOUS
  <1> DEFINE m == Len(events)
  <1>1. m \in Nat /\ events \in Seq(Events) /\ MaxClients \in Nat /\ joined \in 0..MaxClients
    BY <1>0, NetAssumption DEF TypeOK
  <1>2. PICK h : /\ Stations(h)
                 /\ s_ap_clients <= h[0]
                 /\ s_ap_clients = h[0] \/ \E k \in 0..m : h[k] = 0
    BY <1>0 DEF CountOK
  <1>3. /\ Len(events') = m + joined
        /\ \A i \in 1..m : events'[i] = events[i]
        /\ \A i \in (m + 1)..(m + joined) : events'[i] = "leave"
    BY <1>0, <1>1
  <1> HIDE DEF m
  <1>4. /\ h \in [0..m -> 0..MaxClients] /\ h[m] = joined
        /\ \A i \in 1..m : h[i] = h[i - 1] + Delta(events[i])
    BY <1>2 DEF Stations, m
  <1>5. PICK g : g = [i \in 0..(m + joined) |-> IF i <= m THEN h[i] ELSE joined - (i - m)]
    OBVIOUS
  <1>6. g \in [0..(m + joined) -> 0..MaxClients] /\ g[m + joined] = 0
    <2>1. \A i \in 0..(m + joined) : g[i] \in 0..MaxClients
      BY <1>1, <1>4, <1>5
    <2>2. g \in [0..(m + joined) -> 0..MaxClients]
      BY <1>5, <2>1
    <2>3. CASE joined = 0
      BY <1>1, <1>4, <1>5, <2>2, <2>3
    <2>4. CASE joined # 0
      BY <1>1, <1>5, <2>2, <2>4
    <2>5. QED
      BY <2>2, <2>3, <2>4
  <1>7. ASSUME NEW i \in 1..(m + joined)
        PROVE  g[i] = g[i - 1] + Delta(events'[i])
    <2>0. i \in Int /\ i - 1 \in 0..(m + joined) /\ i \in 0..(m + joined)
      BY <1>1
    <2>1. CASE i <= m
      BY <1>1, <1>3, <1>4, <1>5, <2>1
    <2>2. CASE i > m
      <3>1. events'[i] = "leave" /\ Delta(events'[i]) = -1
        BY <1>1, <1>3, <2>2 DEF Delta
      <3>2. g[i] = joined - (i - m)
        BY <1>1, <1>5, <2>0, <2>2
      <3>3. g[i - 1] = joined - (i - 1 - m)
        <4>1. CASE i - 1 = m
          BY <1>1, <1>4, <1>5, <2>0, <4>1
        <4>2. CASE i - 1 > m
          BY <1>1, <1>5, <2>0, <4>2
        <4>3. QED
          BY <1>1, <2>0, <2>2, <4>1, <4>2
      <3>4. QED
        BY <1>1, <2>0, <3>1, <3>2, <3>3
    <2>3. QED
      BY <1>1, <2>0, <2>1, <2>2
  <1>8. Stations(g)'
    BY <1>0, <1>3, <1>6, <1>7 DEF Stations, Delta
  <1>9. g[0] = h[0] /\ m + joined \in 0..(m + joined)
    BY <1>1, <1>5
  <1>10. QED
    BY <1>0, <1>2, <1>3, <1>6, <1>8, <1>9 DEF CountOK

\* The teardown clears the count.
LEMMA CountCleared ==
    ASSUME TypeOK, CountOK, joined = 0, s_ap_clients' \in {0, s_ap_clients},
           UNCHANGED <<events, joined>>
    PROVE  CountOK'
  <1>1. PICK h : /\ Stations(h)
                 /\ s_ap_clients <= h[0]
                 /\ s_ap_clients = h[0] \/ \E k \in 0..Len(events) : h[k] = 0
    BY DEF CountOK
  <1>2. /\ Stations(h)' /\ h[Len(events)] = 0 /\ Len(events) \in 0..Len(events)
        /\ h[0] \in Nat /\ Len(events') = Len(events)
    BY <1>1, NetAssumption DEF Stations, TypeOK
  <1>3. QED
    BY <1>1, <1>2 DEF CountOK

LEMMA CountBound ==
    s_ap_clients \in Nat /\ events \in Seq(Events) /\ CountOK =>
        s_ap_clients <= MaxClients /\ (events = << >> => s_ap_clients = joined)
  <1> SUFFICES ASSUME s_ap_clients \in Nat, events \in Seq(Events), CountOK
               PROVE  s_ap_clients <= MaxClients /\ (events = << >> => s_ap_clients = joined)
    OBVIOUS
  <1>1. PICK h : /\ Stations(h)
                 /\ s_ap_clients <= h[0]
                 /\ s_ap_clients = h[0] \/ \E k \in 0..Len(events) : h[k] = 0
    BY DEF CountOK
  <1>2. h[0] <= MaxClients /\ h[0] \in Nat /\ MaxClients \in Nat
    <2>1. MaxClients \in Nat /\ 0 \in 0..Len(events)
      BY NetAssumption
    <2>2. h \in [0..Len(events) -> 0..MaxClients]
      BY <1>1 DEF Stations
    <2>3. h[0] \in 0..MaxClients
      BY <2>1, <2>2
    <2>4. QED
      BY <2>1, <2>3
  <1>3. ASSUME events = << >>
        PROVE  s_ap_clients = joined
    <2>1. Len(events) = 0
      BY <1>3
    <2>2. h[0] = joined /\ h[0] \in Nat
      BY <1>1, <2>1, NetAssumption DEF Stations
    <2>3. \A k \in 0..Len(events) : k = 0
      BY <2>1
    <2>4. s_ap_clients = h[0]
      BY <1>1, <2>2, <2>3
    <2>5. QED
      BY <2>2, <2>4
  <1>4. QED
    BY <1>1, <1>2, <1>3
-----------------------------------------------------------------------------
(***************************************************************************)
(* Net: every step.                                                        *)
(***************************************************************************)

\* The flag, the driver's access point and the tasks that change them.
LEMMA ApStep == joined \in Nat /\ ApOK /\ ApFlagTruthful /\ [Next]_vars => ApOK' /\ ApFlagTruthful'
  <1> SUFFICES ASSUME joined \in Nat, ApOK, ApFlagTruthful, [Next]_vars
               PROVE  ApOK' /\ ApFlagTruthful'
    OBVIOUS
  <1> USE DEF wifiVars, apVars, dnsVars, credVars, bkVars, lifeVars, linkVars,
             ApOK, ApFlagTruthful, Starting
  <1>1. ASSUME Boot
        PROVE  ApOK' /\ ApFlagTruthful'
    BY <1>1 DEF Boot
  <1>2. ASSUME Associate
        PROVE  ApOK' /\ ApFlagTruthful'
    BY <1>2 DEF Associate, Driver
  <1>3. ASSUME Refuse
        PROVE  ApOK' /\ ApFlagTruthful'
    BY <1>3 DEF Refuse, Room, Driver
  <1>4. ASSUME Drop
        PROVE  ApOK' /\ ApFlagTruthful'
    BY <1>4 DEF Drop, Room, Driver
  <1>5. ASSUME EthLink
        PROVE  ApOK' /\ ApFlagTruthful'
    BY <1>5 DEF EthLink, Room, Driver
  <1>6. ASSUME ClientJoins
        PROVE  ApOK' /\ ApFlagTruthful'
    BY <1>6 DEF ClientJoins, Room, Driver
  <1>7. ASSUME ClientLeaves
        PROVE  ApOK' /\ ApFlagTruthful'
    BY <1>7 DEF ClientLeaves, Room, Driver
  <1>8. ASSUME StaDisconnected
        PROVE  ApOK' /\ ApFlagTruthful'
    BY <1>8 DEF StaDisconnected, Next1, SoftApWanted, Connect
  <1>9. ASSUME StaGotIp
        PROVE  ApOK' /\ ApFlagTruthful'
    BY <1>9 DEF StaGotIp, Next1, net_note_uplink_up
  <1>10. ASSUME EthGotIp
        PROVE  ApOK' /\ ApFlagTruthful'
    BY <1>10 DEF EthGotIp, Next1, Handled, net_note_uplink_up
  <1>11. ASSUME EthDisconnected
        PROVE  ApOK' /\ ApFlagTruthful'
    BY <1>11 DEF EthDisconnected, Next1, Handled
  <1>12. ASSUME ApStaConnected
        PROVE  ApOK' /\ ApFlagTruthful'
    BY <1>12 DEF ApStaConnected, Next1, Handled
  <1>13. ASSUME ApStaDisconnected
        PROVE  ApOK' /\ ApFlagTruthful'
    BY <1>13 DEF ApStaDisconnected, Next1, Handled
  <1>14. ASSUME EventApMode
        PROVE  ApOK' /\ ApFlagTruthful'
    BY <1>14 DEF EventApMode, SoftApMode
  <1>15. ASSUME EventApRaised
        PROVE  ApOK' /\ ApFlagTruthful'
    BY <1>15 DEF EventApRaised, SoftApRaised
  <1>16. ASSUME FallbackFires
        PROVE  ApOK' /\ ApFlagTruthful'
    BY <1>16 DEF FallbackFires, SoftApWanted
  <1>17. ASSUME FallbackApMode
        PROVE  ApOK' /\ ApFlagTruthful'
    BY <1>17 DEF FallbackApMode, SoftApMode
  <1>18. ASSUME FallbackApRaised
        PROVE  ApOK' /\ ApFlagTruthful'
    BY <1>18 DEF FallbackApRaised, SoftApRaised
  <1>19. ASSUME GraceOver
        PROVE  ApOK' /\ ApFlagTruthful'
    BY <1>19 DEF GraceOver, Teardown
  <1>20. ASSUME StopMode
        PROVE  ApOK' /\ ApFlagTruthful'
    BY <1>20 DEF StopMode, Teardown, Room
  <1>21. ASSUME StopFlag
        PROVE  ApOK' /\ ApFlagTruthful'
    BY <1>21 DEF StopFlag, Teardown
  <1>22. ASSUME TeardownDone
        PROVE  ApOK' /\ ApFlagTruthful'
    BY <1>22 DEF TeardownDone, Teardown
  <1>23. ASSUME DnsClose
        PROVE  ApOK' /\ ApFlagTruthful'
    BY <1>23 DEF DnsClose, Dns
  <1>24. ASSUME DnsEnd
        PROVE  ApOK' /\ ApFlagTruthful'
    BY <1>24 DEF DnsEnd, Dns
  <1>25. ASSUME Supervise
        PROVE  ApOK' /\ ApFlagTruthful'
    BY <1>25 DEF Supervise, Connect
  <1>26. ASSUME WdtPoll
        PROVE  ApOK' /\ ApFlagTruthful'
    <2>1. CASE Age(0) \/ Age(age + 1)
      BY <2>1 DEF Age
    <2>2. CASE Reboot
      BY <2>2 DEF Reboot
    <2>3. QED
      BY <1>26, <2>1, <2>2 DEF WdtPoll
  <1>27. ASSUME NEW n \in Nets, TryDisconnect(n)
        PROVE  ApOK' /\ ApFlagTruthful'
    BY <1>27 DEF TryDisconnect, Room
  <1>28. ASSUME NEW n \in Nets, SaveCreds(n)
        PROVE  ApOK' /\ ApFlagTruthful'
    BY <1>28 DEF SaveCreds
  <1>29. ASSUME TryConfigure
        PROVE  ApOK' /\ ApFlagTruthful'
    BY <1>29 DEF TryConfigure, ImprovRest, Connect
  <1>30. ASSUME TryAgain
        PROVE  ApOK' /\ ApFlagTruthful'
    BY <1>30 DEF TryAgain, Connect
  <1>31. ASSUME TrySucceeds
        PROVE  ApOK' /\ ApFlagTruthful'
    BY <1>31 DEF TrySucceeds, TryReturns, ImprovRest
  <1>32. ASSUME TryFails
        PROVE  ApOK' /\ ApFlagTruthful'
    BY <1>32 DEF TryFails, TryReturns, ImprovRest
  <1>33. ASSUME WindowCloses
        PROVE  ApOK' /\ ApFlagTruthful'
    BY <1>33 DEF WindowCloses, ImprovRest, Connect
  <1>34. ASSUME ClearCreds
        PROVE  ApOK' /\ ApFlagTruthful'
    BY <1>34 DEF ClearCreds, Reboot
  <1>35. ASSUME UNCHANGED vars
        PROVE  ApOK' /\ ApFlagTruthful'
    BY <1>35 DEF vars
  <1>36. ASSUME Lease
        PROVE  ApOK' /\ ApFlagTruthful'
    BY <1>36 DEF Lease, Room, Driver
  <1>37. QED
    BY <1>1, <1>2, <1>3, <1>4, <1>5, <1>6, <1>7, <1>8, <1>9, <1>10, <1>11, <1>12, <1>13,
       <1>14, <1>15, <1>16, <1>17, <1>18, <1>19, <1>20, <1>21, <1>22, <1>23, <1>24,
       <1>25, <1>26, <1>27, <1>28, <1>29, <1>30, <1>31, <1>32, <1>33, <1>34, <1>35, <1>36
    DEF Next, EventTask, FallbackTask, TeardownTask, DnsTask, TryEnds

\* The stations and their count.
LEMMA CountStep == TypeOK /\ ApOK /\ CountOK /\ [Next]_vars => CountOK'
  <1> SUFFICES ASSUME TypeOK, ApOK, CountOK, [Next]_vars
               PROVE  CountOK'
    OBVIOUS
  <1> USE DEF apVars, linkVars
  <1>i. (events = << >> /\ joined = 0 /\ s_ap_clients = 0 => CountOK)'
    BY CountNone, PTL
  <1>0. events' = << >> /\ joined' = 0 /\ s_ap_clients' = 0 => CountOK'
    BY <1>i
  <1>1. ASSUME Boot
        PROVE  CountOK'
    BY <1>1, CountKept DEF Boot
  <1>2. ASSUME Associate
        PROVE  CountOK'
    BY <1>2, CountKept DEF Associate, Driver
  <1>3. ASSUME Refuse
        PROVE  CountOK'
    <2>1. /\ events' = Append(events, "disc") /\ "disc" \in Events
          /\ joined' = joined + Delta("disc") /\ joined' \in 0..MaxClients
          /\ UNCHANGED s_ap_clients
      BY <1>3, NetAssumption DEF Refuse, Room, Driver, TypeOK, Events, Delta
    <2>2. QED
      BY <2>1, CountPosted
  <1>4. ASSUME Drop
        PROVE  CountOK'
    <2>1. /\ events' = Append(events, "disc") /\ "disc" \in Events
          /\ joined' = joined + Delta("disc") /\ joined' \in 0..MaxClients
          /\ UNCHANGED s_ap_clients
      BY <1>4, NetAssumption DEF Drop, Room, Driver, TypeOK, Events, Delta
    <2>2. QED
      BY <2>1, CountPosted
  <1>5. ASSUME EthLink
        PROVE  CountOK'
    <2>1. PICK e \in {"ethdown", "ethip"} : events' = Append(events, e)
      BY <1>5 DEF EthLink
    <2>2. joined' = joined + Delta(e) /\ joined' \in 0..MaxClients /\ e \in Events
      BY <1>5 DEF EthLink, Delta, TypeOK, Events
    <2>3. UNCHANGED s_ap_clients
      BY <1>5 DEF EthLink, Driver
    <2>4. QED
      BY <2>1, <2>2, <2>3, CountPosted
  <1>6. ASSUME ClientJoins
        PROVE  CountOK'
    <2>1. /\ events' = Append(events, "join") /\ "join" \in Events
          /\ joined' = joined + Delta("join") /\ joined' \in 0..MaxClients
          /\ UNCHANGED s_ap_clients
      BY <1>6, NetAssumption DEF ClientJoins, Room, Driver, TypeOK, Events, Delta
    <2>2. QED
      BY <2>1, CountPosted
  <1>7. ASSUME ClientLeaves
        PROVE  CountOK'
    <2>1. /\ events' = Append(events, "leave") /\ "leave" \in Events
          /\ joined' = joined + Delta("leave") /\ joined' \in 0..MaxClients
          /\ UNCHANGED s_ap_clients
      BY <1>7, NetAssumption DEF ClientLeaves, Room, Driver, TypeOK, Events, Delta
    <2>2. QED
      BY <2>1, CountPosted
  <1>8. ASSUME StaDisconnected
        PROVE  CountOK'
    <2>1. /\ events # << >> /\ events' = Tail(events) /\ UNCHANGED joined
          /\ s_ap_clients' = IF Head(events) = "join" THEN s_ap_clients + 1
                             ELSE IF Head(events) = "leave" /\ s_ap_clients > 0
                             THEN s_ap_clients - 1 ELSE s_ap_clients
      BY <1>8 DEF StaDisconnected, Next1, SoftApWanted, Connect, TypeOK
    <2>2. QED
      BY <2>1, CountHandled
  <1>9. ASSUME StaGotIp
        PROVE  CountOK'
    <2>1. /\ events # << >> /\ events' = Tail(events) /\ UNCHANGED joined
          /\ s_ap_clients' = IF Head(events) = "join" THEN s_ap_clients + 1
                             ELSE IF Head(events) = "leave" /\ s_ap_clients > 0
                             THEN s_ap_clients - 1 ELSE s_ap_clients
      BY <1>9 DEF StaGotIp, Next1, net_note_uplink_up, TypeOK
    <2>2. QED
      BY <2>1, CountHandled
  <1>10. ASSUME EthGotIp
        PROVE  CountOK'
    <2>1. /\ events # << >> /\ events' = Tail(events) /\ UNCHANGED joined
          /\ s_ap_clients' = IF Head(events) = "join" THEN s_ap_clients + 1
                             ELSE IF Head(events) = "leave" /\ s_ap_clients > 0
                             THEN s_ap_clients - 1 ELSE s_ap_clients
      BY <1>10 DEF EthGotIp, Next1, Handled, net_note_uplink_up, TypeOK
    <2>2. QED
      BY <2>1, CountHandled
  <1>11. ASSUME EthDisconnected
        PROVE  CountOK'
    <2>1. /\ events # << >> /\ events' = Tail(events) /\ UNCHANGED joined
          /\ s_ap_clients' = IF Head(events) = "join" THEN s_ap_clients + 1
                             ELSE IF Head(events) = "leave" /\ s_ap_clients > 0
                             THEN s_ap_clients - 1 ELSE s_ap_clients
      BY <1>11 DEF EthDisconnected, Next1, Handled, TypeOK
    <2>2. QED
      BY <2>1, CountHandled
  <1>12. ASSUME ApStaConnected
        PROVE  CountOK'
    <2>1. /\ events # << >> /\ events' = Tail(events) /\ UNCHANGED joined
          /\ s_ap_clients' = IF Head(events) = "join" THEN s_ap_clients + 1
                             ELSE IF Head(events) = "leave" /\ s_ap_clients > 0
                             THEN s_ap_clients - 1 ELSE s_ap_clients
      BY <1>12 DEF ApStaConnected, Next1, Handled, TypeOK
    <2>2. QED
      BY <2>1, CountHandled
  <1>13. ASSUME ApStaDisconnected
        PROVE  CountOK'
    <2>1. /\ events # << >> /\ events' = Tail(events) /\ UNCHANGED joined
          /\ s_ap_clients' = IF Head(events) = "join" THEN s_ap_clients + 1
                             ELSE IF Head(events) = "leave" /\ s_ap_clients > 0
                             THEN s_ap_clients - 1 ELSE s_ap_clients
      BY <1>13 DEF ApStaDisconnected, Next1, Handled, TypeOK
    <2>2. QED
      BY <2>1, CountHandled
  <1>14. ASSUME EventApMode
        PROVE  CountOK'
    BY <1>14, CountKept DEF EventApMode, SoftApMode
  <1>15. ASSUME EventApRaised
        PROVE  CountOK'
    BY <1>15, CountKept DEF EventApRaised, SoftApRaised
  <1>16. ASSUME FallbackFires
        PROVE  CountOK'
    BY <1>16, CountKept DEF FallbackFires, SoftApWanted
  <1>17. ASSUME FallbackApMode
        PROVE  CountOK'
    BY <1>17, CountKept DEF FallbackApMode, SoftApMode
  <1>18. ASSUME FallbackApRaised
        PROVE  CountOK'
    BY <1>18, CountKept DEF FallbackApRaised, SoftApRaised
  <1>19. ASSUME GraceOver
        PROVE  CountOK'
    BY <1>19, CountKept DEF GraceOver, Teardown
  <1>20. ASSUME StopMode
        PROVE  CountOK'
    <2>1. /\ events' = events \o [i \in 1..joined |-> "leave"]
          /\ joined' = 0 /\ UNCHANGED s_ap_clients
      BY <1>20 DEF StopMode
    <2>2. QED
      BY <2>1, CountCutOff
  <1>21. ASSUME StopFlag
        PROVE  CountOK'
    <2>1. joined = 0 /\ s_ap_clients' \in {0, s_ap_clients} /\ UNCHANGED <<events, joined>>
      BY <1>21 DEF StopFlag, ApOK, TypeOK
    <2>2. QED
      BY <2>1, CountCleared
  <1>22. ASSUME TeardownDone
        PROVE  CountOK'
    BY <1>22, CountKept DEF TeardownDone, Teardown
  <1>23. ASSUME DnsClose
        PROVE  CountOK'
    BY <1>23, CountKept DEF DnsClose, Dns
  <1>24. ASSUME DnsEnd
        PROVE  CountOK'
    BY <1>24, CountKept DEF DnsEnd, Dns
  <1>25. ASSUME Supervise
        PROVE  CountOK'
    BY <1>25, CountKept DEF Supervise, Connect
  <1>26. ASSUME WdtPoll
        PROVE  CountOK'
    <2>1. CASE Age(0) \/ Age(age + 1)
      BY <2>1, CountKept DEF Age
    <2>2. CASE Reboot
      <3>1. events' = << >> /\ joined' = 0 /\ s_ap_clients' = 0
        BY <2>2 DEF Reboot
      <3>2. QED
        BY <1>0, <3>1
    <2>3. QED
      BY <1>26, <2>1, <2>2 DEF WdtPoll
  <1>27. ASSUME NEW n \in Nets, TryDisconnect(n)
        PROVE  CountOK'
    <2>1. CASE sta = "idle"
      BY <1>27, <2>1, CountKept DEF TryDisconnect
    <2>2. CASE sta # "idle"
      <3>1. /\ events' = Append(events, "disc") /\ "disc" \in Events
            /\ joined' = joined + Delta("disc") /\ joined' \in 0..MaxClients
            /\ UNCHANGED s_ap_clients
        BY <1>27, <2>2 DEF TryDisconnect, TypeOK, Events, Delta
      <3>2. QED
        BY <3>1, CountPosted
    <2>3. QED
      BY <2>1, <2>2
  <1>28. ASSUME NEW n \in Nets, SaveCreds(n)
        PROVE  CountOK'
    BY <1>28, CountKept DEF SaveCreds
  <1>29. ASSUME TryConfigure
        PROVE  CountOK'
    BY <1>29, CountKept DEF TryConfigure, ImprovRest, Connect
  <1>30. ASSUME TryAgain
        PROVE  CountOK'
    BY <1>30, CountKept DEF TryAgain, Connect
  <1>31. ASSUME TrySucceeds
        PROVE  CountOK'
    BY <1>31, CountKept DEF TrySucceeds, TryReturns, ImprovRest
  <1>32. ASSUME TryFails
        PROVE  CountOK'
    BY <1>32, CountKept DEF TryFails, TryReturns, ImprovRest
  <1>33. ASSUME WindowCloses
        PROVE  CountOK'
    BY <1>33, CountKept DEF WindowCloses, ImprovRest, Connect
  <1>34. ASSUME ClearCreds
        PROVE  CountOK'
    <2>1. events' = << >> /\ joined' = 0 /\ s_ap_clients' = 0
      BY <1>34 DEF ClearCreds, Reboot
    <2>2. QED
      BY <1>0, <2>1
  <1>35. ASSUME UNCHANGED vars
        PROVE  CountOK'
    BY <1>35, CountKept DEF vars
  <1>36. ASSUME Lease
        PROVE  CountOK'
    <2>1. /\ events' = Append(events, "gotip") /\ "gotip" \in Events
          /\ joined' = joined + Delta("gotip") /\ joined' \in 0..MaxClients
          /\ UNCHANGED s_ap_clients
      BY <1>36, NetAssumption DEF Lease, Room, Driver, TypeOK, Events, Delta
    <2>2. QED
      BY <2>1, CountPosted
  <1>37. QED
    BY <1>1, <1>2, <1>3, <1>4, <1>5, <1>6, <1>7, <1>8, <1>9, <1>10, <1>11, <1>12, <1>13,
       <1>14, <1>15, <1>16, <1>17, <1>18, <1>19, <1>20, <1>21, <1>22, <1>23, <1>24,
       <1>25, <1>26, <1>27, <1>28, <1>29, <1>30, <1>31, <1>32, <1>33, <1>34, <1>35, <1>36
    DEF Next, EventTask, FallbackTask, TeardownTask, DnsTask, TryEnds

ImprovState == [pc : {"closed", "armed", "left", "trying"}, net : Creds,
                retried : BOOLEAN, tries : 0..MaxTries]

\* The parts of TypeOK: flags, other variables, the queue of events.
FlagsOK ==
    {wdt_enable, s_connected, s_eth_up, s_ap_active, s_external_control, recov,
     s_ap_teardown_pending, s_dns_stop, connectFailed, gotIp, ap_on, eth} \subseteq BOOLEAN

FieldsOK ==
    /\ nvs \in Creds /\ ssid \in Creds /\ drv \in Creds
    /\ phase \in {"boot", "run"} /\ sta \in {"idle", "joining", "assoc", "up"}
    /\ s_retry_count \in 0..MAX_RETRY /\ age \in 0..WdtTicks
    /\ s_ap_clients \in 0..MaxClients /\ joined \in 0..MaxClients
    /\ evt \in {"idle", "mode", "flag"} /\ fallback \in {"none", "wait", "mode", "flag"}
    /\ teardown \in {"none", "grace", "stop", "flag", "done"}
    /\ dns \in {"none", "run", "closing"}
    /\ improv \in ImprovState

QueueOK == events \in Seq(Events) /\ Len(events) <= MaxEvents

LEMMA TypeParts == TypeOK <=> FlagsOK /\ FieldsOK /\ QueueOK
  BY DEF TypeOK, FlagsOK, FieldsOK, QueueOK, ImprovState

LEMMA IdleType == IdleImprov \in ImprovState
  BY NetAssumption DEF IdleImprov, ImprovState, Creds

\* The types and the limits.
LEMMA PartsStep ==
    FlagsOK /\ FieldsOK /\ QueueOK /\ CountOK' /\ [Next]_vars => FlagsOK' /\ FieldsOK' /\ QueueOK'
  <1> SUFFICES ASSUME FlagsOK, FieldsOK, QueueOK, CountOK', [Next]_vars
               PROVE  FlagsOK' /\ FieldsOK' /\ QueueOK'
    OBVIOUS
  <1> USE DEF wifiVars, apVars, dnsVars, credVars, bkVars, lifeVars, linkVars
  <1>1. ASSUME Boot
        PROVE  FlagsOK' /\ FieldsOK' /\ QueueOK'
    <2>1. improv' \in ImprovState /\ recov' \in BOOLEAN
      BY <1>1, NetAssumption, IdleType DEF Boot, ImprovState
    <2>2. FlagsOK'
      BY <1>1, <2>1 DEF Boot, Connect, FlagsOK
    <2>3. FieldsOK'
      BY <1>1, <2>1, NetAssumption, IdleType DEF Boot, Connect, FieldsOK, Creds
    <2>4. QueueOK'
      BY <1>1, NetAssumption DEF Boot, Connect, QueueOK, Events
    <2>5. QED
      BY <2>2, <2>3, <2>4
  <1>2. ASSUME Associate
        PROVE  FlagsOK' /\ FieldsOK' /\ QueueOK'
    <2>1. FlagsOK'
      BY <1>2 DEF Associate, Driver, FlagsOK
    <2>2. FieldsOK'
      BY <1>2, NetAssumption, IdleType DEF Associate, Driver, FieldsOK, Creds
    <2>3. QueueOK'
      BY <1>2, NetAssumption DEF Associate, Driver, QueueOK, Events
    <2>4. QED
      BY <2>1, <2>2, <2>3
  <1>3. ASSUME Refuse
        PROVE  FlagsOK' /\ FieldsOK' /\ QueueOK'
    <2>1. FlagsOK'
      BY <1>3 DEF Refuse, Room, Driver, FlagsOK
    <2>2. FieldsOK'
      BY <1>3, NetAssumption, IdleType DEF Refuse, Room, Driver, FieldsOK, Creds
    <2>3. QueueOK'
      BY <1>3, NetAssumption DEF Refuse, Room, Driver, QueueOK, Events
    <2>4. QED
      BY <2>1, <2>2, <2>3
  <1>4. ASSUME Drop
        PROVE  FlagsOK' /\ FieldsOK' /\ QueueOK'
    <2>1. FlagsOK'
      BY <1>4 DEF Drop, Room, Driver, FlagsOK
    <2>2. FieldsOK'
      BY <1>4, NetAssumption, IdleType DEF Drop, Room, Driver, FieldsOK, Creds
    <2>3. QueueOK'
      BY <1>4, NetAssumption DEF Drop, Room, Driver, QueueOK, Events
    <2>4. QED
      BY <2>1, <2>2, <2>3
  <1>5. ASSUME EthLink
        PROVE  FlagsOK' /\ FieldsOK' /\ QueueOK'
    <2>1. FlagsOK'
      BY <1>5 DEF EthLink, Room, Driver, FlagsOK
    <2>2. FieldsOK'
      BY <1>5, NetAssumption, IdleType DEF EthLink, Room, Driver, FieldsOK, Creds
    <2>3. QueueOK'
      BY <1>5, NetAssumption DEF EthLink, Room, Driver, QueueOK, Events
    <2>4. QED
      BY <2>1, <2>2, <2>3
  <1>6. ASSUME ClientJoins
        PROVE  FlagsOK' /\ FieldsOK' /\ QueueOK'
    <2>1. FlagsOK'
      BY <1>6 DEF ClientJoins, Room, Driver, FlagsOK
    <2>2. FieldsOK'
      BY <1>6, NetAssumption, IdleType DEF ClientJoins, Room, Driver, FieldsOK, Creds
    <2>3. QueueOK'
      BY <1>6, NetAssumption DEF ClientJoins, Room, Driver, QueueOK, Events
    <2>4. QED
      BY <2>1, <2>2, <2>3
  <1>7. ASSUME ClientLeaves
        PROVE  FlagsOK' /\ FieldsOK' /\ QueueOK'
    <2>1. FlagsOK'
      BY <1>7 DEF ClientLeaves, Room, Driver, FlagsOK
    <2>2. FieldsOK'
      BY <1>7, NetAssumption, IdleType DEF ClientLeaves, Room, Driver, FieldsOK, Creds
    <2>3. QueueOK'
      BY <1>7, NetAssumption DEF ClientLeaves, Room, Driver, QueueOK, Events
    <2>4. QED
      BY <2>1, <2>2, <2>3
  <1>8. ASSUME StaDisconnected
        PROVE  FlagsOK' /\ FieldsOK' /\ QueueOK'
    <2>1. connectFailed' \in BOOLEAN
      BY <1>8 DEF StaDisconnected, FlagsOK
    <2>2. FlagsOK'
      BY <1>8, <2>1 DEF StaDisconnected, Next1, SoftApWanted, Connect, FlagsOK
    <2>3. FieldsOK'
      BY <1>8, NetAssumption, IdleType DEF StaDisconnected, Next1, SoftApWanted, Connect, FieldsOK, Creds
    <2>4. events # << >> /\ events' = Tail(events)
      BY <1>8 DEF StaDisconnected, Next1
    <2>5. QueueOK'
      BY <2>4, NetAssumption DEF QueueOK
    <2>6. QED
      BY <2>2, <2>3, <2>5
  <1>9. ASSUME StaGotIp
        PROVE  FlagsOK' /\ FieldsOK' /\ QueueOK'
    <2>1. gotIp' \in BOOLEAN
      BY <1>9 DEF StaGotIp, connecting, FlagsOK
    <2>2. FlagsOK'
      BY <1>9, <2>1 DEF StaGotIp, Next1, net_note_uplink_up, FlagsOK
    <2>3. FieldsOK'
      BY <1>9, NetAssumption, IdleType DEF StaGotIp, Next1, net_note_uplink_up, FieldsOK, Creds
    <2>4. events # << >> /\ events' = Tail(events)
      BY <1>9 DEF StaGotIp, Next1
    <2>5. QueueOK'
      BY <2>4, NetAssumption DEF QueueOK
    <2>6. QED
      BY <2>2, <2>3, <2>5
  <1>10. ASSUME EthGotIp
        PROVE  FlagsOK' /\ FieldsOK' /\ QueueOK'
    <2>1. FlagsOK'
      BY <1>10 DEF EthGotIp, Next1, Handled, net_note_uplink_up, FlagsOK
    <2>2. FieldsOK'
      BY <1>10, NetAssumption, IdleType DEF EthGotIp, Next1, Handled, net_note_uplink_up, FieldsOK, Creds
    <2>3. events # << >> /\ events' = Tail(events)
      BY <1>10 DEF EthGotIp, Next1
    <2>4. QueueOK'
      BY <2>3, NetAssumption DEF QueueOK
    <2>5. QED
      BY <2>1, <2>2, <2>4
  <1>11. ASSUME EthDisconnected
        PROVE  FlagsOK' /\ FieldsOK' /\ QueueOK'
    <2>1. FlagsOK'
      BY <1>11 DEF EthDisconnected, Next1, Handled, FlagsOK
    <2>2. FieldsOK'
      BY <1>11, NetAssumption, IdleType DEF EthDisconnected, Next1, Handled, FieldsOK, Creds
    <2>3. events # << >> /\ events' = Tail(events)
      BY <1>11 DEF EthDisconnected, Next1
    <2>4. QueueOK'
      BY <2>3, NetAssumption DEF QueueOK
    <2>5. QED
      BY <2>1, <2>2, <2>4
  <1>12. ASSUME ApStaConnected
        PROVE  FlagsOK' /\ FieldsOK' /\ QueueOK'
    <2>1. FlagsOK'
      BY <1>12 DEF ApStaConnected, Next1, Handled, FlagsOK
    <2>2. s_ap_clients' \in Nat
      BY <1>12, NetAssumption DEF ApStaConnected, FieldsOK
    <2>3. events # << >> /\ events' = Tail(events)
      BY <1>12 DEF ApStaConnected, Next1
    <2>4. QueueOK'
      BY <2>3, NetAssumption DEF QueueOK
    <2>5. (s_ap_clients \in Nat /\ events \in Seq(Events) /\ CountOK
              => s_ap_clients <= MaxClients)'
      BY CountBound, PTL
    <2>6. s_ap_clients' \in 0..MaxClients
      BY <2>2, <2>4, <2>5, NetAssumption DEF QueueOK
    <2>7. FieldsOK'
      BY <1>12, <2>6, NetAssumption, IdleType DEF ApStaConnected, Next1, Handled, FieldsOK, Creds
    <2>8. QED
      BY <2>1, <2>4, <2>7
  <1>13. ASSUME ApStaDisconnected
        PROVE  FlagsOK' /\ FieldsOK' /\ QueueOK'
    <2>1. FlagsOK'
      BY <1>13 DEF ApStaDisconnected, Next1, Handled, FlagsOK
    <2>2. FieldsOK'
      BY <1>13, NetAssumption, IdleType DEF ApStaDisconnected, Next1, Handled, FieldsOK, Creds
    <2>3. events # << >> /\ events' = Tail(events)
      BY <1>13 DEF ApStaDisconnected, Next1
    <2>4. QueueOK'
      BY <2>3, NetAssumption DEF QueueOK
    <2>5. QED
      BY <2>1, <2>2, <2>4
  <1>14. ASSUME EventApMode
        PROVE  FlagsOK' /\ FieldsOK' /\ QueueOK'
    <2>1. FlagsOK'
      BY <1>14 DEF EventApMode, SoftApMode, FlagsOK
    <2>2. FieldsOK'
      BY <1>14, NetAssumption, IdleType DEF EventApMode, SoftApMode, FieldsOK, Creds
    <2>3. QueueOK'
      BY <1>14, NetAssumption DEF EventApMode, SoftApMode, QueueOK, Events
    <2>4. QED
      BY <2>1, <2>2, <2>3
  <1>15. ASSUME EventApRaised
        PROVE  FlagsOK' /\ FieldsOK' /\ QueueOK'
    <2>1. recov' \in BOOLEAN
      BY <1>15 DEF EventApRaised, SoftApRaised, FlagsOK
    <2>2. FlagsOK'
      BY <1>15, <2>1 DEF EventApRaised, SoftApRaised, FlagsOK
    <2>3. FieldsOK'
      BY <1>15, NetAssumption, IdleType DEF EventApRaised, SoftApRaised, FieldsOK, Creds
    <2>4. QueueOK'
      BY <1>15, NetAssumption DEF EventApRaised, SoftApRaised, QueueOK, Events
    <2>5. QED
      BY <2>2, <2>3, <2>4
  <1>16. ASSUME FallbackFires
        PROVE  FlagsOK' /\ FieldsOK' /\ QueueOK'
    <2>1. FlagsOK'
      BY <1>16 DEF FallbackFires, SoftApWanted, FlagsOK
    <2>2. FieldsOK'
      BY <1>16, NetAssumption, IdleType DEF FallbackFires, SoftApWanted, FieldsOK, Creds
    <2>3. QueueOK'
      BY <1>16, NetAssumption DEF FallbackFires, SoftApWanted, QueueOK, Events
    <2>4. QED
      BY <2>1, <2>2, <2>3
  <1>17. ASSUME FallbackApMode
        PROVE  FlagsOK' /\ FieldsOK' /\ QueueOK'
    <2>1. FlagsOK'
      BY <1>17 DEF FallbackApMode, SoftApMode, FlagsOK
    <2>2. FieldsOK'
      BY <1>17, NetAssumption, IdleType DEF FallbackApMode, SoftApMode, FieldsOK, Creds
    <2>3. QueueOK'
      BY <1>17, NetAssumption DEF FallbackApMode, SoftApMode, QueueOK, Events
    <2>4. QED
      BY <2>1, <2>2, <2>3
  <1>18. ASSUME FallbackApRaised
        PROVE  FlagsOK' /\ FieldsOK' /\ QueueOK'
    <2>1. recov' \in BOOLEAN
      BY <1>18 DEF FallbackApRaised, SoftApRaised, FlagsOK
    <2>2. FlagsOK'
      BY <1>18, <2>1 DEF FallbackApRaised, SoftApRaised, FlagsOK
    <2>3. FieldsOK'
      BY <1>18, NetAssumption, IdleType DEF FallbackApRaised, SoftApRaised, FieldsOK, Creds
    <2>4. QueueOK'
      BY <1>18, NetAssumption DEF FallbackApRaised, SoftApRaised, QueueOK, Events
    <2>5. QED
      BY <2>2, <2>3, <2>4
  <1>19. ASSUME GraceOver
        PROVE  FlagsOK' /\ FieldsOK' /\ QueueOK'
    <2>1. FlagsOK'
      BY <1>19 DEF GraceOver, Teardown, FlagsOK
    <2>2. FieldsOK'
      BY <1>19, NetAssumption, IdleType DEF GraceOver, Teardown, FieldsOK, Creds
    <2>3. QueueOK'
      BY <1>19, NetAssumption DEF GraceOver, Teardown, QueueOK, Events
    <2>4. QED
      BY <2>1, <2>2, <2>3
  <1>20. ASSUME StopMode
        PROVE  FlagsOK' /\ FieldsOK' /\ QueueOK'
    <2>1. FlagsOK'
      BY <1>20 DEF StopMode, Teardown, Room, FlagsOK
    <2>2. FieldsOK'
      BY <1>20, NetAssumption, IdleType DEF StopMode, Teardown, Room, FieldsOK, Creds
    <2>3. QueueOK'
      BY <1>20, NetAssumption DEF StopMode, Teardown, Room, QueueOK, Events, FieldsOK
    <2>4. QED
      BY <2>1, <2>2, <2>3
  <1>21. ASSUME StopFlag
        PROVE  FlagsOK' /\ FieldsOK' /\ QueueOK'
    <2>1. FlagsOK'
      BY <1>21 DEF StopFlag, Teardown, FlagsOK
    <2>2. FieldsOK'
      BY <1>21, NetAssumption, IdleType DEF StopFlag, Teardown, FieldsOK, Creds
    <2>3. QueueOK'
      BY <1>21, NetAssumption DEF StopFlag, Teardown, QueueOK, Events
    <2>4. QED
      BY <2>1, <2>2, <2>3
  <1>22. ASSUME TeardownDone
        PROVE  FlagsOK' /\ FieldsOK' /\ QueueOK'
    <2>1. FlagsOK'
      BY <1>22 DEF TeardownDone, Teardown, FlagsOK
    <2>2. FieldsOK'
      BY <1>22, NetAssumption, IdleType DEF TeardownDone, Teardown, FieldsOK, Creds
    <2>3. QueueOK'
      BY <1>22, NetAssumption DEF TeardownDone, Teardown, QueueOK, Events
    <2>4. QED
      BY <2>1, <2>2, <2>3
  <1>23. ASSUME DnsClose
        PROVE  FlagsOK' /\ FieldsOK' /\ QueueOK'
    <2>1. FlagsOK'
      BY <1>23 DEF DnsClose, Dns, FlagsOK
    <2>2. FieldsOK'
      BY <1>23, NetAssumption, IdleType DEF DnsClose, Dns, FieldsOK, Creds
    <2>3. QueueOK'
      BY <1>23, NetAssumption DEF DnsClose, Dns, QueueOK, Events
    <2>4. QED
      BY <2>1, <2>2, <2>3
  <1>24. ASSUME DnsEnd
        PROVE  FlagsOK' /\ FieldsOK' /\ QueueOK'
    <2>1. FlagsOK'
      BY <1>24 DEF DnsEnd, Dns, FlagsOK
    <2>2. FieldsOK'
      BY <1>24, NetAssumption, IdleType DEF DnsEnd, Dns, FieldsOK, Creds
    <2>3. QueueOK'
      BY <1>24, NetAssumption DEF DnsEnd, Dns, QueueOK, Events
    <2>4. QED
      BY <2>1, <2>2, <2>3
  <1>25. ASSUME Supervise
        PROVE  FlagsOK' /\ FieldsOK' /\ QueueOK'
    <2>1. FlagsOK'
      BY <1>25 DEF Supervise, Connect, FlagsOK
    <2>2. FieldsOK'
      BY <1>25, NetAssumption, IdleType DEF Supervise, Connect, FieldsOK, Creds
    <2>3. QueueOK'
      BY <1>25, NetAssumption DEF Supervise, Connect, QueueOK, Events
    <2>4. QED
      BY <2>1, <2>2, <2>3
  <1>26. ASSUME WdtPoll
        PROVE  FlagsOK' /\ FieldsOK' /\ QueueOK'
    <2>1. CASE Age(0)
      <3>1. FlagsOK'
        BY <2>1 DEF Age, FlagsOK
      <3>2. FieldsOK'
        BY <2>1, NetAssumption, IdleType DEF Age, FieldsOK, Creds
      <3>3. QueueOK'
        BY <2>1, NetAssumption DEF Age, QueueOK
      <3>4. QED
        BY <3>1, <3>2, <3>3
    <2>2. CASE age < WdtTicks /\ Age(age + 1)
      <3>1. FlagsOK'
        BY <2>2 DEF Age, FlagsOK
      <3>2. FieldsOK'
        BY <2>2, NetAssumption, IdleType DEF Age, FieldsOK, Creds
      <3>3. QueueOK'
        BY <2>2, NetAssumption DEF Age, QueueOK
      <3>4. QED
        BY <3>1, <3>2, <3>3
    <2>3. CASE Reboot /\ UNCHANGED nvs
      <3>1. FlagsOK'
        BY <2>3 DEF Reboot, FlagsOK
      <3>2. FieldsOK'
        BY <2>3, NetAssumption, IdleType DEF Reboot, FieldsOK, Creds
      <3>3. QueueOK'
        BY <2>3, NetAssumption DEF Reboot, QueueOK
      <3>4. QED
        BY <3>1, <3>2, <3>3
    <2>4. QED
      BY <1>26, <2>1, <2>2, <2>3 DEF WdtPoll
  <1>27. ASSUME NEW n \in Nets, TryDisconnect(n)
        PROVE  FlagsOK' /\ FieldsOK' /\ QueueOK'
    <2>1. FlagsOK'
      BY <1>27 DEF TryDisconnect, Room, FlagsOK
    <2>2. FieldsOK'
      BY <1>27, NetAssumption DEF TryDisconnect, Room, FieldsOK, ImprovState, Creds
    <2>3. QueueOK'
      BY <1>27, NetAssumption DEF TryDisconnect, Room, QueueOK, Events
    <2>4. QED
      BY <2>1, <2>2, <2>3
  <1>28. ASSUME NEW n \in Nets, SaveCreds(n)
        PROVE  FlagsOK' /\ FieldsOK' /\ QueueOK'
    <2>1. FlagsOK'
      BY <1>28 DEF SaveCreds, FlagsOK
    <2>2. FieldsOK'
      BY <1>28, NetAssumption, IdleType DEF SaveCreds, FieldsOK, Creds
    <2>3. QueueOK'
      BY <1>28, NetAssumption DEF SaveCreds, QueueOK, Events
    <2>4. QED
      BY <2>1, <2>2, <2>3
  <1>29. ASSUME TryConfigure
        PROVE  FlagsOK' /\ FieldsOK' /\ QueueOK'
    <2>1. FlagsOK'
      BY <1>29 DEF TryConfigure, ImprovRest, Connect, FlagsOK
    <2>2. FieldsOK'
      BY <1>29, NetAssumption DEF TryConfigure, ImprovRest, Connect, FieldsOK, ImprovState, Creds
    <2>3. QueueOK'
      BY <1>29, NetAssumption DEF TryConfigure, ImprovRest, Connect, QueueOK, Events
    <2>4. QED
      BY <2>1, <2>2, <2>3
  <1>30. ASSUME TryAgain
        PROVE  FlagsOK' /\ FieldsOK' /\ QueueOK'
    <2>1. improv' \in ImprovState
      BY <1>30, NetAssumption, IdleType DEF TryAgain, Connect, FieldsOK, ImprovState
    <2>2. FlagsOK'
      BY <1>30 DEF TryAgain, Connect, FlagsOK
    <2>3. FieldsOK'
      BY <1>30, <2>1, NetAssumption, IdleType DEF TryAgain, Connect, FieldsOK, Creds
    <2>4. QueueOK'
      BY <1>30, NetAssumption DEF TryAgain, Connect, QueueOK, Events
    <2>5. QED
      BY <2>2, <2>3, <2>4
  <1>31. ASSUME TrySucceeds
        PROVE  FlagsOK' /\ FieldsOK' /\ QueueOK'
    <2>1. improv' \in ImprovState
      BY <1>31, NetAssumption, IdleType DEF TrySucceeds, TryReturns, ImprovRest, FieldsOK, ImprovState
    <2>2. FlagsOK'
      BY <1>31 DEF TrySucceeds, TryReturns, ImprovRest, FlagsOK
    <2>3. FieldsOK'
      BY <1>31, <2>1, NetAssumption DEF TrySucceeds, TryReturns, ImprovRest, FieldsOK, ImprovState, Creds
    <2>4. QueueOK'
      BY <1>31, NetAssumption DEF TrySucceeds, TryReturns, ImprovRest, QueueOK, Events
    <2>5. QED
      BY <2>2, <2>3, <2>4
  <1>32. ASSUME TryFails
        PROVE  FlagsOK' /\ FieldsOK' /\ QueueOK'
    <2>1. improv' \in ImprovState
      BY <1>32, NetAssumption, IdleType DEF TryFails, TryReturns, ImprovRest, FieldsOK, ImprovState
    <2>2. FlagsOK'
      BY <1>32 DEF TryFails, TryReturns, ImprovRest, FlagsOK
    <2>3. FieldsOK'
      BY <1>32, <2>1, NetAssumption, IdleType DEF TryFails, TryReturns, ImprovRest, FieldsOK, Creds
    <2>4. QueueOK'
      BY <1>32, NetAssumption DEF TryFails, TryReturns, ImprovRest, QueueOK, Events
    <2>5. QED
      BY <2>2, <2>3, <2>4
  <1>33. ASSUME WindowCloses
        PROVE  FlagsOK' /\ FieldsOK' /\ QueueOK'
    <2>1. FlagsOK'
      BY <1>33 DEF WindowCloses, ImprovRest, Connect, FlagsOK
    <2>2. FieldsOK'
      BY <1>33, NetAssumption, IdleType DEF WindowCloses, ImprovRest, Connect, FieldsOK, Creds
    <2>3. QueueOK'
      BY <1>33, NetAssumption DEF WindowCloses, ImprovRest, Connect, QueueOK, Events
    <2>4. QED
      BY <2>1, <2>2, <2>3
  <1>34. ASSUME ClearCreds
        PROVE  FlagsOK' /\ FieldsOK' /\ QueueOK'
    <2>1. FlagsOK'
      BY <1>34 DEF ClearCreds, Reboot, FlagsOK
    <2>2. FieldsOK'
      BY <1>34, NetAssumption, IdleType DEF ClearCreds, Reboot, FieldsOK, Creds
    <2>3. QueueOK'
      BY <1>34, NetAssumption DEF ClearCreds, Reboot, QueueOK, Events
    <2>4. QED
      BY <2>1, <2>2, <2>3
  <1>35. ASSUME UNCHANGED vars
        PROVE  FlagsOK' /\ FieldsOK' /\ QueueOK'
    <2>1. FlagsOK'
      BY <1>35 DEF vars, FlagsOK
    <2>2. FieldsOK'
      BY <1>35, NetAssumption, IdleType DEF vars, FieldsOK, Creds
    <2>3. QueueOK'
      BY <1>35, NetAssumption DEF vars, QueueOK, Events
    <2>4. QED
      BY <2>1, <2>2, <2>3
  <1>36. ASSUME Lease
        PROVE  FlagsOK' /\ FieldsOK' /\ QueueOK'
    <2>1. FlagsOK'
      BY <1>36 DEF Lease, Room, Driver, FlagsOK
    <2>2. FieldsOK'
      BY <1>36, NetAssumption, IdleType DEF Lease, Room, Driver, FieldsOK, Creds
    <2>3. QueueOK'
      BY <1>36, NetAssumption DEF Lease, Room, Driver, QueueOK, Events
    <2>4. QED
      BY <2>1, <2>2, <2>3
  <1>37. QED
    BY <1>1, <1>2, <1>3, <1>4, <1>5, <1>6, <1>7, <1>8, <1>9, <1>10, <1>11, <1>12, <1>13,
       <1>14, <1>15, <1>16, <1>17, <1>18, <1>19, <1>20, <1>21, <1>22, <1>23, <1>24,
       <1>25, <1>26, <1>27, <1>28, <1>29, <1>30, <1>31, <1>32, <1>33, <1>34, <1>35, <1>36
    DEF Next, EventTask, FallbackTask, TeardownTask, DnsTask, TryEnds

LEMMA TypeStep == TypeOK /\ CountOK' /\ [Next]_vars => TypeOK'
  <1>1. (TypeOK <=> FlagsOK /\ FieldsOK /\ QueueOK)'
    BY TypeParts, PTL
  <1>2. QED
    BY <1>1, TypeParts, PartsStep

LEMMA NetInit == Init => NetInv
  <1> SUFFICES ASSUME Init
               PROVE  NetInv
    OBVIOUS
  <1>1. TypeOK
    <2>1. FlagsOK
      BY DEF Init, FlagsOK
    <2>2. FieldsOK
      BY NetAssumption, IdleType DEF Init, FieldsOK, Creds
    <2>3. QueueOK
      BY NetAssumption DEF Init, QueueOK
    <2>4. QED
      BY <2>1, <2>2, <2>3, TypeParts
  <1>2. ApOK /\ ApFlagTruthful
    BY DEF Init, ApOK, ApFlagTruthful, Starting
  <1>3. CountOK
    BY CountNone DEF Init
  <1>4. QED
    BY <1>1, <1>2, <1>3 DEF NetInv

LEMMA NetStep == NetInv /\ [Next]_vars => NetInv'
  <1> SUFFICES ASSUME NetInv, [Next]_vars
               PROVE  NetInv'
    OBVIOUS
  <1>1. TypeOK /\ joined \in Nat
    BY NetAssumption DEF NetInv, TypeOK
  <1>2. ApOK' /\ ApFlagTruthful'
    BY <1>1, ApStep DEF NetInv
  <1>3. CountOK'
    BY CountStep DEF NetInv
  <1>4. TypeOK'
    BY <1>3, TypeStep DEF NetInv
  <1>5. QED
    BY <1>2, <1>3, <1>4 DEF NetInv

LEMMA NetInvariant == Spec => []NetInv
  BY NetInit, NetStep, PTL DEF Spec

-----------------------------------------------------------------------------
(***************************************************************************)
(* Net: the theorems.                                                      *)
(***************************************************************************)

\* The variables of Net keep their types, the reconnects stay within MAX_RETRY
\* (net.c 203), and no more stations are counted than the access point admits.
THEOREM NetTypeCorrect == Spec => []TypeOK
  <1>1. NetInv => TypeOK
    BY DEF NetInv
  <1>2. QED
    BY <1>1, NetInvariant, PTL

\* Whenever nobody is about to change it, s_ap_active says whether the driver has
\* an access point up, although the event task, the fallback and the teardown
\* set it without a lock.
THEOREM ApFlagIsTruthful == Spec => []ApFlagTruthful
  <1>1. NetInv => ApFlagTruthful
    BY DEF NetInv
  <1>2. QED
    BY <1>1, NetInvariant, PTL

\* The count of stations that pauses the watchdog is exact as soon as no event is
\* waiting, although the teardown clears it behind the event task's back.
THEOREM StationsCounted == Spec => []ClientsCounted
  <1>1. NetInv => ClientsCounted
    <2>1. NetInv => s_ap_clients \in Nat /\ events \in Seq(Events)
      BY NetAssumption DEF NetInv, TypeOK
    <2>2. QED
      BY <2>1, CountBound DEF NetInv, ClientsCounted
  <1>2. QED
    BY <1>1, NetInvariant, PTL
=============================================================================
