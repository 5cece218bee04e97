------------------------------ MODULE CfgStore ------------------------------
(***************************************************************************)
(* What serialcfg.h promises: a map from device keys to line codings that  *)
(* holds a bounded number of keys.  Storing one more key than fit forgets  *)
(* one other key; nothing else is ever forgotten or changed.  Module       *)
(* SerialCfg implements this specification.                                *)
(***************************************************************************)
EXTENDS FiniteSets

CONSTANTS Keys, Codings, NULL,
          Capacity    \* the number of keys the store holds

VARIABLE store      \* the coding stored for each key, NULL when none

Init == store = [k \in Keys |-> NULL]

\* Store or replace the coding of k.
Put(k, lc) == store' = [store EXCEPT ![k] = lc]

Held == {k \in Keys : store[k] # NULL}

\* Store k in the place of another key, only when there is no room left.
PutEvicting(k, lc, other) ==
    /\ k \notin Held
    /\ Cardinality(Held) = Capacity
    /\ other # k
    /\ store' = [store EXCEPT ![k] = lc, ![other] = NULL]

Forget(k) == store' = [store EXCEPT ![k] = NULL]

Next ==
    \E k \in Keys :
        \/ Forget(k)
        \/ \E lc \in Codings : Put(k, lc) \/ \E other \in Keys : PutEvicting(k, lc, other)

Spec == Init /\ [][Next]_store
=============================================================================
