------------------------------ MODULE LossyMap ------------------------------
(***************************************************************************)
(* What a bounded, expiring cache promises: a map that may forget any of   *)
(* its entries at any time, but never answers with anything other than     *)
(* the value last put under the key, and never remembers again what it     *)
(* has forgotten.                                                          *)
(***************************************************************************)
CONSTANTS Keys, Values, None

VARIABLES store, answer

vars == <<store, answer>>

Init ==
    /\ store = [k \in Keys |-> None]
    /\ answer = None

Without(map, forgotten) ==
    [k \in Keys |-> IF k \in forgotten THEN None ELSE map[k]]

Forget(forgotten) ==
    /\ store' = Without(store, forgotten)
    /\ UNCHANGED answer

Put(k, v, forgotten) ==
    /\ store' = [Without(store, forgotten) EXCEPT ![k] = v]
    /\ UNCHANGED answer

Get(k) ==
    /\ answer' = store[k]
    /\ UNCHANGED store

Next ==
    \/ \E forgotten \in SUBSET Keys : Forget(forgotten)
    \/ \E forgotten \in SUBSET Keys, k \in Keys, v \in Values : Put(k, v, forgotten)
    \/ \E k \in Keys : Get(k)

Spec == Init /\ [][Next]_vars
=============================================================================
