----------------------------- MODULE AbstractMap -----------------------------
(***************************************************************************)
(* What an enumerable map promises: a function on the keys it holds, and   *)
(* for each call whether it changed that set of keys.                      *)
(***************************************************************************)
CONSTANT Element
VARIABLES entries,   \* a function from the keys of the map to their values
          changed    \* whether the last call added or removed its key

Init == DOMAIN entries = {} /\ changed = FALSE

Set(key, value) ==
    /\ entries' = [k \in DOMAIN entries \cup {key} |->
                      IF k = key THEN value ELSE entries[k]]
    /\ changed' = (key \notin DOMAIN entries)

Remove(key) ==
    /\ entries' = [k \in DOMAIN entries \ {key} |-> entries[k]]
    /\ changed' = (key \in DOMAIN entries)

Next == \E key \in Element :
            Remove(key) \/ \E value \in Element : Set(key, value)

Spec == Init /\ [][Next]_<<entries, changed>>
=============================================================================
