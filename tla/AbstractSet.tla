----------------------------- MODULE AbstractSet -----------------------------
(***************************************************************************)
(* What an enumerable set promises: a mathematical set, and for each call  *)
(* whether it changed the set.                                             *)
(***************************************************************************)
CONSTANT Element
VARIABLES elements,   \* the elements of the set
          changed     \* whether the last call added or removed its element

Init == elements = {} /\ changed = FALSE

Add(e) ==
    /\ elements' = elements \cup {e}
    /\ changed' = (e \notin elements)

Remove(e) ==
    /\ elements' = elements \ {e}
    /\ changed' = (e \in elements)

Next == \E e \in Element : Add(e) \/ Remove(e)

Spec == Init /\ [][Next]_<<elements, changed>>
=============================================================================
