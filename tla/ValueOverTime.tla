---------------------------- MODULE ValueOverTime ----------------------------
(***************************************************************************)
(* What a history of checkpoints promises: a value at each instant, zero   *)
(* at first, that can be set from now on and never for the past.           *)
(***************************************************************************)
EXTENDS Integers

CONSTANTS Instant,    \* the instants at which the value is known
          Value       \* the values it takes
VARIABLES now,        \* the present instant
          valueAt     \* the value at each instant, the last one from now on

Init == now \in Nat /\ valueAt = [i \in Instant |-> 0]

Set(v) ==
    /\ valueAt' = [i \in Instant |-> IF i >= now THEN v ELSE valueAt[i]]
    /\ UNCHANGED now

Advance == now' = now + 1 /\ UNCHANGED valueAt

Next == Advance \/ \E v \in Value : Set(v)

Spec == Init /\ [][Next]_<<now, valueAt>>
=============================================================================
