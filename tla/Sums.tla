-------------------------------- MODULE Sums --------------------------------
(***************************************************************************)
(* The sum of a function with finite domain and natural values, defined    *)
(* without recursion: one numbered coin <<x, i>> for each unit of f[x],    *)
(* and the sum is the number of coins.  Facts about finite sets are then   *)
(* facts about sums, and no induction over the domain is needed.           *)
(***************************************************************************)
EXTENDS Integers, FiniteSets

Coins(f) == UNION {{x} \X (1 .. f[x]) : x \in DOMAIN f}

SumOver(f) == Cardinality(Coins(f))
=============================================================================
