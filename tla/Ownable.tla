------------------------------ MODULE Ownable -------------------------------
(***************************************************************************)
(* OpenZeppelin's Ownable: one owner, who hands the contract on or leaves  *)
(* it without an owner.                                                    *)
(***************************************************************************)
CONSTANTS
  Principals,
  NoOwner       \* address(0)

VARIABLE owner

OnlyOwner(caller) == owner = caller

TransferOwnership(caller, newOwner) ==
  /\ OnlyOwner(caller)
  /\ owner' = newOwner

RenounceOwnership(caller) ==
  /\ OnlyOwner(caller)
  /\ owner' = NoOwner

Next ==
  \E caller \in Principals :
    \/ \E newOwner \in Principals : TransferOwnership(caller, newOwner)
    \/ RenounceOwnership(caller)

TypeOK == owner \in Principals \cup {NoOwner}
=============================================================================
