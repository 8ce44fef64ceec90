--------------------------- MODULE AccessControl ----------------------------
(***************************************************************************)
(* OpenZeppelin's AccessControl as the contracts of this repository use    *)
(* it: _setRoleAdmin is never called, so DEFAULT_ADMIN_ROLE administers    *)
(* every role, itself included.  A contract that inherits AccessControl    *)
(* instantiates this module with its roles.                                *)
(*                                                                         *)
(* Operators named Mutant... are wrong variants of the definition after    *)
(* them; nothing uses them but the runs that show a property can fail.     *)
(***************************************************************************)
CONSTANTS
  Roles,               \* the roles the contract names
  DEFAULT_ADMIN_ROLE,
  Principals           \* the accounts that hold, get or lose roles

VARIABLE members       \* members[role]: the accounts that have it

HasRole(role, account) == account \in members[role]

GetRoleAdmin(role) == DEFAULT_ADMIN_ROLE

MutantGrantRole(caller, role, account) ==  \* a member may pass its role on
  /\ HasRole(role, caller)
  /\ members' = [members EXCEPT ![role] = @ \cup {account}]

GrantRole(caller, role, account) ==
  /\ HasRole(GetRoleAdmin(role), caller)
  /\ members' = [members EXCEPT ![role] = @ \cup {account}]

RevokeRole(caller, role, account) ==
  /\ HasRole(GetRoleAdmin(role), caller)
  /\ members' = [members EXCEPT ![role] = @ \ {account}]

RenounceRole(caller, role) ==
  members' = [members EXCEPT ![role] = @ \ {caller}]

Next ==
  \E caller \in Principals, role \in Roles :
    \/ \E account \in Principals :
         GrantRole(caller, role, account) \/ RevokeRole(caller, role, account)
    \/ RenounceRole(caller, role)

TypeOK == members \in [Roles -> SUBSET Principals]

(* What an action may do to the roles once nobody administers them.        *)
OnlyShrink == \A role \in Roles : members'[role] \subseteq members[role]
=============================================================================
