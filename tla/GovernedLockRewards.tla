------------------------- MODULE GovernedLockRewards -------------------------
(***************************************************************************)
(* LockRewards with its owner and roles, and FutureRewardsVault, the       *)
(* contract that collects rewards and sends them on.  In LockRewards the   *)
(* restricted functions are called by nobody in particular; here each is   *)
(* called by an account, which must be the owner or have the role at that  *)
(* moment, while ownership and roles are handed on and given up.           *)
(*                                                                         *)
(* Operators named Mutant... are wrong variants of the definition after    *)
(* them; nothing uses them but the runs that show a property can fail.     *)
(***************************************************************************)
EXTENDS LockRewards

CONSTANTS
  Principals,     \* accounts that own, administer or operate the contracts
  NoOwner,        \* address(0)
  Deployer,       \* deploys LockRewards and is its first owner
  Admin, EpochSetter, PauseSetter,  \* the constructor's _admin, ...
  VaultAdmin      \* admin of the constructor of FutureRewardsVault

ASSUME GovernanceAssumption ==
  /\ NoOwner \notin Principals
  /\ {Deployer, Admin, EpochSetter, PauseSetter, VaultAdmin} \subseteq Principals

VARIABLES
  owner,          \* of LockRewards
  members,        \* members[role], the roles of LockRewards
  vaultMembers,   \* the roles of FutureRewardsVault
  vaultHeld       \* vaultHeld[t]: the vault's balance of t

governanceVars == <<owner, members>>
vaultVars == <<vaultMembers, vaultHeld>>
allVars == <<vars, governanceVars, vaultVars>>

DEFAULT_ADMIN_ROLE == "DEFAULT_ADMIN_ROLE"
EPOCH_SETTER_ROLE == "EPOCH_SETTER_ROLE"
PAUSE_SETTER_ROLE == "PAUSE_SETTER_ROLE"
REWARDS_ROLE == "REWARDS_ROLE"

Roles == {DEFAULT_ADMIN_ROLE, EPOCH_SETTER_ROLE, PAUSE_SETTER_ROLE}
VaultRoles == {DEFAULT_ADMIN_ROLE, REWARDS_ROLE}

Ownership == INSTANCE Ownable
Access == INSTANCE AccessControl
VaultAccess == INSTANCE AccessControl WITH Roles <- VaultRoles, members <- vaultMembers

GovernedInit ==
  /\ Init
  /\ owner = Deployer
  /\ members = [role \in Roles |->
       CASE role = DEFAULT_ADMIN_ROLE -> {Admin}
         [] role = EPOCH_SETTER_ROLE  -> {EpochSetter}
         [] role = PAUSE_SETTER_ROLE  -> {PauseSetter}]
  /\ vaultMembers = [role \in VaultRoles |-> {VaultAdmin}]
  /\ vaultHeld = NoTokens

-----------------------------------------------------------------------------
(* Calls to LockRewards.                                                   *)

(* The functions anybody may call, and what the contract does not control. *)
PublicCall ==
  /\ WorldNext \/ \E u \in Users : UserNext(u)
  /\ UNCHANGED <<governanceVars, vaultVars>>

MutantRestrictedCall(caller) ==        \* the pause setter is not checked
  /\ \/ Ownership!OnlyOwner(caller) /\ OwnerNext
     \/ Access!HasRole(EPOCH_SETTER_ROLE, caller) /\ EpochSetterNext
     \/ PauseSetterNext
  /\ UNCHANGED <<governanceVars, vaultVars>>

RestrictedCall(caller) ==
  /\ \/ Ownership!OnlyOwner(caller) /\ OwnerNext
     \/ Access!HasRole(EPOCH_SETTER_ROLE, caller) /\ EpochSetterNext
     \/ Access!HasRole(PAUSE_SETTER_ROLE, caller) /\ PauseSetterNext
  /\ UNCHANGED <<governanceVars, vaultVars>>

ChangeOwner == Ownership!Next /\ UNCHANGED <<vars, members, vaultVars>>

ChangeRoles == Access!Next /\ UNCHANGED <<vars, owner, vaultVars>>

-----------------------------------------------------------------------------
(* Calls to FutureRewardsVault.  queueNewRewards is empty.                 *)

ChangeVaultRoles == VaultAccess!Next /\ UNCHANGED <<vars, governanceVars, vaultHeld>>

(* The booster contract, or anybody, sends tokens to the vault.            *)
FundVault(t, amount) ==
  /\ vaultHeld[t] + amount <= MaxHeld[t]
  /\ vaultHeld' = [vaultHeld EXCEPT ![t] = @ + amount]
  /\ UNCHANGED <<vars, governanceVars, vaultMembers>>

MutantMoveRewardsToLock(caller, amounts) ==    \* pays the caller, not the lock
  /\ VaultAccess!HasRole(REWARDS_ROLE, caller)
  /\ \A t \in Tokens : amounts[t] <= vaultHeld[t]
  /\ vaultHeld' = [t \in Tokens |-> vaultHeld[t] - amounts[t]]
  /\ UNCHANGED <<vars, governanceVars, vaultMembers>>

MutantMoveUnchecked(caller, amounts) ==        \* a transfer beyond the balance
  /\ VaultAccess!HasRole(REWARDS_ROLE, caller)
  /\ vaultHeld' = [t \in Tokens |-> vaultHeld[t] - amounts[t]]
  /\ Fund(amounts)
  /\ UNCHANGED <<governanceVars, vaultMembers>>

(* The loop of transfers: the amounts of a token that is named twice add   *)
(* up, and one failing transfer undoes them all.                           *)
MoveRewardsToLock(caller, amounts) ==
  /\ VaultAccess!HasRole(REWARDS_ROLE, caller)
  /\ \A t \in Tokens : amounts[t] <= vaultHeld[t]
  /\ vaultHeld' = [t \in Tokens |-> vaultHeld[t] - amounts[t]]
  /\ Fund(amounts)
  /\ UNCHANGED <<governanceVars, vaultMembers>>

RecoverERC20Token(caller, t) ==
  /\ VaultAccess!HasRole(DEFAULT_ADMIN_ROLE, caller)
  /\ vaultHeld' = [vaultHeld EXCEPT ![t] = 0]
  /\ UNCHANGED <<vars, governanceVars, vaultMembers>>

VaultCall(caller) ==
  \/ \E amounts \in [Tokens -> FundAmounts \cup {0}] :
       MoveRewardsToLock(caller, amounts)
  \/ \E t \in Tokens : RecoverERC20Token(caller, t)

-----------------------------------------------------------------------------
GovernedNext ==
  \/ PublicCall
  \/ \E caller \in Principals : RestrictedCall(caller) \/ VaultCall(caller)
  \/ ChangeOwner
  \/ ChangeRoles
  \/ ChangeVaultRoles
  \/ \E t \in Tokens, amount \in FundAmounts : FundVault(t, amount)

GovernedSpec == GovernedInit /\ [][GovernedNext]_allVars

-----------------------------------------------------------------------------
GovernedTypeOK ==
  /\ TypeOK
  /\ Ownership!TypeOK
  /\ Access!TypeOK
  /\ VaultAccess!TypeOK
  /\ vaultHeld \in [Tokens -> Nat]

(* What is given up stays given up (Ownable.sol:58-59): a contract without *)
(* owner keeps its settings for good, and without an administrator roles   *)
(* are lost but never gained, whoever else still has some.                 *)
GivenUpForGood ==
  [][/\ owner = NoOwner =>
          /\ owner' = NoOwner
          /\ UNCHANGED <<rewardTokens, lockDuration, enforceTime,
                         whitelistRecoverERC20>>
     /\ members[DEFAULT_ADMIN_ROLE] = {} => Access!OnlyShrink
     /\ vaultMembers[DEFAULT_ADMIN_ROLE] = {} => VaultAccess!OnlyShrink]_allVars

(* Nobody is left who could unpause.                                       *)
PausedForGood ==
  /\ paused
  /\ members[DEFAULT_ADMIN_ROLE] = {}
  /\ members[PAUSE_SETTER_ROLE] = {}

(* Pausing stops every user function, the emergency exit too: if the last  *)
(* pause setter and the last administrator leave a paused contract, all    *)
(* deposits and claims stay where they are for ever.                       *)
PauseFreezes ==
  [][PausedForGood => PausedForGood' /\ UNCHANGED <<accounts, totalAssets>>]_allVars

(* Rewards reach the lock: once the vault has no administrator, whatever   *)
(* leaves it arrives in LockRewards, token by token.                       *)
VaultOneWay ==
  [][vaultMembers[DEFAULT_ADMIN_ROLE] = {} =>
       \A t \in Tokens : vaultHeld'[t] < vaultHeld[t] =>
         held'[t] - held[t] = vaultHeld[t] - vaultHeld'[t]]_allVars
=============================================================================
