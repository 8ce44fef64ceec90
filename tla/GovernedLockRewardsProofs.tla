---------------------- MODULE GovernedLockRewardsProofs ----------------------
(***************************************************************************)
(* The owner, the roles and the vault around the contract, for all         *)
(* constants: what accounts give up they give up for good, and the vault   *)
(* feeds the lock.  What is proved of LockRewards carries over, since each *)
(* step is one of the contract or leaves the contract alone.               *)
(***************************************************************************)
EXTENDS GovernedLockRewards, LockRewardsProofs

RolesOK ==
  /\ Ownership!TypeOK
  /\ Access!TypeOK
  /\ VaultAccess!TypeOK
  /\ vaultHeld \in [Tokens -> Nat]

(* Every step of the governed contract is a step of the contract, or one   *)
(* the contract does not see.                                              *)
LEMMA StepContract ==
  ASSUME [GovernedNext]_allVars
  PROVE  [Next]_vars
<1>1. CASE PublicCall
  BY <1>1 DEF PublicCall, Next
<1>2. ASSUME NEW caller \in Principals, RestrictedCall(caller) PROVE Next
  BY <1>2 DEF RestrictedCall, Next
<1>3. ASSUME NEW caller \in Principals, VaultCall(caller) PROVE [Next]_vars
  <2>1. ASSUME NEW amounts \in [Tokens -> FundAmounts \cup {0}],
               MoveRewardsToLock(caller, amounts)
        PROVE  Next
    BY <2>1 DEF MoveRewardsToLock, Next, WorldNext
  <2>2. ASSUME NEW t \in Tokens, RecoverERC20Token(caller, t) PROVE UNCHANGED vars
    BY <2>2 DEF RecoverERC20Token
  <2> QED BY <1>3, <2>1, <2>2 DEF VaultCall
<1>4. CASE ChangeOwner \/ ChangeRoles \/ ChangeVaultRoles
  BY <1>4 DEF ChangeOwner, ChangeRoles, ChangeVaultRoles
<1>5. ASSUME NEW t \in Tokens, NEW amount \in FundAmounts, FundVault(t, amount)
      PROVE  UNCHANGED vars
  BY <1>5 DEF FundVault
<1>6. CASE UNCHANGED allVars
  BY <1>6 DEF allVars
<1> QED BY <1>1, <1>2, <1>3, <1>4, <1>5, <1>6 DEF GovernedNext

(* Who may call what only takes behaviours of the contract away.  This is  *)
(* so by the shape of GovernedNext; it brings in the theorems about Spec.  *)
LEMMA ContractImplemented == GovernedSpec => Spec
<1>1. GovernedInit => Init
  BY DEF GovernedInit
<1>2. [GovernedNext]_allVars => [Next]_vars
  BY StepContract
<1> QED BY <1>1, <1>2, PTL DEF GovernedSpec, Spec

(* The contract's state stays well-formed whoever calls.                   *)
LEMMA GovernedContractTyped == GovernedSpec => []TypeOK
BY ContractImplemented, TypeCorrect, PTL

-----------------------------------------------------------------------------
(* Granting, revoking and renouncing keep the roles of a contract roles,   *)
(* and only the default admin's members make any role grow.                *)
LEMMA RoleSteps ==
  ASSUME Access!TypeOK, Access!Next
  PROVE  /\ Access!TypeOK'
         /\ members[DEFAULT_ADMIN_ROLE] = {} => Access!OnlyShrink
<1>1. PICK caller \in Principals, role \in Roles :
        \/ \E account \in Principals :
             Access!GrantRole(caller, role, account)
               \/ Access!RevokeRole(caller, role, account)
        \/ Access!RenounceRole(caller, role)
  BY DEF Access!Next
<1>2. ASSUME NEW account \in Principals, Access!GrantRole(caller, role, account)
      PROVE  /\ Access!TypeOK'
             /\ members[DEFAULT_ADMIN_ROLE] # {}
  BY <1>2 DEF Access!GrantRole, Access!HasRole, Access!GetRoleAdmin, Access!TypeOK
<1>3. ASSUME NEW account \in Principals, Access!RevokeRole(caller, role, account)
      PROVE  Access!TypeOK' /\ Access!OnlyShrink
  BY <1>3 DEF Access!RevokeRole, Access!TypeOK, Access!OnlyShrink
<1>4. ASSUME Access!RenounceRole(caller, role)
      PROVE  Access!TypeOK' /\ Access!OnlyShrink
  BY <1>4 DEF Access!RenounceRole, Access!TypeOK, Access!OnlyShrink
<1> QED BY <1>1, <1>2, <1>3, <1>4

LEMMA VaultRoleSteps ==
  ASSUME VaultAccess!TypeOK, VaultAccess!Next
  PROVE  /\ VaultAccess!TypeOK'
         /\ vaultMembers[DEFAULT_ADMIN_ROLE] = {} => VaultAccess!OnlyShrink
<1>1. PICK caller \in Principals, role \in VaultRoles :
        \/ \E account \in Principals :
             VaultAccess!GrantRole(caller, role, account)
               \/ VaultAccess!RevokeRole(caller, role, account)
        \/ VaultAccess!RenounceRole(caller, role)
  BY DEF VaultAccess!Next
<1>2. ASSUME NEW account \in Principals, VaultAccess!GrantRole(caller, role, account)
      PROVE  /\ VaultAccess!TypeOK'
             /\ vaultMembers[DEFAULT_ADMIN_ROLE] # {}
  BY <1>2 DEF VaultAccess!GrantRole, VaultAccess!HasRole,
              VaultAccess!GetRoleAdmin, VaultAccess!TypeOK
<1>3. ASSUME NEW account \in Principals, VaultAccess!RevokeRole(caller, role, account)
      PROVE  VaultAccess!TypeOK' /\ VaultAccess!OnlyShrink
  BY <1>3 DEF VaultAccess!RevokeRole, VaultAccess!TypeOK, VaultAccess!OnlyShrink
<1>4. ASSUME VaultAccess!RenounceRole(caller, role)
      PROVE  VaultAccess!TypeOK' /\ VaultAccess!OnlyShrink
  BY <1>4 DEF VaultAccess!RenounceRole, VaultAccess!TypeOK, VaultAccess!OnlyShrink
<1> QED BY <1>1, <1>2, <1>3, <1>4

(* Which calls write which of the variables of governance.                 *)
LEMMA GovernanceSteps ==
  ASSUME RolesOK, [GovernedNext]_allVars
  PROVE  /\ owner' = owner \/ Ownership!Next
         /\ members' = members \/ Access!Next
         /\ vaultMembers' = vaultMembers \/ VaultAccess!Next
<1>1. CASE PublicCall
  BY <1>1 DEF PublicCall, governanceVars, vaultVars
<1>2. ASSUME NEW caller \in Principals, RestrictedCall(caller) \/ VaultCall(caller)
      PROVE  UNCHANGED <<governanceVars, vaultMembers>>
  BY <1>2 DEF RestrictedCall, VaultCall, MoveRewardsToLock, RecoverERC20Token,
              vaultVars
<1>3. CASE ChangeOwner \/ ChangeRoles \/ ChangeVaultRoles
  BY <1>3 DEF ChangeOwner, ChangeRoles, ChangeVaultRoles, governanceVars, vaultVars
<1>4. ASSUME NEW t \in Tokens, NEW amount \in FundAmounts, FundVault(t, amount)
      PROVE  UNCHANGED <<governanceVars, vaultMembers>>
  BY <1>4 DEF FundVault
<1>5. CASE UNCHANGED allVars
  BY <1>5 DEF allVars, governanceVars, vaultVars
<1> QED BY <1>1, <1>2, <1>3, <1>4, <1>5 DEF GovernedNext, governanceVars

(* What the vault holds of a token stays a natural number; it falls only   *)
(* by what reaches the lock, or by an administrator's recovery.            *)
LEMMA VaultSteps ==
  ASSUME RolesOK, [GovernedNext]_allVars
  PROVE  /\ vaultHeld' \in [Tokens -> Nat]
         /\ \/ vaultMembers[DEFAULT_ADMIN_ROLE] # {}
            \/ TypeOK => \A t \in Tokens : vaultHeld'[t] < vaultHeld[t] =>
                 held'[t] - held[t] = vaultHeld[t] - vaultHeld'[t]
<1>0. vaultHeld \in [Tokens -> Nat] /\ FundAmounts \cup {0} \in SUBSET Nat
  BY LockRewardsAssumption DEF RolesOK
<1>1. ASSUME UNCHANGED vaultHeld
      PROVE  /\ vaultHeld' \in [Tokens -> Nat]
             /\ \A t \in Tokens : ~(vaultHeld'[t] < vaultHeld[t])
  BY <1>0, <1>1
<1>2. ASSUME NEW caller \in Principals, NEW amounts \in [Tokens -> FundAmounts \cup {0}],
             MoveRewardsToLock(caller, amounts)
      PROVE  /\ vaultHeld' \in [Tokens -> Nat]
             /\ TypeOK => \A t \in Tokens :
                  held'[t] - held[t] = vaultHeld[t] - vaultHeld'[t]
  <2>1. /\ \A t \in Tokens : amounts[t] <= vaultHeld[t]
        /\ vaultHeld' = [t \in Tokens |-> vaultHeld[t] - amounts[t]]
        /\ held' = [t \in Tokens |-> held[t] + amounts[t]]
    BY <1>2 DEF MoveRewardsToLock, Fund
  <2>2. \A t \in Tokens : amounts[t] \in Nat
    BY <1>0
  <2>3. TypeOK => \A t \in Tokens : held[t] \in Nat
    BY DEF TypeOK
  <2>4. \A t \in Tokens : vaultHeld[t] \in Nat
    BY <1>0
  <2> QED BY <2>1, <2>2, <2>3, <2>4
<1>3. ASSUME NEW caller \in Principals, NEW t \in Tokens, RecoverERC20Token(caller, t)
      PROVE  /\ vaultHeld' \in [Tokens -> Nat]
             /\ vaultMembers[DEFAULT_ADMIN_ROLE] # {}
  BY <1>0, <1>3 DEF RecoverERC20Token, VaultAccess!HasRole
<1>4. ASSUME NEW t \in Tokens, NEW amount \in FundAmounts, FundVault(t, amount)
      PROVE  /\ vaultHeld' \in [Tokens -> Nat]
             /\ \A s \in Tokens : ~(vaultHeld'[s] < vaultHeld[s])
  <2>1. vaultHeld' = [vaultHeld EXCEPT ![t] = @ + amount] /\ amount \in Nat
    BY <1>0, <1>4 DEF FundVault
  <2> QED BY <1>0, <2>1
<1>5. \/ UNCHANGED vaultHeld
      \/ \E caller \in Principals : VaultCall(caller)
      \/ \E t \in Tokens, amount \in FundAmounts : FundVault(t, amount)
  BY DEF GovernedNext, PublicCall, RestrictedCall, ChangeOwner, ChangeRoles,
         ChangeVaultRoles, vaultVars, allVars
<1> QED BY <1>1, <1>2, <1>3, <1>4, <1>5 DEF VaultCall

(* Owner, roles and the vault's holdings keep their types.                 *)
LEMMA RolesInv == GovernedSpec => []RolesOK
<1>1. GovernedInit => RolesOK
  BY GovernanceAssumption
     DEF GovernedInit, RolesOK, Ownership!TypeOK, Access!TypeOK,
         VaultAccess!TypeOK, NoTokens, Roles, VaultRoles, DEFAULT_ADMIN_ROLE,
         EPOCH_SETTER_ROLE, PAUSE_SETTER_ROLE
<1>2. RolesOK /\ [GovernedNext]_allVars => RolesOK'
  <2> SUFFICES ASSUME RolesOK, [GovernedNext]_allVars PROVE RolesOK'
    OBVIOUS
  <2>1. Ownership!TypeOK'
    BY GovernanceSteps
       DEF RolesOK, Ownership!TypeOK, Ownership!Next,
           Ownership!TransferOwnership, Ownership!RenounceOwnership
  <2>2. Access!TypeOK'
    BY GovernanceSteps, RoleSteps DEF RolesOK, Access!TypeOK
  <2>3. VaultAccess!TypeOK'
    BY GovernanceSteps, VaultRoleSteps DEF RolesOK, VaultAccess!TypeOK
  <2> QED BY <2>1, <2>2, <2>3, VaultSteps DEF RolesOK
<1> QED BY <1>1, <1>2, PTL DEF GovernedSpec

(* All variables of both contracts keep their types.                       *)
THEOREM GovernedTypeCorrect == GovernedSpec => []GovernedTypeOK
<1>1. TypeOK /\ RolesOK => GovernedTypeOK
  BY DEF GovernedTypeOK, RolesOK
<1> QED BY <1>1, GovernedContractTyped, RolesInv, PTL

-----------------------------------------------------------------------------
(* The settings belong to the owner.                                       *)
LEMMA SettingSteps ==
  ASSUME [GovernedNext]_allVars, owner = NoOwner
  PROVE  UNCHANGED <<rewardTokens, lockDuration, enforceTime,
                     whitelistRecoverERC20>>
<1> DEFINE settings == <<rewardTokens, lockDuration, enforceTime,
                         whitelistRecoverERC20>>
<1>1. ASSUME NEW u \in Users, UserNext(u) PROVE UNCHANGED settings
  <2>1. UpdateEpochAndReward(u)
    BY <1>1 DEF UserNext, UpdateAccount, Deposit, Redeposit, DepositFor,
                Withdraw, ClaimRewards, ClaimReward, Exit, EmergencyExit
  <2> QED BY <2>1 DEF UpdateEpochAndReward, settingVars
<1>2. ASSUME WorldNext \/ EpochSetterNext \/ PauseSetterNext
      PROVE  UNCHANGED settings
  BY <1>2 DEF WorldNext, Tick, Fund, EpochSetterNext, SetNextEpoch,
              PauseSetterNext, Pause, Unpause, settingVars, tokenVars
<1>3. CASE PublicCall
  BY <1>1, <1>2, <1>3 DEF PublicCall
<1>4. ASSUME NEW caller \in Principals, RestrictedCall(caller)
      PROVE  UNCHANGED settings
  <2>1. ~Ownership!OnlyOwner(caller)
    BY GovernanceAssumption DEF Ownership!OnlyOwner
  <2> QED BY <1>2, <1>4, <2>1 DEF RestrictedCall
<1>5. ASSUME NEW caller \in Principals, VaultCall(caller)
      PROVE  UNCHANGED settings
  BY <1>5 DEF VaultCall, MoveRewardsToLock, RecoverERC20Token, Fund, vars,
              settingVars, tokenVars
<1>6. CASE ChangeOwner \/ ChangeRoles \/ ChangeVaultRoles
  BY <1>6 DEF ChangeOwner, ChangeRoles, ChangeVaultRoles, vars, settingVars,
              tokenVars
<1>7. ASSUME NEW t \in Tokens, NEW amount \in FundAmounts, FundVault(t, amount)
      PROVE  UNCHANGED settings
  BY <1>7 DEF FundVault, vars, settingVars, tokenVars
<1>8. CASE UNCHANGED allVars
  BY <1>8 DEF allVars, vars, settingVars, tokenVars
<1> QED BY <1>3, <1>4, <1>5, <1>6, <1>7, <1>8 DEF GovernedNext

(* Without an owner the settings never change again, and without an        *)
(* administrator no role is ever gained again, in either contract.         *)
THEOREM GivenUp == GovernedSpec => GivenUpForGood
<1> DEFINE Kept ==
      /\ owner = NoOwner =>
           /\ owner' = NoOwner
           /\ UNCHANGED <<rewardTokens, lockDuration, enforceTime,
                          whitelistRecoverERC20>>
      /\ members[DEFAULT_ADMIN_ROLE] = {} => Access!OnlyShrink
      /\ vaultMembers[DEFAULT_ADMIN_ROLE] = {} => VaultAccess!OnlyShrink
<1>1. RolesOK /\ [GovernedNext]_allVars => [Kept]_allVars
  <2> SUFFICES ASSUME RolesOK, [GovernedNext]_allVars PROVE Kept
    OBVIOUS
  <2>1. owner = NoOwner => owner' = NoOwner
    BY GovernanceSteps, GovernanceAssumption
       DEF Ownership!Next, Ownership!TransferOwnership, Ownership!OnlyOwner,
           Ownership!RenounceOwnership
  <2>2. members[DEFAULT_ADMIN_ROLE] = {} => Access!OnlyShrink
    BY GovernanceSteps, RoleSteps DEF RolesOK, Access!OnlyShrink
  <2>3. vaultMembers[DEFAULT_ADMIN_ROLE] = {} => VaultAccess!OnlyShrink
    BY GovernanceSteps, VaultRoleSteps DEF RolesOK, VaultAccess!OnlyShrink
  <2> QED BY <2>1, <2>2, <2>3, SettingSteps
<1> QED BY <1>1, RolesInv, PTL DEF GovernedSpec, GivenUpForGood

(* A paused contract that nobody can unpause keeps every deposit, every    *)
(* claim and every lock as it is, for ever.                                *)
THEOREM FrozenForGood == GovernedSpec => PauseFreezes
<1> DEFINE Frozen == PausedForGood =>
      PausedForGood' /\ UNCHANGED <<accounts, totalAssets>>
<1>1. RolesOK /\ [GovernedNext]_allVars => [Frozen]_allVars
  <2> SUFFICES ASSUME RolesOK, [GovernedNext]_allVars, PausedForGood
               PROVE  PausedForGood' /\ UNCHANGED <<accounts, totalAssets>>
    OBVIOUS
  <2>1. /\ paused
        /\ members[DEFAULT_ADMIN_ROLE] = {} /\ members[PAUSE_SETTER_ROLE] = {}
    BY DEF PausedForGood
  <2>2. members'[DEFAULT_ADMIN_ROLE] = {} /\ members'[PAUSE_SETTER_ROLE] = {}
    <3>1. members' = members \/ Access!OnlyShrink
      BY <2>1, GovernanceSteps, RoleSteps DEF RolesOK
    <3> QED BY <2>1, <3>1 DEF Access!OnlyShrink, Roles
  <2>3. ASSUME NEW u \in Users, UserNext(u) PROVE FALSE
    BY <2>1, <2>3 DEF UserNext, UpdateAccount, Deposit, Redeposit, DepositFor,
                Withdraw, ClaimRewards, ClaimReward, Exit, EmergencyExit
  <2>4. ASSUME WorldNext \/ EpochSetterNext \/ OwnerNext
        PROVE  UNCHANGED <<accounts, totalAssets, paused>>
    BY <2>4 DEF WorldNext, Tick, Fund, EpochSetterNext, SetNextEpoch, OwnerNext,
       SetLockDuration, SetReward, RemoveReward, RecoverERC20,
       ChangeRecoverWhitelist, ChangeEnforceTime, settingVars
  <2>5. CASE PublicCall
    BY <2>1, <2>2, <2>3, <2>4, <2>5 DEF PublicCall, PausedForGood
  <2>6. ASSUME NEW caller \in Principals, RestrictedCall(caller)
        PROVE  UNCHANGED <<accounts, totalAssets, paused>>
    <3>1. ~Access!HasRole(PAUSE_SETTER_ROLE, caller)
      BY <2>1 DEF Access!HasRole
    <3> QED BY <2>4, <2>6, <3>1 DEF RestrictedCall
  <2>7. ASSUME NEW caller \in Principals, VaultCall(caller)
        PROVE  UNCHANGED <<accounts, totalAssets, paused>>
    BY <2>7 DEF VaultCall, MoveRewardsToLock, RecoverERC20Token, Fund, vars,
                settingVars
  <2>8. CASE ChangeOwner \/ ChangeRoles \/ ChangeVaultRoles
    BY <2>1, <2>2, <2>8 DEF ChangeOwner, ChangeRoles, ChangeVaultRoles, vars,
                settingVars, PausedForGood
  <2>9. ASSUME NEW t \in Tokens, NEW amount \in FundAmounts, FundVault(t, amount)
        PROVE  UNCHANGED <<accounts, totalAssets, paused>>
    BY <2>9 DEF FundVault, vars, settingVars
  <2>10. CASE UNCHANGED allVars
    BY <2>1, <2>2, <2>10 DEF allVars, vars, settingVars, PausedForGood
  <2> QED BY <2>1, <2>2, <2>5, <2>6, <2>7, <2>8, <2>9, <2>10
          DEF GovernedNext, PausedForGood
<1> QED BY <1>1, RolesInv, PTL DEF GovernedSpec, PauseFreezes

(* What leaves a vault without an administrator arrives in the lock.       *)
THEOREM VaultFeedsLock == GovernedSpec => VaultOneWay
<1> DEFINE OneWay == vaultMembers[DEFAULT_ADMIN_ROLE] = {} =>
      \A t \in Tokens : vaultHeld'[t] < vaultHeld[t] =>
        held'[t] - held[t] = vaultHeld[t] - vaultHeld'[t]
<1>1. TypeOK /\ RolesOK /\ [GovernedNext]_allVars => [OneWay]_allVars
  BY VaultSteps
<1> QED BY <1>1, RolesInv, GovernedContractTyped, PTL DEF GovernedSpec, VaultOneWay
=============================================================================
