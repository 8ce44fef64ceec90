-------------------------- MODULE LockRewardsClaims --------------------------
(***************************************************************************)
(* What comments of LockRewards.sol say of the contract and its code does  *)
(* not do.  Each claim is checked by a run of its own, which ends in the   *)
(* behaviour that contradicts it.                                          *)
(***************************************************************************)
EXTENDS LockRewards

(* "the funds must be locked before the epoch start and will become        *)
(* claimable at the epoch end" (20-22): a finished epoch in which the user *)
(* holds a stake and which the account has not passed yet is among those   *)
(* the next call of the user pays.                                         *)
FinishedEpochsClaimable ==
  \A u \in Users, e \in EpochId :
    /\ Elapsed(e)
    /\ PaidFrom(u) <= e
    /\ epochs[e].balanceLocked[u] > 0
    => e \in Payable(u, SyncedEpoch)

(* "The amount needed of tokens should be transfered before calling        *)
(* setNextEpoch" (389-390): what was announced and not claimed yet is in   *)
(* the contract.                                                           *)
RewardsFunded == \A t \in Tokens : t # LockToken => Surplus(t) >= 0

(* "cannot whitelist governance token" (469): the token at the head of     *)
(* rewardTokens is never open to recoverERC20.                             *)
GovernanceTokenProtected ==
  rewardTokens # <<>> => ~whitelistRecoverERC20[rewardTokens[1]]

(* "Update caller account state (grant rewards if available)" (205):       *)
(* updateAccount returns the account it updated, for every account.        *)
AccountsReadable == \A u \in Users : AccountReadable(accounts[u])

(* "remove all upcoming rewards" (296), "it removes all further rewards"   *)
(* (663): after emergencyExit the user has no stake in an epoch to come.   *)
EmergencyRemovesAll ==
  [][\A u \in Users : EmergencyExit(u) =>
       \A e \in EpochId :
         e >= currentEpoch' => epochs'[e].balanceLocked[u] = 0]_vars
=============================================================================
