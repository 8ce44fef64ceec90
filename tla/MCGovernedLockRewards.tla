------------------------ MODULE MCGovernedLockRewards ------------------------
(***************************************************************************)
(* A small instance of GovernedLockRewards: every function of both         *)
(* contracts, by each of two accounts.  Roles and ownership of one         *)
(* contract change while those of the other are as deployed: they are      *)
(* independent, and all combinations of both would only be multiplied.     *)
(* In the same way the owner's settings change while neither contract      *)
(* holds a token, or are as deployed while deposits and rewards move.      *)
(***************************************************************************)
EXTENDS GovernedLockRewards

CONSTANTS u1, p, q, lock, gov, extra

GovOnly == <<gov>>

AtMost_1_1 == [t \in Tokens |-> IF t = extra THEN 0 ELSE 1]

LockAsDeployed == owner = Deployer /\ members = [role \in Roles |-> {p}]
VaultAsDeployed == vaultMembers = [role \in VaultRoles |-> {p}]

SettingsAsDeployed ==
  /\ rewardTokens = InitialRewardTokens
  /\ lockDuration = InitialLockDuration
  /\ enforceTime
  /\ \A t \in Tokens : ~whitelistRecoverERC20[t]

Empty == totalAssets = 0 /\ held = NoTokens /\ vaultHeld = NoTokens

SmallNext ==
  /\ GovernedNext
  /\ LockAsDeployed' \/ VaultAsDeployed'
  /\ SettingsAsDeployed' \/ Empty'
  /\ vaultHeld'[LockToken] = 0

SmallSpec == GovernedInit /\ [][SmallNext]_allVars
=============================================================================
