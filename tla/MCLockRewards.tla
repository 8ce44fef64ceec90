---------------------------- MODULE MCLockRewards ----------------------------
(***************************************************************************)
(* Small instances of LockRewards.  The whole next-state relation has too  *)
(* many independent switches for one run, so each specification below      *)
(* leaves out the actions that do not matter to the question it is asked;  *)
(* between them every action is taken.                                     *)
(***************************************************************************)
EXTENDS LockRewardsClaims, FiniteSetsExt, TLC

CONSTANTS u1, u2, lock, gov, extra

UserSymmetry == Permutations(Users)

GovOnly == <<gov>>
GovAndExtra == <<gov, extra>>

(* The most the contract holds: lk of the lock token, rw of the others.    *)
AtMost(lk, rw) == [t \in Tokens |-> IF t = LockToken THEN lk ELSE rw]
AtMost_2_3 == AtMost(2, 3)
AtMost_2_6 == AtMost(2, 6)
AtMost_1_1 == AtMost(1, 1)
AtMost_2_0 == AtMost(2, 0)
AtMost_2_1 == AtMost(2, 1)

Only(t, amount) == [NoTokens EXCEPT ![t] = amount]

(* Users, blocks, funding and epochs; governance leaves its settings alone. *)
EarnNext ==
  \/ Tick
  \/ \E t \in RewardTokenSet, amount \in FundAmounts : Fund(Only(t, amount))
  \/ \E u \in Users : UserNext(u)
  \/ EpochSetterNext

EarnSpec == Init /\ [][EarnNext]_vars

(* The settings that decide when a deposit may leave, and whoever moves    *)
(* the reward tokens an exit has to pay.                                   *)
LongestDelay == Max({2 * Day * DefaultDuration * d : d \in LockDurations})

(* A deposit is made when the clock will see the end of the longest delay  *)
(* the owner can choose: the duration moves both ways after the deposit,   *)
(* but never beyond the largest of LockDurations.                          *)
LockNext ==
  \/ Tick
  \/ \E t \in RewardTokenSet, amount \in FundAmounts : Fund(Only(t, amount))
  \/ \E u \in Users :
       /\ UserNext(u)
       /\ accounts'[u].lockStart + LongestDelay <= MaxTime
  \/ EpochSetterNext
  \/ PauseSetterNext
  \/ \E duration \in LockDurations : SetLockDuration(duration)
  \/ \E flag \in BOOLEAN : ChangeEnforceTime(flag)

LockSpec == Init /\ [][LockNext]_vars /\ Patience

(* The list of reward tokens and the recovery of tokens.                   *)
TokenNext ==
  \/ Tick
  \/ \E t \in Tokens \ {LockToken}, amount \in FundAmounts :
       Fund(Only(t, amount))
  \/ \E u \in Users : \/ \E amount \in Amounts : Deposit(u, amount)
                      \/ UpdateAccount(u)
                      \/ \E t \in Tokens : ClaimReward(u, t)
                      \/ Exit(u)
                      \/ EmergencyExit(u)
  \/ EpochSetterNext
  \/ \E t \in Tokens : SetReward(t) \/ RemoveReward(t)
  \/ \E t \in Tokens, amount \in FundAmounts : RecoverERC20(t, amount)
  \/ \E t \in Tokens, flag \in BOOLEAN : ChangeRecoverWhitelist(t, flag)

TokenSpec == Init /\ [][TokenNext]_vars
=============================================================================
