# LockRewards in TLA+

A verification development for the contracts of this repository
(`h2o-vl-psdn`): TLA+ modules for the contract `LockRewards`, for the owner,
roles and vault around it, and for the collections and checkpoints that the
vendored OpenZeppelin library generates from templates; the TLC configurations
that check them on small instances; and TLAPS proofs of their main theorems
for all values of the constants. Line numbers are those of
`src/src/LockRewards.sol` unless a file is named; `templates/` stands for
`src/lib/openzeppelin-contracts/scripts/generate/templates/`.

## 1. The system

Users lock one ERC20 token, `lockToken`, for a number of *epochs*. An epoch
setter publishes epochs one after the other, each with an amount of every
*reward token*. When an epoch is over, each user who had a stake in it is
granted the share `stake / totalLocked` of its rewards; granted rewards are
claimed separately.

| part | state | operations | works with |
|---|---|---|---|
| epoch calendar | `epochs[id].start/finish/isSet`, `currentEpoch`, `nextUnsetEpoch` | modifier `updateEpoch` (786), the date part of `_setEpoch` (549) | carried by every function but pause, recovery, whitelist and `changeEnforceTime` |
| accounts and stakes | `accounts[user]`, `totalAssets`, `epochs[id].balanceLocked/totalLocked` | `updateAccount`, `deposit`, `redeposit`, `withdraw`, `claimRewards`, `claimReward`, `exit`, `emergencyExit` (207-310), modifier `updateReward` (796) | reads the calendar; moves `lockToken` and reward tokens |
| funding | `rewards`, `rewardsPaid`, `epochs[id].tokens/rewards` | `setNextEpoch`, three overloads (397-448) | compares announced rewards with the contract's token balances |
| settings | `rewardTokens`, `lockDuration`, `enforceTime`, `whitelistRecoverERC20`, paused | `setReward`, `removeReward`, `setLockDuration`, `changeEnforceTime`, `changeRecoverWhitelist`, `recoverERC20`, `recoverERC721`, `pause`, `unpause` (318-505) | decides what users may do, and what leaves to the owner |
| access control | owner; roles `EPOCH_SETTER_ROLE`, `PAUSE_SETTER_ROLE`, `DEFAULT_ADMIN_ROLE` | OpenZeppelin `Ownable`, `AccessControl` | guards the two rows above |
| `FutureRewardsVault` | token balances, `REWARDS_ROLE` | `queueNewRewards` (empty), `moveRewardsToLock`, `recoverERC20Token` | transfers reward tokens to `LockRewards` |
| enumerable collections (library) | an array of words, their positions, the values of a map | `add`, `remove`, `contains`, `at`, `set`, `get`, `tryGet` and their typed wrappers (`templates/EnumerableSet.js`, `EnumerableMap.js`) | the map keeps its keys in a set |
| checkpoints (library) | a `History` by block number, a `Trace` by key | `push`, `latest`, lookups by binary search (`templates/Checkpoints.js`) | the casts of `SafeCast.js` and `Math.sqrt` |
| scripts | none | deploy the contracts, hand the admin role to a timelock | the constructor |

What is hard about it:

* **Lazy settlement.** Nothing happens by itself: `currentEpoch` and every
  account lag behind the clock until some call touches them. The order and
  the time of the calls of several users and the setter must not change who
  gets what, and in places it does (section 5).
* **Several copies of the same money**: balances, `totalAssets`, stakes per
  epoch, `totalLocked`, `rewards`, `rewardsPaid`, claimable amounts, and the
  token balances, each kept by differences.
* **Positional lists**: `rewardTokens` is reordered by a removal, an account
  keeps a list of tokens of its own, an epoch has parallel arrays.
* **Unsigned, checked arithmetic**: every subtraction that would go below
  zero panics and blocks the function for good; divisions round down.
* **Boundaries**: epochs start at 1, the epoch in course is left out of a
  deposit, a relock includes it, at most two epochs are pending.
* **Rights that move**: the right to call is read when a call executes, while
  ownership and roles are handed on and given up in any order, for good.
* **Code generated once per type**: the same algorithm at several widths,
  where a shortcut, a truncation or a swap that is right for one width or
  position may be wrong for another.

The two halves do not meet: `LockRewards` itself uses neither the enumerable
collections nor the checkpoints. They are here because their templates are
program code of this repository with properties of their own.

There is no persistence to recover and no message to lose: a transaction is
atomic and totally ordered with the others. The nondeterminism is who calls
what, when, and with which arguments.

## 2. Modules

| module | what it is |
|---|---|
| `EpochSchedule` | the calendar alone, as an abstract specification |
| `LockRewards` | the whole contract, one action per function, and its properties |
| `LockRewardsClaims` | five statements of comments in the source that the code does not keep |
| `Ownable`, `AccessControl` | OpenZeppelin's two schemes of rights, each instantiated where it is inherited |
| `GovernedLockRewards` | composes `LockRewards`, its owner and roles, and `FutureRewardsVault` with its roles |
| `Conversion` | the conversions between typed values and words of storage |
| `EnumerableSet`, `EnumerableSetMock` | the generic set; the typed contract around it |
| `EnumerableMap`, `EnumerableMapMock` | the generic map, over the generic set; the typed contract around it |
| `AbstractSet`, `AbstractMap` | what they promise: a mathematical set and function |
| `SafeCast`, `Checkpoints`, `CheckpointsMock` | the casts and `Math.sqrt`; insertion and the searches; the contracts around them |
| `ValueOverTime` | what a history of checkpoints promises |
| `PureCalls` | the casts and the square root, called with every argument |
| `MCLockRewards`, `MCGovernedLockRewards`, `MCTemplates` | instances for TLC and the restrictions of the next-state relations they use |
| `Sums` | sums over functions with finite domain, without recursion |
| `NumberTheorems` | facts about these sums, powers of two, products and roots, and the least elements that stand for induction |
| `EpochScheduleProofs` | the calendar |
| `LockRewardsProofs` → `LockRewardsLedgerProofs` → `LockRewardsFundingProofs` | the contract; each extends the one before |
| `GovernedLockRewardsProofs` | the composition |
| `EnumerableProofs`, `CheckpointsProofs` | the library's structures |

### State

`LockRewards` has one variable per storage variable, under its name, plus

* `now`, the block timestamp: a clock that advances by one (`Tick`), so any
  gap between two blocks is several ticks. `Day`, the length of a day in
  clock units, is a constant;
* `held`, what the contract holds of each token, so that transfers can fail;
* `paused`, of OpenZeppelin's `Pausable`.

`accounts` and `epochs` hold the records of `ILockRewards.sol` (76-94). An
epoch's arrays `tokens` and `rewards` are a set and a function of tokens; an
account's `rewardTokens` is a bag, since the code depends on which tokens are
in it and how often, never on their order. `rewardTokens` of the contract is
a sequence, because removal and `values[i]` use positions. Stored values
nobody reads again (events, return values of claims) are left out.

`GovernedLockRewards` adds `owner`, `members` (the accounts of each role),
and `vaultMembers` and `vaultHeld` of the vault.

The library's modules keep Solidity's layout: a set is an array `values` and
a mapping `indexes` of positions from 1, with 0 for absence; a map is a set of
keys and a mapping of values; a checkpoint is a key and a value. Integers have
their width: `WordBits` stands for 256, `HistorySize` and `TraceSizes` for the
generated value widths, and a cast is modelled by truncation and comparison,
as the code does it.

### Actions

An action is a transaction that succeeds. Reverts, whether by a custom error,
a failed transfer or a panic (underflow, division by zero, array index), are
guards. The modifiers are part of every action that carries them:
`SyncedEpoch` is where the loop of `updateEpoch` stops, `UpdatedAccount(u)`
is the account as `updateReward` leaves it, and the body of a function
continues from there. Loops over epochs become the set of epochs they visit
(`Payable`, `RelockedEpochs`, `UnlockedEpochs`), loops over tokens become
functions on tokens.

`_withdraw` followed by `_claim()`, as in `exit` and `emergencyExit`, is
`Leave`: one `Pay` of both amounts, because all or nothing of it happens.

`nonReentrant` is what makes a transaction one step; this takes tokens that
do not call back. `updateAccount` is not `nonReentrant`, and makes no
external call.

`Fund(amounts)` is any plain transfer to the contract, or several at once: a
person, or the loop of `FutureRewardsVault.moveRewardsToLock` in one
transaction, where the same step takes the amounts out of `vaultHeld`.

In `GovernedLockRewards` a restricted function is taken by a caller
(`RestrictedCall`), who must be the owner or have the role in the state in
which the call executes. Nobody calls `_setRoleAdmin`, so the default
administrator administers every role, its own included.

The mocks of the library call one function per transaction; `Mine` is a new
block, which is what separates a final past from the present in a `History`.
Pure functions have no storage to change, so `PureCalls` has the last call
and its result as its state.

Names starting with `Mutant` are deliberately wrong variants of the
definition that follows them, with the bug named beside it where it is not
plain: each property fails when its variant takes the place of the original.
No specification uses them.

## 3. What the runs check

All runs are of small instances; section 4 says why they are large enough.

| run | instance | checks |
|---|---|---|
| `schedule` | `EpochSchedule`, 4 epochs, clock to 9, epochs of length 0, 1 and 3 | `TypeOK`; `WindowOK`: the set epochs are those before `nextUnsetEpoch` and at most two are pending; `PassedAreOver`; `Consecutive`: no overlap whatever start is asked for; `CalendarIsFinal`: published dates never move; `EpochsEnd`: every set epoch is eventually passed |
| `earn_two` | two users sharing two epochs | `OwedWithinFunding`: what was granted and what can still be granted never exceeds what was announced, so nothing is paid twice and `rewards - rewardsPaid` never underflows; `LockedSums`: `totalLocked` is the sum of the stakes; `StakesSettle`: no stake grows once its epoch started, none changes once it finished, even while `currentEpoch` lags |
| `earn_one` | one user, three epochs, started at once or a tick later, relocks, zero deposits, late calls, emergency exits | `StakesBacked`: no stake ahead exceeds the deposit, and the account stays locked while it has one; `EmergencyRemovesAll`: an emergency exit leaves no stake, which fails for longer epochs (section 5); `ClaimsConserved`: user calls move claims and never create them; `ScheduleRefined`: the contract implements `EpochSchedule` |
| `locks` | one user, pausing, `changeEnforceTime`, a lock duration that moves between one epoch and two | `TypeOK`; `EveryoneCanLeave`: a user who keeps trying leaves with the whole balance, whatever the setter stops doing, and although the duration is raised after the deposit, as long as it has a longest value |
| `reward_tokens` | three tokens, the list of reward tokens and the whitelist changing and tokens being recovered while users deposit, epochs pay and users leave | `ClaimListComplete`: a claimable amount is always on the list `_claim()` goes through; `AnnouncedTotals`: `rewards[t]` is the sum over the epochs, through removal, reordering and re-adding; `DepositsInCustody`: `totalAssets` is the sum of the balances and is in the contract, whatever the owner whitelists and recovers |
| `governed` | every function of both contracts, by each of two accounts, with three tokens | `GovernedTypeOK`; `GivenUpForGood`: without an owner the settings stay, without an administrator no role is ever gained; `PauseFreezes`: a paused contract that nobody can unpause keeps every account as it is; `VaultOneWay`: what leaves a vault without administrator arrives in the lock |
| `templates` | a set and a map of 4 words, 2 of them addresses; a `History` over 8 blocks, traces of two widths; the casts and the square root of every 6-bit argument | `SetTypeOK`, `SetIndexed`: array and index mapping stay inverse; `SetRefined`, `MapRefined`: the collections implement `AbstractSet` and `AbstractMap`; `MapTypeOK`, `NoResidue`: no value survives its key; `LookupsAgree`: looking up and enumerating agree, the value zero included; `CheckpointsTypeOK`; `KeysIncrease`; `LookupsFindValue`: all four binary searches find what a scan would; `PastIsFixed`: an answer about a past block is never contradicted; `HistoryRefined`: a history implements `ValueOverTime`; `CastsExact`; `SqrtRoundsDown` |

`MCLockRewards` splits the next-state relation: with all switches free the
state space is out of reach beyond a single epoch, so `EarnSpec`, `LockSpec`
and `TokenSpec` leave out the actions that do not bear on the question.
Between them they take every function of `LockRewards`, and `governed` takes
all of them together.

`governed` lets the roles and the ownership of one contract change while
those of the other are as deployed. No action of one reads or writes the
rights of the other, so letting both change only multiplies the states. The
owner's settings (`rewardTokens`, `lockDuration`, `enforceTime` and the
whitelist, all of which `GivenUpForGood` reads) change while neither contract
holds a token, or are as deployed while deposits and rewards move: who may
change a setting does not depend on what the contract holds. `lockToken` is
kept out of the vault. The proofs of section 6 take none of these shortcuts.

In `templates` a behaviour uses one of the structures, or calls one pure
function. They share no storage, and the pure functions have none, so
interleaving them reaches no further state of any. Deadlock is not checked in
this run: it stops after a pure call, past the last block whose number fits
its key every push reverts, and so does every push to a trace whose last key
is the largest.

Conditions on what is checked, all of them real limits of the code:

* `StakesBacked` is for behaviours in which `enforceTime` stays on and no
  epoch is longer than the delay of `emergencyExit`: `EpochsWithinDelay`,
  which section 6 proves sufficient, holds of the constants of `earn_one` and
  fails of those of `claim_emergency`;
* `DepositsInCustody` takes a `lockToken` that is not among the reward
  tokens. `setReward` refuses it; the constructor does not, and the tests
  deploy it so (section 5);
* the constructor's reward tokens are all different
  (`LockRewardsAssumption`). `setReward` refuses a token that is on the list;
  the constructor (82-83) copies what it is given;
* `ClaimsConserved` excepts whitelisted tokens, which the owner may recover,
  and the setting of a new epoch, which is where claims are created;
* `EveryoneCanLeave` excepts a contract that stays paused, since
  `emergencyExit` carries `whenNotPaused`, and one that stays short of reward
  tokens the user may claim, since an exit pays all claims or nothing (such a
  shortage is what `claim_funded` leads to). It assumes that there is a longest
  lock duration the owner ever sets, the maximum of `LockDurations`, and that
  time goes on beyond twice that many epochs after a deposit. The code sets no
  limit (section 5); without one the statement is false of it.

## 4. Bounds

| constant | bounds | why it is enough |
|---|---|---|
| `MaxEpoch` | epochs that can be set, 1 to 4 | at most two are pending, a third is needed for a past one beside them; `governed` needs one, for its setter |
| `MaxTime` | clock, 0 to 9 | several ticks past the end of the last epoch that can be set, the emergency delay included where it matters; in `governed` who may call does not depend on time, and epochs of length 0 start and end at once |
| `MaxHeld` | the most of each token in the contract | limits deposits and funding; one epoch funded twice over is reachable where funding matters |
| `Users` | 1 or 2 | shares need two; everything else an account does is independent of the others |
| `Principals` | 2 | one that keeps a right and one that gets, loses or lacks it |
| `Scale` | 10 instead of 1e18 | small enough to make every rounding visible |
| `RewardValues`, `Amounts`, `Durations`, `StartDelays`, `LockDurations`, `FundAmounts` | what callers choose from | zero, one and a value that does not divide evenly between the users |
| `Words`, `Addresses`, `MaxMapped` | 4 words, 2 addresses, values 0 and 1 | removing the first, the last, the only and a middle element needs three; a word that is no address needs more words than addresses; zero as a stored value and as an absent one |
| `WordBits` | 6 instead of 256 | every length of a cast from 1 to 5 bits with every argument; roots up to 7 need several of the Newton steps; of the eight steps of `log2` the last three do something, the others shift by more than such a word has and are left to the proof |
| `HistorySize`, `TraceSizes` | values of 3 bits, of 2 and 3 bits, keys of the rest | values and keys that do not fit, of more than one width |
| `MaxBlock`, `PushedValues`, `MaxLatest`, `TraceKeys`, `TraceValues` | 8 blocks, 5 keys | lists longer than 5 take the shortcut for recent keys, on either side of the position it probes; keys are repeated, skipped and out of order |

`MaxTime` also bounds the finish of an epoch, and `MaxEpoch` the epochs a
deposit can lock: `EpochId` is `1 .. MaxEpoch + 1`, and the last one is never
set. In `locks` a deposit is made only when the clock will still see the end
of the longest emergency delay the owner can choose (`LongestDelay`): otherwise
a user would fail to leave because time stops at `MaxTime`, which it does only
in the model. The duration is one epoch at first and can be raised to two and
lowered again at any time, so a delay that was nearly over may grow. Epochs of
several lengths and starts put off into the future are the business of
`schedule`, and of the refinement proof; the contract's runs take epochs of
one day (three in `claim_emergency`), set to start at once or, in `earn_one`,
also a tick later. With two epochs pending, the second always starts later.
In `LockRewards` integers are unbounded: overflow of 256 bits is out of reach
of the amounts of any token, subtraction below zero is not, and is a guard.
The users of `earn_two` are symmetric and interchangeable in all it checks.

**Fairness.** `EpochSchedule!FairSpec` assumes that time passes (`WF` of
`Tick`, up to the bound) and that somebody keeps calling the contract (`WF`
of `UpdateEpoch`): any user can call `updateAccount` at any time, and the
claim is made of behaviours in which somebody does. `LockRewards!Patience`
assumes that time passes and that each user who wants to leave keeps trying
(`WF` of `EmergencyExit(u)`). A blockchain keeps producing blocks, and a
transaction that stays possible can be sent again until it is included.
Nothing is assumed of the epoch setter, of the owner, or of the other users.

## 5. Where the code departs from what it says

Five runs each check one statement of a comment and end in a behaviour that
contradicts it:

| run | statement | behaviour |
|---|---|---|
| `claim_finished` | locked funds "will become claimable at the epoch end" (20-22) | a deposit made while an epoch is set locks the epochs after it, but `updateReward` looks at `lockEpochs` epochs counted from the current one (808-815). Who calls only after the last locked epoch is over is not paid for it, and `lastEpochPaid` then passes it for good |
| `claim_funded` | the amount needed "should be transfered before" (389-390) | `rewardsPaid` is what was granted; granted and unclaimed tokens pass as funding of a new epoch (561-566) |
| `claim_governance` | "cannot whitelist governance token" (469) | a token whitelisted in second place moves to the first when the first is removed (534) |
| `claim_readable` | `updateAccount` updates the account "(grant rewards if available)" (205) | the account's list of tokens grows by every `claimReward` followed by a grant, and `_getAccount` copies it into an array of fixed length (745-749): it panics until `claimRewards` empties the list |
| `claim_emergency` | "it removes all further rewards" (663) | stakes of a deposit made during an epoch reach one epoch further than the loop of `_emergencyUnlock` (675-678) |

Three more departures are not statements a run could refute, and are recorded
here:

* the comment of `changeRecoverWhitelist` (472-476) says that the lock token
  can be whitelisted, so that the owner can "remove all funds deposited from
  all users"; the code refuses that token (480). The code is the stricter of
  the two: `DepositsInCustody`, checked in `reward_tokens` with every
  whitelisting and recovery, and proved, says that no deposit can be taken
  this way, and fails as soon as the check at 480 is left out;
* with `lockToken` among the constructor's reward tokens, which the
  constructor accepts and `src/test/LockRewards.t.sol:15-16,32` does, deposits
  count as funding of an epoch (562-564) and are paid out as rewards. This is
  the case that `DepositsInCustody` leaves out;
* `emergencyExit` is described as open to funds "locked for more than twice
  default lock period" (297-298). The check (667) reads the lock duration of
  the moment, which `setLockDuration` (335-341) sets to any number: an owner
  who keeps raising it keeps the exit shut for deposits made before, and one
  value large enough makes the product in the check overflow. A deposit whose
  epochs the setter does not set is then locked in for as long as the owner
  wants. `EveryoneCanLeave` states what remains true: the way out opens if the
  duration stays below some limit.

Observed while modelling and not given a run either: `redeposit` in the epoch of the
first deposit leaves the last locked epoch at the old stake (631);
`getNextEpoch` returns the stakes of an unset epoch when the current one is
set (142); with `enforceTime` off, stakes survive a withdrawal (654); `changeRecoverWhitelist` panics when the list of reward tokens is
empty (480); the comments of `pause` and `unpause` say "Can only be called by
the contract owner" (315-326), the code asks for `PAUSE_SETTER_ROLE`.

## 6. What is proved

TLAPS proves, from the named assumptions on the constants alone
(`ScheduleAssumption`, `LockRewardsAssumption`, `GovernanceAssumption`,
`WidthAssumption`, `SizesAssumption`) and the conditions the table names, for
any users, tokens, amounts, words, widths and bounds:

| module | theorem | statement |
|---|---|---|
| `EpochScheduleProofs` | `TypeCorrect`, `WindowBounded`, `PassedEpochsOver`, `EpochsConsecutive` | `Spec => []` of `TypeOK`, `WindowOK`, `PassedAreOver`, `Consecutive` |
| | `PublishedIsFinal` | `Spec => CalendarIsFinal` |
| `LockRewardsProofs` | `TypeCorrect` | `Spec => []TypeOK` |
| | `Refinement` | `Spec => ScheduleRefined` |
| | `TotalsMatchStakes` | `Spec => []LockedSums` |
| `LockRewardsLedgerProofs` | `AnnouncedIsHeld` | `Spec => []AnnouncedTotals` |
| | `ListsStayComplete` | `Spec => []ClaimListComplete` |
| | `DepositsSafe` | `Spec => []DepositsInCustody`, assuming `NoRewardInLockToken` |
| | `StartedEpochsSettle` | `Spec => StakesSettle` |
| | `StakesStayBacked`, `EmergencyLeavesNoStake` | `Spec /\ []enforceTime =>` `[]StakesBacked`, `EmergencyRemovesAll`, assuming `EpochsWithinDelay` |
| `LockRewardsFundingProofs` | `PaidWithinFunding` | `Spec => []OwedWithinFunding` |
| | `ClaimsNeverCreated` | `Spec => ClaimsConserved` |
| `GovernedLockRewardsProofs` | `GovernedTypeCorrect` | `GovernedSpec => []GovernedTypeOK` |
| | `GivenUp`, `FrozenForGood`, `VaultFeedsLock` | `GovernedSpec =>` `GivenUpForGood`, `PauseFreezes`, `VaultOneWay` |
| `EnumerableProofs` | `SetTypeCorrect`, `SetStaysIndexed`, `SetImplemented` | `SetSpec =>` `[]SetTypeOK`, `[]SetIndexed`, `SetRefined` |
| | `MapTypeCorrect`, `NothingLeftBehind`, `LookupsAlwaysAgree`, `MapImplemented` | `MapSpec =>` `[]MapTypeOK`, `[]NoResidue`, `[]LookupsAgree`, `MapRefined` |
| `CheckpointsProofs` | `CheckpointsTypeCorrect`, `KeysAlwaysIncrease`, `HistoryImplemented` | `Spec =>` `[]CheckpointsTypeOK`, `[]KeysIncrease`, `HistoryRefined` |
| | `LookupsFind`, `PastStaysFixed` | `Spec =>` `[]LookupsFindValue`, `PastIsFixed` |
| | `CastsAlwaysExact` | `CallSpec => []CastsExact` |
| | `SqrtAlwaysRoundsDown` | `CallSpec => []SqrtRoundsDown`, for words of up to 256 bits |

**Calendar.** The inductive invariant `Inv` joins the four safety properties:
`SyncedEpoch` is a `CHOOSE`, and that a candidate exists needs `WindowOK` (an
unset epoch lies ahead) with the types; that the candidate is at most one or
two ahead gives the window again after a step; `Consecutive` needs the window
to know that epoch `next - 1` is the latest.

**Contract.** `IInv == TypeOK /\ Calendar!Inv`, where `Calendar` instantiates
the proof module under the refinement mapping. Neither half is inductive
alone: the type of `currentEpoch'` needs `SyncedEpoch` to exist, which is the
calendar's invariant, and a step maps to a calendar step only in a typed
state. `TypeOK` is not shallow here: `lockEpochs` decreases by the number of
epochs paid and stays natural because `Payable` lies in a window of that
size, and `totalLocked` decreases by checked subtractions only.

**Ledger.** On top of `IInv`, each property has the one fact it lacks:

* `AnnouncedTotals` needs `UnsetEmpty`, epochs not set hold no rewards, so
  that setting one adds exactly what it is given to the sum;
* `ClaimListComplete` needs `OwnTokensOnly`, an epoch with rewards of a token
  names the token. Of the epochs a call grants, the first to grant any of the
  token is the one whose loop puts it on the list;
* `DepositsInCustody` needs `LockTokenApart`, nothing is announced, granted
  or recoverable in `lockToken`. This starts from `NoRewardInLockToken`, the
  condition the constructor does not check;
* `StakesSettle` needs `EpochsAhead`: the calendar puts every epoch a deposit
  or an emergency exit touches after the clock, although the code chooses it
  by a `currentEpoch` that may lag.

**Backed stakes.** `StakesBacked` is not inductive: that a stake ahead keeps
the account locked says nothing of how far ahead the lock must reach.
`LocksCover` adds it, with the cases a deposit creates. Either all stakes from
`PaidFrom` on lie in the first `lockEpochs` epochs, or, after a deposit made
while an epoch is set, they lie in the `lockEpochs` epochs after that one; and
then the epoch is not over before the emergency delay is, so that nobody can
use `emergencyExit`, which looks at the former window, while it would miss
the last stake. That epochs do not outlast the delay is `EpochsWithinDelay`,
an assumption about what the setter and the owner choose: days for an epoch,
the wait for its start, and lock durations. It is satisfied by weekly epochs
that start within a week, for any lock of one epoch or more. `FinishInTime` carries it to the epochs
already set. `EmergencyLeavesNoStake` is the other side: under the same
conditions the statement that `claim_emergency` refutes is true, so the
finding is exactly about epochs longer than the delay.

**Funding.** `OwedWithinFunding` compares sums over users with sums over
epochs. The proof counts the same table of shares twice. The row of a user
splits at `PaidFrom` into the epochs paid, each at most once, and those still
owed. The column of an epoch cannot exceed its rewards, because both
divisions round down and the stakes sum to the denominator (`LockedSums`).
The inductive part is `GrantsWithinPast`: the epochs before `PaidFrom` cover
`rewardsPaid`, and `PaidFrom` never passes `currentEpoch`. Every call of a
user ends with `lastEpochPaid` at the synchronised epoch (`UserPaidUp`) and
restakes from there on only (`UserKeepsPast`), so no share counted once can
change again.
`ClaimsConserved` follows one user at a time: what a grant adds to
`rewardsPaid` it adds to the claims, and what a payment takes from the
contract it takes from the claims or the balance.

**Numbers.** `SumOver(f)` counts numbered coins, so facts about sums are facts
about cardinalities of finite sets and bijections between them, and need no
induction: `SumUpdate` (changing one value moves the sum by the difference),
`SumSplit`, `SumMonotone`, `SumScale`, and `SumTable` (a table summed by rows
is the table summed by columns). `2^n` counts the subsets of `n` elements,
which gives its laws the same way. Where induction is unavoidable it is by
`LeastNumber`: a set of counterexamples is a set of natural numbers, its least
element is none.

**Composition.** A step of the governed contract is a step of `LockRewards`
with a guard on its caller, or leaves the contract alone: this is so by the
way `GovernedNext` is composed, says nothing of the code, and is only the lemma
(`ContractImplemented`) by which theorems about `LockRewards` are used here.
The four theorems rest on `RolesOK`, the types of owner, roles and vault: the
argument is which action may change what.

**Library.** `SetInv` says that array and index mapping are inverse and hold
only values of the contract's type; without the latter, typed values and
words would not correspond. `MapInv` adds that a value has its key. From
these, `add`, `set` and `remove` take the abstract step; `RemoveWord` has the
cases of the last element and of another, which is replaced by the last. For
checkpoints, the inductive `CheckpointsInv` has typed lists of strictly
increasing keys; `_insert` reverts below the last key, so a push changes no
value before its own block.

**Loops of the library.** A binary search is a recursive function on the pairs
of its bounds. `HalvingStops` shows that it exists, by induction on the
distance of the bounds, and `HalvingFinds` that from bounds `from` and `to` it
returns a position between them with the wanted keys on its two sides. With
increasing keys there is one such position in the list, the one a scan finds
(`SplitFinds`). `getAtProbablyRecentBlock` first looks at one checkpoint and
searches on one side of it: this is right if `1 <= sqrt(n) <= n`
(`SqrtInRange`), which needs the length to be a number of `WordBits` bits, and
it is because keys are distinct and narrower than a word (`ListIsShort`).
`PastIsFixed` follows, since all lookups are values over time.

**Casts and square root.** A truncation is its argument or off by a multiple
of the modulus, and one that is off never passes the comparison
(`SignedExact`). For `Math.sqrt`, with `s` the root rounded down plus one, no
estimate is below `s - 1`, and one iteration takes a distance `d = e - s` to
at most `(d * d - 1) \div (2 * e)` (`ImprovedIsCloser`). The first estimate
is between `s \div 2` and `s`, so the distance is at most `s \div 4` after
one iteration and `s \div 2^95` after six (`NextDistance`); if `s` is at most
`2^190`, the seventh is `s - 1` or `s`, and the minimum is `s - 1`
(`LesserIsRoot`). That the first estimate is so close is what the eight steps
of `log2` give: each keeps `2^result * value <= a < 2^result * (value + 1)`
and halves the bits `value` may have (`NarrowedKeeps`), so that one bit is left
of 256 (`LogExists`). The code's words of 256 bits have roots of 128; with one
iteration fewer the argument would stop at roots of 94.

**Only model-checked** are the two liveness properties `EpochsEnd` and
`EveryoneCanLeave`: fairness and `ENABLED` are out of this prover's reach. The
five statements of section 5 fail, four of them whatever the constants; the
fifth, `EmergencyRemovesAll`, is proved under the conditions above. All other invariants and
action properties of the runs are theorems.

## 7. What is not modelled

* `recoverERC721` (it moves an NFT and no state of the contract) and the views
  other than the copy loop of `getAccount`;
* tokens that call back, take fees or rebase; balances and allowances of
  users, who can always pay within `MaxHeld`;
* 256-bit overflow in `LockRewards`, gas, and loops too long to run;
* `FutureRewardsVault.queueNewRewards`, which is empty, and the events and
  interface queries of both contracts;
* a constructor given the same reward token twice (section 3);
* the values that pushes return beside what they store (the previous and the
  new value, `templates/Checkpoints.js` 197 and 200), and the typed `at` and
  `length` of a set, which convert what the generic ones return;
* the deployment scripts and the timelock. `LockRewards.s.sol` (27-31) writes
  index 1 of arrays of length 1, and `RewardsVault.s.sol` passes one argument
  to a constructor with two;
* the generator and maintenance scripts of the vendored library beside the
  templates (release notes, gas reports, import migration, Hardhat
  configuration): text and file processing without state or concurrency. How
  the templates are assembled into text is not modelled; the Solidity they
  produce is;
* the rest of OpenZeppelin and forge-std, which is vendored and not used.

## 8. What could follow

* A specification of what the contract promises to a depositor in terms of
  money alone, without dates and shares, implemented by `LockRewards`; the
  proofs of `DepositsInCustody`, `OwedWithinFunding` and `ClaimsConserved` are
  its substance.
* The order of settlement: within the window of 808, a user granted epoch by
  epoch ends with what one late call would grant.
