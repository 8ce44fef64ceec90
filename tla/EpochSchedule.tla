--------------------------- MODULE EpochSchedule ----------------------------
(***************************************************************************)
(* The epoch calendar of LockRewards, on its own: which epochs are set,    *)
(* when they start and finish, which one is current.  Everything else the  *)
(* contract does is invisible here.  LockRewards implements this module    *)
(* (see ScheduleRefined there), so what holds of the calendar here holds   *)
(* of the contract's calendar.                                             *)
(*                                                                         *)
(* Block timestamps are abstracted to a clock that advances by one; a long *)
(* gap between two blocks is several ticks in a row.                       *)
(*                                                                         *)
(* Operators named Mutant... are wrong variants of the definition after    *)
(* them; nothing uses them but the runs that show a property can fail.     *)
(***************************************************************************)
EXTENDS Integers

CONSTANTS
  StartDelays,  \* epochStart - block.timestamp, as chosen by the epoch setter
  Lengths,      \* epochDurationInDays * 86400, as chosen by the epoch setter
  MaxEpoch,     \* bound: epochs 1..MaxEpoch can be set
  MaxTime       \* bound: the clock stops here and no epoch finishes later

ASSUME ScheduleAssumption ==
  /\ StartDelays \subseteq Nat
  /\ Lengths \subseteq Nat
  /\ MaxEpoch \in Nat \ {0}
  /\ MaxTime \in Nat

VARIABLES
  now,             \* block.timestamp
  currentEpoch,
  nextUnsetEpoch,
  start, finish, isSet   \* the calendar fields of epochs[id]

vars == <<now, currentEpoch, nextUnsetEpoch, start, finish, isSet>>

(* Epoch MaxEpoch + 1 is never set: it is where the look-ahead stops.      *)
EpochId == 1 .. MaxEpoch + 1

Init ==
  /\ now = 0
  /\ currentEpoch = 1
  /\ nextUnsetEpoch = 1
  /\ start = [e \in EpochId |-> 0]
  /\ finish = [e \in EpochId |-> 0]
  /\ isSet = [e \in EpochId |-> FALSE]

MutantElapsed(e) == isSet[e]           \* the finish is not looked at

Elapsed(e) == isSet[e] /\ finish[e] <= now

(* The epoch at which the loop of updateEpoch stops: the first one, from   *)
(* currentEpoch on, that is not both set and finished.                     *)
SyncedEpoch ==
  CHOOSE e \in EpochId :
    /\ e >= currentEpoch
    /\ ~Elapsed(e)
    /\ \A k \in currentEpoch .. e - 1 : Elapsed(k)

Tick ==
  /\ now < MaxTime
  /\ now' = now + 1
  /\ UNCHANGED <<currentEpoch, nextUnsetEpoch, start, finish, isSet>>

(* Any call that carries the updateEpoch modifier and sets no epoch.       *)
MutantUpdateEpochBehind ==             \* the last epoch passed, not the next
  /\ currentEpoch' = SyncedEpoch - 1
  /\ UNCHANGED <<now, nextUnsetEpoch, start, finish, isSet>>

MutantUpdateEpochNotStored == UNCHANGED vars

UpdateEpoch ==
  /\ currentEpoch' = SyncedEpoch
  /\ UNCHANGED <<now, nextUnsetEpoch, start, finish, isSet>>

(* The start that _setEpoch gives to the next epoch when epochStart is     *)
(* requested and the calendar is at epoch cur.                             *)
MutantStartOf(cur, epochStart) == epochStart   \* overlaps the last epoch

StartOf(cur, epochStart) ==
  LET next == nextUnsetEpoch
  IN  IF cur = next \/ epochStart > finish[next - 1] + 1
      THEN epochStart
      ELSE finish[next - 1] + 1

MutantSetEpochUnlimited(delay, length) ==      \* no EpochMaxReached
  LET cur  == SyncedEpoch
      next == nextUnsetEpoch
      from == StartOf(cur, now + delay)
  IN  /\ next <= MaxEpoch
      /\ from + length <= MaxTime
      /\ currentEpoch' = cur
      /\ nextUnsetEpoch' = next + 1
      /\ start' = [start EXCEPT ![next] = from]
      /\ finish' = [finish EXCEPT ![next] = from + length]
      /\ isSet' = [isSet EXCEPT ![next] = TRUE]
      /\ UNCHANGED now

MutantSetEpochOverCurrent(delay, length) ==    \* dates written over those of cur
  LET cur  == SyncedEpoch
      next == nextUnsetEpoch
      from == StartOf(cur, now + delay)
  IN  /\ next - cur <= 1
      /\ next <= MaxEpoch
      /\ from + length <= MaxTime
      /\ currentEpoch' = cur
      /\ nextUnsetEpoch' = next + 1
      /\ start' = [start EXCEPT ![cur] = from]
      /\ finish' = [finish EXCEPT ![cur] = from + length]
      /\ isSet' = [isSet EXCEPT ![cur] = TRUE]
      /\ UNCHANGED now

SetEpoch(delay, length) ==
  LET cur  == SyncedEpoch
      next == nextUnsetEpoch
      from == StartOf(cur, now + delay)
  IN  /\ next - cur <= 1
      /\ next <= MaxEpoch
      /\ from + length <= MaxTime
      /\ currentEpoch' = cur
      /\ nextUnsetEpoch' = next + 1
      /\ start' = [start EXCEPT ![next] = from]
      /\ finish' = [finish EXCEPT ![next] = from + length]
      /\ isSet' = [isSet EXCEPT ![next] = TRUE]
      /\ UNCHANGED now

Next ==
  \/ Tick
  \/ UpdateEpoch
  \/ \E delay \in StartDelays, length \in Lengths : SetEpoch(delay, length)

Spec == Init /\ [][Next]_vars

(* The clock does not stop, and somebody keeps calling the contract; no    *)
(* fairness is asked of the epoch setter.                                  *)
FairSpec == Spec /\ WF_vars(Tick) /\ WF_vars(UpdateEpoch)

-----------------------------------------------------------------------------
TypeOK ==
  /\ now \in Nat
  /\ currentEpoch \in EpochId
  /\ nextUnsetEpoch \in EpochId
  /\ start \in [EpochId -> Nat]
  /\ finish \in [EpochId -> Nat]
  /\ isSet \in [EpochId -> BOOLEAN]

(* The epochs that are set are exactly those before nextUnsetEpoch, so the *)
(* unsigned difference nextUnsetEpoch - currentEpoch in _setEpoch cannot   *)
(* wrap, and at most two epochs, the current one and the one after it, are *)
(* set and not yet passed (LockRewards.sol:390-391).                       *)
WindowOK ==
  /\ \A e \in EpochId : isSet[e] <=> e < nextUnsetEpoch
  /\ currentEpoch <= nextUnsetEpoch
  /\ nextUnsetEpoch - currentEpoch <= 2

(* Every epoch the calendar has passed is over.                            *)
PassedAreOver == \A e \in EpochId : e < currentEpoch => finish[e] <= now

(* Epochs run one after the other: no epoch starts before an earlier one   *)
(* finishes, however late, early or far ahead the setter asks for it.      *)
Consecutive ==
  /\ \A e \in EpochId : isSet[e] => start[e] <= finish[e]
  /\ \A d, e \in EpochId : isSet[e] /\ d < e => finish[d] <= start[e]

(* What is published about an epoch is final: once set, its dates never    *)
(* move and it never becomes unset; the current epoch never goes back and  *)
(* never passes an epoch that is still running.                            *)
CalendarIsFinal ==
  [][/\ \A e \in EpochId :
          isSet[e] => isSet'[e] /\ start'[e] = start[e] /\ finish'[e] = finish[e]
     /\ currentEpoch' >= currentEpoch
     /\ \A e \in currentEpoch .. currentEpoch' - 1 : isSet[e] /\ finish[e] <= now]_vars

(* An epoch that was set is eventually behind us, whatever the setter      *)
(* does next, provided somebody keeps calling the contract.                *)
EpochsEnd == \A e \in EpochId : isSet[e] ~> currentEpoch > e
=============================================================================
