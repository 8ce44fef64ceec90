------------------------- MODULE EpochScheduleProofs -------------------------
(***************************************************************************)
(* Safety of the epoch calendar, for every choice of delays, lengths and   *)
(* bounds.  The invariant is the conjunction of the checked ones: it is    *)
(* inductive as it stands, because WindowOK guarantees that the loop of    *)
(* updateEpoch stops, and PassedAreOver with Consecutive that a new epoch  *)
(* starts after all the others.                                            *)
(***************************************************************************)
EXTENDS EpochSchedule, TLAPS

Inv == TypeOK /\ WindowOK /\ PassedAreOver /\ Consecutive

(* The epoch the modifier stops at exists: the loop runs over the set      *)
(* epochs only, and there are at most two of them from currentEpoch on.    *)
LEMMA SyncedEpochStops ==
  ASSUME TypeOK, WindowOK
  PROVE  /\ SyncedEpoch \in EpochId
         /\ currentEpoch <= SyncedEpoch
         /\ SyncedEpoch <= nextUnsetEpoch
         /\ ~Elapsed(SyncedEpoch)
         /\ \A k \in currentEpoch .. SyncedEpoch - 1 : Elapsed(k)
<1> DEFINE Stops(e) == /\ e >= currentEpoch
                       /\ ~Elapsed(e)
                       /\ \A k \in currentEpoch .. e - 1 : Elapsed(k)
<1>1. /\ MaxEpoch \in Nat
      /\ currentEpoch \in EpochId /\ nextUnsetEpoch \in EpochId
      /\ currentEpoch \in Int /\ nextUnsetEpoch \in Int
  BY ScheduleAssumption DEF TypeOK, EpochId
<1>2. \A e \in EpochId : Elapsed(e) => e < nextUnsetEpoch
  BY DEF WindowOK, Elapsed
<1>3. \E e \in EpochId : Stops(e)
  <2>1. CASE ~Elapsed(currentEpoch)
    <3>1. Stops(currentEpoch)
      BY <1>1, <2>1
    <3> QED BY <3>1, <1>1
  <2>2. CASE Elapsed(currentEpoch) /\ ~Elapsed(currentEpoch + 1)
    <3>1. currentEpoch < nextUnsetEpoch
      BY <1>1, <1>2, <2>2
    <3>2. currentEpoch + 1 \in EpochId
      BY <1>1, <3>1 DEF EpochId
    <3>3. \A k \in currentEpoch .. (currentEpoch + 1) - 1 : k = currentEpoch
      BY <1>1
    <3>4. Stops(currentEpoch + 1)
      BY <1>1, <2>2, <3>3
    <3> QED BY <3>2, <3>4
  <2>3. CASE Elapsed(currentEpoch) /\ Elapsed(currentEpoch + 1)
    <3>1. currentEpoch < nextUnsetEpoch
      BY <1>1, <1>2, <2>3
    <3>2. currentEpoch + 1 \in EpochId
      BY <1>1, <3>1 DEF EpochId
    <3>3. currentEpoch + 1 < nextUnsetEpoch
      BY <1>2, <2>3, <3>2
    <3>4. nextUnsetEpoch = currentEpoch + 2
      BY <1>1, <3>3 DEF WindowOK
    <3>5. ~Elapsed(nextUnsetEpoch)
      BY <1>1, <1>2
    <3>6. \A k \in currentEpoch .. nextUnsetEpoch - 1 :
            k = currentEpoch \/ k = currentEpoch + 1
      BY <1>1, <3>4
    <3>7. Stops(nextUnsetEpoch)
      BY <1>1, <2>3, <3>4, <3>5, <3>6
    <3> QED BY <3>7, <1>1
  <2> QED BY <2>1, <2>2, <2>3
<1>4. SyncedEpoch \in EpochId /\ Stops(SyncedEpoch)
  BY <1>3 DEF SyncedEpoch
<1>5. SyncedEpoch <= nextUnsetEpoch
  <2>1. SyncedEpoch \in Int
    BY <1>4, ScheduleAssumption DEF EpochId
  <2>2. SUFFICES ASSUME nextUnsetEpoch < SyncedEpoch PROVE FALSE
    BY <1>1, <2>1
  <2>3. nextUnsetEpoch \in currentEpoch .. SyncedEpoch - 1
    BY <1>1, <2>1, <2>2 DEF WindowOK
  <2> QED BY <1>1, <1>2, <1>4, <2>3
<1> QED BY <1>4, <1>5

(* Where _setEpoch puts a new epoch: not before it is asked for, and after *)
(* every epoch that is set.                                                *)
LEMMA NewEpochFollows ==
  ASSUME Inv, NEW delay \in Nat
  PROVE  LET from == StartOf(SyncedEpoch, now + delay)
         IN  /\ from \in Nat
             /\ now + delay <= from
             /\ \A d \in EpochId : d < nextUnsetEpoch => finish[d] <= from
<1> DEFINE next == nextUnsetEpoch
           cur  == SyncedEpoch
           asked == now + delay
           from == StartOf(cur, asked)
<1> USE DEF Inv
<1>1. /\ cur \in EpochId /\ currentEpoch <= cur /\ cur <= next
      /\ \A k \in currentEpoch .. cur - 1 : Elapsed(k)
  BY SyncedEpochStops
<1>2. /\ next \in EpochId /\ currentEpoch \in EpochId
      /\ now \in Nat /\ asked \in Nat /\ now <= asked
      /\ EpochId \subseteq Nat \ {0}
      /\ \A e \in EpochId : finish[e] \in Nat /\ start[e] \in Nat
  BY ScheduleAssumption DEF TypeOK, EpochId
<1>3. CASE cur = next
  <2>1. from = asked
    BY <1>3 DEF StartOf
  <2>2. ASSUME NEW d \in EpochId, d < next PROVE finish[d] <= now
    <3>1. CASE d < currentEpoch
      BY <3>1 DEF PassedAreOver
    <3>2. CASE d >= currentEpoch
      <4>1. d \in currentEpoch .. cur - 1
        BY <1>2, <1>3, <2>2, <3>2
      <4> QED BY <1>1, <4>1 DEF Elapsed
    <3> QED BY <1>2, <3>1, <3>2
  <2>3. \A d \in EpochId : d < next => finish[d] <= from
    BY <1>2, <2>1, <2>2
  <2> QED BY <1>2, <2>1, <2>3
<1>4. CASE cur # next
  <2>1. next - 1 \in EpochId
    BY <1>1, <1>2, <1>4, ScheduleAssumption DEF EpochId
  <2>2. isSet[next - 1]
    BY <1>2, <2>1 DEF WindowOK
  <2>3. from \in Nat /\ asked <= from /\ finish[next - 1] <= from
    <3>1. from = IF asked > finish[next - 1] + 1 THEN asked
                 ELSE finish[next - 1] + 1
      BY <1>4 DEF StartOf
    <3> HIDE DEF asked, from
    <3> QED BY <1>2, <2>1, <3>1
  <2>4. ASSUME NEW d \in EpochId, d < next PROVE finish[d] <= finish[next - 1]
    <3>1. CASE d = next - 1
      BY <1>2, <2>1, <3>1
    <3>2. CASE d < next - 1
      <4>1. finish[d] <= start[next - 1] /\ start[next - 1] <= finish[next - 1]
        BY <2>1, <2>2, <3>2 DEF Consecutive
      <4> QED BY <1>2, <2>1, <4>1
    <3> QED BY <1>2, <2>4, <3>1, <3>2
  <2>5. \A d \in EpochId : d < next => finish[d] <= from
    <3> HIDE DEF from
    <3> QED BY <1>2, <2>1, <2>3, <2>4
  <2> QED BY <2>3, <2>5
<1> QED BY <1>3, <1>4

(* A contract just deployed has no epoch at all.                           *)
LEMMA InitInv == Init => Inv
BY ScheduleAssumption
   DEF Init, Inv, TypeOK, WindowOK, PassedAreOver, Consecutive, EpochId

(* Time passing only makes more epochs over.                               *)
LEMMA TickInv == Inv /\ Tick => Inv'
BY ScheduleAssumption
   DEF Tick, Inv, TypeOK, WindowOK, PassedAreOver, Consecutive, EpochId

(* The modifier updateEpoch leaves finished epochs only behind it.         *)
LEMMA UpdateEpochInv == Inv /\ UpdateEpoch => Inv'
<1> SUFFICES ASSUME Inv, UpdateEpoch PROVE Inv'
  OBVIOUS
<1> USE DEF Inv, UpdateEpoch
<1>1. /\ SyncedEpoch \in EpochId
      /\ currentEpoch <= SyncedEpoch /\ SyncedEpoch <= nextUnsetEpoch
      /\ \A k \in currentEpoch .. SyncedEpoch - 1 : Elapsed(k)
  BY SyncedEpochStops
<1>2. EpochId \subseteq Int
  BY ScheduleAssumption DEF EpochId
<1>3. TypeOK'
  BY <1>1 DEF TypeOK, EpochId
<1>4. WindowOK'
  BY <1>1, <1>2 DEF WindowOK, TypeOK, EpochId
<1>5. PassedAreOver'
  <2>1. ASSUME NEW e \in EpochId, e < SyncedEpoch PROVE finish[e] <= now
    <3>1. CASE e < currentEpoch
      BY <3>1 DEF PassedAreOver
    <3>2. CASE e >= currentEpoch
      <4>1. e \in currentEpoch .. SyncedEpoch - 1
        BY <1>1, <1>2, <2>1, <3>2 DEF TypeOK
      <4> QED BY <1>1, <4>1 DEF Elapsed
    <3> QED BY <1>2, <3>1, <3>2 DEF TypeOK
  <2> QED BY <2>1 DEF PassedAreOver, EpochId
<1>6. Consecutive'
  BY DEF Consecutive, EpochId
<1> QED BY <1>3, <1>4, <1>5, <1>6

(* setNextEpoch writes one epoch, the first that is not set, after all     *)
(* those that are.                                                         *)
LEMMA SetEpochInv ==
  ASSUME NEW delay \in Nat, NEW length \in Nat, Inv, SetEpoch(delay, length)
  PROVE  Inv'
<1> DEFINE next == nextUnsetEpoch
           cur  == SyncedEpoch
           from == StartOf(cur, now + delay)
<1> USE DEF Inv
<1>1. /\ cur \in EpochId /\ currentEpoch <= cur /\ cur <= next
      /\ \A k \in currentEpoch .. cur - 1 : Elapsed(k)
  BY SyncedEpochStops
<1>2. /\ from \in Nat /\ now + delay <= from
      /\ \A d \in EpochId : d < next => finish[d] <= from
  BY NewEpochFollows
<1>3. /\ next - cur <= 1 /\ next <= MaxEpoch
      /\ currentEpoch' = cur /\ nextUnsetEpoch' = next + 1 /\ now' = now
      /\ start' = [start EXCEPT ![next] = from]
      /\ finish' = [finish EXCEPT ![next] = from + length]
      /\ isSet' = [isSet EXCEPT ![next] = TRUE]
  BY DEF SetEpoch
<1>4. /\ next \in EpochId /\ next + 1 \in EpochId /\ currentEpoch \in EpochId
      /\ EpochId \subseteq Int /\ EpochId' = EpochId /\ now \in Nat
  BY <1>3, ScheduleAssumption DEF TypeOK, EpochId
<1> HIDE DEF next, cur, from
<1>5. TypeOK'
  BY <1>1, <1>2, <1>3, <1>4 DEF TypeOK
<1>6. WindowOK'
  <2>1. next = nextUnsetEpoch
    BY DEF next
  <2> QED BY <1>1, <1>3, <1>4, <2>1 DEF WindowOK, TypeOK
<1>7. PassedAreOver'
  <2>1. ASSUME NEW e \in EpochId, e < cur PROVE finish'[e] <= now
    <3>1. e # next
      BY <1>1, <1>4, <2>1
    <3>2. finish'[e] = finish[e]
      BY <1>3, <3>1 DEF TypeOK
    <3>3. CASE e < currentEpoch
      BY <3>2, <3>3 DEF PassedAreOver
    <3>4. CASE e >= currentEpoch
      <4>1. e \in currentEpoch .. cur - 1
        BY <1>1, <1>4, <2>1, <3>4
      <4> QED BY <1>1, <3>2, <4>1 DEF Elapsed
    <3> QED BY <1>4, <3>3, <3>4
  <2> QED BY <1>3, <1>4, <2>1 DEF PassedAreOver
<1>8. Consecutive'
  <2>0. \A e \in EpochId : isSet[e] <=> e < next
    BY DEF WindowOK, next
  <2>1. ASSUME NEW e \in EpochId, isSet'[e] PROVE start'[e] <= finish'[e]
    BY <1>2, <1>3, <2>1 DEF TypeOK, Consecutive
  <2>2. ASSUME NEW d \in EpochId, NEW e \in EpochId, isSet'[e], d < e
        PROVE  finish'[d] <= start'[e]
    <3>1. d < next
      BY <1>3, <1>4, <2>0, <2>2 DEF TypeOK
    <3>2. finish'[d] = finish[d]
      BY <1>3, <1>4, <3>1 DEF TypeOK
    <3>3. CASE e = next
      BY <1>2, <1>3, <3>1, <3>2, <3>3 DEF TypeOK
    <3>4. CASE e # next
      <4>1. isSet[e] /\ start'[e] = start[e]
        BY <1>3, <2>2, <3>4 DEF TypeOK
      <4> QED BY <2>2, <3>2, <4>1 DEF Consecutive
    <3> QED BY <3>3, <3>4
  <2> QED BY <1>4, <2>1, <2>2 DEF Consecutive
<1> QED BY <1>5, <1>6, <1>7, <1>8

(* Hence every transaction preserves the invariant.                        *)
LEMMA NextInv == Inv /\ [Next]_vars => Inv'
<1> SUFFICES ASSUME Inv, [Next]_vars PROVE Inv'
  OBVIOUS
<1>1. CASE Tick
  BY <1>1, TickInv
<1>2. CASE UpdateEpoch
  BY <1>2, UpdateEpochInv
<1>3. ASSUME NEW delay \in StartDelays, NEW length \in Lengths,
             SetEpoch(delay, length)
      PROVE  Inv'
  <2>1. delay \in Nat /\ length \in Nat
    BY ScheduleAssumption
  <2> QED BY <1>3, <2>1, SetEpochInv
<1>4. CASE UNCHANGED vars
  BY <1>4 DEF vars, Inv, TypeOK, WindowOK, PassedAreOver, Consecutive, EpochId
<1> QED BY <1>1, <1>2, <1>3, <1>4 DEF Next

(* The inductive invariant holds throughout.                               *)
THEOREM Safety == Spec => []Inv
<1>1. Init => Inv
  BY InitInv
<1>2. Inv /\ [Next]_vars => Inv'
  BY NextInv
<1> QED BY <1>1, <1>2, PTL DEF Spec

(* The calendar's variables keep their types, in particular the modifier   *)
(* updateEpoch never runs off the epochs there are.                        *)
THEOREM TypeCorrect == Spec => []TypeOK
<1>1. Inv => TypeOK
  BY DEF Inv
<1> QED BY <1>1, Safety, PTL

(* At most two epochs are set and not passed (LockRewards.sol:390-391),    *)
(* and nextUnsetEpoch - currentEpoch does not wrap.                        *)
THEOREM WindowBounded == Spec => []WindowOK
<1>1. Inv => WindowOK
  BY DEF Inv
<1> QED BY <1>1, Safety, PTL

(* Every epoch that updateEpoch left behind has finished.                  *)
THEOREM PassedEpochsOver == Spec => []PassedAreOver
<1>1. Inv => PassedAreOver
  BY DEF Inv
<1> QED BY <1>1, Safety, PTL

(* _setEpoch never makes two epochs overlap.                               *)
THEOREM EpochsConsecutive == Spec => []Consecutive
<1>1. Inv => Consecutive
  BY DEF Inv
<1> QED BY <1>1, Safety, PTL

(* One step never rewrites or unsets a set epoch, nor moves currentEpoch   *)
(* back or past an epoch that is still running.                            *)
LEMMA StepIsFinal ==
  ASSUME Inv, [Next]_vars
  PROVE  /\ \A e \in EpochId : isSet[e] =>
              isSet'[e] /\ start'[e] = start[e] /\ finish'[e] = finish[e]
         /\ currentEpoch' >= currentEpoch
         /\ \A e \in currentEpoch .. currentEpoch' - 1 :
              isSet[e] /\ finish[e] <= now
<1> USE DEF Inv
<1>1. /\ SyncedEpoch \in Int /\ currentEpoch \in Int
      /\ currentEpoch <= SyncedEpoch
      /\ \A k \in currentEpoch .. SyncedEpoch - 1 : isSet[k] /\ finish[k] <= now
  BY SyncedEpochStops, ScheduleAssumption DEF TypeOK, EpochId, Elapsed
<1>2. CASE Tick \/ UNCHANGED vars
  BY <1>1, <1>2 DEF Tick, vars
<1>3. CASE UpdateEpoch
  BY <1>1, <1>3 DEF UpdateEpoch
<1>4. ASSUME NEW delay, NEW length, SetEpoch(delay, length)
      PROVE  /\ currentEpoch' = SyncedEpoch
             /\ \A e \in EpochId : isSet[e] =>
                  isSet'[e] /\ start'[e] = start[e] /\ finish'[e] = finish[e]
  <2>1. \A e \in EpochId : isSet[e] => e # nextUnsetEpoch
    BY ScheduleAssumption DEF WindowOK, TypeOK, EpochId
  <2> QED BY <1>4, <2>1 DEF SetEpoch, TypeOK
<1> QED BY <1>1, <1>2, <1>3, <1>4 DEF Next

(* What users were told of an epoch stays true: the dates of a set epoch   *)
(* are final.                                                              *)
THEOREM PublishedIsFinal == Spec => CalendarIsFinal
<1>1. Inv /\ [Next]_vars =>
        [/\ \A e \in EpochId : isSet[e] =>
              isSet'[e] /\ start'[e] = start[e] /\ finish'[e] = finish[e]
         /\ currentEpoch' >= currentEpoch
         /\ \A e \in currentEpoch .. currentEpoch' - 1 :
              isSet[e] /\ finish[e] <= now]_vars
  BY StepIsFinal
<1> QED BY <1>1, Safety, PTL DEF Spec, CalendarIsFinal
=============================================================================
