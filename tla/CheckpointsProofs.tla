-------------------------- MODULE CheckpointsProofs --------------------------
(***************************************************************************)
(* Theorems about the checkpoints, the casts and Math.sqrt, for every      *)
(* width of keys and values.  What the loops of the code return is proved  *)
(* by induction, in the form that the least counterexample is none: of the *)
(* binary searches, on the number of positions between their bounds.  The  *)
(* seven iterations of Math.sqrt are followed one by one.                  *)
(***************************************************************************)
EXTENDS CheckpointsMock, PureCalls, NumberTheorems, SequenceTheorems

\* A cast to fewer bits returns its argument or nothing.
LEMMA CastReturnsArgument ==
  ASSUME NEW bits, NEW v \in Nat, NEW x \in ToUintDown(bits, v)
  PROVE  x = v /\ v <= UintMax(bits) /\ x \in 0 .. UintMax(bits)
<1>1. v <= UintMax(bits) /\ x = Uint(bits, v) BY DEF ToUintDown
<1>2. v \in 0 .. UintMax(bits) BY <1>1
<1> QED BY <1>1, <1>2 DEF Uint

\* A list of checkpoints with increasing keys.
Ordered(ckpts, Key, Val) ==
    /\ ckpts \in Seq([key : Key, value : Val])
    /\ \A i, j \in 1 .. Len(ckpts) : i < j => ckpts[i].key < ckpts[j].key

\* The list "new" is "ckpts" with a last checkpoint appended or replaced.
EndsWith(new, ckpts, key, value) ==
    /\ Len(new) \in Nat \ {0} /\ new[Len(new)] = [key |-> key, value |-> value]
    /\ \A i \in 1 .. Len(new) - 1 : i \in 1 .. Len(ckpts) /\ new[i] = ckpts[i]
    /\ \A i \in 1 .. Len(ckpts) : i \notin 1 .. Len(new) - 1 => ckpts[i].key = key

\* _insert keeps the keys increasing; the inserted checkpoint is the last
\* one, and those of smaller keys stay as they were.
LEMMA InsertOrdered ==
  ASSUME NEW Key \in SUBSET Nat, NEW Val, NEW ckpts, Ordered(ckpts, Key, Val),
         NEW key \in Key, NEW value \in Val, MayInsert(ckpts, key)
  PROVE  /\ Ordered(Inserted(ckpts, key, value), Key, Val)
         /\ EndsWith(Inserted(ckpts, key, value), ckpts, key, value)
<1> DEFINE n == Len(ckpts)
           new == Inserted(ckpts, key, value)
           last == [key |-> key, value |-> value]
           C == [key : Key, value : Val]
<1>1. /\ ckpts \in Seq(C) /\ n \in Nat /\ last \in C /\ key \in Nat
      /\ \A i \in 1 .. n : ckpts[i] \in C /\ ckpts[i].key \in Nat
      /\ \A i, j \in 1 .. n : i < j => ckpts[i].key < ckpts[j].key
  <2>1. ckpts \in Seq(C) /\ \A i, j \in 1 .. n : i < j => ckpts[i].key < ckpts[j].key
    BY DEF Ordered
  <2>2. last \in C /\ key \in Nat OBVIOUS
  <2>3. n \in Nat /\ \A i \in 1 .. n : ckpts[i] \in C
    <3> HIDE DEF C
    <3> QED BY <2>1, ElementOfSeq, LenProperties
  <2>4. \A c \in C : c.key \in Nat OBVIOUS
  <2> QED BY <2>1, <2>2, <2>3, <2>4
<1>2. n > 0 => ckpts[n].key <= key
  BY <1>1 DEF MayInsert, Access
<1>3. CASE n > 0 /\ ckpts[n].key = key
  <2>1. new = [ckpts EXCEPT ![n].value = value]
    BY <1>1, <1>3 DEF Inserted, Access
  <2>2. [ckpts[n] EXCEPT !.value = value] = last
    BY <1>1, <1>3
  <2>3. new = [ckpts EXCEPT ![n] = last]
    BY <2>1, <2>2, <1>1, <1>3
  <2>4. /\ new \in Seq(C) /\ Len(new) = n /\ new[n] = last
        /\ \A i \in 1 .. n - 1 : new[i] = ckpts[i]
    BY <2>3, <1>1, <1>3
  <2> HIDE DEF new
  <2>5. \A i \in 1 .. n : new[i].key = ckpts[i].key
    <3> SUFFICES ASSUME NEW i \in 1 .. n PROVE new[i].key = ckpts[i].key OBVIOUS
    <3>1. i = n \/ i \in 1 .. n - 1 BY <1>1
    <3> QED BY <3>1, <2>4, <1>3
  <2>6. Ordered(new, Key, Val) BY <2>4, <2>5, <1>1 DEF Ordered
  <2>7. \A i \in 1 .. n : i \notin 1 .. n - 1 => ckpts[i].key = key BY <1>1, <1>3
  <2> QED BY <2>4, <2>6, <2>7, <1>1, <1>3 DEF new, EndsWith
<1>4. CASE ~(n > 0 /\ ckpts[n].key = key)
  <2>1. new = Append(ckpts, last)
    BY <1>1, <1>4 DEF Inserted, Access
  <2>2. /\ new \in Seq(C) /\ Len(new) = n + 1 /\ new[n + 1] = last
        /\ \A i \in 1 .. n : new[i] = ckpts[i]
    BY <2>1, <1>1
  <2> HIDE DEF new
  <2>3. ASSUME NEW i \in 1 .. n PROVE ckpts[i].key < key
    <3>1. n \in 1 .. n BY <1>1
    <3>2. ckpts[n].key < key BY <3>1, <1>1, <1>2, <1>4
    <3>3. i = n \/ ckpts[i].key < ckpts[n].key BY <3>1, <1>1
    <3> QED BY <3>1, <3>2, <3>3, <1>1
  <2>4. ASSUME NEW i \in 1 .. n + 1, NEW j \in 1 .. n + 1, i < j
        PROVE  new[i].key < new[j].key
    <3>1. i \in 1 .. n /\ new[i] = ckpts[i] BY <2>4, <2>2, <1>1
    <3>2. CASE j = n + 1
      <4>1. new[j].key = key BY <3>2, <2>2
      <4> QED BY <3>1, <4>1, <2>3
    <3>3. CASE j # n + 1
      <4>1. j \in 1 .. n /\ new[j] = ckpts[j] BY <3>3, <2>2, <1>1
      <4> QED BY <3>1, <4>1, <2>4, <1>1
    <3> QED BY <3>2, <3>3
  <2>5. Ordered(new, Key, Val) BY <2>2, <2>4 DEF Ordered
  <2>6. \A i \in 1 .. Len(new) - 1 : i \in 1 .. n /\ new[i] = ckpts[i] BY <2>2, <1>1
  <2>7. \A i \in 1 .. n : i \in 1 .. Len(new) - 1 BY <2>2, <1>1
  <2> QED BY <2>2, <2>5, <2>6, <2>7, <1>1 DEF new, EndsWith
<1> QED BY <1>3, <1>4

-----------------------------------------------------------------------------

KeyRange(size) == 0 .. UintMax(KeyBits(size))
ValueRange(size) == 0 .. UintMax(size)

\* The inductive invariant: typed, ordered lists.
CheckpointsInv ==
    /\ blockNumber \in Nat
    /\ Ordered(history, KeyRange(HistorySize), ValueRange(HistorySize))
    /\ traces \in [TraceSizes -> Seq([key : Nat, value : Nat])]
    /\ \A size \in TraceSizes : Ordered(traces[size], KeyRange(size), ValueRange(size))

\* The contracts start with empty lists.
LEMMA CheckpointsInvInit == Init => CheckpointsInv
<1> SUFFICES ASSUME Init PROVE CheckpointsInv OBVIOUS
<1>1. \A K, V : Ordered(<< >>, K, V) BY DEF Ordered
<1> QED BY <1>1, SizesAssumption DEF Init, CheckpointsInv

\* What a push to the History does.
LEMMA PushInserts ==
  ASSUME CheckpointsInv, NEW value \in Nat, Push(value)
  PROVE  /\ blockNumber \in KeyRange(HistorySize) /\ value \in ValueRange(HistorySize)
         /\ MayInsert(history, blockNumber)
         /\ history' = Inserted(history, blockNumber, value)
         /\ UNCHANGED <<blockNumber, traces>>
<1>1. PICK key \in ToUintDown(KeyBits(HistorySize), blockNumber),
           stored \in ToUintDown(HistorySize, value) :
        /\ MayInsert(history, key)
        /\ history' = Inserted(history, key, stored)
        /\ UNCHANGED <<blockNumber, traces>>
  BY DEF Push
<1>2. blockNumber \in Nat BY DEF CheckpointsInv
<1>3. key = blockNumber /\ key \in KeyRange(HistorySize)
  BY <1>2, CastReturnsArgument DEF KeyRange
<1>4. stored = value /\ stored \in ValueRange(HistorySize)
  BY CastReturnsArgument DEF ValueRange
<1> QED BY <1>1, <1>3, <1>4

\* Every push to the History, plain or by an operation, pushes a number.
LEMMA HistorySteps ==
  ASSUME HistoryNext PROVE \E value \in Nat : Push(value)
<1>1. \A value \in 0 .. UintMax(WordBits) : value \in Nat OBVIOUS
<1>2. ASSUME NEW op, NEW delta, PushDelta(op, delta)
      PROVE  \E value \in Nat : Push(value)
  <2>1. PICK value \in Applied(op, Latest(history), delta) : Push(value)
    BY <1>2 DEF PushDelta
  <2>2. value \in Nat BY DEF Applied
  <2> QED BY <2>1, <2>2
<1> QED BY <1>1, <1>2 DEF HistoryNext

\* Every transaction keeps the lists typed and ordered.
LEMMA CheckpointsStep ==
  ASSUME CheckpointsInv, [Next]_checkpointVars PROVE CheckpointsInv'
<1>0. \A size : KeyRange(size) \subseteq Nat /\ ValueRange(size) \subseteq Nat
  BY DEF KeyRange, ValueRange
<1>1. CASE UNCHANGED checkpointVars BY <1>1 DEF CheckpointsInv, checkpointVars, Ordered
<1>2. CASE Mine
  <2>1. history' = history /\ traces' = traces /\ blockNumber' \in Nat
    BY <1>2 DEF Mine, CheckpointsInv
  <2> QED BY <2>1 DEF CheckpointsInv, Ordered
<1>3. CASE HistoryNext
  <2>1. PICK value \in Nat : Push(value) BY <1>3, HistorySteps
  <2>2. /\ blockNumber \in KeyRange(HistorySize) /\ value \in ValueRange(HistorySize)
        /\ MayInsert(history, blockNumber)
        /\ history' = Inserted(history, blockNumber, value)
        /\ UNCHANGED <<blockNumber, traces>>
    BY <2>1, PushInserts
  <2>3. Ordered(history', KeyRange(HistorySize), ValueRange(HistorySize))
    BY <2>2, <1>0, InsertOrdered DEF CheckpointsInv
  <2> QED BY <2>2, <2>3 DEF CheckpointsInv, Ordered
<1>4. CASE TraceNext
  <2>0. PICK size \in TraceSizes :
            \E key \in KeyRange(size), value \in ValueRange(size) : PushTrace(size, key, value)
    BY <1>4 DEF TraceNext, KeyRange, ValueRange
  <2>1. PICK key \in KeyRange(size), value \in ValueRange(size) : PushTrace(size, key, value)
    BY <2>0
  <2> DEFINE new == Inserted(traces[size], key, value)
  <2>2. /\ MayInsert(traces[size], key)
        /\ UNCHANGED <<blockNumber, history>>
        /\ traces' = [traces EXCEPT ![size] = new]
    BY <2>1 DEF PushTrace
  <2>3. Ordered(new, KeyRange(size), ValueRange(size))
    BY <2>2, <1>0, InsertOrdered DEF CheckpointsInv
  <2>4. new \in Seq([key : Nat, value : Nat])
    <3> DEFINE Narrow == [key : KeyRange(size), value : ValueRange(size)]
               Wide == [key : Nat, value : Nat]
    <3>1. Narrow \subseteq Wide BY <1>0
    <3>2. new \in Seq(Narrow) BY <2>3 DEF Ordered
    <3> HIDE DEF new, Narrow, Wide
    <3>3. new \in Seq(Wide) BY <3>1, <3>2, SeqMonotonic
    <3> QED BY <3>3 DEF Wide
  <2> HIDE DEF new
  <2>5. /\ traces' \in [TraceSizes -> Seq([key : Nat, value : Nat])]
        /\ \A other \in TraceSizes :
               traces'[other] = IF other = size THEN new ELSE traces[other]
    BY <2>2, <2>4 DEF CheckpointsInv
  <2>6. \A other \in TraceSizes :
            Ordered(traces'[other], KeyRange(other), ValueRange(other))
    BY <2>3, <2>5 DEF CheckpointsInv
  <2> QED BY <2>2, <2>5, <2>6 DEF CheckpointsInv, Ordered
<1> QED BY <1>1, <1>2, <1>3, <1>4 DEF Next

\* Every state satisfies the inductive invariant.
THEOREM CheckpointsInvariant == Spec => []CheckpointsInv
<1>1. Init => CheckpointsInv BY CheckpointsInvInit
<1>2. CheckpointsInv /\ [Next]_checkpointVars => CheckpointsInv' BY CheckpointsStep
<1> QED BY <1>1, <1>2, PTL DEF Spec

\* The checkpoints fit the integers they are stored in.
THEOREM CheckpointsTypeCorrect == Spec => []CheckpointsTypeOK
<1>1. CheckpointsInv => CheckpointsTypeOK
  BY DEF CheckpointsInv, CheckpointsTypeOK, Ordered, CheckpointOf, KeyRange, ValueRange
<1> QED BY <1>1, CheckpointsInvariant, PTL

\* The keys the binary searches rely on stay strictly increasing.
THEOREM KeysAlwaysIncrease == Spec => []KeysIncrease
<1>1. CheckpointsInv => KeysIncrease
  BY DEF CheckpointsInv, KeysIncrease, Increasing, Ordered
<1> QED BY <1>1, CheckpointsInvariant, PTL

\* A push leaves the value at smaller keys and sets it from its key on.
LEMMA ValueAfterInsert ==
  ASSUME NEW Key \in SUBSET Nat, NEW Val, NEW ckpts, Ordered(ckpts, Key, Val),
         NEW key \in Key, NEW value \in Val, MayInsert(ckpts, key), NEW at \in Nat
  PROVE  ValueBy(Inserted(ckpts, key, value), at) =
             IF at >= key THEN value ELSE ValueBy(ckpts, at)
<1> DEFINE new == Inserted(ckpts, key, value)
           m == Len(new)
           n == Len(ckpts)
           newBefore == {i \in 1 .. m : new[i].key <= at}
           oldBefore == {i \in 1 .. n : ckpts[i].key <= at}
<1>1. /\ Ordered(new, Key, Val)
      /\ m \in Nat \ {0} /\ new[m] = [key |-> key, value |-> value]
      /\ \A i \in 1 .. m - 1 : i \in 1 .. n /\ new[i] = ckpts[i]
      /\ \A i \in 1 .. n : i \notin 1 .. m - 1 => ckpts[i].key = key
  <2>1. Ordered(new, Key, Val) /\ EndsWith(new, ckpts, key, value) BY InsertOrdered
  <2> HIDE DEF new
  <2> QED BY <2>1 DEF EndsWith
<1>2. key \in Nat OBVIOUS
<1> HIDE DEF new
<1>3. CASE at >= key
  <2>1. m \in newBefore /\ \A j \in newBefore : j <= m BY <1>1, <1>2, <1>3
  <2>2. \A i \in newBefore : (\A j \in newBefore : j <= i) => i = m
    BY <2>1, <1>1
  <2>3. (CHOOSE i \in newBefore : \A j \in newBefore : j <= i) = m
    <3> HIDE DEF newBefore
    <3> QED BY <2>1, <2>2
  <2>4. ValueBy(new, at) = new[m].value BY <2>1, <2>3 DEF ValueBy
  <2> QED BY <2>4, <1>1, <1>3 DEF new
<1>4. CASE ~(at >= key)
  <2>1. newBefore = oldBefore
    <3>1. ASSUME NEW i \in newBefore PROVE i \in oldBefore
      <4>1. i # m BY <1>1, <1>2, <1>4
      <4>2. i \in 1 .. m - 1 BY <4>1, <1>1
      <4> QED BY <4>2, <1>1
    <3>2. ASSUME NEW i \in oldBefore PROVE i \in newBefore
      <4>1. ckpts[i].key # key BY <1>2, <1>4
      <4>2. i \in 1 .. m - 1 BY <4>1, <1>1
      <4> QED BY <4>2, <1>1
    <3> QED BY <3>1, <3>2
  <2>2. \A i \in newBefore : new[i] = ckpts[i]
    <3> SUFFICES ASSUME NEW i \in newBefore PROVE new[i] = ckpts[i] OBVIOUS
    <3>1. i # m BY <1>1, <1>2, <1>4
    <3>2. i \in 1 .. m - 1 BY <3>1, <1>1
    <3> QED BY <3>2, <1>1
  <2>3. ValueBy(new, at) = ValueBy(ckpts, at)
    <3>1. CASE newBefore = {} BY <3>1, <2>1 DEF ValueBy
    <3>2. CASE newBefore # {}
      <4> DEFINE top == CHOOSE i \in newBefore : \A j \in newBefore : j <= i
      <4>1. \E i \in newBefore : \A j \in newBefore : j <= i
        <5>1. newBefore \subseteq 0 .. m /\ m \in Nat BY <1>1
        <5> HIDE DEF newBefore
        <5> QED BY <5>1, <3>2, GreatestPosition
      <4>2. top \in newBefore BY <4>1
      <4>3. ValueBy(new, at) = new[top].value /\ ValueBy(ckpts, at) = ckpts[top].value
        BY <3>2, <2>1 DEF ValueBy
      <4> QED BY <4>2, <4>3, <2>2
    <3> QED BY <3>1, <3>2
  <2> QED BY <2>3, <1>2, <1>4 DEF new
<1> QED BY <1>3, <1>4

\* The History implements a value over time with a final past.
THEOREM HistoryImplemented == Spec => HistoryRefined
<1> DEFINE at == [key \in 0 .. UintMax(KeyBits(HistorySize)) |-> ValueBy(history, key)]
<1>1. Init => Timeline!Init
  <2> SUFFICES ASSUME Init PROVE Timeline!Init OBVIOUS
  <2>1. history = << >> /\ blockNumber \in Nat BY SizesAssumption DEF Init
  <2>2. \A key : ValueBy(history, key) = 0 BY <2>1 DEF ValueBy
  <2> QED BY <2>1, <2>2 DEF Timeline!Init
<1>2. CheckpointsInv /\ [Next]_checkpointVars => [Timeline!Next]_<<blockNumber, at>>
  <2> SUFFICES ASSUME CheckpointsInv, [Next]_checkpointVars
               PROVE  [Timeline!Next]_<<blockNumber, at>>
    OBVIOUS
  <2>1. CASE UNCHANGED checkpointVars BY <2>1 DEF checkpointVars, ValueBy
  <2>2. CASE Mine BY <2>2 DEF Mine, Timeline!Next, Timeline!Advance, ValueBy
  <2>3. CASE TraceNext BY <2>3 DEF TraceNext, PushTrace, ValueBy
  <2>4. CASE HistoryNext
    <3>1. PICK value \in Nat : Push(value) BY <2>4, HistorySteps
    <3>2. /\ blockNumber \in KeyRange(HistorySize) /\ value \in ValueRange(HistorySize)
          /\ MayInsert(history, blockNumber)
          /\ history' = Inserted(history, blockNumber, value)
          /\ UNCHANGED <<blockNumber, traces>>
      BY <3>1, PushInserts
    <3>3. Ordered(history, KeyRange(HistorySize), ValueRange(HistorySize))
      BY DEF CheckpointsInv
    <3>4. KeyRange(HistorySize) \subseteq Nat BY DEF KeyRange
    <3>5. ASSUME NEW key \in 0 .. UintMax(KeyBits(HistorySize))
          PROVE  ValueBy(history', key) =
                     IF key >= blockNumber THEN value ELSE ValueBy(history, key)
      <4>1. key \in Nat OBVIOUS
      <4> QED BY <4>1, <3>2, <3>3, <3>4, ValueAfterInsert
    <3>6. at' = [i \in 0 .. UintMax(KeyBits(HistorySize)) |->
                    IF i >= blockNumber THEN value ELSE at[i]]
      <4>1. \A key : ValueBy(history, key)' = ValueBy(history', key') BY DEF ValueBy
      <4> QED BY <3>5, <4>1
    <3>7. Timeline!Set(value) BY <3>2, <3>6 DEF Timeline!Set
    <3>8. value \in 0 .. UintMax(HistorySize) BY <3>2 DEF ValueRange
    <3> QED BY <3>7, <3>8 DEF Timeline!Next
  <2> QED BY <2>1, <2>2, <2>3, <2>4 DEF Next
<1> QED BY <1>1, <1>2, CheckpointsInvariant, PTL DEF Spec, HistoryRefined, Timeline!Spec

-----------------------------------------------------------------------------
\* The casts.

\* The bounds of the integers, in terms of half their range.
LEMMA IntegerBounds ==
  ASSUME NEW bits \in Nat \ {0}
  PROVE  /\ 2^(bits - 1) \in Nat \ {0} /\ 2^bits = 2 * 2^(bits - 1)
         /\ UintMax(bits) = 2 * 2^(bits - 1) - 1
         /\ IntMax(bits) = 2^(bits - 1) - 1
         /\ IntMin(bits) = -(2^(bits - 1))
<1>1. bits - 1 \in Nat /\ (bits - 1) + 1 = bits OBVIOUS
<1>2. 2^(bits - 1) \in Nat \ {0} /\ 2^bits = 2 * 2^(bits - 1)
  BY <1>1, PowerPositive, PowerStep
<1> QED BY <1>2 DEF UintMax, IntMax, IntMin

\* A checked cast returns its argument unchanged if the target type has it.
Exact(result, v, target) == result = {v} \cap target

\* toUint<bits>
LEMMA ToUintDownExact ==
  ASSUME NEW bits \in Nat \ {0}, NEW v \in Nat
  PROVE  Exact(ToUintDown(bits, v), v, 0 .. UintMax(bits))
<1>1. UintMax(bits) \in Int BY IntegerBounds
<1>2. CASE v <= UintMax(bits)
  <2>1. v \in 0 .. UintMax(bits) BY <1>1, <1>2
  <2>2. ToUintDown(bits, v) = {v} BY <1>2, <2>1 DEF ToUintDown, Uint
  <2> QED BY <2>1, <2>2 DEF Exact
<1>3. CASE ~(v <= UintMax(bits))
  BY <1>3 DEF ToUintDown, Exact
<1> QED BY <1>2, <1>3

\* Reading the low bits as two's complement gives the argument back just
\* when it was one of the numbers that have that many bits.
LEMMA SignedExact ==
  ASSUME NEW bits \in Nat \ {0}, NEW v \in Int
  PROVE  Signed(bits, v) = v <=> v \in IntMin(bits) .. IntMax(bits)
<1> DEFINE half == 2^(bits - 1)
           low == v % (2 * half)
<1>1. half \in Nat \ {0} /\ IntMax(bits) = half - 1 /\ IntMin(bits) = -half
  BY IntegerBounds
<1>2. Signed(bits, v) = IF low > half - 1 THEN low - 2 * half ELSE low
  BY IntegerBounds DEF Signed
<1>3. /\ low \in 0 .. 2 * half - 1
      /\ v \in 0 .. 2 * half - 1 => low = v
      /\ v \in -(2 * half) .. -1 => low = v + 2 * half
  <2> DEFINE m == 2 * half
  <2>1. m \in Nat \ {0} BY <1>1
  <2> HIDE DEF m
  <2>2. /\ v % m \in 0 .. m - 1
        /\ v \in 0 .. m - 1 => v % m = v
        /\ v \in -m .. -1 => v % m = v + m
    BY <2>1, SmallRemainder
  <2> QED BY <2>2 DEF m
<1> HIDE DEF half, low
<1>4. CASE v \in -half .. -1 BY <1>1, <1>2, <1>3, <1>4
<1>5. CASE v \in 0 .. half - 1 BY <1>1, <1>2, <1>3, <1>5
<1>6. CASE v \notin -half .. half - 1 BY <1>1, <1>2, <1>3, <1>6
<1> QED BY <1>1, <1>4, <1>5, <1>6

\* toInt<bits>
LEMMA ToIntDownExact ==
  ASSUME NEW bits \in Nat \ {0}, NEW v \in Int
  PROVE  Exact(ToIntDown(bits, v), v, IntMin(bits) .. IntMax(bits))
BY SignedExact DEF ToIntDown, Exact

\* toInt256
LEMMA ToIntExact ==
  ASSUME WordBits \in Nat \ {0}, NEW v \in Nat
  PROVE  Exact(ToInt(v), v, IntMin(WordBits) .. IntMax(WordBits))
<1>1. v <= IntMax(WordBits) <=> v \in IntMin(WordBits) .. IntMax(WordBits)
  BY IntegerBounds
<1> QED BY <1>1, SignedExact DEF ToInt, Exact

\* toUint256
LEMMA ToUintExact ==
  ASSUME WordBits \in Nat \ {0}, NEW v \in IntMin(WordBits) .. IntMax(WordBits)
  PROVE  Exact(ToUint(v), v, 0 .. UintMax(WordBits))
<1> DEFINE half == 2^(WordBits - 1)
<1>1. /\ half \in Nat \ {0} /\ v \in -half .. half - 1
      /\ UintMax(WordBits) = 2 * half - 1
  BY IntegerBounds
<1> HIDE DEF half
<1>2. v >= 0 <=> v \in 0 .. UintMax(WordBits) BY <1>1
<1> QED BY <1>2 DEF ToUint, Uint, Exact

\* No cast wraps: each returns its argument if the target type has it and
\* reverts otherwise, for every width of the words and of the target.
THEOREM CastsAlwaysExact == CallSpec => []CastsExact
<1>1. WordBits \in Nat \ {0} BY SizesAssumption
<1>2. CallInit => CastsExact
  <2> SUFFICES ASSUME CallInit PROVE CastsExact OBVIOUS
  <2>1. 0 \in 0 .. UintMax(WordBits) BY <1>1, IntegerBounds
  <2>2. Exact({0}, 0, 0 .. UintMax(WordBits)) BY <2>1 DEF Exact
  <2> QED BY <2>2 DEF CallInit, CastsExact, Exact
<1>3. CastsExact /\ [CallNext]_pureVars => CastsExact'
  <2> SUFFICES ASSUME CastsExact, [CallNext]_pureVars PROVE CastsExact' OBVIOUS
  <2>1. ASSUME NEW function, NEW bits, NEW v, NEW result,
               Called(function, bits, v, result),
               \/ function = "sqrt"
               \/ function = "toUint" /\ Exact(result, v, 0 .. UintMax(bits))
               \/ function = "toInt" /\ Exact(result, v, IntMin(bits) .. IntMax(bits))
        PROVE  CastsExact'
    BY <2>1 DEF Called, CastsExact, Exact
  <2>2. CASE UnsignedCall
    <3>1. PICK v \in 0 .. UintMax(WordBits) :
            \/ \E bits \in 1 .. WordBits - 1 :
                   Called("toUint", bits, v, ToUintDown(bits, v))
            \/ Called("toInt", WordBits, v, ToInt(v))
            \/ Called("sqrt", WordBits, v, {Sqrt(v)})
      BY <2>2 DEF UnsignedCall
    <3>2. v \in Nat OBVIOUS
    <3>3. \A bits \in 1 .. WordBits - 1 : bits \in Nat \ {0} BY <1>1
    <3> QED BY <1>1, <2>1, <3>1, <3>2, <3>3, ToUintDownExact, ToIntExact
  <2>3. CASE SignedCall
    <3>1. PICK v \in IntMin(WordBits) .. IntMax(WordBits) :
            \/ \E bits \in 1 .. WordBits - 1 :
                   Called("toInt", bits, v, ToIntDown(bits, v))
            \/ Called("toUint", WordBits, v, ToUint(v))
      BY <2>3 DEF SignedCall
    <3>2. v \in Int OBVIOUS
    <3>3. \A bits \in 1 .. WordBits - 1 : bits \in Nat \ {0} BY <1>1
    <3> QED BY <1>1, <2>1, <3>1, <3>2, <3>3, ToUintExact, ToIntDownExact
  <2>4. CASE UNCHANGED pureVars BY <2>4 DEF pureVars, CastsExact
  <2> QED BY <2>2, <2>3, <2>4 DEF CallNext
<1> QED BY <1>2, <1>3, PTL DEF CallSpec

-----------------------------------------------------------------------------
\* The binary searches.  Both halve a window of positions: to the left if
\* the checkpoint in the middle is among those looked for.

Halved(left, f, low, high) ==
    LET mid == (low + high) \div 2
    IN  IF low >= high
        THEN high
        ELSE IF left[mid] THEN f[<<low, mid>>] ELSE f[<<mid + 1, high>>]

Halves(left, n, f) ==
    f = [w \in (0 .. n) \X (0 .. n) |-> Halved(left, f, w[1], w[2])]

\* The middle of a window splits it in two smaller ones.
LEMMA Middle ==
  ASSUME NEW low \in Nat, NEW high \in Nat, low < high
  PROVE  LET mid == (low + high) \div 2 IN
         mid \in Nat /\ low <= mid /\ mid < high
OBVIOUS

\* A search is well defined: there is a function that halves, because the
\* windows get smaller.
LEMMA HalvingStops ==
  ASSUME NEW n \in Nat, NEW left
  PROVE  \E f : Halves(left, n, f)
<1> DEFINE Upto(f, d) == \A low, high \in 0 .. n :
             high - low <= d => f[<<low, high>>] = Halved(left, f, low, high)
           Table(f) == f \in [(0 .. n) \X (0 .. n) -> {f[w] : w \in (0 .. n) \X (0 .. n)}]
           Bad == {d \in Nat : ~\E f : Table(f) /\ Upto(f, d)}
<1>1. ASSUME NEW f, Table(f), Upto(f, n) PROVE Halves(left, n, f)
  <2>1. ASSUME NEW low \in 0 .. n, NEW high \in 0 .. n
        PROVE  f[<<low, high>>] = Halved(left, f, low, high)
    <3>1. high - low <= n OBVIOUS
    <3> QED BY <1>1, <3>1
  <2>2. ASSUME NEW w \in (0 .. n) \X (0 .. n)
        PROVE  f[w] = Halved(left, f, w[1], w[2])
    <3>1. w = <<w[1], w[2]>> /\ w[1] \in 0 .. n /\ w[2] \in 0 .. n OBVIOUS
    <3> QED BY <2>1, <3>1
  <2> QED BY <1>1, <2>2 DEF Halves
<1> SUFFICES ASSUME Bad # {} PROVE FALSE
  <2>1. PICK f : Table(f) /\ Upto(f, n) OBVIOUS
  <2> QED BY <1>1, <2>1
<1>2. PICK d \in Bad : \A k \in Bad : d <= k BY LeastNumber
<1>3. PICK g : d > 0 => Table(g) /\ Upto(g, d - 1)
  <2>1. CASE d = 0 BY <2>1
  <2>2. CASE d # 0
    <3>1. d - 1 \in Nat /\ ~(d <= d - 1) BY <2>2
    <3>2. d - 1 \notin Bad BY <1>2, <3>1
    <3> HIDE DEF Table, Upto
    <3>3. \E g : Table(g) /\ Upto(g, d - 1) BY <3>1, <3>2
    <3> QED BY <3>3
  <2> QED BY <2>1, <2>2
<1> DEFINE f == [w \in (0 .. n) \X (0 .. n) |->
             IF d > 0 /\ w[2] - w[1] <= d - 1 THEN g[w] ELSE Halved(left, g, w[1], w[2])]
<1>4. ASSUME NEW low \in 0 .. n, NEW high \in 0 .. n
      PROVE  f[<<low, high>>] = IF d > 0 /\ high - low <= d - 1 THEN g[<<low, high>>]
                                ELSE Halved(left, g, low, high)
  OBVIOUS
<1>5. Table(f) OBVIOUS
<1> HIDE DEF f
<1>6. ASSUME NEW low \in 0 .. n, NEW high \in 0 .. n, high - low <= d
      PROVE  f[<<low, high>>] = Halved(left, f, low, high)
  <2> DEFINE mid == (low + high) \div 2
  <2>1. f[<<low, high>>] = Halved(left, g, low, high)
    <3>1. d > 0 /\ high - low <= d - 1 => g[<<low, high>>] = Halved(left, g, low, high)
      BY <1>3
    <3> QED BY <1>4, <3>1
  <2>2. CASE low >= high BY <2>1, <2>2 DEF Halved
  <2>3. CASE low < high
    <3>1. /\ mid \in 0 .. n /\ mid + 1 \in 0 .. n /\ d > 0
          /\ mid - low <= d - 1 /\ high - (mid + 1) <= d - 1
      <4>1. mid \in Nat /\ low <= mid /\ mid < high BY <2>3, Middle
      <4> HIDE DEF mid
      <4> QED BY <1>6, <2>3, <4>1
    <3>2. f[<<low, mid>>] = g[<<low, mid>>] /\ f[<<mid + 1, high>>] = g[<<mid + 1, high>>]
      BY <1>4, <3>1
    <3> QED BY <2>1, <3>2 DEF Halved
  <2> QED BY <2>2, <2>3
<1>7. Upto(f, d) BY <1>6
<1> QED BY <1>2, <1>5, <1>7

\* What a search returns: a position of the window, with one looked for
\* there and none before it, as far as the window reaches.
LEMMA HalvingFinds ==
  ASSUME NEW n \in Nat, NEW left, NEW f, Halves(left, n, f),
         NEW low \in 0 .. n, NEW high \in 0 .. n, low <= high
  PROVE  /\ f[<<low, high>>] \in low .. high
         /\ f[<<low, high>>] > low => ~left[f[<<low, high>>] - 1]
         /\ f[<<low, high>>] < high => left[f[<<low, high>>]]
<1> DEFINE Found(l, h, p) == p \in l .. h /\ (p > l => ~left[p - 1]) /\ (p < h => left[p])
           Bad == {d \in Nat : \E l, h \in 0 .. n :
                     l <= h /\ h - l = d /\ ~Found(l, h, f[<<l, h>>])}
<1> SUFFICES Bad = {}
  <2>1. high - low \in Nat OBVIOUS
  <2> QED BY <2>1
<1> SUFFICES ASSUME Bad # {} PROVE FALSE OBVIOUS
<1>1. PICK d \in Bad : \A k \in Bad : d <= k BY LeastNumber
<1>2. PICK l \in 0 .. n, h \in 0 .. n :
        l <= h /\ h - l = d /\ ~Found(l, h, f[<<l, h>>])
  BY <1>1
<1>3. ASSUME NEW i \in 0 .. n, NEW j \in 0 .. n, i <= j, j - i < h - l
      PROVE  Found(i, j, f[<<i, j>>])
  <2>1. j - i \in Nat /\ ~(d <= j - i) BY <1>2, <1>3
  <2> QED BY <1>1, <1>3, <2>1
<1> DEFINE mid == (l + h) \div 2
<1>4. f[<<l, h>>] = Halved(left, f, l, h) BY DEF Halves
<1>5. l < h
  <2> SUFFICES ASSUME l = h PROVE FALSE BY <1>2
  <2>1. f[<<l, h>>] = h BY <1>4 DEF Halved
  <2> QED BY <1>2, <2>1
<1>6. mid \in Nat /\ l <= mid /\ mid < h BY <1>5, Middle
<1>7. f[<<l, h>>] = IF left[mid] THEN f[<<l, mid>>] ELSE f[<<mid + 1, h>>]
  BY <1>4, <1>5 DEF Halved
<1> HIDE DEF mid
<1>8. mid \in 0 .. n /\ mid + 1 \in 0 .. n BY <1>6
<1>9. Found(l, mid, f[<<l, mid>>]) /\ Found(mid + 1, h, f[<<mid + 1, h>>])
  BY <1>3, <1>6, <1>8
<1>10. CASE left[mid]
  <2> DEFINE p == f[<<l, mid>>]
  <2>1. Found(l, mid, p) /\ f[<<l, h>>] = p BY <1>7, <1>9, <1>10
  <2> HIDE DEF p
  <2>2. Found(l, h, p) BY <1>6, <1>10, <2>1
  <2> QED BY <1>2, <2>1, <2>2
<1>11. CASE ~left[mid]
  <2> DEFINE p == f[<<mid + 1, h>>]
  <2>1. Found(mid + 1, h, p) /\ f[<<l, h>>] = p BY <1>7, <1>9, <1>11
  <2> HIDE DEF p
  <2>2. Found(l, h, p) BY <1>6, <1>11, <2>1
  <2> QED BY <1>2, <2>1, <2>2
<1> QED BY <1>10, <1>11

\* A position of the list that splits it at a key: the checkpoints before
\* it are at or before the key, those from it on are after.
SplitsAfter(ckpts, key, pos) ==
    /\ pos \in 0 .. Len(ckpts)
    /\ pos > 0 => ckpts[pos].key <= key
    /\ pos < Len(ckpts) => ckpts[pos + 1].key > key

SplitsBefore(ckpts, key, pos) ==
    /\ pos \in 0 .. Len(ckpts)
    /\ pos > 0 => ckpts[pos].key < key
    /\ pos < Len(ckpts) => ckpts[pos + 1].key >= key

\* _upperBinaryLookup
LEMMA UpperSearchFinds ==
  ASSUME NEW ckpts, Len(ckpts) \in Nat,
         \A i \in 1 .. Len(ckpts) : ckpts[i].key \in Nat, NEW key \in Nat,
         NEW from \in 0 .. Len(ckpts), NEW to \in 0 .. Len(ckpts), from <= to
  PROVE  LET p == UpperSearch(ckpts, key, from, to) IN
         /\ p \in from .. to
         /\ p > from => ckpts[p].key <= key
         /\ p < to => ckpts[p + 1].key > key
<1> DEFINE n == Len(ckpts)
           left == [i \in 0 .. n |-> Access(ckpts, i).key > key]
           search == CHOOSE f : Halves(left, n, f)
           p == UpperSearch(ckpts, key, from, to)
<1>1. Halves(left, n, search)
  <2> HIDE DEF left, n
  <2> QED BY HalvingStops DEF n
<1>2. p = search[<<from, to>>]
  <2> DEFINE Body(f, w) ==
               LET mid == (w[1] + w[2]) \div 2
               IN  IF w[1] >= w[2]
                   THEN w[2]
                   ELSE IF Access(ckpts, mid).key > key
                        THEN f[<<w[1], mid>>]
                        ELSE f[<<mid + 1, w[2]>>]
             Code(f) == f = [w \in (0 .. n) \X (0 .. n) |-> Body(f, w)]
  <2>1. \A f : Code(f) <=> Halves(left, n, f)
    <3>1. ASSUME NEW f, NEW w \in (0 .. n) \X (0 .. n)
          PROVE  Halved(left, f, w[1], w[2]) = Body(f, w)
      <4> DEFINE mid == (w[1] + w[2]) \div 2
      <4>1. w[1] \in 0 .. n /\ w[2] \in 0 .. n OBVIOUS
      <4>2. mid \in 0 .. n BY <4>1
      <4>3. left[mid] = (Access(ckpts, mid).key > key) BY <4>2
      <4> HIDE DEF left
      <4> QED BY <4>3 DEF Halved
    <3> HIDE DEF left, n, Body
    <3>2. ASSUME NEW f
          PROVE  [w \in (0 .. n) \X (0 .. n) |-> Halved(left, f, w[1], w[2])] =
                 [w \in (0 .. n) \X (0 .. n) |-> Body(f, w)]
      BY <3>1
    <3> QED BY <3>2 DEF Halves, Code
  <2>2. p = (CHOOSE f : Code(f))[<<from, to>>] BY Zenon DEF UpperSearch, Windows
  <2> HIDE DEF Code, left, n, p
  <2>3. (CHOOSE f : Code(f)) = search BY <2>1
  <2> QED BY <2>2, <2>3
<1>3. /\ p \in from .. to
      /\ p > from => ~left[p - 1]
      /\ p < to => left[p]
  <2> HIDE DEF left, search, p
  <2> QED BY <1>1, <1>2, HalvingFinds
<1> HIDE DEF p
<1>4. p > from => p - 1 \in 0 .. n /\ p \in 1 .. n BY <1>3
<1>5. p \in 0 .. n BY <1>3
<1>6. p > from => ckpts[p].key <= key
  <2> SUFFICES ASSUME p > from PROVE ckpts[p].key <= key OBVIOUS
  <2>1. ~(Access(ckpts, p - 1).key > key) BY <1>3, <1>4
  <2>2. (p - 1) + 1 = p BY <1>5
  <2> QED BY <1>4, <2>1, <2>2 DEF Access
<1>7. p < to => ckpts[p + 1].key > key BY <1>3, <1>5 DEF Access
<1> QED BY <1>3, <1>6, <1>7 DEF p

\* _lowerBinaryLookup
LEMMA LowerSearchFinds ==
  ASSUME NEW ckpts, Len(ckpts) \in Nat,
         \A i \in 1 .. Len(ckpts) : ckpts[i].key \in Nat, NEW key \in Nat,
         NEW from \in 0 .. Len(ckpts), NEW to \in 0 .. Len(ckpts), from <= to
  PROVE  LET p == LowerSearch(ckpts, key, from, to) IN
         /\ p \in from .. to
         /\ p > from => ckpts[p].key < key
         /\ p < to => ckpts[p + 1].key >= key
<1> DEFINE n == Len(ckpts)
           left == [i \in 0 .. n |-> ~(Access(ckpts, i).key < key)]
           search == CHOOSE f : Halves(left, n, f)
           p == LowerSearch(ckpts, key, from, to)
<1>1. Halves(left, n, search)
  <2> HIDE DEF left, n
  <2> QED BY HalvingStops DEF n
<1>2. p = search[<<from, to>>]
  <2> DEFINE Body(f, w) ==
               LET mid == (w[1] + w[2]) \div 2
               IN  IF w[1] >= w[2]
                   THEN w[2]
                   ELSE IF Access(ckpts, mid).key < key
                        THEN f[<<mid + 1, w[2]>>]
                        ELSE f[<<w[1], mid>>]
             Code(f) == f = [w \in (0 .. n) \X (0 .. n) |-> Body(f, w)]
  <2>1. \A f : Code(f) <=> Halves(left, n, f)
    <3>1. ASSUME NEW f, NEW w \in (0 .. n) \X (0 .. n)
          PROVE  Halved(left, f, w[1], w[2]) = Body(f, w)
      <4> DEFINE mid == (w[1] + w[2]) \div 2
      <4>1. w[1] \in 0 .. n /\ w[2] \in 0 .. n OBVIOUS
      <4>2. mid \in 0 .. n BY <4>1
      <4>3. left[mid] = ~(Access(ckpts, mid).key < key) BY <4>2
      <4> HIDE DEF left
      <4> QED BY <4>3 DEF Halved
    <3> HIDE DEF left, n, Body
    <3>2. ASSUME NEW f
          PROVE  [w \in (0 .. n) \X (0 .. n) |-> Halved(left, f, w[1], w[2])] =
                 [w \in (0 .. n) \X (0 .. n) |-> Body(f, w)]
      BY <3>1
    <3> QED BY <3>2 DEF Halves, Code
  <2>2. p = (CHOOSE f : Code(f))[<<from, to>>] BY Zenon DEF LowerSearch, Windows
  <2> HIDE DEF Code, left, n, p
  <2>3. (CHOOSE f : Code(f)) = search BY <2>1
  <2> QED BY <2>2, <2>3
<1>3. /\ p \in from .. to
      /\ p > from => ~left[p - 1]
      /\ p < to => left[p]
  <2> HIDE DEF left, search, p
  <2> QED BY <1>1, <1>2, HalvingFinds
<1> HIDE DEF p
<1>4. p > from => p - 1 \in 0 .. n /\ p \in 1 .. n BY <1>3
<1>5. p \in 0 .. n BY <1>3
<1>6. p > from => ckpts[p].key < key
  <2> SUFFICES ASSUME p > from PROVE ckpts[p].key < key OBVIOUS
  <2>1. Access(ckpts, p - 1).key < key BY <1>3, <1>4
  <2>2. (p - 1) + 1 = p BY <1>5
  <2> QED BY <1>4, <2>1, <2>2 DEF Access
<1>7. p < to => ckpts[p + 1].key >= key
  <2> SUFFICES ASSUME p < to PROVE ckpts[p + 1].key >= key OBVIOUS
  <2>1. ~(Access(ckpts, p).key < key) BY <1>3, <1>5
  <2>2. p + 1 \in 1 .. n BY <1>5
  <2> QED BY <2>1, <2>2 DEF Access
<1> QED BY <1>3, <1>6, <1>7 DEF p

\* Where a list is split at a key, looking at every checkpoint finds the
\* one before the split, or the one after it.
LEMMA SplitFinds ==
  ASSUME NEW Key \in SUBSET Nat, NEW Val, NEW ckpts, Ordered(ckpts, Key, Val),
         NEW key \in Nat, NEW p
  PROVE  /\ SplitsAfter(ckpts, key, p) => ValueBefore(ckpts, p) = ValueBy(ckpts, key)
         /\ SplitsBefore(ckpts, key, p) =>
              ValueFrom(ckpts, key) =
                IF p = Len(ckpts) THEN 0 ELSE Access(ckpts, p).value
<1> DEFINE n == Len(ckpts)
           k(i) == ckpts[i].key
<1>1. /\ n \in Nat /\ \A i \in 1 .. n : k(i) \in Nat
      /\ \A i, j \in 1 .. n : i < j => k(i) < k(j)
  <2> DEFINE C == [key : Key, value : Val]
  <2>1. ckpts \in Seq(C) /\ \A i, j \in 1 .. n : i < j => k(i) < k(j)
    BY DEF Ordered
  <2>2. \A c \in C : c.key \in Nat OBVIOUS
  <2> HIDE DEF C
  <2>3. n \in Nat /\ \A i \in 1 .. n : ckpts[i] \in C
    BY <2>1, ElementOfSeq, LenProperties
  <2> QED BY <2>1, <2>2, <2>3
<1>2. ASSUME SplitsAfter(ckpts, key, p)
      PROVE  ValueBefore(ckpts, p) = ValueBy(ckpts, key)
  <2> DEFINE before == {i \in 1 .. n : k(i) <= key}
  <2>1. p \in 0 .. n /\ (p > 0 => k(p) <= key) /\ (p < n => k(p + 1) > key)
    BY <1>2 DEF SplitsAfter
  <2> HIDE DEF k
  <2>2. ASSUME NEW i \in 1 .. n, i > p PROVE ~(k(i) <= key)
    <3>1. p + 1 \in 1 .. n /\ (i = p + 1 \/ p + 1 < i) /\ p < n BY <1>1, <2>1, <2>2
    <3>2. k(p + 1) > key /\ k(p + 1) \in Nat /\ k(i) \in Nat BY <1>1, <2>1, <3>1
    <3>3. k(p + 1) <= k(i) BY <1>1, <3>1
    <3> QED BY <3>2, <3>3
  <2>3. CASE p = 0
    <3>1. before = {} BY <2>2, <2>3
    <3> QED BY <2>3, <3>1 DEF ValueBefore, ValueBy, k
  <2>4. CASE p > 0
    <3>1. p \in before /\ \A j \in before : j <= p BY <2>1, <2>2, <2>4
    <3>2. before \subseteq Int OBVIOUS
    <3> DEFINE top == CHOOSE i \in before : \A j \in before : j <= i
    <3> HIDE DEF before
    <3>3. top \in before /\ \A j \in before : j <= top BY <3>1
    <3>4. top <= p /\ p <= top BY <3>1, <3>3
    <3> HIDE DEF top
    <3>5. top = p BY <2>1, <3>2, <3>3, <3>4
    <3>6. ValueBy(ckpts, key) = ckpts[p].value
      BY <3>1, <3>5 DEF ValueBy, before, top, k
    <3>7. ValueBefore(ckpts, p) = ckpts[p].value
      <4>1. (p - 1) + 1 = p /\ p # 0 BY <2>1, <2>4
      <4> QED BY <4>1 DEF ValueBefore, Access
    <3> QED BY <3>6, <3>7
  <2> QED BY <2>1, <2>3, <2>4
<1>3. ASSUME SplitsBefore(ckpts, key, p)
      PROVE  ValueFrom(ckpts, key) = IF p = n THEN 0 ELSE Access(ckpts, p).value
  <2> DEFINE after == {i \in 1 .. n : k(i) >= key}
  <2>1. p \in 0 .. n /\ (p > 0 => k(p) < key) /\ (p < n => k(p + 1) >= key)
    BY <1>3 DEF SplitsBefore
  <2> HIDE DEF k
  <2>2. ASSUME NEW i \in 1 .. n, i <= p PROVE ~(k(i) >= key)
    <3>1. p \in 1 .. n /\ (i = p \/ i < p) /\ p > 0 BY <1>1, <2>1, <2>2
    <3>2. k(p) < key /\ k(p) \in Nat /\ k(i) \in Nat BY <1>1, <2>1, <3>1
    <3>3. k(i) <= k(p) BY <1>1, <3>1
    <3> QED BY <3>2, <3>3
  <2>3. CASE p = n
    <3>1. after = {} BY <2>2, <2>3
    <3> QED BY <2>3, <3>1 DEF ValueFrom, k
  <2>4. CASE p < n
    <3>1. p + 1 \in after /\ \A j \in after : p + 1 <= j BY <1>1, <2>1, <2>2, <2>4
    <3>2. after \subseteq Int OBVIOUS
    <3> DEFINE first == CHOOSE i \in after : \A j \in after : i <= j
    <3> HIDE DEF after
    <3>3. first \in after /\ \A j \in after : first <= j BY <3>1
    <3>4. first <= p + 1 /\ p + 1 <= first BY <3>1, <3>3
    <3> HIDE DEF first
    <3>5. first = p + 1 BY <2>1, <3>2, <3>3, <3>4
    <3>6. ValueFrom(ckpts, key) = ckpts[p + 1].value
      BY <3>1, <3>5 DEF ValueFrom, after, first, k
    <3> QED BY <2>1, <2>4, <3>6, <1>1 DEF Access
  <2> QED BY <1>1, <2>1, <2>3, <2>4
<1> QED BY <1>2, <1>3

-----------------------------------------------------------------------------
\* Math.sqrt, as far as the shortcut for recent blocks needs it: of a
\* number that fits a word it is between one and the number.

\* What a step of Math.log2 keeps: the number is its leading bits, value,
\* and result bits below them.
LogState(a, s) ==
    /\ s \in [value : Nat \ {0}, result : Nat]
    /\ 2^s.result * s.value <= a
    /\ a < 2^s.result * (s.value + 1)

\* A step keeps it, and halves the bits that may be left.
LEMMA NarrowedKeeps ==
  ASSUME NEW a \in Nat, WordBits \in Nat \ {0}, a < 2^WordBits,
         NEW s, LogState(a, s), NEW n \in Nat
  PROVE  /\ LogState(a, Narrowed(s, n))
         /\ s.value < 2^(n + n) => Narrowed(s, n).value < 2^n
<1> DEFINE v == s.value
           r == s.result
           p == 2^r
           q == 2^n
           high == ShiftRight(v, n)
<1>1. v \in Nat \ {0} /\ r \in Nat BY DEF LogState
<1>2. p \in Nat \ {0} /\ q \in Nat \ {0} BY <1>1, PowerPositive
<1>3. p * v <= a /\ a < p * (v + 1) BY DEF LogState
<1>4. s = [value |-> v, result |-> r] BY DEF LogState
<1>5. 2^(n + n) = q * q BY PowerSum
<1>6. 2^(r + n) = p * q BY <1>1, PowerSum
<1>7. v <= a
  <2> HIDE DEF p, v
  <2>1. v <= p * v
    <3>1. 1 * v <= p * v BY <1>1, <1>2, TimesMonotone
    <3> QED BY <1>1, <3>1
  <2> DEFINE c == p * v
  <2>2. c \in Int /\ c <= a /\ v <= c BY <1>1, <1>2, <1>3, <2>1
  <2> HIDE DEF c
  <2> QED BY <1>1, <2>2
<1>8. CASE high > 0
  <2>1. high = v \div q BY <1>8 DEF ShiftRight
  <2>2. high \in Nat /\ q * high <= v /\ v < q * high + q
    <3> HIDE DEF v, q, high
    <3> QED BY <1>1, <1>2, <2>1, Quotient
  <2>3. Narrowed(s, n) = [value |-> high, result |-> r + n] BY <1>8 DEF Narrowed
  <2> HIDE DEF v, r, p, q, high
  <2>4. (p * q) * high <= a
    <3>1. (q * high) * p <= v * p BY <1>1, <1>2, <2>2, TimesMonotone
    <3>2. (q * high) * p = (p * q) * high /\ v * p = p * v BY <1>1, <1>2, <2>2
    <3> DEFINE c == (p * q) * high
               d == p * v
    <3>3. c \in Int /\ d \in Int /\ c <= d /\ d <= a BY <1>1, <1>2, <1>3, <2>2, <3>1, <3>2
    <3> HIDE DEF c, d
    <3>4. c <= a BY <3>3
    <3> QED BY <3>4 DEF c
  <2>5. a < (p * q) * (high + 1)
    <3>1. v + 1 <= q * high + q BY <1>1, <1>2, <2>2
    <3>2. (v + 1) * p <= (q * high + q) * p BY <1>1, <1>2, <2>2, <3>1, TimesMonotone
    <3>3. (q * high + q) * p = (p * q) * (high + 1) /\ (v + 1) * p = p * (v + 1)
      BY <1>1, <1>2, <2>2
    <3> DEFINE c == (p * q) * (high + 1)
               d == p * (v + 1)
    <3>4. c \in Int /\ d \in Int /\ d <= c /\ a < d BY <1>1, <1>2, <1>3, <2>2, <3>2, <3>3
    <3> HIDE DEF c, d
    <3>5. a < c BY <3>4
    <3> QED BY <3>5 DEF c
  <2>6. LogState(a, Narrowed(s, n))
    <3>1. high \in Nat \ {0} /\ r + n \in Nat BY <1>1, <1>8, <2>2
    <3>2. 2^(r + n) * high <= a /\ a < 2^(r + n) * (high + 1) BY <1>6, <2>4, <2>5
    <3> DEFINE next == [value |-> high, result |-> r + n]
    <3>3. next.value = high /\ next.result = r + n OBVIOUS
    <3>4. next \in [value : Nat \ {0}, result : Nat] BY <3>1
    <3> HIDE DEF next
    <3>5. LogState(a, next) BY <3>2, <3>3, <3>4, Zenon DEF LogState
    <3> QED BY <2>3, <3>5 DEF next
  <2>7. v < q * q => high < q
    <3> SUFFICES ASSUME v < q * q, q <= high PROVE FALSE BY <1>2, <2>2
    <3>1. q * q <= high * q BY <1>2, <2>2, TimesMonotone
    <3>2. high * q = q * high BY <1>2, <2>2
    <3> DEFINE c == q * q
               d == q * high
    <3>3. c \in Int /\ d \in Int /\ v < c /\ c <= d /\ d <= v BY <1>2, <2>2, <3>1, <3>2
    <3> HIDE DEF c, d
    <3> QED BY <1>1, <3>3
  <2> QED BY <1>5, <2>3, <2>6, <2>7 DEF v, q
<1>9. CASE ~(high > 0)
  <2>1. Narrowed(s, n) = s BY <1>9 DEF Narrowed
  <2>2. v < q
    <3>1. CASE n < WordBits
      <4>1. high = v \div q BY <3>1 DEF ShiftRight
      <4> HIDE DEF v, q, high
      <4>2. high \in Nat /\ v < q * high + q BY <1>1, <1>2, <4>1, Quotient
      <4>3. high = 0 BY <1>9, <4>2
      <4> QED BY <1>1, <1>2, <4>2, <4>3
    <3>2. CASE ~(n < WordBits)
      <4>1. 2^WordBits <= q BY <3>2, PowerGrows
      <4>2. 2^WordBits \in Nat BY PowerNat
      <4> DEFINE w == 2^WordBits
      <4> HIDE DEF v, q, w
      <4> QED BY <1>1, <1>2, <1>7, <4>1, <4>2 DEF w
    <3> QED BY <3>1, <3>2
  <2> QED BY <2>1, <2>2
<1> QED BY <1>8, <1>9

\* Math.log2 finds the greatest power of two in a number of up to 256 bits;
\* in a wider one it stops at a lesser.
LEMMA LogExists ==
  ASSUME NEW a \in Nat \ {0}, WordBits \in Nat \ {0}, a < 2^WordBits
  PROVE  /\ Log2(a) \in Nat /\ 2^Log2(a) <= a
         /\ WordBits <= 256 => Log2(a) \in 0 .. WordBits - 1 /\ a < 2^(Log2(a) + 1)
<1> DEFINE n256 == 256
           n128 == 128
           n64 == 64
           n32 == 32
           n16 == 16
           n8 == 8
           n4 == 4
           n2 == 2
           n1 == 1
<1> DEFINE s256 == [value |-> a, result |-> 0]
           s128 == Narrowed(s256, n128)
           s64 == Narrowed(s128, n64)
           s32 == Narrowed(s64, n32)
           s16 == Narrowed(s32, n16)
           s8 == Narrowed(s16, n8)
           s4 == Narrowed(s8, n4)
           s2 == Narrowed(s4, n2)
           s1 == Narrowed(s2, n1)
<1>1. Log2(a) = s1.result BY Zenon DEF Log2
<1>2. LogState(a, s256)
  <2>1. 2^0 * a = a /\ 2^0 * (a + 1) = a + 1 BY PowerZero
  <2> QED BY <2>1 DEF LogState
<1>3. WordBits <= 256 => s256.value < 2^n256
  <2> SUFFICES ASSUME WordBits <= 256 PROVE a < 2^n256 OBVIOUS
  <2> DEFINE top == n256
             w == 2^WordBits
             t == 2^top
  <2>1. w <= t
    <3>1. top \in Nat /\ WordBits <= top OBVIOUS
    <3> HIDE DEF top
    <3> QED BY <3>1, PowerGrows
  <2>2. w \in Nat /\ t \in Nat
    <3>1. top \in Nat OBVIOUS
    <3> HIDE DEF top
    <3> QED BY <3>1, PowerNat
  <2> HIDE DEF t, w
  <2>3. a < t BY <2>1, <2>2 DEF w
  <2> QED BY <2>3 DEF t
<1>4. n128 \in Nat /\ n64 \in Nat /\ n32 \in Nat /\ n16 \in Nat
      /\ n8 \in Nat /\ n4 \in Nat /\ n2 \in Nat /\ n1 \in Nat OBVIOUS
<1>5. /\ n128 + n128 = n256 /\ n64 + n64 = n128 /\ n32 + n32 = n64 /\ n16 + n16 = n32
      /\ n8 + n8 = n16 /\ n4 + n4 = n8 /\ n2 + n2 = n4 /\ n1 + n1 = n2
  OBVIOUS
<1>6. s1.result = Log2(a) /\ 2^n1 = 2 BY <1>1
<1> HIDE DEF n256, n128, n64, n32, n16, n8, n4, n2, n1, s256
<1> DEFINE Few(s, m) == LogState(a, s) /\ (WordBits <= 256 => s.value < 2^m)
<1>7. \A s, m, n : Few(s, m) /\ n \in Nat /\ n + n = m => Few(Narrowed(s, n), n)
  BY NarrowedKeeps
<1> HIDE DEF Few
<1>8. Few(s128, n128) BY <1>2, <1>3, <1>4, <1>5, <1>7 DEF Few
<1> HIDE DEF s128
<1>9. Few(s64, n64) BY <1>8, <1>4, <1>5, <1>7
<1> HIDE DEF s64
<1>10. Few(s32, n32) BY <1>9, <1>4, <1>5, <1>7
<1> HIDE DEF s32
<1>11. Few(s16, n16) BY <1>10, <1>4, <1>5, <1>7
<1> HIDE DEF s16
<1>12. Few(s8, n8) BY <1>11, <1>4, <1>5, <1>7
<1> HIDE DEF s8
<1>13. Few(s4, n4) BY <1>12, <1>4, <1>5, <1>7
<1> HIDE DEF s4
<1>14. Few(s2, n2) BY <1>13, <1>4, <1>5, <1>7
<1> HIDE DEF s2
<1>15. Few(s1, n1) BY <1>14, <1>4, <1>5, <1>7
<1> HIDE DEF s1
<1> DEFINE v == s1.value
           k == s1.result
           p == 2^k
<1>16. v \in Nat \ {0} /\ k \in Nat /\ p * v <= a /\ a < p * (v + 1)
  BY <1>15 DEF Few, LogState
<1>17. p \in Nat /\ 2^(k + 1) = 2 * p BY <1>16, PowerNat, PowerStep
<1>18. WordBits <= 256 => v = 1 BY <1>15, <1>16, <1>6 DEF Few
<1>19. Log2(a) = k BY <1>6
<1> HIDE DEF v, k
<1>20. p <= a
  <2> HIDE DEF p
  <2>1. 1 * p <= v * p BY <1>16, <1>17, TimesMonotone
  <2>2. 1 * p = p /\ v * p = p * v BY <1>16, <1>17
  <2> DEFINE c == p * v
  <2>3. c \in Int /\ p <= c /\ c <= a BY <1>16, <1>17, <2>1, <2>2
  <2> HIDE DEF c
  <2> QED BY <1>17, <2>3
<1>21. ASSUME WordBits <= 256 PROVE k \in 0 .. WordBits - 1 /\ a < 2^(k + 1)
  <2>1. a < 2^(k + 1)
    <3>1. v + 1 = 2 BY <1>18, <1>21
    <3>2. a < p * 2 BY <1>16, <3>1
    <3> HIDE DEF p
    <3> QED BY <1>17, <3>2
  <2>2. k < WordBits
    <3> SUFFICES ASSUME WordBits <= k PROVE FALSE BY <1>16
    <3> DEFINE w == 2^WordBits
    <3>1. w <= p BY <1>16, PowerGrows
    <3>2. w \in Nat /\ a < w BY PowerNat
    <3> HIDE DEF w, p
    <3> QED BY <1>17, <1>20, <3>1, <3>2
  <2> QED BY <1>16, <2>1, <2>2
<1> QED BY <1>16, <1>19, <1>20, <1>21 DEF p

\* Seven iterations, from the estimate Math.sqrt starts with.
Estimates(a, f) ==
    f = [i \in 0 .. 7 |-> IF i = 0 THEN 2^(Log2(a) \div 2) ELSE Improved(a, f[i - 1])]

\* There are seven of them, so the estimates exist.
LEMMA EstimatesExist == \A a : \E f : Estimates(a, f)
<1> SUFFICES ASSUME NEW a PROVE \E f : Estimates(a, f) OBVIOUS
<1> DEFINE e0 == 2^(Log2(a) \div 2)
           e1 == Improved(a, e0)
           e2 == Improved(a, e1)
           e3 == Improved(a, e2)
           e4 == Improved(a, e3)
           e5 == Improved(a, e4)
           e6 == Improved(a, e5)
           e7 == Improved(a, e6)
<1> HIDE DEF e0, e1, e2, e3, e4, e5, e6, e7
<1> DEFINE f == [i \in 0 .. 7 |->
             IF i = 0 THEN e0 ELSE IF i = 1 THEN e1 ELSE IF i = 2 THEN e2
             ELSE IF i = 3 THEN e3 ELSE IF i = 4 THEN e4 ELSE IF i = 5 THEN e5
             ELSE IF i = 6 THEN e6 ELSE e7]
<1>1. /\ f[0] = e0 /\ f[1] = e1 /\ f[2] = e2 /\ f[3] = e3
      /\ f[4] = e4 /\ f[5] = e5 /\ f[6] = e6 /\ f[7] = e7
  OBVIOUS
<1>2. f \in [0 .. 7 -> {f[i] : i \in 0 .. 7}] OBVIOUS
<1> HIDE DEF f
<1>3. ASSUME NEW i \in 0 .. 7
      PROVE  f[i] = IF i = 0 THEN 2^(Log2(a) \div 2) ELSE Improved(a, f[i - 1])
  <2>1. i = 0 \/ i = 1 \/ i = 2 \/ i = 3 \/ i = 4 \/ i = 5 \/ i = 6 \/ i = 7
    OBVIOUS
  <2> QED BY <1>1, <2>1 DEF e0, e1, e2, e3, e4, e5, e6, e7
<1>4. Estimates(a, f) BY <1>2, <1>3 DEF Estimates
<1> QED BY <1>4

\* What Math.sqrt returns is the lesser of the last estimate and its
\* quotient.
LEMMA SqrtIsLesser ==
  ASSUME NEW a \in Nat \ {0}
  PROVE  \E f : /\ Estimates(a, f)
                /\ Sqrt(a) = IF f[7] < a \div f[7] THEN f[7] ELSE a \div f[7]
<1> DEFINE f == CHOOSE f : Estimates(a, f)
<1>1. Estimates(a, f) BY EstimatesExist
<1>2. Sqrt(a) = IF f[7] < a \div f[7] THEN f[7] ELSE a \div f[7]
  <2>1. a # 0 OBVIOUS
  <2> QED BY <2>1, Zenon DEF Sqrt, Estimates, Improved
<1> QED BY <1>1, <1>2

LEMMA SqrtInRange ==
  ASSUME NEW a \in Nat \ {0}, WordBits \in Nat \ {0}, a < 2^WordBits
  PROVE  Sqrt(a) \in 1 .. a
<1>1. PICK f : /\ Estimates(a, f)
               /\ Sqrt(a) = IF f[7] < a \div f[7] THEN f[7] ELSE a \div f[7]
  BY SqrtIsLesser
<1>2. \A e \in 1 .. a : a \div e \in 1 .. a
  <2> SUFFICES ASSUME NEW e \in 1 .. a PROVE a \div e \in 1 .. a OBVIOUS
  <2> QED OBVIOUS
<1>3. \A e \in 1 .. a : Improved(a, e) \in 1 .. a
  <2> SUFFICES ASSUME NEW e \in 1 .. a PROVE Improved(a, e) \in 1 .. a OBVIOUS
  <2> DEFINE q == a \div e
  <2>1. q \in 1 .. a BY <1>2
  <2> HIDE DEF q
  <2>2. (e + q) \div 2 \in 1 .. a BY <2>1
  <2> QED BY <2>2 DEF Improved, q
<1>4. f[0] \in 1 .. a
  <2> DEFINE k == Log2(a)
             m == k \div 2
  <2>1. k \in Nat /\ 2^k <= a BY LogExists
  <2> HIDE DEF k
  <2>2. m \in Nat /\ m <= k BY <2>1
  <2>3. 2^m <= 2^k /\ 2^m \in Nat \ {0} /\ 2^k \in Nat
    BY <2>1, <2>2, PowerGrows, PowerPositive
  <2>4. f[0] = 2^m BY <1>1 DEF Estimates, k
  <2> DEFINE pm == 2^m
             pk == 2^k
  <2> HIDE DEF m
  <2>5. pm <= pk /\ pm \in Nat \ {0} /\ pk \in Nat /\ pk <= a /\ f[0] = pm BY <2>1, <2>3, <2>4
  <2> HIDE DEF pm, pk
  <2> QED BY <2>5
<1>5. \A i \in 1 .. 7 : f[i] = Improved(a, f[i - 1]) BY <1>1 DEF Estimates
<1>6. /\ f[1] = Improved(a, f[0]) /\ f[2] = Improved(a, f[1]) /\ f[3] = Improved(a, f[2])
      /\ f[4] = Improved(a, f[3]) /\ f[5] = Improved(a, f[4]) /\ f[6] = Improved(a, f[5])
      /\ f[7] = Improved(a, f[6])
  BY <1>5
<1>7. f[7] \in 1 .. a BY <1>3, <1>4, <1>6
<1> QED BY <1>1, <1>2, <1>7

-----------------------------------------------------------------------------
\* The lookups.

\* What the lemmas on searches ask of a list.
LEMMA ListShape ==
  ASSUME NEW Key \in SUBSET Nat, NEW Val, NEW ckpts, Ordered(ckpts, Key, Val)
  PROVE  /\ Len(ckpts) \in Nat /\ (ckpts = << >> <=> Len(ckpts) = 0)
         /\ \A i \in 1 .. Len(ckpts) : ckpts[i].key \in Key /\ ckpts[i].key \in Nat
         /\ \A i, j \in 1 .. Len(ckpts) : i < j => ckpts[i].key < ckpts[j].key
<1> DEFINE C == [key : Key, value : Val]
<1>1. ckpts \in Seq(C) BY DEF Ordered
<1>2. \A c \in C : c.key \in Key /\ c.key \in Nat OBVIOUS
<1> HIDE DEF C
<1>3. Len(ckpts) \in Nat /\ \A i \in 1 .. Len(ckpts) : ckpts[i] \in C
  BY <1>1, ElementOfSeq, LenProperties
<1>4. ckpts = << >> <=> Len(ckpts) = 0 BY <1>1, EmptySeq
<1> QED BY <1>2, <1>3, <1>4 DEF Ordered

\* A list has no more checkpoints than there are keys, so that its length
\* is a number Math.sqrt takes.
LEMMA ListIsShort ==
  ASSUME WordBits \in Nat, NEW size \in 1 .. WordBits - 1, NEW Val, NEW ckpts,
         Ordered(ckpts, KeyRange(size), Val)
  PROVE  Len(ckpts) < 2^WordBits
<1> DEFINE n == Len(ckpts)
           k(i) == ckpts[i].key
           Bad == {i \in 1 .. n : k(i) < i - 1}
           high == 2^KeyBits(size)
           half == 2^(WordBits - 1)
<1>1. /\ n \in Nat
      /\ \A i \in 1 .. n : k(i) \in KeyRange(size) /\ k(i) \in Nat
      /\ \A i, j \in 1 .. n : i < j => k(i) < k(j)
  <2>1. KeyRange(size) \in SUBSET Nat BY DEF KeyRange
  <2> QED BY <2>1, ListShape
<1>2. Bad = {}
  <2> SUFFICES ASSUME Bad # {} PROVE FALSE OBVIOUS
  <2> HIDE DEF k
  <2>1. PICK i \in Bad : \A j \in Bad : i <= j
    <3>1. Bad \in SUBSET Nat OBVIOUS
    <3> HIDE DEF Bad
    <3> QED BY <3>1, LeastNumber
  <2>2. i # 1 BY <1>1, <2>1
  <2>3. i - 1 \in 1 .. n /\ i \in 1 .. n /\ i - 1 < i BY <2>1, <2>2
  <2>4. ~(k(i - 1) < (i - 1) - 1) BY <2>1, <2>3
  <2>5. k(i - 1) < k(i) /\ k(i - 1) \in Nat /\ k(i) \in Nat BY <1>1, <2>3
  <2> QED BY <2>1, <2>4, <2>5
<1>3. high \in Nat \ {0} /\ half \in Nat \ {0} /\ high <= half /\ 2^WordBits = 2 * half
  <2>1. KeyBits(size) \in Nat /\ WordBits - 1 \in Nat /\ KeyBits(size) <= WordBits - 1
        /\ WordBits \in Nat \ {0}
    BY DEF KeyBits
  <2> QED BY <2>1, PowerPositive, PowerGrows, IntegerBounds
<1>4. \A key \in KeyRange(size) : key <= high - 1 BY DEF KeyRange, UintMax
<1> HIDE DEF high, half, k
<1>5. n <= high
  <2>1. CASE n = 0 BY <1>3, <2>1
  <2>2. CASE n # 0
    <3>1. n \in 1 .. n /\ n \notin Bad BY <1>1, <1>2, <2>2
    <3>2. k(n) <= high - 1 /\ k(n) \in Nat /\ ~(k(n) < n - 1) BY <1>1, <1>4, <3>1
    <3> QED BY <1>1, <1>3, <3>2
  <2> QED BY <2>1, <2>2
<1> QED BY <1>1, <1>3, <1>5

\* upperLookup finds the value by a key.
LEMMA UpperLookupFinds ==
  ASSUME NEW Key \in SUBSET Nat, NEW Val, NEW ckpts, Ordered(ckpts, Key, Val),
         NEW key \in Nat
  PROVE  UpperLookup(ckpts, key) = ValueBy(ckpts, key)
<1> DEFINE n == Len(ckpts)
           p == UpperSearch(ckpts, key, 0, n)
<1>1. n \in Nat /\ \A i \in 1 .. n : ckpts[i].key \in Nat BY ListShape
<1>2. 0 \in 0 .. n /\ n \in 0 .. n /\ 0 <= n BY <1>1
<1>3. /\ p \in 0 .. n
      /\ p > 0 => ckpts[p].key <= key
      /\ p < n => ckpts[p + 1].key > key
  BY <1>1, <1>2, UpperSearchFinds
<1>4. UpperLookup(ckpts, key) = ValueBefore(ckpts, p) BY DEF UpperLookup
<1> HIDE DEF p
<1>5. SplitsAfter(ckpts, key, p) BY <1>3 DEF SplitsAfter
<1> QED BY <1>4, <1>5, SplitFinds

\* lowerLookup finds the value from a key.
LEMMA LowerLookupFinds ==
  ASSUME NEW Key \in SUBSET Nat, NEW Val, NEW ckpts, Ordered(ckpts, Key, Val),
         NEW key \in Nat
  PROVE  LowerLookup(ckpts, key) = ValueFrom(ckpts, key)
<1> DEFINE n == Len(ckpts)
           p == LowerSearch(ckpts, key, 0, n)
<1>1. n \in Nat /\ \A i \in 1 .. n : ckpts[i].key \in Nat BY ListShape
<1>2. 0 \in 0 .. n /\ n \in 0 .. n /\ 0 <= n BY <1>1
<1>3. /\ p \in 0 .. n
      /\ p > 0 => ckpts[p].key < key
      /\ p < n => ckpts[p + 1].key >= key
  BY <1>1, <1>2, LowerSearchFinds
<1>4. LowerLookup(ckpts, key) = IF p = n THEN 0 ELSE Access(ckpts, p).value
  BY DEF LowerLookup
<1> HIDE DEF p
<1>5. SplitsBefore(ckpts, key, p) BY <1>3 DEF SplitsBefore
<1>6. ValueFrom(ckpts, key) = IF p = n THEN 0 ELSE Access(ckpts, p).value
  BY <1>5, SplitFinds
<1> QED BY <1>4, <1>6

\* getAtProbablyRecentBlock finds the same: the checkpoint it looks at first
\* is one of the list, and it searches on the right side of it.
LEMMA RecentLookupFinds ==
  ASSUME NEW Key \in SUBSET Nat, NEW Val, NEW ckpts, Ordered(ckpts, Key, Val),
         WordBits \in Nat \ {0}, Len(ckpts) < 2^WordBits, NEW key \in Nat
  PROVE  RecentLookup(ckpts, key) = ValueBy(ckpts, key)
<1> DEFINE n == Len(ckpts)
           mid == n - Sqrt(n)
           p == IF n <= 5 THEN UpperSearch(ckpts, key, 0, n)
                ELSE IF key < Access(ckpts, mid).key
                     THEN UpperSearch(ckpts, key, 0, mid)
                     ELSE UpperSearch(ckpts, key, mid + 1, n)
<1>1. n \in Nat /\ \A i \in 1 .. n : ckpts[i].key \in Nat BY ListShape
<1>2. RecentLookup(ckpts, key) = ValueBefore(ckpts, p) BY DEF RecentLookup
<1>3. SplitsAfter(ckpts, key, p)
  <2>1. CASE n <= 5
    <3> DEFINE q == UpperSearch(ckpts, key, 0, n)
    <3>1. 0 \in 0 .. n /\ n \in 0 .. n /\ 0 <= n BY <1>1
    <3>2. /\ q \in 0 .. n
          /\ q > 0 => ckpts[q].key <= key
          /\ q < n => ckpts[q + 1].key > key
      BY <1>1, <3>1, UpperSearchFinds
    <3>3. p = q BY <2>1
    <3> HIDE DEF p, q
    <3> QED BY <3>2, <3>3 DEF SplitsAfter
  <2>2. CASE n > 5
    <3>1. n \in Nat \ {0} BY <1>1, <2>2
    <3>2. Sqrt(n) \in 1 .. n BY <3>1, SqrtInRange
    <3>3. mid \in 0 .. n - 1 BY <1>1, <3>2
    <3> HIDE DEF mid
    <3>4. Access(ckpts, mid) = ckpts[mid + 1] /\ ckpts[mid + 1].key \in Nat
      BY <1>1, <3>3 DEF Access
    <3>5. CASE key < Access(ckpts, mid).key
      <4> DEFINE q == UpperSearch(ckpts, key, 0, mid)
      <4>1. 0 \in 0 .. n /\ mid \in 0 .. n /\ 0 <= mid BY <1>1, <3>3
      <4>2. /\ q \in 0 .. mid
            /\ q > 0 => ckpts[q].key <= key
            /\ q < mid => ckpts[q + 1].key > key
        BY <1>1, <4>1, UpperSearchFinds
      <4>3. p = q BY <1>1, <2>2, <3>5
      <4> HIDE DEF p, q
      <4>4. q \in 0 .. n BY <4>1, <4>2
      <4>5. q < n => ckpts[q + 1].key > key
        <5>1. CASE q < mid BY <4>2, <5>1
        <5>2. CASE ~(q < mid)
          <6>1. q = mid BY <4>1, <4>2, <5>2
          <6> QED BY <6>1, <3>4, <3>5
        <5> QED BY <5>1, <5>2
      <4> QED BY <4>2, <4>3, <4>4, <4>5 DEF SplitsAfter
    <3>6. CASE ~(key < Access(ckpts, mid).key)
      <4> DEFINE q == UpperSearch(ckpts, key, mid + 1, n)
      <4>1. mid + 1 \in 0 .. n /\ n \in 0 .. n /\ mid + 1 <= n BY <1>1, <3>3
      <4>2. /\ q \in mid + 1 .. n
            /\ q > mid + 1 => ckpts[q].key <= key
            /\ q < n => ckpts[q + 1].key > key
        BY <1>1, <4>1, UpperSearchFinds
      <4>3. p = q BY <1>1, <2>2, <3>6
      <4> HIDE DEF p, q
      <4>4. q \in 0 .. n BY <4>1, <4>2
      <4>5. ckpts[q].key <= key
        <5>1. CASE q > mid + 1 BY <4>2, <5>1
        <5>2. CASE ~(q > mid + 1)
          <6>1. q = mid + 1 BY <4>1, <4>2, <5>2
          <6>2. ~(key < ckpts[mid + 1].key) BY <3>4, <3>6
          <6> QED BY <6>1, <6>2, <3>4
        <5> QED BY <5>1, <5>2
      <4> QED BY <4>2, <4>3, <4>4, <4>5 DEF SplitsAfter
    <3> QED BY <3>5, <3>6
  <2> QED BY <1>1, <2>1, <2>2
<1> HIDE DEF p
<1> QED BY <1>2, <1>3, SplitFinds

\* The value of the last checkpoint is the one by the end of time.
LEMMA LatestFinds ==
  ASSUME NEW end \in Nat, NEW Val, NEW ckpts, Ordered(ckpts, 0 .. end, Val)
  PROVE  Latest(ckpts) = ValueBy(ckpts, end)
<1> DEFINE n == Len(ckpts)
<1>0. 0 .. end \in SUBSET Nat OBVIOUS
<1>1. /\ n \in Nat /\ (ckpts = << >> <=> n = 0)
      /\ \A i \in 1 .. n : ckpts[i].key \in 0 .. end
  BY <1>0, ListShape
<1>2. SplitsAfter(ckpts, end, n)
  <2>1. n > 0 => ckpts[n].key <= end BY <1>1
  <2> QED BY <1>1, <2>1 DEF SplitsAfter
<1>3. ValueBefore(ckpts, n) = ValueBy(ckpts, end) BY <1>0, <1>2, SplitFinds
<1> QED BY <1>1, <1>3 DEF Latest, ValueBefore

\* The lookups of the History at a past block, in terms of the values.
LEMMA PastLookups ==
  ASSUME CheckpointsInv, NEW block \in Nat
  PROVE  /\ PastKeys(block) \subseteq {block}
         /\ GetAtBlock(block) = {ValueBy(history, key) : key \in PastKeys(block)}
         /\ GetAtProbablyRecentBlock(block) =
                {ValueBy(history, key) : key \in PastKeys(block)}
<1>1. PastKeys(block) \subseteq {block} BY CastReturnsArgument DEF PastKeys
<1>2. /\ Ordered(history, KeyRange(HistorySize), ValueRange(HistorySize))
      /\ KeyRange(HistorySize) \in SUBSET Nat
  BY DEF CheckpointsInv, KeyRange
<1>3. WordBits \in Nat \ {0} /\ HistorySize \in 1 .. WordBits - 1 /\ WordBits \in Nat
  BY SizesAssumption
<1>4. Len(history) < 2^WordBits BY <1>2, <1>3, ListIsShort
<1>5. \A key \in PastKeys(block) : UpperLookup(history, key) = ValueBy(history, key)
  BY <1>1, <1>2, UpperLookupFinds
<1>6. \A key \in PastKeys(block) : RecentLookup(history, key) = ValueBy(history, key)
  BY <1>1, <1>2, <1>3, <1>4, RecentLookupFinds
<1> QED BY <1>1, <1>5, <1>6 DEF GetAtBlock, GetAtProbablyRecentBlock

\* Every lookup finds what looking at every checkpoint finds.
THEOREM LookupsFind == Spec => []LookupsFindValue
<1>1. CheckpointsInv => LookupsFindValue
  <2> SUFFICES ASSUME CheckpointsInv PROVE LookupsFindValue OBVIOUS
  <2>1. \A block \in 0 .. blockNumber :
            LET found == {ValueBy(history, key) : key \in PastKeys(block)}
            IN  GetAtBlock(block) = found /\ GetAtProbablyRecentBlock(block) = found
    BY PastLookups
  <2>2. Latest(history) = ValueBy(history, UintMax(KeyBits(HistorySize)))
    <3>1. UintMax(KeyBits(HistorySize)) \in Nat
      <4>1. KeyBits(HistorySize) \in Nat BY SizesAssumption DEF KeyBits
      <4>2. 2^KeyBits(HistorySize) \in Nat \ {0} BY <4>1, PowerPositive
      <4> QED BY <4>2 DEF UintMax
    <3> QED BY <3>1, LatestFinds DEF CheckpointsInv, KeyRange
  <2>3. ASSUME NEW size \in TraceSizes, NEW key \in 0 .. UintMax(KeyBits(size))
        PROVE  /\ UpperLookup(traces[size], key) = ValueBy(traces[size], key)
               /\ LowerLookup(traces[size], key) = ValueFrom(traces[size], key)
    <3>1. Ordered(traces[size], KeyRange(size), ValueRange(size)) BY DEF CheckpointsInv
    <3>2. KeyRange(size) \in SUBSET Nat /\ key \in Nat BY DEF KeyRange
    <3> QED BY <3>1, <3>2, UpperLookupFinds, LowerLookupFinds
  <2> QED BY <2>1, <2>2, <2>3 DEF LookupsFindValue
<1> QED BY <1>1, CheckpointsInvariant, PTL

\* A transaction keeps what a lookup of a past block returns: a push to the
\* History changes the values from the present on.
LEMMA PastKept ==
  ASSUME CheckpointsInv, CheckpointsInv', [Next]_checkpointVars,
         NEW block \in Nat, GetAtBlock(block) # {}
  PROVE  GetAtBlock(block)' = GetAtBlock(block)
<1>1. block < blockNumber /\ PastKeys(block) \subseteq {block}
  <2>1. PastKeys(block) # {} BY DEF GetAtBlock
  <2> QED BY <2>1, PastLookups DEF PastKeys
<1>2. /\ blockNumber \in Nat /\ KeyRange(HistorySize) \in SUBSET Nat
      /\ Ordered(history, KeyRange(HistorySize), ValueRange(HistorySize))
      /\ Ordered(history', KeyRange(HistorySize), ValueRange(HistorySize))
  BY DEF CheckpointsInv, KeyRange
<1>3. /\ block < blockNumber'
      /\ ValueBy(history', block) = ValueBy(history, block)
  <2>1. CASE UNCHANGED checkpointVars BY <1>1, <2>1 DEF checkpointVars
  <2>2. CASE Mine BY <1>1, <1>2, <2>2 DEF Mine
  <2>3. CASE TraceNext BY <1>1, <2>3 DEF TraceNext, PushTrace
  <2>4. CASE HistoryNext
    <3>1. PICK value \in Nat : Push(value) BY <2>4, HistorySteps
    <3>2. /\ blockNumber \in KeyRange(HistorySize) /\ value \in ValueRange(HistorySize)
          /\ MayInsert(history, blockNumber)
          /\ history' = Inserted(history, blockNumber, value)
          /\ UNCHANGED blockNumber
      BY <3>1, PushInserts
    <3>3. ~(block >= blockNumber) BY <1>1, <1>2
    <3>4. ValueBy(Inserted(history, blockNumber, value), block) = ValueBy(history, block)
      BY <1>2, <3>2, <3>3, ValueAfterInsert
    <3> QED BY <1>1, <3>2, <3>4
  <2> QED BY <2>1, <2>2, <2>3, <2>4 DEF Next
<1>4. UpperLookup(history', block) = UpperLookup(history, block)
  BY <1>2, <1>3, UpperLookupFinds
<1>5. PastKeys(block)' = PastKeys(block) BY <1>1, <1>3 DEF PastKeys
<1> QED BY <1>1, <1>4, <1>5 DEF GetAtBlock

\* A transaction keeps what a lookup in a trace returns below the key of
\* the last checkpoint the trace has after it.
LEMMA TracePastKept ==
  ASSUME CheckpointsInv, CheckpointsInv', [Next]_checkpointVars,
         NEW size \in TraceSizes, NEW key \in Nat, traces'[size] # << >>,
         key < LatestCheckpoint(traces'[size])[2]
  PROVE  UpperLookup(traces'[size], key) = UpperLookup(traces[size], key)
<1>1. /\ KeyRange(size) \in SUBSET Nat
      /\ Ordered(traces[size], KeyRange(size), ValueRange(size))
  BY DEF CheckpointsInv, KeyRange
<1>2. CASE traces'[size] = traces[size] BY <1>2
<1>3. CASE traces'[size] # traces[size]
  <2>1. CASE UNCHANGED checkpointVars BY <1>3, <2>1 DEF checkpointVars
  <2>2. CASE Mine BY <1>3, <2>2 DEF Mine
  <2>3. CASE HistoryNext BY <1>3, <2>3, HistorySteps, PushInserts
  <2>4. CASE TraceNext
    <3>1. PICK s \in TraceSizes :
            \E k \in KeyRange(s), value \in ValueRange(s) : PushTrace(s, k, value)
      BY <2>4 DEF TraceNext, KeyRange, ValueRange
    <3>2. PICK k \in KeyRange(s), value \in ValueRange(s) : PushTrace(s, k, value)
      BY <3>1
    <3>3. traces \in [TraceSizes -> Seq([key : Nat, value : Nat])] BY DEF CheckpointsInv
    <3>4. /\ MayInsert(traces[s], k)
          /\ traces' = [traces EXCEPT ![s] = Inserted(traces[s], k, value)]
      BY <3>2 DEF PushTrace
    <3>5. s = size /\ traces'[size] = Inserted(traces[size], k, value)
      BY <1>3, <3>3, <3>4
    <3> DEFINE new == Inserted(traces[size], k, value)
    <3>6. /\ Ordered(new, KeyRange(size), ValueRange(size))
          /\ EndsWith(new, traces[size], k, value)
      BY <1>1, <3>2, <3>4, <3>5, InsertOrdered
    <3>7. ValueBy(new, key) = IF key >= k THEN value ELSE ValueBy(traces[size], key)
      BY <1>1, <3>2, <3>4, <3>5, ValueAfterInsert
    <3>8. traces'[size] = new BY <3>5
    <3> HIDE DEF new
    <3>9. LatestCheckpoint(new)[2] = k
      <4>1. /\ new # << >> /\ Len(new) \in Nat \ {0}
            /\ new[Len(new)] = [key |-> k, value |-> value]
        BY <3>6, <3>8 DEF EndsWith
      <4>2. (Len(new) - 1) + 1 = Len(new) BY <4>1
      <4> QED BY <4>1, <4>2 DEF LatestCheckpoint, Access
    <3>10. k \in Nat /\ key < k BY <1>1, <3>2, <3>5, <3>8, <3>9
    <3>11. ValueBy(new, key) = ValueBy(traces[size], key) BY <3>7, <3>10
    <3> QED BY <1>1, <3>6, <3>8, <3>11, UpperLookupFinds
  <2> QED BY <2>1, <2>2, <2>3, <2>4 DEF Next
<1> QED BY <1>2, <1>3

\* What a lookup of the past returns stays what it returns.
THEOREM PastStaysFixed == Spec => PastIsFixed
<1> DEFINE Fixed ==
      /\ \A block \in 0 .. blockNumber :
             GetAtBlock(block) # {} => GetAtBlock(block)' = GetAtBlock(block)
      /\ \A size \in TraceSizes :
             \A key \in 0 .. UintMax(KeyBits(size)) :
                 traces'[size] # << >> /\ key < LatestCheckpoint(traces'[size])[2] =>
                     UpperLookup(traces'[size], key) = UpperLookup(traces[size], key)
<1>1. CheckpointsInv /\ CheckpointsInv' /\ [Next]_checkpointVars => Fixed
  BY PastKept, TracePastKept
<1>2. CheckpointsInv /\ CheckpointsInv' /\ [Next]_checkpointVars => [Fixed]_checkpointVars
  BY <1>1
<1> QED BY <1>2, CheckpointsInvariant, PTL DEF Spec, PastIsFixed

-----------------------------------------------------------------------------
\* Math.sqrt rounds down.  The distance of an estimate e from s, the root
\* rounded down plus one, is squared and divided by 2 * e in each iteration:
\* it is at most s \div 4 after the first, s \div 32 after the second and
\* s \div 2^95 after the sixth, which is enough for words of 256 bits.

\* An estimate is at least the root rounded down.
LEMMA ImprovedIsEnough ==
  ASSUME NEW a \in Nat, NEW e \in Nat \ {0}, NEW r \in Nat, r * r <= a
  PROVE  Improved(a, e) \in Nat /\ r <= Improved(a, e)
<1> DEFINE q == a \div e
<1>1. q \in Nat /\ a < e * q + e BY Quotient
<1>2. Improved(a, e) = (e + q) \div 2 BY DEF Improved
<1> HIDE DEF q
<1>3. e + q >= 2 * r
  <2> SUFFICES ASSUME e + q + 1 <= 2 * r PROVE FALSE BY <1>1
  <2> DEFINE sum == e + (q + 1)
             difference == e - (q + 1)
  <2>1. sum * sum - difference * difference = 4 * (e * q + e) BY <1>1
  <2>2. difference * difference >= 0 BY <1>1
  <2>3. sum * sum <= (2 * r) * (2 * r)
    <3>1. sum \in Nat /\ 2 * r \in Nat /\ sum <= 2 * r BY <1>1
    <3> HIDE DEF sum
    <3> QED BY <3>1, SquareMonotone
  <2>4. (2 * r) * (2 * r) = 4 * (r * r) OBVIOUS
  <2> DEFINE ss == sum * sum
             dd == difference * difference
             eq == e * q + e
             rr == r * r
  <2>5. /\ ss \in Int /\ dd \in Int /\ eq \in Int /\ rr \in Int
        /\ ss - dd = 4 * eq /\ dd >= 0 /\ ss <= 4 * rr /\ rr <= a /\ a < eq
    BY <1>1, <2>1, <2>2, <2>3, <2>4
  <2> HIDE DEF ss, dd, eq, rr
  <2> QED BY <2>5
<1> QED BY <1>1, <1>2, <1>3

\* How far the next estimate is from s.
LEMMA ImprovedIsCloser ==
  ASSUME NEW a \in Nat, NEW e \in Nat \ {0}, NEW s \in Nat, a < s * s
  PROVE  /\ Improved(a, e) \in Nat
         /\ 2 * (e * (Improved(a, e) - s)) <= (e - s) * (e - s) - 1
         /\ 2 * (e * Improved(a, e)) <= e * e + a
<1> DEFINE q == a \div e
           f == (e + q) \div 2
<1>1. q \in Nat /\ e * q <= a BY Quotient
<1>2. Improved(a, e) = f BY DEF Improved
<1> HIDE DEF q
<1>3. f \in Nat /\ 2 * f <= e + q BY <1>1
<1> HIDE DEF f
<1>4. (2 * f) * e <= (e + q) * e BY <1>1, <1>3, TimesMonotone
<1>5. (2 * f) * e = 2 * (e * f) /\ (e + q) * e = e * e + e * q BY <1>1, <1>3
<1>6. 2 * (e * (f - s)) = 2 * (e * f) - 2 * (e * s) BY <1>3
<1>7. (e - s) * (e - s) = e * e - 2 * (e * s) + s * s OBVIOUS
<1> DEFINE ef == e * f
           ee == e * e
           eq == e * q
           es == e * s
           ss == s * s
<1>8. /\ ef \in Int /\ ee \in Int /\ eq \in Int /\ es \in Int /\ ss \in Int
      /\ 2 * ef <= ee + eq /\ eq <= a /\ a < ss
  BY <1>1, <1>3, <1>4, <1>5
<1> HIDE DEF ef, ee, eq, es, ss
<1>9. 2 * ef <= ee + a /\ 2 * ef - 2 * es <= ee - 2 * es + ss - 1 BY <1>8
<1> HIDE DEF Improved
<1> QED BY <1>2, <1>3, <1>6, <1>7, <1>9 DEF ef, ee, es, ss

\* The first iteration, from an estimate between s \div 2 and s.
LEMMA FirstDistance ==
  ASSUME NEW s \in Nat, NEW e \in Nat \ {0}, e < s, s <= 2 * e, NEW x \in Int,
         2 * (e * x) <= (e - s) * (e - s) - 1
  PROVE  4 * x <= s
<1> SUFFICES ASSUME x >= 1 PROVE 4 * x <= s OBVIOUS
<1> DEFINE t == s - e
<1>1. t \in Nat /\ 2 * t <= s /\ x \in Nat OBVIOUS
<1>2. (e - s) * (e - s) = t * t OBVIOUS
<1>3. (2 * t) * (2 * t) <= s * s
  <2>1. 2 * t \in Nat BY <1>1
  <2> QED BY <1>1, <2>1, SquareMonotone
<1>4. (2 * t) * (2 * t) = 4 * (t * t) BY <1>1
<1>5. s * x <= (2 * e) * x BY <1>1, TimesMonotone
<1>6. (2 * e) * x = 2 * (e * x) /\ (4 * x) * s = 4 * (s * x) OBVIOUS
<1> DEFINE tt == t * t
           ex == e * x
           sx == s * x
           ss == s * s
<1>7. /\ tt \in Int /\ ex \in Int /\ sx \in Int /\ ss \in Int
      /\ 2 * ex <= tt - 1 /\ 4 * tt <= ss /\ sx <= 2 * ex
  BY <1>1, <1>2, <1>3, <1>4, <1>5, <1>6
<1>8. 4 * sx <= ss
  <2> HIDE DEF tt, ex, sx, ss
  <2> QED BY <1>7
<1>9. (4 * x) * s <= s * s BY <1>6, <1>8
<1>10. 4 * x \in Int /\ s \in Nat \ {0} OBVIOUS
<1> QED BY <1>9, <1>10, TimesCancel

\* Every other iteration, from a distance of at most s \div D.
LEMMA NextDistance ==
  ASSUME NEW s \in Nat, NEW e \in Nat \ {0}, s - 1 <= e, NEW D \in Nat \ {0},
         D * (e - s) <= s, NEW x \in Int, 2 * (e * x) <= (e - s) * (e - s) - 1
  PROVE  (2 * (D * D)) * x <= s
<1> DEFINE d == e - s
           w == (2 * (D * D)) * x
<1>1. D * D \in Nat /\ w \in Int OBVIOUS
<1>2. CASE x <= 0
  <2> DEFINE DD == 2 * (D * D)
  <2>1. DD \in Nat OBVIOUS
  <2> HIDE DEF DD
  <2>2. x * DD <= 0 * DD BY <1>2, <2>1, TimesMonotone
  <2>3. x * DD = DD * x /\ 0 * DD = 0 BY <2>1
  <2>4. DD * x <= 0 BY <2>1, <2>2, <2>3
  <2> QED BY <2>1, <2>4 DEF DD
<1>3. CASE x >= 1
  <2>0. x \in Nat /\ e * x \in Nat /\ e * x >= e BY <1>3
  <2>1. d >= 0
    <3> SUFFICES ASSUME d = -1 PROVE FALSE OBVIOUS
    <3>1. d * d = 1 OBVIOUS
    <3> DEFINE ex == e * x
    <3>2. ex \in Nat /\ ex >= e /\ 2 * ex <= 0 BY <2>0, <3>1
    <3> HIDE DEF ex
    <3> QED BY <3>2
  <2>2. d \in Nat /\ s <= e BY <2>1
  <2> DEFINE y == D * d
             v == 2 * (s * x)
  <2>3. y \in Nat /\ y <= s BY <2>2
  <2>4. y * y <= s * s
    <3> HIDE DEF y
    <3> QED BY <2>3, SquareMonotone
  <2>5. v <= d * d
    <3>1. s * x <= e * x BY <2>0, <2>2, TimesMonotone
    <3> DEFINE sx == s * x
               ex == e * x
               dd == d * d
    <3>2. sx \in Int /\ ex \in Int /\ dd \in Int /\ sx <= ex /\ 2 * ex <= dd - 1
      BY <2>0, <2>2, <3>1
    <3>3. 2 * sx <= dd
      <4> HIDE DEF sx, ex, dd
      <4> QED BY <3>2
    <3> QED BY <3>3
  <2>6. v * (D * D) <= (d * d) * (D * D)
    <3>1. v \in Int /\ d * d \in Int BY <2>0, <2>2
    <3> HIDE DEF v, d
    <3> QED BY <1>1, <2>5, <3>1, TimesMonotone
  <2>7. (d * d) * (D * D) = y * y BY <2>2
  <2>8. v * (D * D) = w * s BY <2>0
  <2>9. w * s <= s * s
    <3> DEFINE p1 == v * (D * D)
               p2 == y * y
               p3 == s * s
    <3>1. p1 \in Int /\ p2 \in Int /\ p3 \in Int /\ p1 <= p2 /\ p2 <= p3
      BY <2>0, <2>2, <2>4, <2>6, <2>7
    <3>2. p1 <= p3
      <4> HIDE DEF p1, p2, p3
      <4> QED BY <3>1
    <3> QED BY <2>8, <3>2
  <2>10. s \in Nat \ {0}
    <3> SUFFICES ASSUME s = 0 PROVE FALSE OBVIOUS
    <3>1. D * e <= 0 OBVIOUS
    <3>2. D * e >= 1 OBVIOUS
    <3> QED BY <3>1, <3>2
  <2> HIDE DEF w
  <2>11. w <= s BY <1>1, <2>9, <2>10, TimesCancel
  <2> QED BY <2>11 DEF w
<1> QED BY <1>2, <1>3

\* The power of two that bounds the distance, from one iteration to the next.
LEMMA NextPower ==
  ASSUME NEW c \in Nat
  PROVE  2^c \in Nat \ {0} /\ 2^(2 * c + 1) = 2 * (2^c * 2^c)
<1>1. c + c \in Nat /\ 2 * c + 1 = (c + c) + 1 OBVIOUS
<1>2. 2^(c + c) = 2^c * 2^c BY PowerSum
<1>3. 2^((c + c) + 1) = 2 * 2^(c + c) BY <1>1, PowerStep
<1> QED BY <1>1, <1>2, <1>3, PowerPositive

\* How far an estimate is from s, the root rounded down plus one.
Within(e, s, c) == e \in Nat /\ s - 1 <= e /\ 2^c * (e - s) <= s

LEMMA Closer ==
  ASSUME NEW a \in Nat, NEW s \in Nat \ {0, 1}, (s - 1) * (s - 1) <= a, a < s * s,
         NEW e, NEW c \in Nat, Within(e, s, c)
  PROVE  Within(Improved(a, e), s, 2 * c + 1)
<1> DEFINE f == Improved(a, e)
           D == 2^c
<1>1. e \in Nat \ {0} /\ s - 1 \in Nat /\ s \in Nat /\ s - 1 <= e /\ D * (e - s) <= s
  BY DEF Within
<1>2. D \in Nat \ {0} /\ 2^(2 * c + 1) = 2 * (D * D) BY NextPower
<1>3. f \in Nat /\ s - 1 <= f BY <1>1, ImprovedIsEnough
<1>4. 2 * (e * (f - s)) <= (e - s) * (e - s) - 1 BY <1>1, ImprovedIsCloser
<1> HIDE DEF f, D
<1>5. f - s \in Int BY <1>3
<1>6. (2 * (D * D)) * (f - s) <= s BY <1>1, <1>2, <1>4, <1>5, NextDistance
<1> QED BY <1>2, <1>3, <1>6 DEF f, Within

\* The lesser of the last estimate and its quotient.
LEMMA LesserIsRoot ==
  ASSUME NEW a \in Nat, NEW s \in Nat \ {0, 1}, (s - 1) * (s - 1) <= a, a < s * s,
         NEW e, NEW c \in Nat, Within(e, s, c), s <= 2^c * 2^c
  PROVE  LET f == Improved(a, e) IN
         (IF f < a \div f THEN f ELSE a \div f) = s - 1
<1> DEFINE f == Improved(a, e)
           D == 2^c
           d == e - s
           r == s - 1
<1>1. /\ e \in Nat \ {0} /\ r \in Nat \ {0} /\ s \in Nat /\ r <= e /\ d \in Int
      /\ D * d <= s /\ r * r <= a /\ s <= D * D
  BY DEF Within
<1>2. D \in Nat \ {0} /\ D * D \in Nat \ {0}
  <2>1. D \in Nat \ {0} BY PowerPositive
  <2> HIDE DEF D
  <2> QED BY <2>1
<1>3. /\ f \in Nat /\ r <= f /\ 2 * (e * (f - s)) <= d * d - 1
      /\ 2 * (e * f) <= e * e + a
  BY <1>1, ImprovedIsEnough, ImprovedIsCloser
<1> HIDE DEF f, D
<1>4. d * d <= s
  <2>1. CASE d < 0
    <3>1. d = -1 BY <1>1, <2>1
    <3>2. d * d = 1 BY <3>1
    <3> QED BY <1>1, <3>2
  <2>2. CASE ~(d < 0)
    <3>1. d \in Nat /\ D * d \in Nat BY <1>1, <1>2, <2>2
    <3> DEFINE y == D * d
    <3>2. y * y <= s * s
      <4>1. y \in Nat /\ y <= s BY <1>1, <3>1
      <4> HIDE DEF y
      <4> QED BY <1>1, <4>1, SquareMonotone
    <3>3. s * s <= (D * D) * s BY <1>1, <1>2, TimesMonotone
    <3>4. y * y = (d * d) * (D * D) /\ (D * D) * s = s * (D * D) BY <1>1, <1>2, <3>1
    <3>5. d * d \in Int BY <3>1
    <3> DEFINE p1 == y * y
               p2 == s * s
               p3 == (D * D) * s
    <3>6. p1 \in Int /\ p2 \in Int /\ p3 \in Int /\ p1 <= p2 /\ p2 <= p3
      BY <1>1, <1>2, <3>1, <3>2, <3>3
    <3>7. p1 <= p3
      <4> HIDE DEF p1, p2, p3
      <4> QED BY <3>6
    <3>8. (d * d) * (D * D) <= s * (D * D) BY <3>4, <3>7
    <3> QED BY <1>1, <1>2, <3>5, <3>8, TimesCancel
  <2> QED BY <2>1, <2>2
<1>5. f = r \/ f = s
  <2> SUFFICES ASSUME f - s >= 1 PROVE FALSE BY <1>1, <1>3
  <2> DEFINE x == f - s
             ex == e * x
             dd == d * d
  <2>1. x \in Nat \ {0} BY <1>1, <1>3
  <2> HIDE DEF x
  <2>2. ex \in Int /\ ex >= e /\ dd \in Int BY <1>1, <2>1
  <2>3. 2 * ex <= dd - 1 /\ dd <= s BY <1>3, <1>4 DEF x
  <2> HIDE DEF ex, dd
  <2> QED BY <1>1, <2>2, <2>3
<1>6. CASE f = r
  <2> DEFINE q == a \div r
  <2>1. q \in Nat /\ a < r * q + r BY <1>1, Quotient
  <2> HIDE DEF q, r
  <2>2. r <= q
    <3> SUFFICES ASSUME q + 1 <= r PROVE FALSE BY <1>1, <2>1
    <3>1. (q + 1) * r <= r * r BY <1>1, <2>1, TimesMonotone
    <3>2. (q + 1) * r = r * q + r BY <1>1, <2>1
    <3> DEFINE rr == r * r
               rq == r * q + r
    <3>3. rr \in Int /\ rq \in Int /\ rq <= rr /\ rr <= a /\ a < rq
      BY <1>1, <2>1, <3>1, <3>2
    <3> HIDE DEF rr, rq
    <3> QED BY <3>3
  <2>3. (IF f < a \div f THEN f ELSE a \div f) = r BY <1>1, <1>6, <2>1, <2>2 DEF q
  <2> QED BY <2>3 DEF f, r
<1>7. CASE f = s
  <2> DEFINE q == a \div s
             es == e * s
             ee == e * e
             ss == s * s
             dd == d * d
  <2>1. q \in Nat /\ s * q <= a /\ a < s * q + s BY <1>1, Quotient
  <2>2. dd = ee - 2 * es + ss BY <1>1
  <2>3. /\ es \in Int /\ ee \in Int /\ ss \in Int /\ dd \in Int
        /\ 2 * es <= ee + a /\ dd <= s /\ a < ss
    BY <1>1, <1>3, <1>4, <1>7
  <2>4. ss - s <= a
    <3> HIDE DEF es, ee, ss, dd
    <3> QED BY <1>1, <2>2, <2>3
  <2> HIDE DEF q
  <2>5. q < s
    <3> SUFFICES ASSUME s <= q PROVE FALSE BY <1>1, <2>1
    <3>1. s * s <= q * s BY <1>1, <2>1, TimesMonotone
    <3>2. q * s = s * q BY <1>1, <2>1
    <3> DEFINE sq == s * q
    <3>3. sq \in Int /\ ss <= sq /\ sq <= a BY <1>1, <2>1, <3>1, <3>2
    <3> HIDE DEF sq, ss
    <3> QED BY <2>3, <3>3
  <2>6. r <= q
    <3> SUFFICES ASSUME q + 2 <= s PROVE FALSE BY <1>1, <2>1
    <3>1. (q + 2) * s <= s * s BY <1>1, <2>1, TimesMonotone
    <3>2. (q + 2) * s = s * q + 2 * s BY <1>1, <2>1
    <3> DEFINE sq == s * q
    <3>3. sq \in Int /\ sq + 2 * s <= ss /\ a < sq + s BY <1>1, <2>1, <3>1, <3>2
    <3> HIDE DEF sq, ss
    <3> QED BY <1>1, <2>3, <2>4, <3>3
  <2>7. q = r BY <1>1, <2>1, <2>5, <2>6
  <2>8. (IF f < a \div f THEN f ELSE a \div f) = q BY <1>1, <1>7, <2>1, <2>5 DEF q
  <2> QED BY <2>7, <2>8 DEF f, r
<1> QED BY <1>5, <1>6, <1>7

\* Seven iterations are enough for words of 256 bits.
LEMMA SqrtIsRoot ==
  ASSUME WordBits \in 1 .. 256, NEW a \in Nat, a < 2^WordBits
  PROVE  IsRoot(Sqrt(a), a)
<1>1. CASE a = 0
  <2>1. Sqrt(a) = 0 BY <1>1, Zenon DEF Sqrt
  <2>2. IsRoot(0, 0)
    <3>1. 0 * 0 = 0 /\ (0 + 1) * (0 + 1) = 1 OBVIOUS
    <3> QED BY <3>1 DEF IsRoot
  <2> QED BY <1>1, <2>1, <2>2
<1>2. CASE a # 0
  <2>1. a \in Nat \ {0} /\ WordBits \in Nat \ {0} BY <1>2
  <2>2. PICK r \in Nat : IsRoot(r, a) BY RootExists
  <2>3. PICK f : /\ Estimates(a, f)
                 /\ Sqrt(a) = IF f[7] < a \div f[7] THEN f[7] ELSE a \div f[7]
    BY <2>1, SqrtIsLesser
  <2> DEFINE s == r + 1
             m == Log2(a) \div 2
             p == 2^m
  <2>4. r # 0
    <3> SUFFICES ASSUME r = 0 PROVE FALSE OBVIOUS
    <3>1. (r + 1) * (r + 1) = 1 OBVIOUS
    <3> QED BY <2>1, <2>2, <3>1 DEF IsRoot
  <2>5. s \in Nat \ {0, 1} /\ s - 1 = r /\ (s - 1) * (s - 1) <= a /\ a < s * s
    BY <2>2, <2>4 DEF IsRoot
  <2>6. m \in 0 .. 127 /\ p \in Nat \ {0} /\ p * p <= a /\ a < (2 * p) * (2 * p)
    <3> DEFINE k == Log2(a)
    <3>1. k \in 0 .. WordBits - 1 /\ 2^k <= a /\ a < 2^(k + 1)
      <4>1. WordBits <= 256 OBVIOUS
      <4> QED BY <2>1, <4>1, LogExists, Zenon
    <3> HIDE DEF k
    <3>2. /\ m \in 0 .. 127 /\ m + m \in Nat /\ k \in Nat /\ k + 1 \in Nat
          /\ m + m <= k /\ m + 1 \in Nat /\ (m + 1) + (m + 1) \in Nat
          /\ k + 1 <= (m + 1) + (m + 1)
      BY <3>1 DEF k
    <3> HIDE DEF m
    <3>3. p \in Nat \ {0} /\ 2^(m + 1) = 2 * p BY <3>2, PowerPositive, PowerStep
    <3>4. 2^(m + m) = p * p BY <3>2, PowerSum
    <3>5. 2^((m + 1) + (m + 1)) = (2 * p) * (2 * p)
      <4> DEFINE j == m + 1
      <4>1. j \in Nat /\ 2^j = 2 * p BY <3>2, <3>3
      <4> HIDE DEF j
      <4>2. 2^(j + j) = 2^j * 2^j BY <4>1, PowerSum
      <4> QED BY <4>1, <4>2 DEF j
    <3>6. 2^(m + m) <= 2^k BY <3>2, PowerGrows
    <3>7. 2^(k + 1) <= 2^((m + 1) + (m + 1)) BY <3>2, PowerGrows
    <3> DEFINE a1 == p * p
               a2 == 2^k
               a3 == 2^(k + 1)
               a4 == (2 * p) * (2 * p)
    <3>8. a2 \in Nat /\ a3 \in Nat BY <3>2, PowerNat
    <3> HIDE DEF p
    <3>9. a1 \in Nat /\ a4 \in Nat BY <3>3
    <3>10. a1 <= a2 /\ a2 <= a /\ a < a3 /\ a3 <= a4 BY <3>1, <3>4, <3>5, <3>6, <3>7
    <3> HIDE DEF a1, a2, a3, a4
    <3>11. a1 <= a /\ a < a4 BY <3>8, <3>9, <3>10
    <3> QED BY <3>2, <3>3, <3>11 DEF a1, a4
  <2>7. s <= 2^95 * 2^95 /\ p < s /\ s <= 2 * p
    <3> DEFINE pp == p * p
               ss == s * s
               rr == r * r
               qq == (2 * p) * (2 * p)
    <3> HIDE DEF m, p
    <3>1. pp \in Int /\ ss \in Int /\ rr \in Int /\ qq \in Int BY <2>5, <2>6
    <3>2. pp <= a /\ a < ss /\ rr <= a /\ a < qq BY <2>5, <2>6
    <3>3. pp < ss /\ rr < qq
      <4> HIDE DEF pp, ss, rr, qq
      <4> QED BY <3>1, <3>2
    <3>4. p < s /\ r < 2 * p
      <4>1. p \in Nat /\ s \in Nat /\ 2 * p \in Nat BY <2>5, <2>6
      <4>2. p * p < s * s /\ r * r < (2 * p) * (2 * p) BY <3>3
      <4> HIDE DEF s
      <4> QED BY <4>1, <4>2, SquareCancel
    <3>5. s <= 2 * p BY <2>6, <3>4
    <3> DEFINE half == 2^95
               high == half * half
               twice == 2 * p
    <3>6. half \in Nat BY PowerNat
    <3>7. twice <= high
      <4> DEFINE j == m + 1
                 double == 95 + 95
      <4>1. j \in Nat /\ m \in Nat /\ double \in Nat /\ j <= double BY <2>6
      <4>2. 2^j = twice BY <4>1, PowerStep DEF p
      <4>3. 2^double = high BY PowerSum
      <4> HIDE DEF j, double, high, twice
      <4>4. 2^j <= 2^double BY <4>1, PowerGrows
      <4> QED BY <4>2, <4>3, <4>4
    <3> HIDE DEF half
    <3>8. high \in Int /\ twice \in Int /\ s \in Int /\ s <= twice BY <2>5, <2>6, <3>5, <3>6
    <3> HIDE DEF high, twice, s
    <3>9. s <= high BY <3>7, <3>8
    <3>10. s <= 2^95 * 2^95 BY <3>9 DEF high, half
    <3> QED BY <3>4, <3>5, <3>10
  <2>8. /\ f[0] = p /\ f[1] = Improved(a, f[0]) /\ f[2] = Improved(a, f[1])
        /\ f[3] = Improved(a, f[2]) /\ f[4] = Improved(a, f[3])
        /\ f[5] = Improved(a, f[4]) /\ f[6] = Improved(a, f[5])
        /\ f[7] = Improved(a, f[6])
    BY <2>3 DEF Estimates
  <2> HIDE DEF s, p
  <2>9. Within(f[1], s, 2)
    <3>1. /\ f[1] \in Nat /\ s - 1 <= f[1]
          /\ 2 * (p * (f[1] - s)) <= (p - s) * (p - s) - 1
      BY <2>5, <2>6, <2>8, ImprovedIsEnough, ImprovedIsCloser
    <3>2. f[1] - s \in Int BY <2>5, <3>1
    <3>3. 4 * (f[1] - s) <= s BY <2>5, <2>6, <2>7, <3>1, <3>2, FirstDistance
    <3>4. 2^2 = 4 OBVIOUS
    <3> QED BY <3>1, <3>3, <3>4 DEF Within
  <2>10. Within(f[2], s, 2 * 2 + 1) BY <2>5, <2>8, <2>9, Closer
  <2>11. Within(f[3], s, 2 * 5 + 1) BY <2>5, <2>8, <2>10, Closer
  <2>12. Within(f[4], s, 2 * 11 + 1) BY <2>5, <2>8, <2>11, Closer
  <2>13. Within(f[5], s, 2 * 23 + 1) BY <2>5, <2>8, <2>12, Closer
  <2>14. Within(f[6], s, 2 * 47 + 1) BY <2>5, <2>8, <2>13, Closer
  <2>15. Within(f[6], s, 95) BY <2>14
  <2>16. Sqrt(a) = s - 1
    <3> DEFINE last == Improved(a, f[6])
    <3>1. (IF last < a \div last THEN last ELSE a \div last) = s - 1
      <4>1. 95 \in Nat OBVIOUS
      <4> QED BY <4>1, <2>5, <2>7, <2>15, LesserIsRoot
    <3> QED BY <2>3, <2>8, <3>1
  <2> QED BY <2>2, <2>5, <2>16
<1> QED BY <1>1, <1>2

\* Math.sqrt rounds down, in words of up to 256 bits.
THEOREM SqrtAlwaysRoundsDown ==
  ASSUME WordBits \in 1 .. 256
  PROVE  CallSpec => []SqrtRoundsDown
<1>1. CallInit => SqrtRoundsDown BY DEF CallInit, SqrtRoundsDown
<1>2. SqrtRoundsDown /\ [CallNext]_pureVars => SqrtRoundsDown'
  <2> SUFFICES ASSUME SqrtRoundsDown, [CallNext]_pureVars PROVE SqrtRoundsDown'
    OBVIOUS
  <2>1. CASE UNCHANGED pureVars BY <2>1 DEF pureVars, SqrtRoundsDown
  <2>2. CASE SignedCall BY <2>2 DEF SignedCall, Called, SqrtRoundsDown
  <2>3. CASE UnsignedCall
    <3>1. PICK v \in 0 .. UintMax(WordBits) :
            \/ \E bits \in 1 .. WordBits - 1 :
                   Called("toUint", bits, v, ToUintDown(bits, v))
            \/ Called("toInt", WordBits, v, ToInt(v))
            \/ Called("sqrt", WordBits, v, {Sqrt(v)})
      BY <2>3 DEF UnsignedCall
    <3>2. CASE Called("sqrt", WordBits, v, {Sqrt(v)})
      <4>1. v \in Nat /\ v < 2^WordBits
        <5>1. WordBits \in Nat OBVIOUS
        <5>2. 2^WordBits \in Nat \ {0} BY <5>1, PowerPositive
        <5> QED BY <5>2 DEF UintMax
      <4>2. IsRoot(Sqrt(v), v) BY <4>1, SqrtIsRoot
      <4> QED BY <3>2, <4>2 DEF Called, SqrtRoundsDown, IsRoot
    <3>3. CASE ~Called("sqrt", WordBits, v, {Sqrt(v)})
      BY <3>1, <3>3 DEF Called, SqrtRoundsDown
    <3> QED BY <3>2, <3>3
  <2> QED BY <2>1, <2>2, <2>3 DEF CallNext
<1> QED BY <1>1, <1>2, PTL DEF CallSpec
=============================================================================
