--------------------------- MODULE CheckpointsMock ---------------------------
(***************************************************************************)
(* The contracts of templates/CheckpointsMock.js: one with a History keyed *)
(* by block number, one per value size with a Trace keyed by its caller.   *)
(* One transaction is one action, and blocks are mined in between.         *)
(***************************************************************************)
EXTENDS Checkpoints

CONSTANTS HistorySize,    \* the value size of a History, 224
          TraceSizes,     \* the value sizes of the traces, 160 and 224
          FirstBlock      \* the block in which the contracts are deployed

ASSUME SizesAssumption ==
    /\ WordBits \in Nat /\ HistorySize \in 1 .. WordBits - 1
    /\ TraceSizes \subseteq 1 .. WordBits - 1
    /\ FirstBlock \in Nat

VARIABLES blockNumber,    \* block.number
          history,        \* the checkpoints of the History
          traces          \* the checkpoints of each Trace

checkpointVars == <<blockNumber, history, traces>>

Init ==
    /\ blockNumber = FirstBlock
    /\ history = << >>
    /\ traces = [size \in TraceSizes |-> << >>]

Mine == blockNumber' = blockNumber + 1 /\ UNCHANGED <<history, traces>>

MutantPush(value) ==
    \E key \in ToUintDown(KeyBits(HistorySize), blockNumber) :
        /\ MayInsert(history, key)
        /\ history' = Inserted(history, key, value)
        /\ UNCHANGED <<blockNumber, traces>>

\* push(History, value), of a uint256
Push(value) ==
    \E key \in ToUintDown(KeyBits(HistorySize), blockNumber),
       stored \in ToUintDown(HistorySize, value) :
        /\ MayInsert(history, key)
        /\ history' = Inserted(history, key, stored)
        /\ UNCHANGED <<blockNumber, traces>>

\* The operations Votes pushes with, in checked arithmetic.
Applied(op, a, b) ==
    LET result == IF op = "add" THEN a + b ELSE a - b
    IN  {result} \cap 0 .. UintMax(WordBits)

\* push(History, op, delta)
PushDelta(op, delta) ==
    \E value \in Applied(op, Latest(history), delta) : Push(value)

\* push(Trace, key, value)
PushTrace(size, key, value) ==
    /\ MayInsert(traces[size], key)
    /\ traces' = [traces EXCEPT ![size] = Inserted(@, key, value)]
    /\ UNCHANGED <<blockNumber, history>>

HistoryNext ==
    \/ \E value \in 0 .. UintMax(WordBits) : Push(value)
    \/ \E op \in {"add", "subtract"}, delta \in 0 .. UintMax(WordBits) :
           PushDelta(op, delta)

TraceNext ==
    \E size \in TraceSizes :
        \E key \in 0 .. UintMax(KeyBits(size)), value \in 0 .. UintMax(size) :
            PushTrace(size, key, value)

Next == Mine \/ HistoryNext \/ TraceNext

Spec == Init /\ [][Next]_checkpointVars

MutantPastKeys(block) ==
    IF block <= blockNumber THEN ToUintDown(KeyBits(HistorySize), block) ELSE {}

\* The key a lookup of a block uses: the block must have been mined, and
\* its number fit the keys.
PastKeys(block) ==
    IF block < blockNumber THEN ToUintDown(KeyBits(HistorySize), block) ELSE {}

GetAtBlock(block) == {UpperLookup(history, key) : key \in PastKeys(block)}

GetAtProbablyRecentBlock(block) ==
    {RecentLookup(history, key) : key \in PastKeys(block)}

-----------------------------------------------------------------------------

\* The checkpoints fit the integers they are stored in.
CheckpointsTypeOK ==
    /\ blockNumber \in Nat
    /\ history \in Seq(CheckpointOf(HistorySize))
    /\ \A size \in TraceSizes : traces[size] \in Seq(CheckpointOf(size))

Increasing(ckpts) ==
    \A i, j \in 1 .. Len(ckpts) : i < j => ckpts[i].key < ckpts[j].key

\* The keys of every list are strictly increasing, which the binary
\* searches take for granted: a push in the block (or at the key) of the
\* last one overwrites it.
KeysIncrease == Increasing(history) /\ \A size \in TraceSizes : Increasing(traces[size])

\* The value of the last checkpoint at or before a key, found by looking at
\* all of them.
ValueBy(ckpts, key) ==
    LET before == {i \in 1 .. Len(ckpts) : ckpts[i].key <= key}
    IN  IF before = {} THEN 0
        ELSE ckpts[CHOOSE i \in before : \A j \in before : j <= i].value

\* The value of the first checkpoint at or after a key.
ValueFrom(ckpts, key) ==
    LET after == {i \in 1 .. Len(ckpts) : ckpts[i].key >= key}
    IN  IF after = {} THEN 0
        ELSE ckpts[CHOOSE i \in after : \A j \in after : i <= j].value

\* The binary searches find what looking at every checkpoint finds, with
\* and without the shortcut for recent blocks, and the latest value is the
\* value at the end of time.
LookupsFindValue ==
    /\ \A block \in 0 .. blockNumber :
           LET found == {ValueBy(history, key) : key \in PastKeys(block)}
           IN  GetAtBlock(block) = found /\ GetAtProbablyRecentBlock(block) = found
    /\ Latest(history) = ValueBy(history, UintMax(KeyBits(HistorySize)))
    /\ \A size \in TraceSizes :
           \A key \in 0 .. UintMax(KeyBits(size)) :
               /\ UpperLookup(traces[size], key) = ValueBy(traces[size], key)
               /\ LowerLookup(traces[size], key) = ValueFrom(traces[size], key)

\* What a lookup of a past block returns, no later transaction changes; nor
\* does a push to a trace change a lookup below its key.
PastIsFixed ==
    [][/\ \A block \in 0 .. blockNumber :
              GetAtBlock(block) # {} => GetAtBlock(block)' = GetAtBlock(block)
       /\ \A size \in TraceSizes :
              \A key \in 0 .. UintMax(KeyBits(size)) :
                  traces'[size] # << >> /\ key < LatestCheckpoint(traces'[size])[2] =>
                      UpperLookup(traces'[size], key) = UpperLookup(traces[size], key)
      ]_checkpointVars

Timeline ==
    INSTANCE ValueOverTime
        WITH Instant <- 0 .. UintMax(KeyBits(HistorySize)),
             Value <- 0 .. UintMax(HistorySize),
             now <- blockNumber,
             valueAt <- [key \in 0 .. UintMax(KeyBits(HistorySize)) |->
                            ValueBy(history, key)]

\* A History is a value over time of which only the present can be set.
HistoryRefined == Timeline!Spec
=============================================================================
