----------------------------- MODULE MCTemplates -----------------------------
(***************************************************************************)
(* The contracts generated from OpenZeppelin's templates, for TLC: a set,  *)
(* a map, a History, traces, and the pure functions.  They share no        *)
(* storage, so a behaviour uses one of them and the others stay as they    *)
(* were deployed: interleaving them reaches no further state of any.       *)
(***************************************************************************)
EXTENDS EnumerableSetMock, EnumerableMapMock, CheckpointsMock, PureCalls

CONSTANTS MaxMapped,      \* bounds the values written to the map
          MaxBlock,       \* the last block mined
          PushedValues,   \* the values pushed to the History
          MaxLatest,      \* a delta is added below this value
          TraceKeys,      \* the keys pushed to a trace
          TraceValues     \* the values pushed to a trace

SetUnused == setType = "bytes32" /\ set = EmptySet /\ ~setResult
MapUnused == mapType = <<"bytes32", "bytes32">> /\ map = EmptyMap /\ ~mapResult
NoHistory == history = << >> /\ blockNumber = FirstBlock
NoTraces == \A size \in TraceSizes : traces[size] = << >>
NoCall == call = [function |-> "toUint", bits |-> WordBits, argument |-> 0]

SmallSetNext ==
    /\ MapUnused /\ NoHistory /\ NoTraces /\ NoCall
    /\ SetNext
    /\ UNCHANGED <<mapVars, checkpointVars, pureVars>>

SmallMapNext ==
    /\ SetUnused /\ NoHistory /\ NoTraces /\ NoCall
    /\ MapNext /\ \A w \in Word : map'.values[w] <= MaxMapped
    /\ UNCHANGED <<setVars, checkpointVars, pureVars>>

SmallHistoryNext ==
    /\ SetUnused /\ MapUnused /\ NoTraces /\ NoCall
    /\ \/ Mine /\ blockNumber < MaxBlock
       \/ \E value \in PushedValues : Push(value)
       \/ Latest(history) < MaxLatest /\ PushDelta("add", 1)
       \/ PushDelta("subtract", 1)
    /\ UNCHANGED <<setVars, mapVars, pureVars>>

SmallTraceNext ==
    /\ SetUnused /\ MapUnused /\ NoHistory /\ NoCall
    /\ \E size \in TraceSizes, key \in TraceKeys, value \in TraceValues :
           /\ \A other \in TraceSizes \ {size} : traces[other] = << >>
           /\ PushTrace(size, key, value)
    /\ UNCHANGED <<setVars, mapVars, pureVars>>

\* Nothing is kept from one call to the next, so one call shows them all.
SmallCallNext ==
    /\ SetUnused /\ MapUnused /\ NoHistory /\ NoTraces /\ NoCall
    /\ CallNext
    /\ UNCHANGED <<setVars, mapVars, checkpointVars>>

SmallInit ==
    /\ SetInit /\ MapInit /\ Init /\ CallInit
    /\ SetUnused \/ MapUnused

SmallNext ==
    \/ SmallSetNext
    \/ SmallMapNext
    \/ SmallHistoryNext
    \/ SmallTraceNext
    \/ SmallCallNext

SmallSpec ==
    SmallInit /\ [][SmallNext]_<<setVars, mapVars, checkpointVars, pureVars>>
=============================================================================
