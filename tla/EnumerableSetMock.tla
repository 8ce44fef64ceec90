-------------------------- MODULE EnumerableSetMock --------------------------
(***************************************************************************)
(* A contract that keeps one typed enumerable set and exposes its          *)
(* functions: the wrappers of templates/EnumerableSet.js around the        *)
(* generic set, called as the contracts of templates/EnumerableSetMock.js  *)
(* call them.  One transaction is one action.                              *)
(***************************************************************************)
EXTENDS EnumerableSet

VARIABLES setType,     \* the type the contract was generated for
          set,         \* its storage
          setResult    \* the result the last transaction emitted

setVars == <<setType, set, setResult>>

SetInit ==
    /\ setType \in Types
    /\ set = EmptySet
    /\ setResult = FALSE

SetContains(value) == ContainsWord(set, ToBytes32(setType, value))

AddToSet(value) ==
    LET word == ToBytes32(setType, value)
    IN  /\ set' = AddWord(set, word)
        /\ setResult' = ~ContainsWord(set, word)
        /\ UNCHANGED setType

RemoveFromSet(value) ==
    LET word == ToBytes32(setType, value)
    IN  /\ set' = RemoveWord(set, word)
        /\ setResult' = ContainsWord(set, word)
        /\ UNCHANGED setType

SetNext == \E value \in ValuesOf(setType) : AddToSet(value) \/ RemoveFromSet(value)

SetSpec == SetInit /\ [][SetNext]_setVars

\* values() hands out the words as they are, read as values of the type.
SetElements == WordsOf(set)

-----------------------------------------------------------------------------

\* The storage holds words and positions, and positions fit the array.
SetTypeOK ==
    /\ setType \in Types
    /\ set \in SetStorage
    /\ \A w \in Word : set.indexes[w] \in 0 .. Words
    /\ setResult \in BOOLEAN

\* The array and the index mapping are inverse: every value is where its
\* index says, so none occurs twice and none that was removed is left, in
\* spite of the swap with the last value in _remove.
SetIndexed ==
    /\ \A i \in 1 .. Len(set.values) : set.indexes[set.values[i]] = i
    /\ \A w \in Word : ContainsWord(set, w) =>
           /\ set.indexes[w] \in 1 .. Len(set.values)
           /\ set.values[set.indexes[w]] = w

SetAbstract ==
    INSTANCE AbstractSet
        WITH Element <- Word, elements <- SetElements, changed <- setResult

\* The enumerated values form the set the calls build, and every call
\* reports whether it changed that set.
SetRefined == SetAbstract!Spec
=============================================================================
