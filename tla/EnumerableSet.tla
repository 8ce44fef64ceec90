---------------------------- MODULE EnumerableSet ----------------------------
(***************************************************************************)
(* The storage of an enumerable set of words, and what each function of    *)
(* the generic part of templates/EnumerableSet.js makes of it.  Indices    *)
(* are Solidity's, from 0; the array is a sequence, from 1, so a word's    *)
(* entry in "indexes" is its position in the sequence, and 0 is absence.   *)
(***************************************************************************)
EXTENDS Conversion, Sequences

\* struct Set
SetStorage == [values : Seq(Word), indexes : [Word -> Nat]]

EmptySet == [values |-> << >>, indexes |-> [w \in Word |-> 0]]

MutantContainsWord(s, w) == s.indexes[w] > 1

\* _contains
ContainsWord(s, w) == s.indexes[w] # 0

MutantAddWord(s, w) ==
    [values  |-> Append(s.values, w),
     indexes |-> [s.indexes EXCEPT ![w] = Len(s.values) + 1]]

\* _add
AddWord(s, w) ==
    IF ContainsWord(s, w)
    THEN s
    ELSE [values  |-> Append(s.values, w),
          indexes |-> [s.indexes EXCEPT ![w] = Len(s.values) + 1]]

MutantRemoveWord(s, w) ==
    LET index == s.indexes[w]
        length == Len(s.values)
    IN  IF index = 0
        THEN s
        ELSE [values  |-> SubSeq([s.values EXCEPT ![index] = s.values[length]],
                                 1, length - 1),
              indexes |-> [s.indexes EXCEPT ![w] = 0]]

\* _remove: the last value takes the place of the removed one, then the
\* array is popped and the removed value's index deleted.
RemoveWord(s, w) ==
    LET index == s.indexes[w]
        length == Len(s.values)
        lastValue == s.values[length]
        moved == IF index = length
                 THEN s
                 ELSE [values  |-> [s.values EXCEPT ![index] = lastValue],
                       indexes |-> [s.indexes EXCEPT ![lastValue] = index]]
    IN  IF index = 0
        THEN s
        ELSE [values  |-> SubSeq(moved.values, 1, length - 1),
              indexes |-> [moved.indexes EXCEPT ![w] = 0]]

\* _length
LengthOf(s) == Len(s.values)

\* _at, for an index below the length; it panics for any other.
WordAt(s, index) == s.values[index + 1]

\* _values
WordsOf(s) == {WordAt(s, index) : index \in 0 .. LengthOf(s) - 1}
=============================================================================
