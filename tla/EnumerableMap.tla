---------------------------- MODULE EnumerableMap ----------------------------
(***************************************************************************)
(* The storage of an enumerable map of words and what each function of the *)
(* generic part of templates/EnumerableMap.js makes of it: an enumerable   *)
(* set of the keys, and a mapping in which an absent key reads as zero.    *)
(***************************************************************************)
EXTENDS EnumerableSet

\* struct Bytes32ToBytes32Map
MapStorage == [keys : SetStorage, values : [Word -> Word]]

EmptyMap == [keys |-> EmptySet, values |-> [w \in Word |-> 0]]

\* set
PutWord(m, key, value) ==
    [keys   |-> AddWord(m.keys, key),
     values |-> [m.values EXCEPT ![key] = value]]

MutantDropWord(m, key) == [m EXCEPT !.keys = RemoveWord(m.keys, key)]

\* remove
DropWord(m, key) ==
    [keys   |-> RemoveWord(m.keys, key),
     values |-> [m.values EXCEPT ![key] = 0]]

\* contains
HasKey(m, key) == ContainsWord(m.keys, key)

\* at, for an index below the length
EntryAt(m, index) ==
    LET key == WordAt(m.keys, index) IN <<key, m.values[key]>>

MutantTryGetWord(m, key) == <<m.values[key] # 0, m.values[key]>>

\* tryGet looks the key up only if the value is zero.
TryGetWord(m, key) ==
    LET value == m.values[key]
    IN  IF value = 0 THEN <<HasKey(m, key), 0>> ELSE <<TRUE, value>>

\* get: the value, or nothing if the call reverts.
GetWord(m, key) ==
    LET value == m.values[key]
    IN  IF value # 0 \/ HasKey(m, key) THEN {value} ELSE {}
=============================================================================
