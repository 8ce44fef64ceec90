-------------------------- MODULE EnumerableProofs --------------------------
(***************************************************************************)
(* Theorems about the enumerable sets and maps, for every number of words  *)
(* and addresses.                                                          *)
(***************************************************************************)
EXTENDS EnumerableSetMock, EnumerableMapMock, FiniteSetTheorems, TLAPS

\* A storage whose array and index mapping are inverse.
Indexed(s) ==
    /\ s \in SetStorage
    /\ \A i \in 1 .. Len(s.values) : s.indexes[s.values[i]] = i
    /\ \A w \in Word : s.indexes[w] # 0 =>
           s.indexes[w] \in 1 .. Len(s.values) /\ s.values[s.indexes[w]] = w

\* The storage a contract starts with holds nothing.
LEMMA EmptyIndexed == Indexed(EmptySet) /\ WordsOf(EmptySet) = {}
  BY DEF Indexed, SetStorage, EmptySet, WordsOf, WordAt, LengthOf

\* The words enumerated are those the index mapping knows.
LEMMA ContainsEnumerated ==
  ASSUME NEW s, Indexed(s), NEW w \in Word
  PROVE  ContainsWord(s, w) <=> w \in WordsOf(s)
<1>1. ASSUME ContainsWord(s, w) PROVE w \in WordsOf(s)
  <2>1. s.indexes[w] - 1 \in 0 .. Len(s.values) - 1 /\ s.values[(s.indexes[w] - 1) + 1] = w
    BY <1>1 DEF Indexed, SetStorage, ContainsWord
  <2> QED BY <2>1 DEF WordsOf, WordAt, LengthOf
<1>2. ASSUME w \in WordsOf(s) PROVE ContainsWord(s, w)
  <2>1. PICK j \in 0 .. Len(s.values) - 1 : w = s.values[j + 1]
    BY <1>2 DEF WordsOf, WordAt, LengthOf
  <2>2. s.indexes[w] = j + 1 BY <2>1 DEF Indexed, SetStorage
  <2> QED BY <2>1, <2>2 DEF ContainsWord
<1> QED BY <1>1, <1>2

\* Only words are enumerated.
LEMMA EnumeratedWords ==
  ASSUME NEW s, Indexed(s) PROVE WordsOf(s) \subseteq Word
  BY DEF Indexed, SetStorage, WordsOf, WordAt, LengthOf

\* _add puts the word into the set and keeps the indexes right.
LEMMA AddIndexed ==
  ASSUME NEW s, Indexed(s), NEW w \in Word
  PROVE  /\ Indexed(AddWord(s, w))
         /\ \A v \in Word : ContainsWord(AddWord(s, w), v) <=> (v = w \/ ContainsWord(s, v))
<1>1. CASE ContainsWord(s, w) BY <1>1 DEF AddWord
<1>2. CASE ~ContainsWord(s, w)
  <2> DEFINE vs == s.values
             n == Len(vs) + 1
             t == AddWord(s, w)
  <2>1. vs \in Seq(Word) /\ s.indexes \in [Word -> Nat] /\ Len(vs) \in Nat
    BY DEF Indexed, SetStorage
  <2>2. t.values = Append(vs, w) /\ t.indexes = [s.indexes EXCEPT ![w] = n] /\ t \in SetStorage
    BY <1>2, <2>1 DEF AddWord, SetStorage
  <2>3. Len(t.values) = n /\ t.values[n] = w /\ \A i \in 1 .. n - 1 : t.values[i] = vs[i]
    BY <2>1, <2>2
  <2>4. t.indexes[w] = n /\ \A v \in Word : v # w => t.indexes[v] = s.indexes[v]
    BY <2>1, <2>2
  <2>5. \A i \in 1 .. n - 1 : vs[i] \in Word /\ vs[i] # w /\ s.indexes[vs[i]] = i
    BY <1>2, <2>1 DEF Indexed, ContainsWord
  <2>6. \A i \in 1 .. n : t.indexes[t.values[i]] = i
    <3> SUFFICES ASSUME NEW i \in 1 .. n PROVE t.indexes[t.values[i]] = i OBVIOUS
    <3>1. i = n \/ i \in 1 .. n - 1 BY <2>1
    <3> QED BY <3>1, <2>3, <2>4, <2>5
  <2>7. \A v \in Word : t.indexes[v] # 0 => t.indexes[v] \in 1 .. n /\ t.values[t.indexes[v]] = v
    <3> SUFFICES ASSUME NEW v \in Word, t.indexes[v] # 0
                 PROVE  t.indexes[v] \in 1 .. n /\ t.values[t.indexes[v]] = v
      OBVIOUS
    <3>1. CASE v = w BY <3>1, <2>1, <2>3, <2>4
    <3>2. CASE v # w
      <4>1. t.indexes[v] = s.indexes[v] BY <3>2, <2>4
      <4>2. s.indexes[v] \in 1 .. n - 1 /\ vs[s.indexes[v]] = v
        BY <4>1, <2>1 DEF Indexed
      <4> QED BY <4>1, <4>2, <2>1, <2>3
    <3> QED BY <3>1, <3>2
  <2>8. Indexed(t) BY <2>2, <2>3, <2>6, <2>7 DEF Indexed
  <2>9. \A v \in Word : ContainsWord(t, v) <=> (v = w \/ ContainsWord(s, v))
    BY <2>1, <2>4 DEF ContainsWord
  <2> QED BY <2>8, <2>9
<1> QED BY <1>1, <1>2

\* _remove takes the word out of the set and keeps the indexes right, for a
\* word at the end of the array, for one before it and for an absent one.
LEMMA RemoveIndexed ==
  ASSUME NEW s, Indexed(s), NEW w \in Word
  PROVE  /\ Indexed(RemoveWord(s, w))
         /\ \A v \in Word : ContainsWord(RemoveWord(s, w), v) <=> (v # w /\ ContainsWord(s, v))
<1>1. CASE ~ContainsWord(s, w) BY <1>1 DEF RemoveWord, ContainsWord
<1>2. CASE ContainsWord(s, w)
  <2> DEFINE vs == s.values
             n == Len(vs)
             p == s.indexes[w]
             t == RemoveWord(s, w)
  <2>1. vs \in Seq(Word) /\ s.indexes \in [Word -> Nat] /\ n \in Nat
    BY DEF Indexed, SetStorage
  <2>2. p \in 1 .. n /\ vs[p] = w /\ n >= 1 /\ vs[n] \in Word
    BY <1>2, <2>1 DEF Indexed, ContainsWord
  <2>3. \A i \in 1 .. n : vs[i] \in Word /\ s.indexes[vs[i]] = i
    BY <2>1 DEF Indexed
  <2>4. \A v \in Word : s.indexes[v] # 0 => s.indexes[v] \in 1 .. n /\ vs[s.indexes[v]] = v
    BY DEF Indexed
  <2>5. /\ t.values \in Seq(Word) /\ t.indexes \in [Word -> Nat] /\ t \in SetStorage
        /\ Len(t.values) = n - 1
        /\ \A i \in 1 .. n - 1 : t.values[i] = IF i = p THEN vs[n] ELSE vs[i]
        /\ t.indexes[w] = 0
        /\ \A v \in Word : v # w => t.indexes[v] = IF v = vs[n] THEN p ELSE s.indexes[v]
    <3>1. CASE p = n
      <4>1. t = [values |-> SubSeq(vs, 1, n - 1), indexes |-> [s.indexes EXCEPT ![w] = 0]]
        BY <1>2, <3>1 DEF RemoveWord, ContainsWord
      <4>2. /\ SubSeq(vs, 1, n - 1) \in Seq(Word) /\ Len(SubSeq(vs, 1, n - 1)) = n - 1
            /\ \A i \in 1 .. n - 1 : SubSeq(vs, 1, n - 1)[i] = vs[i]
        BY <2>1, <2>2
      <4>3. /\ t.values = SubSeq(vs, 1, n - 1)
            /\ t.indexes = [s.indexes EXCEPT ![w] = 0]
            /\ t \in SetStorage
        BY <4>1, <4>2, <2>1 DEF SetStorage
      <4> QED BY <3>1, <4>2, <4>3, <2>1, <2>2
    <3>2. CASE p # n
      <4> DEFINE ws == [vs EXCEPT ![p] = vs[n]]
                 is == [s.indexes EXCEPT ![vs[n]] = p]
      <4>1. t = [values |-> SubSeq(ws, 1, n - 1), indexes |-> [is EXCEPT ![w] = 0]]
        BY <1>2, <3>2 DEF RemoveWord, ContainsWord
      <4>2. ws \in Seq(Word) /\ Len(ws) = n /\ ws[p] = vs[n]
            /\ (\A i \in 1 .. n : i # p => ws[i] = vs[i])
        BY <2>1, <2>2
      <4>3. is \in [Word -> Nat] /\ is[vs[n]] = p
            /\ (\A v \in Word : v # vs[n] => is[v] = s.indexes[v])
        BY <2>1, <2>2
      <4> HIDE DEF ws, is
      <4>4. /\ SubSeq(ws, 1, n - 1) \in Seq(Word) /\ Len(SubSeq(ws, 1, n - 1)) = n - 1
            /\ \A i \in 1 .. n - 1 : SubSeq(ws, 1, n - 1)[i] = ws[i]
        BY <2>1, <2>2, <4>2
      <4>5. /\ t.values = SubSeq(ws, 1, n - 1)
            /\ t.indexes = [is EXCEPT ![w] = 0]
            /\ t \in SetStorage
        BY <4>1, <4>3, <4>4 DEF SetStorage
      <4>6. ASSUME NEW i \in 1 .. n - 1
            PROVE  t.values[i] = IF i = p THEN vs[n] ELSE vs[i]
        <5>1. i \in 1 .. n /\ t.values[i] = ws[i] BY <4>4, <4>5, <2>1
        <5> QED BY <5>1, <4>2
      <4>7. t.indexes[w] = 0 /\ \A v \in Word : v # w => t.indexes[v] = is[v]
        BY <4>3, <4>5
      <4> QED BY <4>3, <4>4, <4>5, <4>6, <4>7
    <3> QED BY <3>1, <3>2
  <2> HIDE DEF t
  <2>6. \A i \in 1 .. n - 1 : t.indexes[t.values[i]] = i
    <3> SUFFICES ASSUME NEW i \in 1 .. n - 1 PROVE t.indexes[t.values[i]] = i OBVIOUS
    <3>1. CASE i = p
      <4>1. vs[n] # w BY <3>1, <2>1, <2>2, <2>3
      <4> QED BY <3>1, <4>1, <2>2, <2>5
    <3>2. CASE i # p
      <4>1. i \in 1 .. n /\ n \in 1 .. n BY <2>1, <2>2
      <4>2. vs[i] \in Word /\ vs[i] # w /\ vs[i] # vs[n] /\ s.indexes[vs[i]] = i
        BY <3>2, <4>1, <2>1, <2>2, <2>3
      <4> QED BY <3>2, <4>2, <2>5
    <3> QED BY <3>1, <3>2
  <2>7. \A v \in Word : t.indexes[v] # 0 => t.indexes[v] \in 1 .. n - 1 /\ t.values[t.indexes[v]] = v
    <3> SUFFICES ASSUME NEW v \in Word, t.indexes[v] # 0
                 PROVE  t.indexes[v] \in 1 .. n - 1 /\ t.values[t.indexes[v]] = v
      OBVIOUS
    <3>1. v # w BY <2>5
    <3>2. CASE v = vs[n]
      <4>1. p # n BY <3>1, <3>2, <2>2
      <4>2. p \in 1 .. n - 1 BY <4>1, <2>1, <2>2
      <4> QED BY <3>1, <3>2, <4>2, <2>5
    <3>3. CASE v # vs[n]
      <4>1. t.indexes[v] = s.indexes[v] BY <3>1, <3>3, <2>5
      <4>2. s.indexes[v] \in 1 .. n /\ vs[s.indexes[v]] = v BY <4>1, <2>4
      <4>3. s.indexes[v] # p /\ s.indexes[v] # n BY <3>1, <3>3, <4>2, <2>2
      <4>4. s.indexes[v] \in 1 .. n - 1 BY <4>2, <4>3, <2>1
      <4> QED BY <4>1, <4>2, <4>3, <4>4, <2>5
    <3> QED BY <3>2, <3>3
  <2>8. Indexed(t) BY <2>5, <2>6, <2>7 DEF Indexed
  <2>9. ASSUME NEW v \in Word
        PROVE  ContainsWord(t, v) <=> (v # w /\ ContainsWord(s, v))
    <3>1. CASE v = w BY <3>1, <2>5 DEF ContainsWord
    <3>2. CASE v # w /\ v = vs[n]
      <4>1. t.indexes[v] = p /\ p # 0 BY <3>2, <2>2, <2>5
      <4>2. s.indexes[v] # 0 BY <3>2, <2>1, <2>2, <2>3
      <4> QED BY <3>2, <4>1, <4>2 DEF ContainsWord
    <3>3. CASE v # w /\ v # vs[n] BY <3>3, <2>5 DEF ContainsWord
    <3> QED BY <3>1, <3>2, <3>3
  <2> QED BY <2>8, <2>9 DEF t
<1> QED BY <1>1, <1>2

\* A set holds no more words than there are.
LEMMA LengthBound ==
  ASSUME NEW s, Indexed(s)
  PROVE  \A w \in Word : s.indexes[w] \in 0 .. Words
<1> DEFINE n == Len(s.values)
           f == [i \in 1 .. n |-> s.values[i]]
<1>1. s.values \in Seq(Word) /\ n \in Nat BY DEF Indexed, SetStorage
<1>2. f \in [1 .. n -> Word] BY <1>1
<1>3. \A i, j \in 1 .. n : f[i] = f[j] => i = j BY <1>1 DEF Indexed
<1>4. f \in Injection(1 .. n, Word) BY <1>2, <1>3 DEF Injection, IsInjective
<1>5. IsFiniteSet(Word) /\ Cardinality(Word) = Words
  BY FS_Interval, WidthAssumption DEF Word
<1>6. Cardinality(1 .. n) = n BY FS_Interval, <1>1
<1> HIDE DEF f
<1>7. n <= Words BY <1>4, <1>5, <1>6, FS_Injection
<1>8. s.indexes \in [Word -> Nat] BY DEF Indexed, SetStorage
<1> QED BY <1>1, <1>7, <1>8, WidthAssumption DEF Indexed

-----------------------------------------------------------------------------

\* An address written to a word is read back, and no two share a word.
LEMMA RoundTrip ==
  ASSUME NEW type \in Types, NEW value \in ValuesOf(type)
  PROVE  /\ ToBytes32(type, value) = value
         /\ value \in Word
         /\ FromBytes32(type, value) = value
  BY WidthAssumption DEF Types, ValuesOf, ToBytes32, FromBytes32, Word

\* The inductive invariant of the set: typed, indexed, and holding only
\* values of its type.
SetInv ==
    /\ setType \in Types
    /\ setResult \in BOOLEAN
    /\ Indexed(set)
    /\ WordsOf(set) \subseteq ValuesOf(setType)

\* A contract starts with an empty set.
LEMMA SetInvInit == SetInit => SetInv
  BY EmptyIndexed DEF SetInit, SetInv

\* What a step does to the enumerated words.
LEMMA SetStep ==
  ASSUME SetInv, [SetNext]_setVars
  PROVE  /\ SetInv'
         /\ \/ UNCHANGED setVars
            \/ \E w \in ValuesOf(setType) :
                  /\ setResult' = (w \notin WordsOf(set))
                  /\ WordsOf(set)' = WordsOf(set) \cup {w}
            \/ \E w \in ValuesOf(setType) :
                  /\ setResult' = (w \in WordsOf(set))
                  /\ WordsOf(set)' = WordsOf(set) \ {w}
<1>1. CASE UNCHANGED setVars
  BY <1>1 DEF SetInv, setVars, Indexed, WordsOf, WordAt, LengthOf
<1>2. ASSUME NEW value \in ValuesOf(setType), AddToSet(value)
      PROVE  /\ SetInv'
             /\ setResult' = (value \notin WordsOf(set))
             /\ WordsOf(set)' = WordsOf(set) \cup {value}
  <2>1. value \in Word /\ ToBytes32(setType, value) = value BY RoundTrip DEF SetInv
  <2>2. /\ set' = AddWord(set, value) /\ setResult' = ~ContainsWord(set, value)
        /\ setType' = setType
    BY <1>2, <2>1 DEF AddToSet
  <2>3. Indexed(set) BY DEF SetInv
  <2>4. Indexed(set') BY <2>1, <2>2, <2>3, AddIndexed
  <2>5. \A v \in Word : v \in WordsOf(set') <=> (v = value \/ v \in WordsOf(set))
    BY <2>1, <2>2, <2>3, <2>4, AddIndexed, ContainsEnumerated
  <2>6. WordsOf(set) \subseteq Word /\ WordsOf(set') \subseteq Word
    BY <2>3, <2>4, EnumeratedWords
  <2>7. WordsOf(set') = WordsOf(set) \cup {value} BY <2>1, <2>5, <2>6
  <2>8. setResult' = (value \notin WordsOf(set)) BY <2>1, <2>2, <2>3, ContainsEnumerated
  <2>9. WordsOf(set)' = WordsOf(set') BY DEF WordsOf, WordAt, LengthOf
  <2>10. Indexed(set)' BY <2>4 DEF Indexed
  <2> QED BY <2>2, <2>7, <2>8, <2>9, <2>10 DEF SetInv
<1>3. ASSUME NEW value \in ValuesOf(setType), RemoveFromSet(value)
      PROVE  /\ SetInv'
             /\ setResult' = (value \in WordsOf(set))
             /\ WordsOf(set)' = WordsOf(set) \ {value}
  <2>1. value \in Word /\ ToBytes32(setType, value) = value BY RoundTrip DEF SetInv
  <2>2. /\ set' = RemoveWord(set, value) /\ setResult' = ContainsWord(set, value)
        /\ setType' = setType
    BY <1>3, <2>1 DEF RemoveFromSet
  <2>3. Indexed(set) BY DEF SetInv
  <2>4. Indexed(set') BY <2>1, <2>2, <2>3, RemoveIndexed
  <2>5. \A v \in Word : v \in WordsOf(set') <=> (v # value /\ v \in WordsOf(set))
    BY <2>1, <2>2, <2>3, <2>4, RemoveIndexed, ContainsEnumerated
  <2>6. WordsOf(set) \subseteq Word /\ WordsOf(set') \subseteq Word
    BY <2>3, <2>4, EnumeratedWords
  <2>7. WordsOf(set') = WordsOf(set) \ {value} BY <2>1, <2>5, <2>6
  <2>8. setResult' = (value \in WordsOf(set))
    <3>1. ContainsWord(set, value) <=> value \in WordsOf(set)
      BY <2>1, <2>3, ContainsEnumerated
    <3>2. setResult' = (set.indexes[value] # 0) BY <2>2 DEF ContainsWord
    <3> QED BY <3>1, <3>2 DEF ContainsWord
  <2>9. WordsOf(set)' = WordsOf(set') BY DEF WordsOf, WordAt, LengthOf
  <2>10. Indexed(set)' BY <2>4 DEF Indexed
  <2> QED BY <2>2, <2>7, <2>8, <2>9, <2>10 DEF SetInv
<1> QED BY <1>1, <1>2, <1>3 DEF SetNext

\* Every state of a set contract satisfies the inductive invariant.
THEOREM SetInvariant == SetSpec => []SetInv
<1>1. SetInit => SetInv BY SetInvInit
<1>2. SetInv /\ [SetNext]_setVars => SetInv' BY SetStep
<1> QED BY <1>1, <1>2, PTL DEF SetSpec

\* The storage of a set stays well typed, with indexes that fit the array.
THEOREM SetTypeCorrect == SetSpec => []SetTypeOK
<1>1. SetInv => SetTypeOK
  BY LengthBound DEF SetInv, SetTypeOK, Indexed
<1> QED BY <1>1, SetInvariant, PTL

\* The array and the index mapping stay inverse.
THEOREM SetStaysIndexed == SetSpec => []SetIndexed
<1>1. SetInv => SetIndexed BY DEF SetInv, SetIndexed, Indexed, ContainsWord
<1> QED BY <1>1, SetInvariant, PTL

\* The enumerable set implements the mathematical set.
THEOREM SetImplemented == SetSpec => SetRefined
<1>1. SetElements = WordsOf(set) BY DEF SetElements
<1>2. SetInit => SetAbstract!Init
  BY <1>1, SetInvInit, EmptyIndexed DEF SetInit, SetAbstract!Init
<1>3. SetInv /\ SetInv' /\ [SetNext]_setVars => [SetAbstract!Next]_<<SetElements, setResult>>
  <2> SUFFICES ASSUME SetInv, SetInv', [SetNext]_setVars
               PROVE  [SetAbstract!Next]_<<SetElements, setResult>>
    OBVIOUS
  <2>1. SetElements = WordsOf(set) /\ (SetElements = WordsOf(set))' BY <1>1, PTL
  <2>2. ValuesOf(setType) \subseteq Word BY RoundTrip DEF SetInv
  <2>3. CASE UNCHANGED setVars BY <2>3 DEF setVars, SetElements, WordsOf, WordAt, LengthOf
  <2>4. ASSUME NEW w \in ValuesOf(setType), setResult' = (w \notin WordsOf(set)),
               WordsOf(set)' = WordsOf(set) \cup {w}
        PROVE  SetAbstract!Next
    BY <2>1, <2>2, <2>4 DEF SetAbstract!Next, SetAbstract!Add
  <2>5. ASSUME NEW w \in ValuesOf(setType), setResult' = (w \in WordsOf(set)),
               WordsOf(set)' = WordsOf(set) \ {w}
        PROVE  SetAbstract!Next
    BY <2>1, <2>2, <2>5 DEF SetAbstract!Next, SetAbstract!Remove
  <2> QED BY <2>3, <2>4, <2>5, SetStep
<1> QED BY <1>2, <1>3, SetInvariant, PTL DEF SetSpec, SetRefined, SetAbstract!Spec

-----------------------------------------------------------------------------

\* The inductive invariant of the map: as of the set for its keys, and no
\* value without its key.
MapInv ==
    /\ mapType \in MapTypes
    /\ mapResult \in BOOLEAN
    /\ map \in MapStorage
    /\ Indexed(map.keys)
    /\ WordsOf(map.keys) \subseteq ValuesOf(mapType[1])
    /\ \A w \in Word : map.values[w] \in ValuesOf(mapType[2])
    /\ NoResidue

\* The types of keys and values are types of words.
LEMMA MapTypesAreTypes ==
  ASSUME mapType \in MapTypes
  PROVE  /\ mapType[1] \in Types /\ mapType[2] \in Types
         /\ 0 \in ValuesOf(mapType[2])
         /\ ValuesOf(mapType[1]) \subseteq Word /\ ValuesOf(mapType[2]) \subseteq Word
  BY WidthAssumption DEF MapTypes, Types, ValuesOf, Word

\* A contract starts with an empty map.
LEMMA MapInvInit == MapInit => MapInv
<1> SUFFICES ASSUME MapInit PROVE MapInv OBVIOUS
<1>1. mapType \in MapTypes /\ mapResult = FALSE /\ map = EmptyMap BY DEF MapInit
<1>2. map.keys = EmptySet /\ \A w \in Word : map.values[w] = 0
  BY <1>1 DEF EmptyMap
<1>3. map \in MapStorage
  BY <1>1, EmptyIndexed, WidthAssumption DEF EmptyMap, MapStorage, Indexed, Word
<1> QED BY <1>1, <1>2, <1>3, EmptyIndexed, MapTypesAreTypes DEF MapInv, NoResidue

\* What a step does to the keys and the values.
LEMMA MapStep ==
  ASSUME MapInv, [MapNext]_mapVars
  PROVE  /\ MapInv'
         /\ \/ UNCHANGED mapVars
            \/ \E key \in ValuesOf(mapType[1]), value \in ValuesOf(mapType[2]) :
                  /\ mapResult' = (key \notin WordsOf(map.keys))
                  /\ WordsOf(map.keys)' = WordsOf(map.keys) \cup {key}
                  /\ map.values' = [map.values EXCEPT ![key] = value]
            \/ \E key \in ValuesOf(mapType[1]) :
                  /\ mapResult' = (key \in WordsOf(map.keys))
                  /\ WordsOf(map.keys)' = WordsOf(map.keys) \ {key}
                  /\ map.values' = [map.values EXCEPT ![key] = 0]
<1>0. /\ Indexed(map.keys) /\ map.values \in [Word -> Word]
      /\ mapType \in MapTypes /\ map = [keys |-> map.keys, values |-> map.values]
  BY DEF MapInv, MapStorage
<1>t. /\ mapType[1] \in Types /\ mapType[2] \in Types /\ 0 \in ValuesOf(mapType[2])
      /\ ValuesOf(mapType[1]) \subseteq Word /\ ValuesOf(mapType[2]) \subseteq Word
  BY <1>0, MapTypesAreTypes
<1>1. CASE UNCHANGED mapVars
  BY <1>1 DEF MapInv, mapVars, Indexed, WordsOf, WordAt, LengthOf, NoResidue, HasKey, ContainsWord
<1>2. ASSUME NEW key \in ValuesOf(mapType[1]), NEW value \in ValuesOf(mapType[2]),
             PutInMap(key, value)
      PROVE  /\ MapInv'
             /\ mapResult' = (key \notin WordsOf(map.keys))
             /\ WordsOf(map.keys)' = WordsOf(map.keys) \cup {key}
             /\ map.values' = [map.values EXCEPT ![key] = value]
  <2>1. /\ key \in Word /\ KeyWord(key) = key
        /\ value \in Word /\ ToBytes32(mapType[2], value) = value
    BY <1>t, RoundTrip DEF KeyWord
  <2>2. /\ map' = PutWord(map, key, value) /\ mapResult' = ~ContainsWord(map.keys, key)
        /\ mapType' = mapType
    BY <1>2, <2>1 DEF PutInMap, HasKey
  <2>3. map'.keys = AddWord(map.keys, key) /\ map'.values = [map.values EXCEPT ![key] = value]
    BY <2>2 DEF PutWord
  <2>4. Indexed(map'.keys) BY <1>0, <2>1, <2>3, AddIndexed
  <2>5. \A v \in Word : ContainsWord(map'.keys, v) <=> (v = key \/ ContainsWord(map.keys, v))
    BY <1>0, <2>1, <2>3, AddIndexed
  <2>6. WordsOf(map'.keys) = WordsOf(map.keys) \cup {key}
    BY <1>0, <2>1, <2>4, <2>5, ContainsEnumerated, EnumeratedWords
  <2>7. mapResult' = (key \notin WordsOf(map.keys))
    <3>1. ContainsWord(map.keys, key) <=> key \in WordsOf(map.keys)
      BY <1>0, <2>1, ContainsEnumerated
    <3>2. mapResult' = ~(map.keys.indexes[key] # 0) BY <2>2 DEF ContainsWord
    <3> QED BY <3>1, <3>2 DEF ContainsWord
  <2>8. WordsOf(map.keys)' = WordsOf(map'.keys) /\ (Indexed(map.keys)' <=> Indexed(map'.keys))
    BY DEF WordsOf, WordAt, LengthOf, Indexed
  <2>9. \A w \in Word : map'.values[w] = IF w = key THEN value ELSE map.values[w]
    BY <1>0, <2>3
  <2>10. map' \in MapStorage
    BY <1>0, <2>1, <2>2, <2>3, <2>4 DEF PutWord, MapStorage, Indexed
  <2>11. NoResidue'
    <3>1. \A w \in Word : map.values[w] # 0 => ContainsWord(map.keys, w)
      BY DEF MapInv, NoResidue, HasKey
    <3>2. \A w \in Word : map'.values[w] # 0 => ContainsWord(map'.keys, w)
      BY <3>1, <2>5, <2>9
    <3> QED BY <3>2 DEF NoResidue, HasKey, ContainsWord
  <2>12. mapResult' \in BOOLEAN BY <2>7
  <2>13. \A w \in Word : map'.values[w] \in ValuesOf(mapType[2])
    BY <2>9 DEF MapInv
  <2>14. WordsOf(map'.keys) \subseteq ValuesOf(mapType[1]) BY <2>6 DEF MapInv
  <2>15. MapInv'
    BY <1>0, <2>2, <2>4, <2>8, <2>10, <2>11, <2>12, <2>13, <2>14 DEF MapInv
  <2> QED BY <2>3, <2>6, <2>7, <2>8, <2>15
<1>3. ASSUME NEW key \in ValuesOf(mapType[1]), RemoveFromMap(key)
      PROVE  /\ MapInv'
             /\ mapResult' = (key \in WordsOf(map.keys))
             /\ WordsOf(map.keys)' = WordsOf(map.keys) \ {key}
             /\ map.values' = [map.values EXCEPT ![key] = 0]
  <2>1. key \in Word /\ KeyWord(key) = key /\ 0 \in Word
    BY <1>t, RoundTrip DEF KeyWord
  <2>2. /\ map' = DropWord(map, key) /\ mapResult' = ContainsWord(map.keys, key)
        /\ mapType' = mapType
    BY <1>3, <2>1 DEF RemoveFromMap, HasKey
  <2>3. map'.keys = RemoveWord(map.keys, key) /\ map'.values = [map.values EXCEPT ![key] = 0]
    BY <2>2 DEF DropWord
  <2>4. Indexed(map'.keys) BY <1>0, <2>1, <2>3, RemoveIndexed
  <2>5. \A v \in Word : ContainsWord(map'.keys, v) <=> (v # key /\ ContainsWord(map.keys, v))
    BY <1>0, <2>1, <2>3, RemoveIndexed
  <2>6. WordsOf(map'.keys) = WordsOf(map.keys) \ {key}
    BY <1>0, <2>1, <2>4, <2>5, ContainsEnumerated, EnumeratedWords
  <2>7. mapResult' = (key \in WordsOf(map.keys))
    <3>1. ContainsWord(map.keys, key) <=> key \in WordsOf(map.keys)
      BY <1>0, <2>1, ContainsEnumerated
    <3>2. mapResult' = (map.keys.indexes[key] # 0) BY <2>2 DEF ContainsWord
    <3> QED BY <3>1, <3>2 DEF ContainsWord
  <2>8. WordsOf(map.keys)' = WordsOf(map'.keys) /\ (Indexed(map.keys)' <=> Indexed(map'.keys))
    BY DEF WordsOf, WordAt, LengthOf, Indexed
  <2>9. \A w \in Word : map'.values[w] = IF w = key THEN 0 ELSE map.values[w]
    BY <1>0, <2>3
  <2>10. map' \in MapStorage
    BY <1>0, <2>1, <2>2, <2>3, <2>4 DEF DropWord, MapStorage, Indexed
  <2>11. NoResidue'
    <3>1. \A w \in Word : map.values[w] # 0 => ContainsWord(map.keys, w)
      BY DEF MapInv, NoResidue, HasKey
    <3>2. \A w \in Word : map'.values[w] # 0 => ContainsWord(map'.keys, w)
      BY <3>1, <2>5, <2>9
    <3> QED BY <3>2 DEF NoResidue, HasKey, ContainsWord
  <2>12. mapResult' \in BOOLEAN BY <2>7
  <2>13. \A w \in Word : map'.values[w] \in ValuesOf(mapType[2])
    BY <1>t, <2>9 DEF MapInv
  <2>14. WordsOf(map'.keys) \subseteq ValuesOf(mapType[1]) BY <2>6 DEF MapInv
  <2>15. MapInv'
    BY <1>0, <2>2, <2>4, <2>8, <2>10, <2>11, <2>12, <2>13, <2>14 DEF MapInv
  <2> QED BY <2>3, <2>6, <2>7, <2>8, <2>15
<1> QED BY <1>1, <1>2, <1>3 DEF MapNext

\* Every state of a map contract satisfies the inductive invariant.
THEOREM MapInvariant == MapSpec => []MapInv
<1>1. MapInit => MapInv BY MapInvInit
<1>2. MapInv /\ [MapNext]_mapVars => MapInv' BY MapStep
<1> QED BY <1>1, <1>2, PTL DEF MapSpec

\* The storage of a map stays well typed, with indexes that fit the array.
THEOREM MapTypeCorrect == MapSpec => []MapTypeOK
<1>1. MapInv => MapTypeOK BY LengthBound DEF MapInv, MapTypeOK
<1> QED BY <1>1, MapInvariant, PTL

\* No value survives its key.
THEOREM NothingLeftBehind == MapSpec => []NoResidue
<1>1. MapInv => NoResidue BY DEF MapInv
<1> QED BY <1>1, MapInvariant, PTL

\* The enumeration shows every key once, with its value.
LEMMA EnumeratedEntries ==
  ASSUME MapInv
  PROVE  /\ MapKeys = WordsOf(map.keys)
         /\ MapEntries = [key \in WordsOf(map.keys) |-> map.values[key]]
         /\ Cardinality(MapKeys) = MapLength
<1> DEFINE n == Len(map.keys.values)
<1>1. /\ Indexed(map.keys) /\ n \in Nat /\ MapLength = n
      /\ mapType[1] \in Types /\ mapType[2] \in Types
  BY MapTypesAreTypes DEF MapInv, Indexed, SetStorage, MapLength, LengthOf
<1>2. ASSUME NEW i \in 0 .. n - 1
      PROVE  /\ WordAt(map.keys, i) \in WordsOf(map.keys)
             /\ MapAt(i) = <<WordAt(map.keys, i), map.values[WordAt(map.keys, i)]>>
  <2>1. WordAt(map.keys, i) \in WordsOf(map.keys) BY DEF WordsOf, LengthOf
  <2>2. WordAt(map.keys, i) \in ValuesOf(mapType[1]) BY <2>1 DEF MapInv
  <2>3. map.values[WordAt(map.keys, i)] \in ValuesOf(mapType[2])
    BY <2>1, <1>1, EnumeratedWords DEF MapInv
  <2> QED BY <2>1, <2>2, <2>3, <1>1, RoundTrip DEF MapAt, EntryAt
<1>3. MapKeys = WordsOf(map.keys)
  BY <1>1, <1>2 DEF MapKeys, WordsOf, LengthOf
<1>4. ASSUME NEW key \in MapKeys PROVE MapEntries[key] = map.values[key]
  <2> DEFINE shown == {MapAt(i) : i \in 0 .. MapLength - 1}
             entry == CHOOSE e \in shown : e[1] = key
  <2>1. \E e \in shown : e[1] = key BY DEF MapKeys
  <2>2. entry \in shown /\ entry[1] = key BY <2>1
  <2>3. PICK i \in 0 .. n - 1 : entry = MapAt(i) BY <2>2, <1>1
  <2>4. entry[2] = map.values[key]
    <3> HIDE DEF entry
    <3>1. entry = <<WordAt(map.keys, i), map.values[WordAt(map.keys, i)]>> BY <2>3, <1>2
    <3>2. WordAt(map.keys, i) = key BY <3>1, <2>2
    <3> QED BY <3>1, <3>2
  <2> QED BY <2>4 DEF MapEntries
<1>5. MapEntries = [key \in WordsOf(map.keys) |-> map.values[key]]
  BY <1>3, <1>4 DEF MapEntries
<1>6. Cardinality(MapKeys) = n
  <2> DEFINE f == [i \in 1 .. n |-> map.keys.values[i]]
  <2>1. \A w \in WordsOf(map.keys) : \E i \in 1 .. n : f[i] = w
    <3> SUFFICES ASSUME NEW w \in WordsOf(map.keys) PROVE \E i \in 1 .. n : f[i] = w
      OBVIOUS
    <3>1. PICK j \in 0 .. n - 1 : w = map.keys.values[j + 1]
      BY DEF WordsOf, WordAt, LengthOf
    <3> QED BY <3>1, <1>1
  <2>2. \A i \in 1 .. n : f[i] \in WordsOf(map.keys)
    <3> SUFFICES ASSUME NEW i \in 1 .. n PROVE f[i] \in WordsOf(map.keys) OBVIOUS
    <3>1. i - 1 \in 0 .. n - 1 /\ f[i] = WordAt(map.keys, i - 1) BY <1>1 DEF WordAt
    <3> QED BY <3>1 DEF WordsOf, LengthOf
  <2>3. \A i, j \in 1 .. n : f[i] = f[j] => i = j BY <1>1 DEF Indexed
  <2>4. f \in Bijection(1 .. n, WordsOf(map.keys))
    BY <2>1, <2>2, <2>3 DEF Bijection, Injection, Surjection, IsInjective
  <2>5. IsFiniteSet(1 .. n) /\ Cardinality(1 .. n) = n BY <1>1, FS_Interval
  <2> HIDE DEF f
  <2>6. Cardinality(WordsOf(map.keys)) = n
    BY <2>4, <2>5, FS_Bijection DEF ExistsBijection
  <2> QED BY <2>6, <1>3
<1> QED BY <1>1, <1>3, <1>5, <1>6

\* Looking keys up and enumerating them never disagree.
THEOREM LookupsAlwaysAgree == MapSpec => []LookupsAgree
<1>1. MapInv => LookupsAgree
  <2> SUFFICES ASSUME MapInv PROVE LookupsAgree OBVIOUS
  <2>1. /\ Indexed(map.keys) /\ MapKeys = WordsOf(map.keys)
        /\ mapType[1] \in Types /\ mapType[2] \in Types /\ 0 \in ValuesOf(mapType[2])
    BY EnumeratedEntries, MapTypesAreTypes DEF MapInv
  <2>2. ASSUME NEW key \in ValuesOf(mapType[1])
        PROVE  IF key \in MapKeys
               THEN /\ MapContains(key)
                    /\ MapTryGet(key) = <<TRUE, MapEntries[key]>>
                    /\ MapGet(key) = {MapEntries[key]}
               ELSE /\ ~MapContains(key)
                    /\ MapTryGet(key) = <<FALSE, 0>>
                    /\ MapGet(key) = {}
    <3> DEFINE value == map.values[key]
    <3>1. key \in Word /\ KeyWord(key) = key BY <2>1, RoundTrip DEF KeyWord
    <3>2. MapContains(key) <=> key \in MapKeys
      BY <3>1, <2>1, ContainsEnumerated DEF MapContains, HasKey
    <3>3. value \in ValuesOf(mapType[2]) /\ FromBytes32(mapType[2], value) = value
          /\ FromBytes32(mapType[2], 0) = 0
      BY <3>1, <2>1, RoundTrip DEF MapInv
    <3>4. value # 0 => HasKey(map, key) BY <3>1 DEF MapInv, NoResidue
    <3>5. MapContains(key) <=> HasKey(map, key) BY <3>1 DEF MapContains
    <3>6. CASE key \in MapKeys
      <4>1. HasKey(map, key) = TRUE BY <3>2, <3>5, <3>6 DEF HasKey, ContainsWord
      <4>2. MapEntries[key] = value BY <3>6, <2>1, EnumeratedEntries
      <4>3. TryGetWord(map, key) = <<TRUE, value>> BY <4>1 DEF TryGetWord
      <4>4. GetWord(map, key) = {value} BY <4>1 DEF GetWord
      <4> HIDE DEF value
      <4>5. MapTryGet(key) = <<TRUE, value>>
        <5>1. MapTryGet(key) = <<<<TRUE, value>>[1], FromBytes32(mapType[2], <<TRUE, value>>[2])>>
          BY <4>3, <3>1, Zenon DEF MapTryGet
        <5>2. <<TRUE, value>>[1] = TRUE /\ <<TRUE, value>>[2] = value OBVIOUS
        <5> QED BY <5>1, <5>2, <3>3, Zenon
      <4>6. MapGet(key) = {value} BY <4>4, <3>1, <3>3 DEF MapGet
      <4> QED BY <3>2, <3>6, <4>2, <4>5, <4>6
    <3>7. CASE key \notin MapKeys
      <4>1. HasKey(map, key) = FALSE BY <3>2, <3>5, <3>7 DEF HasKey, ContainsWord
      <4>2. value = 0 BY <3>4, <4>1
      <4>3. TryGetWord(map, key) = <<FALSE, 0>> BY <4>1, <4>2 DEF TryGetWord
      <4>4. GetWord(map, key) = {} BY <4>1, <4>2 DEF GetWord
      <4>5. MapTryGet(key) = <<FALSE, 0>>
        <5>1. MapTryGet(key) = <<<<FALSE, 0>>[1], FromBytes32(mapType[2], <<FALSE, 0>>[2])>>
          BY <4>3, <3>1, Zenon DEF MapTryGet
        <5>2. <<FALSE, 0>>[1] = FALSE /\ <<FALSE, 0>>[2] = 0 OBVIOUS
        <5> QED BY <5>1, <5>2, <3>3, Zenon
      <4>6. MapGet(key) = {} BY <4>4, <3>1 DEF MapGet
      <4> QED BY <3>2, <3>7, <4>5, <4>6
    <3> QED BY <3>6, <3>7
  <2> QED BY <2>2, EnumeratedEntries DEF LookupsAgree
<1> QED BY <1>1, MapInvariant, PTL

\* The enumerable map implements the function from keys to values.
THEOREM MapImplemented == MapSpec => MapRefined
<1>1. MapInv => MapEntries = [key \in WordsOf(map.keys) |-> map.values[key]]
  BY EnumeratedEntries
<1>2. MapInit => MapAbstract!Init
  BY <1>1, MapInvInit, EmptyIndexed DEF MapInit, EmptyMap, MapAbstract!Init
<1>3. MapInv /\ MapInv' /\ [MapNext]_mapVars => [MapAbstract!Next]_<<MapEntries, mapResult>>
  <2> SUFFICES ASSUME MapInv, MapInv', [MapNext]_mapVars
               PROVE  [MapAbstract!Next]_<<MapEntries, mapResult>>
    OBVIOUS
  <2>1. /\ MapEntries = [key \in WordsOf(map.keys) |-> map.values[key]]
        /\ MapEntries' = [key \in WordsOf(map.keys)' |-> (map.values')[key]]
    <3>1. (MapEntries = [key \in WordsOf(map.keys) |-> map.values[key]])' BY <1>1, PTL
    <3> QED BY <1>1, <3>1
  <2>2. /\ ValuesOf(mapType[1]) \subseteq Word /\ ValuesOf(mapType[2]) \subseteq Word
        /\ map.values \in [Word -> Word]
    BY MapTypesAreTypes DEF MapInv, MapStorage
  <2>3. CASE UNCHANGED mapVars
    BY <2>1, <2>3 DEF mapVars, WordsOf, WordAt, LengthOf
  <2>4. ASSUME NEW key \in ValuesOf(mapType[1]), NEW value \in ValuesOf(mapType[2]),
               mapResult' = (key \notin WordsOf(map.keys)),
               WordsOf(map.keys)' = WordsOf(map.keys) \cup {key},
               map.values' = [map.values EXCEPT ![key] = value]
        PROVE  MapAbstract!Next
    <3>1. /\ DOMAIN MapEntries = WordsOf(map.keys) /\ WordsOf(map.keys) \subseteq Word
          /\ key \in Word /\ value \in Word
      BY <2>1, <2>2, EnumeratedWords DEF MapInv
    <3>2. MapEntries' = [k \in DOMAIN MapEntries \cup {key} |->
                            IF k = key THEN value ELSE MapEntries[k]]
      BY <2>1, <2>2, <2>4, <3>1
    <3>3. MapAbstract!Set(key, value) BY <3>1, <3>2, <2>4 DEF MapAbstract!Set
    <3> QED BY <3>1, <3>3 DEF MapAbstract!Next
  <2>5. ASSUME NEW key \in ValuesOf(mapType[1]),
               mapResult' = (key \in WordsOf(map.keys)),
               WordsOf(map.keys)' = WordsOf(map.keys) \ {key},
               map.values' = [map.values EXCEPT ![key] = 0]
        PROVE  MapAbstract!Next
    <3>1. /\ DOMAIN MapEntries = WordsOf(map.keys) /\ WordsOf(map.keys) \subseteq Word
          /\ key \in Word
      BY <2>1, <2>2, EnumeratedWords DEF MapInv
    <3>2. MapEntries' = [k \in DOMAIN MapEntries \ {key} |-> MapEntries[k]]
      BY <2>1, <2>2, <2>5, <3>1
    <3>3. MapAbstract!Remove(key) BY <3>1, <3>2, <2>5 DEF MapAbstract!Remove
    <3> QED BY <3>1, <3>3 DEF MapAbstract!Next
  <2> QED BY <2>3, <2>4, <2>5, MapStep
<1> QED BY <1>2, <1>3, MapInvariant, PTL DEF MapSpec, MapRefined, MapAbstract!Spec
=============================================================================
