-------------------------- MODULE EnumerableMapMock --------------------------
(***************************************************************************)
(* A contract that keeps one typed enumerable map and exposes its          *)
(* functions: the wrappers of templates/EnumerableMap.js around the        *)
(* generic map, called as the contracts of templates/EnumerableMapMock.js  *)
(* call them.  One transaction is one action.                              *)
(***************************************************************************)
EXTENDS EnumerableMap, FiniteSets

VARIABLES mapType,     \* the types the contract was generated for
          map,         \* its storage
          mapResult    \* the result the last transaction emitted

mapVars == <<mapType, map, mapResult>>

\* The key and the value type of the five maps.
MapTypes == {<<"uint256", "address">>, <<"address", "uint256">>,
             <<"bytes32", "bytes32">>, <<"uint256", "uint256">>,
             <<"bytes32", "uint256">>}

MapInit ==
    /\ mapType \in MapTypes
    /\ map = EmptyMap
    /\ mapResult = FALSE

KeyWord(key) == ToBytes32(mapType[1], key)

PutInMap(key, value) ==
    /\ map' = PutWord(map, KeyWord(key), ToBytes32(mapType[2], value))
    /\ mapResult' = ~HasKey(map, KeyWord(key))
    /\ UNCHANGED mapType

RemoveFromMap(key) ==
    /\ map' = DropWord(map, KeyWord(key))
    /\ mapResult' = HasKey(map, KeyWord(key))
    /\ UNCHANGED mapType

MapNext ==
    \E key \in ValuesOf(mapType[1]) :
        \/ \E value \in ValuesOf(mapType[2]) : PutInMap(key, value)
        \/ RemoveFromMap(key)

MapSpec == MapInit /\ [][MapNext]_mapVars

MapContains(key) == HasKey(map, KeyWord(key))

MapLength == LengthOf(map.keys)

MapAt(index) ==
    LET entry == EntryAt(map, index)
    IN  <<FromBytes32(mapType[1], entry[1]), FromBytes32(mapType[2], entry[2])>>

MapTryGet(key) ==
    LET found == TryGetWord(map, KeyWord(key))
    IN  <<found[1], FromBytes32(mapType[2], found[2])>>

\* get, with or without a message of its own: nothing if the call reverts.
MapGet(key) == {FromBytes32(mapType[2], w) : w \in GetWord(map, KeyWord(key))}

-----------------------------------------------------------------------------

\* The map as its enumeration shows it.
MapKeys == {MapAt(index)[1] : index \in 0 .. MapLength - 1}

MapEntries ==
    [key \in MapKeys |->
        (CHOOSE entry \in {MapAt(i) : i \in 0 .. MapLength - 1} : entry[1] = key)[2]]

\* The storage holds words and positions, and positions fit the array.
MapTypeOK ==
    /\ mapType \in MapTypes
    /\ map \in MapStorage
    /\ \A w \in Word : map.keys.indexes[w] \in 0 .. Words
    /\ mapResult \in BOOLEAN

\* A word that is no key reads as zero in the mapping: a removed value does
\* not come back, and the shortcut of tryGet and get, which ask for the key
\* only if the value is zero, never reports a key that is gone.
NoResidue == \A w \in Word : map.values[w] # 0 => HasKey(map, w)

\* Looking up agrees with enumerating, for present and absent keys and for
\* the value zero: contains, length, tryGet and get say of each key what
\* the entries at 0 .. length - 1 show.
LookupsAgree ==
    /\ Cardinality(MapKeys) = MapLength
    /\ \A key \in ValuesOf(mapType[1]) :
           IF key \in MapKeys
           THEN /\ MapContains(key)
                /\ MapTryGet(key) = <<TRUE, MapEntries[key]>>
                /\ MapGet(key) = {MapEntries[key]}
           ELSE /\ ~MapContains(key)
                /\ MapTryGet(key) = <<FALSE, 0>>
                /\ MapGet(key) = {}

MapAbstract ==
    INSTANCE AbstractMap
        WITH Element <- Word, entries <- MapEntries, changed <- mapResult

\* The enumerated entries are the function the calls build, and every call
\* reports whether it changed the set of keys.
MapRefined == MapAbstract!Spec
=============================================================================
