----------------------------- MODULE Checkpoints -----------------------------
(***************************************************************************)
(* A list of checkpoints, ordered by key, and what each function of        *)
(* templates/Checkpoints.js makes of it.  Positions are Solidity's, from   *)
(* 0; a list is a sequence, from 1.                                        *)
(***************************************************************************)
EXTENDS SafeCast, Sequences

\* struct Checkpoint<size>: uint<256 - size> key, uint<size> value.
KeyBits(size) == WordBits - size

CheckpointOf(size) == [key   : 0 .. UintMax(KeyBits(size)),
                       value : 0 .. UintMax(size)]

\* _unsafeAccess checks no bounds: a position outside the list would read
\* some other storage.
Access(ckpts, pos) == ckpts[pos + 1]

\* latest
Latest(ckpts) == IF ckpts = << >> THEN 0 ELSE Access(ckpts, Len(ckpts) - 1).value

\* latestCheckpoint
LatestCheckpoint(ckpts) ==
    IF ckpts = << >>
    THEN <<FALSE, 0, 0>>
    ELSE LET ckpt == Access(ckpts, Len(ckpts) - 1) IN <<TRUE, ckpt.key, ckpt.value>>

\* The requirement of _insert.
MayInsert(ckpts, key) == ckpts # << >> => Access(ckpts, Len(ckpts) - 1).key <= key

MutantInserted(ckpts, key, value) == Append(ckpts, [key |-> key, value |-> value])

MutantInsertedOver(ckpts, key, value) ==
    IF ckpts # << >> /\ Access(ckpts, Len(ckpts) - 1).key <= key
    THEN [ckpts EXCEPT ![Len(ckpts)].value = value]
    ELSE Append(ckpts, [key |-> key, value |-> value])

\* _insert overwrites the last checkpoint if it has the same key.
Inserted(ckpts, key, value) ==
    IF ckpts # << >> /\ Access(ckpts, Len(ckpts) - 1).key = key
    THEN [ckpts EXCEPT ![Len(ckpts)].value = value]
    ELSE Append(ckpts, [key |-> key, value |-> value])

\* The bounds low and high of a binary search.
Windows(ckpts) == (0 .. Len(ckpts)) \X (0 .. Len(ckpts))

\* _upperBinaryLookup
UpperSearch(ckpts, key, from, to) ==
    LET search[w \in Windows(ckpts)] ==
            LET mid == (w[1] + w[2]) \div 2
            IN  IF w[1] >= w[2]
                THEN w[2]
                ELSE IF Access(ckpts, mid).key > key
                     THEN search[<<w[1], mid>>]
                     ELSE search[<<mid + 1, w[2]>>]
    IN  search[<<from, to>>]

\* _lowerBinaryLookup
LowerSearch(ckpts, key, from, to) ==
    LET search[w \in Windows(ckpts)] ==
            LET mid == (w[1] + w[2]) \div 2
            IN  IF w[1] >= w[2]
                THEN w[2]
                ELSE IF Access(ckpts, mid).key < key
                     THEN search[<<mid + 1, w[2]>>]
                     ELSE search[<<w[1], mid>>]
    IN  search[<<from, to>>]

\* The value before a position, or zero.
ValueBefore(ckpts, pos) == IF pos = 0 THEN 0 ELSE Access(ckpts, pos - 1).value

\* upperLookup
UpperLookup(ckpts, key) ==
    ValueBefore(ckpts, UpperSearch(ckpts, key, 0, Len(ckpts)))

\* lowerLookup
LowerLookup(ckpts, key) ==
    LET pos == LowerSearch(ckpts, key, 0, Len(ckpts))
    IN  IF pos = Len(ckpts) THEN 0 ELSE Access(ckpts, pos).value

\* value >> places: nothing is left of a word shifted by its width or more.
ShiftRight(value, places) ==
    IF places < WordBits THEN value \div 2^places ELSE 0

\* One step of Math.log2: if there are bits above the lowest places, only
\* these are kept, and places are counted.
Narrowed(s, places) ==
    LET high == ShiftRight(s.value, places)
    IN  IF high > 0 THEN [value |-> high, result |-> s.result + places] ELSE s

\* Math.log2: eight steps, from half a word of 256 bits down to one bit.
Log2(v) ==
    LET s128 == Narrowed([value |-> v, result |-> 0], 128)
        s64 == Narrowed(s128, 64)
        s32 == Narrowed(s64, 32)
        s16 == Narrowed(s32, 16)
        s8 == Narrowed(s16, 8)
        s4 == Narrowed(s8, 4)
        s2 == Narrowed(s4, 2)
    IN  Narrowed(s2, 1).result

\* One Newton iteration towards the square root of a.
Improved(a, estimate) == (estimate + a \div estimate) \div 2

MutantSqrt(a) ==
    LET first == 2^(Log2(a) \div 2)
        estimate[i \in 0 .. 7] == IF i = 0 THEN first ELSE Improved(a, estimate[i - 1])
    IN  IF a = 0 THEN 0 ELSE estimate[7]

\* Math.sqrt: seven Newton iterations from a power of two.
Sqrt(a) ==
    LET first == 2^(Log2(a) \div 2)
        estimate[i \in 0 .. 7] == IF i = 0 THEN first ELSE Improved(a, estimate[i - 1])
        last == estimate[7]
        other == a \div last
    IN  IF a = 0 THEN 0 ELSE IF last < other THEN last ELSE other

MutantRecentLookup(ckpts, key) ==
    LET length == Len(ckpts)
        mid == length - Sqrt(length)
    IN  ValueBefore(ckpts,
            IF length <= 5 THEN UpperSearch(ckpts, key, 0, length)
            ELSE IF key <= Access(ckpts, mid).key
                 THEN UpperSearch(ckpts, key, 0, mid)
                 ELSE UpperSearch(ckpts, key, mid + 1, length))

\* getAtProbablyRecentBlock looks among the last sqrt(length) checkpoints
\* first, if there are more than five.
RecentLookup(ckpts, key) ==
    LET length == Len(ckpts)
        mid == length - Sqrt(length)
    IN  ValueBefore(ckpts,
            IF length <= 5 THEN UpperSearch(ckpts, key, 0, length)
            ELSE IF key < Access(ckpts, mid).key
                 THEN UpperSearch(ckpts, key, 0, mid)
                 ELSE UpperSearch(ckpts, key, mid + 1, length))
=============================================================================
