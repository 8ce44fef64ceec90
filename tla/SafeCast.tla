------------------------------ MODULE SafeCast ------------------------------
(***************************************************************************)
(* The checked casts of templates/SafeCast.js.  A call is the set of the   *)
(* values it may return: one value, or none if it reverts.                 *)
(***************************************************************************)
EXTENDS Integers

CONSTANT WordBits     \* the width of uint256 and int256

UintMax(bits) == 2^bits - 1
IntMax(bits)  == 2^(bits - 1) - 1
IntMin(bits)  == -(2^(bits - 1))

\* uint<bits>(v) keeps the low bits.
Uint(bits, v) == IF v \in 0 .. UintMax(bits) THEN v ELSE v % 2^bits

\* int<bits>(v) reads the low bits as two's complement.
Signed(bits, v) ==
    LET low == v % 2^bits IN IF low > IntMax(bits) THEN low - 2^bits ELSE low

\* toUint<bits>(uint256)
ToUintDown(bits, v) == IF v <= UintMax(bits) THEN {Uint(bits, v)} ELSE {}

MutantToIntDown(bits, v) == {Signed(bits, v)}     \* the requirement is left out

\* toInt<bits>(int256)
ToIntDown(bits, v) ==
    LET downcasted == Signed(bits, v) IN IF downcasted = v THEN {downcasted} ELSE {}

\* toInt256(uint256)
ToInt(v) == IF v <= IntMax(WordBits) THEN {Signed(WordBits, v)} ELSE {}

\* toUint256(int256)
ToUint(v) == IF v >= 0 THEN {Uint(WordBits, v)} ELSE {}
=============================================================================
