----------------------------- MODULE Conversion -----------------------------
(***************************************************************************)
(* The conversions through which the generated collections of OpenZeppelin *)
(* keep addresses and integers in words of 32 bytes                        *)
(* (scripts/generate/templates/conversion.js).                             *)
(***************************************************************************)
EXTENDS Integers

CONSTANTS Words,      \* how many words there are, 2^256
          Addresses   \* how many addresses there are, 2^160

ASSUME WidthAssumption == Words \in Nat /\ Addresses \in 1..Words

Word == 0 .. Words - 1

Types == {"bytes32", "uint256", "address"}

\* The values a Solidity variable of the type holds.
ValuesOf(type) == 0 .. (IF type = "address" THEN Addresses ELSE Words) - 1

\* bytes32(uint256(uint160(value))) for an address, which leaves the high
\* bits zero; bytes32(value) for an integer.
ToBytes32(type, value) ==
    IF type = "address" THEN value % Addresses ELSE value % Words

\* address(uint160(uint256(word))), which drops the high bits; or the word.
FromBytes32(type, word) ==
    IF type = "address" THEN word % Addresses ELSE word % Words
=============================================================================
