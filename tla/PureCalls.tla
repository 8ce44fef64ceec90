------------------------------ MODULE PureCalls ------------------------------
(***************************************************************************)
(* Calls of the pure functions the checkpoints rest on, with any argument  *)
(* their Solidity types allow: the casts, as the contract of               *)
(* templates/SafeCastMock.js calls them, and Math.sqrt, as MathMock does.  *)
(* They keep no storage; the state is the last call and what came of it.   *)
(***************************************************************************)
EXTENDS Checkpoints

VARIABLES call,       \* the function, the length it casts to, the argument
          returned    \* the value it returned, or none if it reverted

pureVars == <<call, returned>>

Called(function, bits, argument, result) ==
    /\ call' = [function |-> function, bits |-> bits, argument |-> argument]
    /\ returned' = result

CallInit ==
    /\ call = [function |-> "toUint", bits |-> WordBits, argument |-> 0]
    /\ returned = {0}

\* toUint<length>(uint256), toInt256(uint256) and sqrt(uint256)
UnsignedCall ==
    \E a \in 0 .. UintMax(WordBits) :
        \/ \E bits \in 1 .. WordBits - 1 : Called("toUint", bits, a, ToUintDown(bits, a))
        \/ Called("toInt", WordBits, a, ToInt(a))
        \/ Called("sqrt", WordBits, a, {Sqrt(a)})

\* toInt<length>(int256) and toUint256(int256)
SignedCall ==
    \E a \in IntMin(WordBits) .. IntMax(WordBits) :
        \/ \E bits \in 1 .. WordBits - 1 : Called("toInt", bits, a, ToIntDown(bits, a))
        \/ Called("toUint", WordBits, a, ToUint(a))

CallNext == UnsignedCall \/ SignedCall

CallSpec == CallInit /\ [][CallNext]_pureVars

-----------------------------------------------------------------------------

\* A cast returns its argument unchanged if the target type has it, and
\* reverts otherwise: toInt<length>, which compares the truncated number
\* with the argument instead of its bounds, is right for every length and
\* sign.
CastsExact ==
    LET target == IF call.function = "toUint"
                  THEN 0 .. UintMax(call.bits)
                  ELSE IntMin(call.bits) .. IntMax(call.bits)
    IN  call.function # "sqrt" => returned = {call.argument} \cap target

\* Seven Newton iterations and a minimum give the square root rounded down:
\* the shortcut for recent blocks subtracts it from the length of a list
\* and would start at a wrong position, or outside the list, otherwise.
SqrtRoundsDown ==
    call.function = "sqrt" =>
        \A root \in returned :
            root * root <= call.argument /\ call.argument < (root + 1) * (root + 1)
=============================================================================
