--------------------------- MODULE CxxArithmetic ---------------------------
(* Integer operations as C++ defines them, for RiskEngine, FundingEngine and *)
(* ConfigLoader.                                                           *)
EXTENDS Integers

Abs(x) == IF x < 0 THEN -x ELSE x

Smaller(x, y) == IF x <= y THEN x ELSE y

Larger(x, y) == IF x >= y THEN x ELSE y

\* Division: towards zero.
Quotient(x, y) == IF x >= 0 THEN x \div y ELSE -((-x) \div y)

\* Conversion to an unsigned integer of so many bits, and to a signed one.
ToUnsigned(x, bits) == x % (2 ^ bits)
ToSigned(x, bits) == ((x + (2 ^ (bits - 1))) % (2 ^ bits)) - (2 ^ (bits - 1))
=============================================================================
