------------------------------- MODULE CTypes -------------------------------
(***************************************************************************)
(* The integer types of the build, with their widths as constants: int,    *)
(* long and their unsigned versions, in two's complement.                  *)
(***************************************************************************)
EXTENDS Integers

CONSTANTS
  IntMax,      \* INT_MAX
  LongMod      \* 2^64, the modulus of unsigned long

\* A long is no narrower than an int.
ASSUME WidthAssumption ==
  /\ {IntMax, LongMod} \subseteq Nat \ {0}
  /\ 2 * (IntMax + 1) <= LongMod

MinOf(a, b) == IF a < b THEN a ELSE b
MaxOf(a, b) == IF a > b THEN a ELSE b

\* A value kept in an int.
AsInt(x) == ((x + IntMax + 1) % (2 * (IntMax + 1))) - (IntMax + 1)

\* (unsigned long) of a long.
AsUnsigned(x) == IF x < 0 THEN x % LongMod ELSE x

\* atoi of the decimal text of x: strtol stops at the bounds of a long, and the
\* result is cut to an int.
AtoI(x) == AsInt(MaxOf(-(LongMod \div 2), MinOf(x, LongMod \div 2 - 1)))
=============================================================================
