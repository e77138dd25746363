-------------------------------- MODULE CInt --------------------------------
(* C's int32 division and remainder, which truncate toward zero (TLA+'s    *)
(* \div and % round toward minus infinity), and the int32 limits.  TLC's   *)
(* own integers are 32-bit, so no operator here computes past them.        *)
EXTENDS Integers

MaxInt32 == 2147483647
MinInt32 == -MaxInt32 - 1

CDiv(a, b) == IF a >= 0 \/ a % b = 0 THEN a \div b ELSE (a \div b) + 1

CMod(a, b) == a - b * CDiv(a, b)

\* -x in int32: undefined for INT32_MIN; the target compilers wrap it to itself.
Negate32(x) == IF x = MinInt32 THEN MinInt32 ELSE -x
=============================================================================
