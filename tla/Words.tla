--------------------------------- MODULE Words ---------------------------------
(* The int64 of Go: gas is counted in one, and the numbers of a script, which  *)
(* are as long as they need be, become one wherever an index, a length or a    *)
(* price is made of them.                                                      *)
EXTENDS Integers

CONSTANT MaxInt64       \* 2^63 - 1

ASSUME MaxInt64Assumption == MaxInt64 \in Nat

Words == (-MaxInt64 - 1)..MaxInt64

\* What an int64 keeps of n: Int64 of math/big, and every sum and product.
Int64(n) == ((n + (MaxInt64 + 1)) % (2 * (MaxInt64 + 1))) - (MaxInt64 + 1)
================================================================================
