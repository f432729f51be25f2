-------------------------------- MODULE Words --------------------------------
(***************************************************************************)
(* Machine words.  A word of n bits is a number of 0 .. 2^n - 1, read as   *)
(* it is or in two's complement.                                           *)
(***************************************************************************)
EXTENDS Integers, Sequences

Word(n) == 0 .. 2 ^ n - 1

\* extract<hi, lo>: bits hi to lo of the word v.
Extract(v, hi, lo) == (v \div 2 ^ lo) % 2 ^ (hi - lo + 1)
Bit(v, i) == (v \div 2 ^ i) % 2

\* signExtend<hi>: the number whose highest bit is bit hi of v.
SignExtend(v, hi) == IF Bit(v, hi) = 1 THEN v - 2 ^ (hi + 1) ELSE v

\* The casts between the signed and the unsigned type of n bits.
Signed(v, n) == IF v >= 2 ^ (n - 1) THEN v - 2 ^ n ELSE v
Unsigned(v, n) == v % 2 ^ n

\* A truth value as a word.
Truth(b) == IF b THEN 1 ELSE 0

\* The word whose bit i is F of the bits i of a and b.
Bitwise2(F(_, _), a, b, n) ==
  LET upto[i \in 0 .. n] ==
        IF i = 0 THEN 0 ELSE upto[i - 1] + 2 ^ (i - 1) * F(Bit(a, i - 1), Bit(b, i - 1))
  IN upto[n]

AndBits(a, b, n) == Bitwise2(LAMBDA x, y : x * y, a, b, n)
OrBits(a, b, n) == Bitwise2(LAMBDA x, y : x + y - x * y, a, b, n)
XorBits(a, b, n) == Bitwise2(LAMBDA x, y : (x + y) % 2, a, b, n)
NotBits(a, n) == 2 ^ n - 1 - a

ShiftLeft(v, s, n) == (v % 2 ^ (n - s)) * 2 ^ s \* for s up to n
ShiftRight(v, s) == v \div 2 ^ s
ShiftRightSigned(v, s, n) == Unsigned(Signed(v, n) \div 2 ^ s, n)
==============================================================================
