------------------------------- MODULE SeqNum -------------------------------
(***************************************************************************)
(* 32-bit TCP sequence numbers as tun2http uses them: arithmetic modulo    *)
(* 2^32 on uint32_t, and the comparison compare_u32 of util.c, which casts *)
(* both numbers to int and subtracts.  Modulus stands for 2^32.            *)
(***************************************************************************)
EXTENDS Integers

CONSTANT Modulus   \* 2^32 in the code; small and even for model checking

ASSUME ModulusAssumption == Modulus \in Nat /\ Modulus > 3 /\ Modulus % 2 = 0

SeqNums == 0 .. Modulus - 1

Half == Modulus \div 2

IntMax == Half - 1                                \* 0x7FFFFFFF

\* Mutant of Add: a wider integer that does not wrap.
Add_wide(a, n) == a + n

\* uint32_t addition and subtraction.
Add(a, n) == (a + n) % Modulus
Sub(a, b) == (a - b) % Modulus

\* The value of (int) a.
AsInt(a) == IF a < Half THEN a ELSE a - Modulus

\* A difference of two ints as the processor computes it.  It overflows when
\* the ints are far apart, and both NDK code generators (-O0 and -O2) keep
\* the wrapped difference.
IntSub(i, j) == AsInt((i - j) % Modulus)

\* util.c: negative when s1 is judged to come before s2.
compare_u32(s1, s2) ==
  LET i1 == AsInt(s1)
      i2 == AsInt(s2)
      before == \/ i1 < i2 /\ IntSub(i2, i1) < IntMax
                \/ i1 > i2 /\ IntSub(i1, i2) > IntMax
  IN  IF s1 = s2 THEN 0 ELSE IF before THEN -1 ELSE 1

-----------------------------------------------------------------------------
\* Do a and b straddle the int boundary between 0x7FFFFFFF and 0x80000000,
\* the shorter way round?
CrossesIntBoundary(a, b) ==
  \/ a < Half /\ b >= Half /\ b - a < Half
  \/ b < Half /\ a >= Half /\ a - b < Half
=============================================================================
