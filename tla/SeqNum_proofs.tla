--------------------------- MODULE SeqNum_proofs ---------------------------
(***************************************************************************)
(* Facts about sequence numbers and about what compare_u32 of util.c       *)
(* computes, for every even Modulus (2^32 in the code).  Tcp_proofs builds *)
(* on them.                                                                *)
(***************************************************************************)
EXTENDS SeqNum, TLAPS

(***************************************************************************)
(* The remainder of an integer is a sequence number, and adding or         *)
(* removing Modulus brings a nearby integer back into range: the two facts *)
(* about % that the other proofs rest on.                                  *)
(***************************************************************************)
LEMMA ModFacts ==
  ASSUME NEW i \in Int
  PROVE  /\ i % Modulus \in SeqNums
         /\ i \in SeqNums => i % Modulus = i
         /\ i \in Modulus .. 2 * Modulus - 1 => i % Modulus = i - Modulus
         /\ i \in -Modulus .. -1 => i % Modulus = i + Modulus
<1>1. Modulus \in Nat /\ Modulus > 3
  BY ModulusAssumption
<1>2. i % Modulus \in SeqNums
  BY <1>1, SMT DEF SeqNums
<1>3. i \in SeqNums => i % Modulus = i
  BY <1>1, SMT DEF SeqNums
<1>4. i \in Modulus .. 2 * Modulus - 1 => i % Modulus = i - Modulus
  BY <1>1, SMT DEF SeqNums
<1>5. i \in -Modulus .. -1 => i % Modulus = i + Modulus
  BY <1>1, SMT DEF SeqNums
<1>. QED
  BY <1>2, <1>3, <1>4, <1>5

(***************************************************************************)
(* Sequence number arithmetic stays within 32 bits.                        *)
(***************************************************************************)
LEMMA AddSubType ==
  ASSUME NEW a \in SeqNums, NEW b \in Int
  PROVE  Add(a, b) \in SeqNums /\ Sub(a, b) \in SeqNums
<1>1. a \in Int
  BY ModulusAssumption DEF SeqNums
<1>. QED
  BY <1>1, ModFacts DEF Add, Sub

(***************************************************************************)
(* Modulus is twice Half, so the ints are the numbers -Half .. Half - 1.   *)
(***************************************************************************)
LEMMA HalfFacts == Half \in Nat /\ Half > 1 /\ Modulus = 2 * Half
BY ModulusAssumption, SMT DEF Half

(***************************************************************************)
(* compare_u32 orders two numbers correctly in both directions when they   *)
(* are less than 0x7FFFFFFF apart and do not straddle the int boundary     *)
(* between 0x7FFFFFFF and 0x80000000.                                      *)
(***************************************************************************)
LEMMA CompareAwayFromIntBoundary ==
  ASSUME NEW a \in SeqNums, NEW b \in SeqNums,
         Sub(b, a) \in 1 .. IntMax - 1, ~CrossesIntBoundary(a, b)
  PROVE  compare_u32(a, b) = -1 /\ compare_u32(b, a) = 1
<1>. DEFINE i == AsInt(a)
            j == AsInt(b)
<1>1. a \in 0 .. 2 * Half - 1 /\ b \in 0 .. 2 * Half - 1
  BY HalfFacts DEF SeqNums
<1>2. Sub(b, a) = IF b >= a THEN b - a ELSE b - a + 2 * Half
  <2>1. b - a \in Int /\ (b >= a => b - a \in SeqNums) /\ (b < a => b - a \in -Modulus .. -1)
    BY <1>1, HalfFacts, SMT DEF SeqNums
  <2>2. CASE b >= a
    BY <1>1, <2>1, <2>2, ModFacts DEF Sub
  <2>3. CASE b < a
    BY <1>1, <2>1, <2>3, ModFacts, HalfFacts DEF Sub
  <2>. QED
    BY <1>1, <2>2, <2>3
<1>3. a # b
  BY <1>1, <1>2, HalfFacts, SMT DEF IntMax
<1>4. i < j /\ j - i = Sub(b, a) /\ i \in Int /\ j \in Int
  BY <1>1, <1>2, <1>3, HalfFacts, SMT DEF AsInt, IntMax, CrossesIntBoundary
<1>5. IntSub(j, i) = j - i /\ j - i < IntMax
  <2>1. j - i \in 1 .. Half - 2
    BY <1>4, HalfFacts, SMT DEF IntMax
  <2>2. (j - i) % Modulus = j - i
    BY <2>1, ModFacts, HalfFacts, SMT DEF SeqNums
  <2>. QED
    BY <2>1, <2>2, HalfFacts, SMT DEF IntSub, AsInt, IntMax
<1>6. compare_u32(a, b) = -1
  BY <1>3, <1>4, <1>5 DEF compare_u32
<1>7. compare_u32(b, a) = 1
  <2>1. ~(j < i) /\ ~(IntSub(j, i) > IntMax)
    BY <1>4, <1>5, HalfFacts, SMT DEF IntMax
  <2>. QED
    BY <1>3, <2>1 DEF compare_u32
<1>. QED
  BY <1>6, <1>7

\* Every number is a multiple of Modulus and its remainder.
LEMMA DivMod ==
  ASSUME NEW x \in Int
  PROVE  \E q \in Int : x = q * Modulus + (x % Modulus)
<1>1. Modulus \in Nat /\ Modulus > 3  BY ModulusAssumption
<1>2. x \div Modulus \in Int /\ x = (x \div Modulus) * Modulus + (x % Modulus)
  BY <1>1, SMT
<1> QED  BY <1>2

LEMMA ModUnique ==
  ASSUME NEW q \in Int, NEW r \in SeqNums
  PROVE  (q * Modulus + r) % Modulus = r
<1>1. Modulus \in Nat /\ Modulus > 3 /\ r \in Int /\ 0 <= r /\ r < Modulus
  BY ModulusAssumption, SMT DEF SeqNums
<1> DEFINE x == q * Modulus + r
<1>2. x \in Int  BY <1>1, SMT
<1>3. x % Modulus \in SeqNums  BY <1>2, ModFacts
<1>4. PICK p \in Int : x = p * Modulus + (x % Modulus)  BY <1>2, DivMod
<1>5. (q - p) * Modulus = (x % Modulus) - r
  <2>1. x % Modulus \in Int  BY <1>3, <1>1, SMT DEF SeqNums
  <2>2. (q - p) * Modulus = q * Modulus - p * Modulus  BY <1>1, SMT
  <2>3. q * Modulus \in Int /\ p * Modulus \in Int  BY <1>1, SMT
  <2> HIDE DEF x
  <2>4. x = q * Modulus + r  BY DEF x
  <2> QED  BY <1>1, <1>4, <2>1, <2>2, <2>3, <2>4, SMT
<1>6. CASE q - p >= 1
  <2>1. (q - p) * Modulus >= Modulus  BY <1>1, <1>6, SMT
  <2> QED  BY <1>1, <1>3, <1>5, <2>1, SMT DEF SeqNums
<1>7. CASE q - p <= -1
  <2>1. (q - p) * Modulus <= -Modulus  BY <1>1, <1>7, SMT
  <2> QED  BY <1>1, <1>3, <1>5, <2>1, SMT DEF SeqNums
<1>8. CASE q - p = 0
  <2>1. (q - p) * Modulus = 0  BY <1>1, <1>8, SMT
  <2> QED  BY <1>1, <1>3, <1>5, <2>1, SMT DEF SeqNums
<1> QED  BY <1>6, <1>7, <1>8, SMT

\* Numbers that differ by a multiple of Modulus have the same remainder.
LEMMA SameMod ==
  ASSUME NEW x \in Int, NEW y \in Int, NEW q \in Int, x = y + q * Modulus
  PROVE  x % Modulus = y % Modulus
<1>1. Modulus \in Nat  BY ModulusAssumption
<1>2. PICK p \in Int : y = p * Modulus + (y % Modulus)  BY DivMod
<1>3. y % Modulus \in SeqNums  BY ModFacts
<1> DEFINE r == y % Modulus
<1>4. r \in SeqNums /\ r \in Int /\ y = p * Modulus + r
  BY <1>1, <1>2, <1>3, SMT DEF SeqNums
<1> HIDE DEF r
<1>5. (p + q) * Modulus = p * Modulus + q * Modulus  BY <1>1, SMT
<1>6. x = (p + q) * Modulus + r
  <2>1. p * Modulus \in Int /\ q * Modulus \in Int  BY <1>1, SMT
  <2> QED  BY <1>4, <1>5, <2>1, SMT
<1>7. p + q \in Int  BY SMT
<1>8. ((p + q) * Modulus + r) % Modulus = r  BY <1>4, <1>7, ModUnique
<1> QED  BY <1>6, <1>8, Zenon DEF r

\* Counting on: the distance of a + n from b, when that of a is known.
LEMMA CountOn ==
  ASSUME NEW a \in SeqNums, NEW b \in SeqNums, NEW m \in Int, NEW n \in Int,
         Sub(a, b) = m % Modulus
  PROVE  Sub(Add(a, n), b) = (m + n) % Modulus
<1>1. Modulus \in Nat /\ a \in Int /\ b \in Int  BY ModulusAssumption, SMT DEF SeqNums
<1>2. a + n \in Int /\ a - b \in Int  BY <1>1, SMT
<1>3. /\ Add(a, n) \in Int /\ Add(a, n) = (a + n) % Modulus
      /\ m % Modulus \in Int
  BY <1>1, <1>2, ModFacts, SMT DEF Add, SeqNums
<1>4. PICK p \in Int : a + n = p * Modulus + Add(a, n)  BY <1>2, <1>3, DivMod
<1>5. PICK q \in Int : a - b = q * Modulus + (m % Modulus)  BY <1>2, DivMod DEF Sub
<1>6. PICK k \in Int : m = k * Modulus + (m % Modulus)  BY DivMod
<1> DEFINE c == Add(a, n)
           r == m % Modulus
           d == q - k - p
<1>7. d * Modulus = q * Modulus - k * Modulus - p * Modulus  BY <1>1, SMT
<1>8. c - b = m + n + d * Modulus
  <2>1. p * Modulus \in Int /\ q * Modulus \in Int /\ k * Modulus \in Int  BY <1>1, SMT
  <2>2. c \in Int /\ r \in Int  BY <1>3
  <2>3. a + n = p * Modulus + c /\ a - b = q * Modulus + r /\ m = k * Modulus + r
    BY <1>4, <1>5, <1>6
  <2> HIDE DEF c, r, d
  <2> QED  BY <1>1, <1>7, <2>1, <2>2, <2>3, SMT
<1>9. d \in Int /\ c - b \in Int /\ m + n \in Int
  <2>1. c \in Int  BY <1>3
  <2> HIDE DEF c
  <2> QED  BY <1>1, <2>1, SMT
<1> HIDE DEF c, d
<1>10. (c - b) % Modulus = (m + n) % Modulus  BY <1>8, <1>9, SameMod
<1> QED  BY <1>10, Zenon DEF Sub, c

\* What a number is from another is what must be added to it to get there.
LEMMA AddOfSub ==
  ASSUME NEW a \in SeqNums, NEW b \in SeqNums
  PROVE  Add(b, Sub(a, b)) = a
<1>1. Modulus \in Nat /\ a \in Int /\ b \in Int  BY ModulusAssumption, SMT DEF SeqNums
<1>2. Sub(a, b) \in Int  BY AddSubType, ModulusAssumption, <1>1, SMT DEF SeqNums
<1>3. PICK p \in Int : a - b = p * Modulus + Sub(a, b)
  <2>1. a - b \in Int  BY <1>1, SMT
  <2> QED  BY <2>1, DivMod DEF Sub
<1>4. b + Sub(a, b) = a + (-p) * Modulus
  <2> DEFINE c == Sub(a, b)
  <2>1. (-p) * Modulus = -(p * Modulus) /\ p * Modulus \in Int  BY <1>1, SMT
  <2>2. c \in Int /\ a - b = p * Modulus + c  BY <1>2, <1>3
  <2> HIDE DEF c
  <2>3. b + c = a + (-p) * Modulus  BY <1>1, <2>1, <2>2, SMT
  <2> QED  BY <2>3 DEF c
<1>5. b + Sub(a, b) \in Int /\ -p \in Int  BY <1>1, <1>2, SMT
<1>6. (b + Sub(a, b)) % Modulus = a % Modulus
  <2> DEFINE x == b + Sub(a, b)
             k == -p
  <2>1. x \in Int /\ k \in Int /\ a \in Int /\ x = a + k * Modulus  BY <1>1, <1>4, <1>5
  <2> HIDE DEF x, k
  <2>2. x % Modulus = a % Modulus  BY <2>1, SameMod
  <2> QED  BY <2>2 DEF x
<1>7. a % Modulus = a  BY <1>1, ModFacts
<1> QED  BY <1>6, <1>7, Zenon DEF Add

\* A difference of two sequence numbers, by cases.
LEMMA SubIs ==
  ASSUME NEW a \in SeqNums, NEW b \in SeqNums
  PROVE  Sub(b, a) = IF b >= a THEN b - a ELSE b - a + Modulus
<1>1. Modulus \in Nat /\ a \in Int /\ b \in Int /\ b - a \in Int
  BY ModulusAssumption, SMT DEF SeqNums
<1>2. CASE b >= a
  <2>1. b - a \in SeqNums  BY <1>1, <1>2, SMT DEF SeqNums
  <2> QED  BY <1>1, <1>2, <2>1, ModFacts DEF Sub
<1>3. CASE b < a
  <2>1. b - a \in -Modulus .. -1  BY <1>1, <1>3, SMT DEF SeqNums
  <2>2. Sub(b, a) = b - a + Modulus  BY <1>1, <2>1, ModFacts DEF Sub
  <2> QED  BY <1>1, <1>3, <2>2, SMT
<1> QED  BY <1>1, <1>2, <1>3, SMT

(***************************************************************************)
(* Across the int boundary compare_u32 takes the order for its opposite.   *)
(***************************************************************************)
LEMMA CompareAcrossIntBoundary ==
  ASSUME NEW a \in SeqNums, NEW b \in SeqNums,
         Sub(b, a) \in 1 .. IntMax - 1, a < Half, b >= Half
  PROVE  compare_u32(a, b) = 1 /\ compare_u32(b, a) = -1
<1> DEFINE i == AsInt(a)
           j == AsInt(b)
           d == Sub(b, a)
<1>1. /\ Half \in Nat /\ Half > 1 /\ Modulus = 2 * Half /\ IntMax = Half - 1
      /\ a \in 0 .. Modulus - 1 /\ b \in 0 .. Modulus - 1
  BY HalfFacts DEF SeqNums, IntMax
<1>2. i = a /\ j = b - Modulus  BY <1>1, SMT DEF AsInt
<1>3. d = b - a  BY <1>1, SubIs, SMT
<1>4. i - j = Modulus - d /\ d \in 1 .. Half - 2
  <2>1. d \in 1 .. IntMax - 1  OBVIOUS
  <2> HIDE DEF d, i, j
  <2> QED  BY <1>1, <1>2, <1>3, <2>1, SMT
<1>5. IntSub(i, j) = -d
  <2>1. i - j \in SeqNums  BY <1>1, <1>4, SMT DEF SeqNums
  <2>2. i - j \in Int  BY <1>1, <2>1, SMT DEF SeqNums
  <2>3. (i - j) % Modulus = i - j  BY <2>1, <2>2, ModFacts
  <2> HIDE DEF d, i, j
  <2>4. AsInt(i - j) = -d  BY <1>1, <1>4, SMT DEF AsInt
  <2> QED  BY <2>3, <2>4, Zenon DEF IntSub
<1>6. a # b /\ i > j /\ ~(i < j)  BY <1>1, <1>2, <1>3, <1>4, SMT
<1>7. IntSub(i, j) < IntMax /\ ~(IntSub(i, j) > IntMax)
  <2> HIDE DEF d
  <2> QED  BY <1>1, <1>4, <1>5, SMT
<1>8. compare_u32(a, b) = 1  BY <1>6, <1>7, Zenon DEF compare_u32
<1>9. compare_u32(b, a) = -1
  <2>1. j < i  BY <1>6, <1>1, <1>2, SMT
  <2> QED  BY <1>6, <1>7, <2>1, Zenon DEF compare_u32
<1> QED  BY <1>8, <1>9

\* Numbers of a short stretch that starts at s are as far apart as their
\* distances from s.
LEMMA SubInOrder ==
  ASSUME NEW s \in SeqNums, NEW a \in SeqNums, NEW b \in SeqNums,
         Sub(a, s) < Sub(b, s), Sub(b, s) < IntMax
  PROVE  /\ Sub(b, a) = Sub(b, s) - Sub(a, s)
         /\ Sub(b, a) \in 1 .. IntMax - 1
         /\ CrossesIntBoundary(a, b) => a < Half /\ b >= Half /\ b - a = Sub(b, a)
<1>1. /\ Half \in Nat /\ Half > 1 /\ Modulus = 2 * Half /\ IntMax = Half - 1
      /\ a \in 0 .. Modulus - 1 /\ b \in 0 .. Modulus - 1 /\ s \in 0 .. Modulus - 1
  BY HalfFacts DEF SeqNums, IntMax
<1>2. /\ Sub(a, s) = IF a >= s THEN a - s ELSE a - s + Modulus
      /\ Sub(b, s) = IF b >= s THEN b - s ELSE b - s + Modulus
      /\ Sub(b, a) = IF b >= a THEN b - a ELSE b - a + Modulus
  BY SubIs
<1> QED  BY <1>1, <1>2, SMT DEF CrossesIntBoundary

(***************************************************************************)
(* An acknowledgement x that compare_u32 finds before l and after a is one *)
(* of nothing past l, as long as a is, wherever the int boundary lies: the *)
(* errors of the two comparisons cancel out.                               *)
(***************************************************************************)
LEMMA BothComparisons ==
  ASSUME NEW s \in SeqNums, NEW a \in SeqNums, NEW l \in SeqNums, NEW x \in SeqNums,
         Sub(l, s) < IntMax, Sub(x, s) < IntMax, Sub(a, s) <= Sub(l, s),
         compare_u32(x, l) < 0, compare_u32(x, a) > 0
  PROVE  Sub(x, s) <= Sub(l, s)
<1>0. Sub(a, s) \in Int /\ Sub(l, s) \in Int /\ Sub(x, s) \in Int /\ IntMax \in Int
  <2>1. \A y \in SeqNums : y \in Int  BY ModulusAssumption, SMT DEF SeqNums
  <2>2. IntMax \in Int  BY HalfFacts, SMT DEF IntMax
  <2> QED  BY <2>1, <2>2, AddSubType
<1> SUFFICES ASSUME Sub(l, s) < Sub(x, s)  PROVE FALSE
  BY <1>0, SMT
<1>1. Sub(x, l) \in 1 .. IntMax - 1 /\ (CrossesIntBoundary(l, x) => l < Half /\ x >= Half)
  BY SubInOrder
<1>2. CrossesIntBoundary(l, x)
  <2>1. SUFFICES ASSUME ~CrossesIntBoundary(l, x)  PROVE FALSE
    OBVIOUS
  <2>2. compare_u32(x, l) = 1  BY <1>1, <2>1, CompareAwayFromIntBoundary
  <2> QED  BY <2>2, SMT
<1>3. Sub(a, s) < Sub(x, s)  BY <1>0, SMT
<1>4. Sub(x, a) \in 1 .. IntMax - 1  BY <1>3, SubInOrder
<1>5. a < Half
  <2>1. /\ Half \in Nat /\ Half > 1 /\ Modulus = 2 * Half /\ IntMax = Half - 1
        /\ a \in 0 .. Modulus - 1 /\ l \in 0 .. Modulus - 1
        /\ x \in 0 .. Modulus - 1 /\ s \in 0 .. Modulus - 1
    BY HalfFacts DEF SeqNums, IntMax
  <2>2. /\ Sub(a, s) = IF a >= s THEN a - s ELSE a - s + Modulus
        /\ Sub(l, s) = IF l >= s THEN l - s ELSE l - s + Modulus
        /\ Sub(x, s) = IF x >= s THEN x - s ELSE x - s + Modulus
    BY SubIs
  <2> QED  BY <1>1, <1>2, <2>1, <2>2, SMT
<1>6. compare_u32(x, a) = -1  BY <1>1, <1>2, <1>4, <1>5, CompareAcrossIntBoundary
<1> QED  BY <1>6, SMT

\* Nor is it one of less than a: if it were, compare_u32 would find it after l.
LEMMA BothComparisonsOnward ==
  ASSUME NEW s \in SeqNums, NEW a \in SeqNums, NEW l \in SeqNums, NEW x \in SeqNums,
         Sub(l, s) < IntMax, Sub(x, s) < IntMax, Sub(a, s) <= Sub(l, s),
         compare_u32(x, l) < 0, compare_u32(x, a) > 0
  PROVE  Sub(a, s) <= Sub(x, s)
<1>0. Sub(a, s) \in Int /\ Sub(l, s) \in Int /\ Sub(x, s) \in Int /\ IntMax \in Int
  <2>1. \A y \in SeqNums : y \in Int  BY ModulusAssumption, SMT DEF SeqNums
  <2>2. IntMax \in Int  BY HalfFacts, SMT DEF IntMax
  <2> QED  BY <2>1, <2>2, AddSubType
<1> SUFFICES ASSUME Sub(x, s) < Sub(a, s)  PROVE FALSE
  BY <1>0, SMT
<1>1. Sub(a, s) < IntMax /\ Sub(x, s) < Sub(l, s)  BY <1>0, SMT
<1>2. Sub(a, x) \in 1 .. IntMax - 1 /\ (CrossesIntBoundary(x, a) => x < Half /\ a >= Half)
  BY <1>1, SubInOrder
<1>3. CrossesIntBoundary(x, a)
  <2> SUFFICES ASSUME ~CrossesIntBoundary(x, a)  PROVE FALSE
    OBVIOUS
  <2>1. compare_u32(x, a) = -1  BY <1>2, CompareAwayFromIntBoundary
  <2> QED  BY <2>1, SMT
<1>4. Sub(l, x) \in 1 .. IntMax - 1  BY <1>1, SubInOrder
<1>5. l >= Half
  <2>1. /\ Half \in Nat /\ Half > 1 /\ Modulus = 2 * Half /\ IntMax = Half - 1
        /\ a \in 0 .. Modulus - 1 /\ l \in 0 .. Modulus - 1
        /\ x \in 0 .. Modulus - 1 /\ s \in 0 .. Modulus - 1
    BY HalfFacts DEF SeqNums, IntMax
  <2>2. /\ Sub(a, s) = IF a >= s THEN a - s ELSE a - s + Modulus
        /\ Sub(l, s) = IF l >= s THEN l - s ELSE l - s + Modulus
        /\ Sub(x, s) = IF x >= s THEN x - s ELSE x - s + Modulus
    BY SubIs
  <2> QED  BY <1>2, <1>3, <2>1, <2>2, SMT
<1>6. compare_u32(x, l) = 1  BY <1>2, <1>3, <1>4, <1>5, CompareAcrossIntBoundary
<1> QED  BY <1>6, SMT

\* The distance of two numbers from their distances from s.
LEMMA SubOfSubs ==
  ASSUME NEW s \in SeqNums, NEW a \in SeqNums, NEW l \in SeqNums, Sub(a, s) <= Sub(l, s)
  PROVE  Sub(l, a) = Sub(l, s) - Sub(a, s)
<1>1. /\ Modulus \in Nat /\ a \in 0 .. Modulus - 1 /\ l \in 0 .. Modulus - 1
      /\ s \in 0 .. Modulus - 1
  BY ModulusAssumption DEF SeqNums
<1>2. /\ Sub(a, s) = IF a >= s THEN a - s ELSE a - s + Modulus
      /\ Sub(l, s) = IF l >= s THEN l - s ELSE l - s + Modulus
      /\ Sub(l, a) = IF l >= a THEN l - a ELSE l - a + Modulus
  BY SubIs
<1> QED  BY <1>1, <1>2, SMT

-----------------------------------------------------------------------------
(***************************************************************************)
(* What compare_u32 finds of a number and one that comes 1 to 0x7FFFFFFD   *)
(* later in the order of RFC 1982, the wrap at 2^32 included: that they    *)
(* are in this order, unless the boundary between 0x7FFFFFFF and           *)
(* 0x80000000 lies between them, and then the opposite, whichever of the   *)
(* two it is called with first.                                            *)
(***************************************************************************)
THEOREM SerialOrderCorrect ==
  ASSUME NEW a \in SeqNums, NEW b \in SeqNums, Sub(b, a) \in 1 .. IntMax - 1
  PROVE  LET found == IF CrossesIntBoundary(a, b) THEN 1 ELSE -1
         IN  compare_u32(a, b) = found /\ compare_u32(b, a) = -found
<1>1. CASE ~CrossesIntBoundary(a, b)
  BY <1>1, CompareAwayFromIntBoundary
<1>2. CASE CrossesIntBoundary(a, b)
  <2>1. Sub(a, a) = 0
    <3>1. a \in Int  BY ModulusAssumption, SMT DEF SeqNums
    <3>. QED  BY <3>1, SubIs, SMT
  <2>2. Sub(a, a) < Sub(b, a) /\ Sub(b, a) < IntMax
    <3>1. IntMax \in Int  BY HalfFacts, SMT DEF IntMax
    <3>. DEFINE d == Sub(b, a)
    <3>2. d \in 1 .. IntMax - 1  OBVIOUS
    <3>. HIDE DEF d
    <3>3. 0 < d /\ d < IntMax  BY <3>1, <3>2, SMT
    <3>. QED  BY <2>1, <3>3 DEF d
  <2>3. a < Half /\ b >= Half
    BY <1>2, <2>2, SubInOrder
  <2>4. compare_u32(a, b) = 1 /\ compare_u32(b, a) = -1
    BY <2>3, CompareAcrossIntBoundary
  <2>. QED
    BY <1>2, <2>4
<1>. QED
  BY <1>1, <1>2
=============================================================================
