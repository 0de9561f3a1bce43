----------------------------- MODULE TreeProofs -----------------------------
(***************************************************************************)
(* What the proofs about the signers rest on.                              *)
(*                                                                         *)
(* First the arithmetic of Bits: powers of two, shifts and sums.           *)
(* Induction is over sets of naturals: SetInduction comes from the         *)
(* existence of a least element, and that from the well-foundedness of     *)
(* strict inclusion on finite sets.                                        *)
(*                                                                         *)
(* Then what verification computes, for trees of every height and any      *)
(* number of layers: an honest signature climbs to the root of the tree    *)
(* its index selects on the top layer, and what is Junk once stays Junk.   *)
(*                                                                         *)
(* Last the tree traversal of xmss_core_fast.c, for trees of every height: *)
(* the treehash instances keep the stack they share in order and within    *)
(* its slots, every one has finished by the time bds_round takes its node, *)
(* and the path in the state is the path of the leaf that signs next.      *)
(***************************************************************************)
EXTENDS Bds, FiniteSetTheorems, TLAPS

(* A non-empty set of naturals has a least element.                          *)
LEMMA LeastNumber ==
  ASSUME NEW S, S \subseteq Nat, S # {}
  PROVE  \E m \in S : \A k \in S : m <= k
<1> DEFINE Below(n) == 0..(n - 1)
           T == {Below(n) : n \in S}
<1>1. IsWellFoundedOn(StrictSubsetOrdering(Nat), FiniteSubsetsOf(Nat))
  BY FS_StrictSubsetOrderingWellFounded
<1>2. T \subseteq FiniteSubsetsOf(Nat)
  <2> SUFFICES ASSUME NEW n \in S PROVE Below(n) \in FiniteSubsetsOf(Nat)
    OBVIOUS
  <2>1. IsFiniteSet(Below(n)) BY FS_Interval
  <2> QED BY <2>1 DEF FiniteSubsetsOf
<1>3. T # {} OBVIOUS
<1>4. PICK x \in T : \A y \in T : ~(<<y, x>> \in StrictSubsetOrdering(Nat))
  <2> HIDE DEF T
  <2> QED BY <1>1, <1>2, <1>3, WFMin
<1>5. PICK m \in S : x = Below(m) BY <1>4
<1>6. \A k \in S : m <= k
  <2> SUFFICES ASSUME NEW k \in S, k < m PROVE FALSE OBVIOUS
  <2>1. Below(k) \subseteq Below(m) /\ Below(k) # Below(m)
    <3>1. Below(k) \subseteq Below(m) OBVIOUS
    <3>2. k \in Below(m) /\ k \notin Below(k) OBVIOUS
    <3> QED BY <3>1, <3>2
  <2>2. <<Below(k), Below(m)>> \in StrictSubsetOrdering(Nat)
    BY <2>1 DEF StrictSubsetOrdering, FiniteSubsetsOf
  <2> QED BY <1>4, <1>5, <2>2
<1> QED BY <1>6

(* Induction: a set that has 0 and the successor of each natural it has      *)
(* contains them all.                                                        *)
LEMMA SetInduction ==
  ASSUME NEW S, 0 \in S, \A n \in Nat : n \in S => n + 1 \in S
  PROVE  Nat \subseteq S
<1> DEFINE Bad == {n \in Nat : n \notin S}
<1>1. SUFFICES ASSUME Bad # {} PROVE FALSE OBVIOUS
<1>2. PICK m \in Bad : \A k \in Bad : m <= k
  <2>1. Bad \subseteq Nat OBVIOUS
  <2> HIDE DEF Bad
  <2> QED BY <1>1, <2>1, LeastNumber
<1>3. m # 0 OBVIOUS
<1>4. m - 1 \in Nat /\ m - 1 \in S BY <1>2, <1>3
<1>5. (m - 1) + 1 \in S BY <1>4
<1> QED BY <1>5

-----------------------------------------------------------------------------
(* g is the recursion of Pow2 up to n. *)
Doubling(n, g) ==
  /\ g \in [0..n -> Nat \ {0}]
  /\ \A i \in 0..n : g[i] = IF i = 0 THEN 1 ELSE 2 * g[i - 1]

(* The recursion that defines Pow2 can be carried out up to any number.      *)
LEMMA DoublingExists == \A n \in Nat : \E g : Doubling(n, g)
<1> DEFINE S == {n \in Nat : \E g : Doubling(n, g)}
<1>1. 0 \in S
  <2>1. Doubling(0, [i \in 0..0 |-> 1]) BY DEF Doubling
  <2> QED BY <2>1
<1>2. ASSUME NEW n \in Nat, n \in S PROVE n + 1 \in S
  <2>1. PICK g : Doubling(n, g) BY <1>2
  <2> DEFINE h == [i \in 0..(n + 1) |-> IF i = n + 1 THEN 2 * g[n] ELSE g[i]]
  <2>2. g[n] \in Nat \ {0} BY <2>1 DEF Doubling
  <2>3. h \in [0..(n + 1) -> Nat \ {0}] BY <2>1, <2>2 DEF Doubling
  <2>4. ASSUME NEW i \in 0..(n + 1)
        PROVE  h[i] = IF i = 0 THEN 1 ELSE 2 * h[i - 1]
    <3>1. CASE i = n + 1
      <4>1. i - 1 = n /\ i # 0 BY <3>1
      <4>2. h[i] = 2 * g[n] /\ h[n] = g[n] BY <3>1
      <4> QED BY <4>1, <4>2
    <3>2. CASE i # n + 1
      <4>1. i \in 0..n BY <3>2
      <4>2. h[i] = g[i] BY <3>2
      <4>3. i # 0 => i - 1 \in 0..(n + 1) /\ i - 1 # n + 1 BY <4>1
      <4>4. i # 0 => h[i - 1] = g[i - 1] BY <4>3
      <4> QED BY <2>1, <4>1, <4>2, <4>4 DEF Doubling
    <3> QED BY <3>1, <3>2
  <2>5. Doubling(n + 1, h) BY <2>3, <2>4 DEF Doubling
  <2> QED BY <2>5
<1>3. Nat \subseteq S
  <2> HIDE DEF S
  <2> QED BY <1>1, <1>2, SetInduction
<1> QED BY <1>3

(* Two such recursions agree where both are defined.                         *)
LEMMA DoublingUnique ==
  ASSUME NEW m \in Nat, NEW n \in Nat, NEW g, NEW h,
         Doubling(m, g), Doubling(n, h), m <= n
  PROVE  g[m] = h[m]
<1> DEFINE S == {i \in Nat : i <= m => g[i] = h[i]}
<1>1. 0 \in S BY DEF Doubling
<1>2. ASSUME NEW i \in Nat, i \in S PROVE i + 1 \in S
  <2> SUFFICES ASSUME i + 1 <= m PROVE g[i + 1] = h[i + 1] OBVIOUS
  <2>1. i + 1 \in 0..m /\ i + 1 \in 0..n /\ i + 1 # 0 /\ (i + 1) - 1 = i OBVIOUS
  <2>2. g[i + 1] = 2 * g[i] /\ h[i + 1] = 2 * h[i] BY <2>1 DEF Doubling
  <2>3. g[i] = h[i] BY <1>2
  <2> QED BY <2>2, <2>3
<1>3. Nat \subseteq S
  <2> HIDE DEF S
  <2> QED BY <1>1, <1>2, SetInduction
<1> QED BY <1>3

(* What the recursive definition of Pow2 says.                               *)
LEMMA Pow2Recursion ==
  /\ Pow2[0] = 1
  /\ \A n \in Nat : Pow2[n] \in Nat \ {0} /\ Pow2[n + 1] = 2 * Pow2[n]
<1> DEFINE Upto(n) == CHOOSE g : Doubling(n, g)
           F == [n \in Nat |-> Upto(n)[n]]
<1>1. \A n \in Nat : Doubling(n, Upto(n)) BY DoublingExists
<1>2. \A n \in Nat : F[n] \in Nat \ {0} BY <1>1 DEF Doubling
<1>3. F[0] = 1
  <2>1. Doubling(0, Upto(0)) BY <1>1
  <2> HIDE DEF Upto
  <2>2. Upto(0)[0] = 1
    <3>1. 0 \in 0..0 OBVIOUS
    <3> QED BY <2>1, <3>1 DEF Doubling
  <2> QED BY <2>2
<1>4. ASSUME NEW n \in Nat PROVE F[n + 1] = 2 * F[n]
  <2>1. Doubling(n, Upto(n)) /\ Doubling(n + 1, Upto(n + 1)) BY <1>1
  <2>2. n <= n + 1 OBVIOUS
  <2>3. Upto(n)[n] = Upto(n + 1)[n]
    <3> HIDE DEF Upto
    <3> QED BY <2>1, <2>2, DoublingUnique
  <2>4. n + 1 \in 0..(n + 1) /\ n + 1 # 0 /\ (n + 1) - 1 = n OBVIOUS
  <2>5. Upto(n + 1)[n + 1] = 2 * Upto(n + 1)[n]
    <3> HIDE DEF Upto
    <3> QED BY <2>1, <2>4 DEF Doubling
  <2> QED BY <2>3, <2>5
<1>5. F = [n \in Nat |-> IF n = 0 THEN 1 ELSE 2 * F[n - 1]]
  <2>1. ASSUME NEW n \in Nat PROVE F[n] = IF n = 0 THEN 1 ELSE 2 * F[n - 1]
    <3>1. CASE n = 0 BY <3>1, <1>3
    <3>2. CASE n # 0
      <4>1. n - 1 \in Nat /\ (n - 1) + 1 = n BY <3>2
      <4> HIDE DEF F
      <4> QED BY <4>1, <3>2, <1>4
    <3> QED BY <3>1, <3>2
  <2>2. F = [n \in Nat |-> F[n]] OBVIOUS
  <2> HIDE DEF F
  <2> QED BY <2>1, <2>2
<1>6. Pow2 = [n \in Nat |-> IF n = 0 THEN 1 ELSE 2 * Pow2[n - 1]]
  <2> HIDE DEF F
  <2> QED BY <1>5 DEF Pow2
<1>7. \A n \in Nat : Pow2[n] = IF n = 0 THEN 1 ELSE 2 * Pow2[n - 1]
  BY ONLY <1>6
<1>8. Pow2[0] = 1 BY ONLY <1>7
<1>9. ASSUME NEW n \in Nat PROVE Pow2[n + 1] = 2 * Pow2[n]
  <2>1. n + 1 \in Nat /\ n + 1 # 0 /\ (n + 1) - 1 = n OBVIOUS
  <2> QED BY ONLY <1>7, <2>1
<1>10. Nat \subseteq {n \in Nat : Pow2[n] \in Nat \ {0}}
  <2> DEFINE S == {n \in Nat : Pow2[n] \in Nat \ {0}}
  <2>1. 0 \in S BY ONLY <1>8
  <2>2. ASSUME NEW n \in Nat, n \in S PROVE n + 1 \in S BY ONLY <2>2, <1>9
  <2> HIDE DEF S
  <2>3. Nat \subseteq S BY ONLY <2>1, <2>2, SetInduction
  <2> QED BY <2>3 DEF S
<1> QED BY <1>8, <1>9, <1>10

(* 1 << (m + n) is (1 << m) * (1 << n).                                      *)
LEMMA Pow2Sum ==
  ASSUME NEW m \in Nat, NEW n \in Nat
  PROVE  Pow2[m + n] = Pow2[m] * Pow2[n]
<1> DEFINE S == {i \in Nat : Pow2[m + i] = Pow2[m] * Pow2[i]}
<1>1. 0 \in S
  <2>1. Pow2[m] \in Nat /\ Pow2[0] = 1 /\ m + 0 = m BY Pow2Recursion
  <2>2. Pow2[m] * 1 = Pow2[m] BY ONLY <2>1
  <2> QED BY ONLY <2>1, <2>2
<1>2. ASSUME NEW i \in Nat, i \in S PROVE i + 1 \in S
  <2>1. m + i \in Nat /\ m + (i + 1) = (m + i) + 1 OBVIOUS
  <2>2. Pow2[(m + i) + 1] = 2 * Pow2[m + i] BY <2>1, Pow2Recursion
  <2>3. Pow2[i + 1] = 2 * Pow2[i] BY Pow2Recursion
  <2>4. Pow2[m] \in Nat /\ Pow2[i] \in Nat BY Pow2Recursion
  <2>5. 2 * (Pow2[m] * Pow2[i]) = Pow2[m] * (2 * Pow2[i]) BY ONLY <2>4
  <2>6. Pow2[m + i] = Pow2[m] * Pow2[i] BY <1>2
  <2> QED BY ONLY <2>1, <2>2, <2>3, <2>5, <2>6
<1>3. Nat \subseteq S
  <2> HIDE DEF S
  <2> QED BY <1>1, <1>2, SetInduction
<1> QED BY <1>3

(* Powers of two grow with their exponent.                                   *)
LEMMA Pow2Monotone ==
  ASSUME NEW m \in Nat, NEW n \in Nat, m <= n
  PROVE  Pow2[m] <= Pow2[n]
<1>1. n - m \in Nat /\ n = m + (n - m) OBVIOUS
<1>2. Pow2[n] = Pow2[m] * Pow2[n - m] BY ONLY <1>1, Pow2Sum
<1>3. Pow2[m] \in Nat /\ Pow2[n - m] \in Nat \ {0} BY <1>1, Pow2Recursion
<1>4. Pow2[m] <= Pow2[m] * Pow2[n - m] BY ONLY <1>3
<1> QED BY ONLY <1>2, <1>4

(* Splitting a number at a position: x >> n and the bits that are left.      *)
LEMMA SplitAt ==
  ASSUME NEW x \in Nat, NEW t \in Nat \ {0}
  PROVE  /\ x \div t \in Nat
         /\ x % t \in 0..(t - 1)
         /\ x = (x \div t) * t + (x % t)
OBVIOUS

(* The split is the only one.                                                *)
LEMMA SplitUnique ==
  ASSUME NEW t \in Nat \ {0},
         NEW a \in Nat, NEW b \in Nat, NEW r \in 0..(t - 1), NEW s \in 0..(t - 1),
         a * t + r = b * t + s
  PROVE  a = b /\ r = s
OBVIOUS

-----------------------------------------------------------------------------
(* Shifting once more halves.                                                *)
LEMMA ShrHalves ==
  ASSUME NEW x \in Nat, NEW n \in Nat
  PROVE  /\ Shr(x, n) \in Nat
         /\ Shr(x, n + 1) = Shr(x, n) \div 2
<1> DEFINE t == Pow2[n]
           q == x \div t
<1>1. t \in Nat \ {0} /\ Pow2[n + 1] = 2 * t BY Pow2Recursion
<1>2. q \in Nat /\ x % t \in 0..(t - 1) /\ x = q * t + (x % t)
  <2> HIDE DEF t
  <2> QED BY ONLY <1>1, SplitAt
<1>3. q \div 2 \in Nat /\ q % 2 \in 0..1 /\ q = (q \div 2) * 2 + (q % 2)
  <2> HIDE DEF q
  <2> QED BY <1>2
<1> DEFINE u == q \div 2
           r == (q % 2) * t + (x % t)
<1>4. r \in 0..(2 * t - 1)
  <2> HIDE DEF t, q
  <2>1. q % 2 = 0 \/ q % 2 = 1 BY <1>3
  <2>2. CASE q % 2 = 0
    <3>1. r = x % t BY <2>2, <1>1, <1>2
    <3> QED BY <3>1, <1>1, <1>2
  <2>3. CASE q % 2 = 1
    <3>1. r = t + (x % t) BY <2>3, <1>1, <1>2
    <3> QED BY <3>1, <1>1, <1>2
  <2> QED BY <2>1, <2>2, <2>3
<1>5. x = u * (2 * t) + r
  <2> HIDE DEF t, q
  <2>1. q = u * 2 + (q % 2) BY <1>3
  <2> DEFINE b == q % 2
             c == x % t
  <2>2. u \in Nat /\ b \in Nat /\ c \in Nat /\ q = u * 2 + b /\ x = q * t + c
    BY <2>1, <1>2, <1>3
  <2> HIDE DEF u, b, c
  <2>3. (u * 2 + b) * t = u * (2 * t) + b * t BY ONLY <2>2, <1>1
  <2>4. x = u * (2 * t) + (b * t + c) BY <2>2, <2>3, <1>1
  <2> QED BY <2>4 DEF b, c
<1>6. x \div (2 * t) = u
  <2> HIDE DEF t, q, u, r
  <2> DEFINE tt == 2 * t
  <2>1. tt \in Nat \ {0} BY <1>1
  <2>2. /\ x \div tt \in Nat /\ x % tt \in 0..(tt - 1)
        /\ x = (x \div tt) * tt + (x % tt)
    <3> HIDE DEF tt
    <3> QED BY ONLY <2>1, SplitAt
  <2>3. u \in Nat BY <1>3 DEF u
  <2>4. r \in 0..(tt - 1) /\ x = u * tt + r BY <1>4, <1>5
  <2> DEFINE uu == x \div tt
             rr == x % tt
  <2>5. uu \in Nat /\ rr \in 0..(tt - 1) /\ uu * tt + rr = u * tt + r BY <2>2, <2>4
  <2> HIDE DEF tt, uu, rr
  <2>6. uu = u BY ONLY <2>1, <2>3, <2>4, <2>5, SplitUnique
  <2> QED BY <2>6 DEF uu, tt
<1> QED BY <1>1, <1>2, <1>6 DEF Shr

(* Two shifts are one.                                                       *)
LEMMA ShrSum ==
  ASSUME NEW x \in Nat, NEW m \in Nat
  PROVE  \A n \in Nat : Shr(Shr(x, m), n) = Shr(x, m + n)
<1> DEFINE S == {n \in Nat : Shr(Shr(x, m), n) = Shr(x, m + n)}
<1>1. Shr(x, m) \in Nat BY ShrHalves
<1>2. 0 \in S
  <2>1. Shr(Shr(x, m), 0) = Shr(x, m)
    <3> DEFINE y == Shr(x, m)
    <3>1. y \in Nat BY <1>1
    <3> HIDE DEF y
    <3>2. y \div 1 = y BY <3>1
    <3>3. Shr(y, 0) = y BY <3>2, Pow2Recursion DEF Shr
    <3> QED BY <3>3 DEF y
  <2> QED BY <2>1
<1>3. ASSUME NEW n \in Nat, n \in S PROVE n + 1 \in S
  <2>1. Shr(Shr(x, m), n) = Shr(x, m + n) BY <1>3
  <2>2. Shr(Shr(x, m), n + 1) = Shr(Shr(x, m), n) \div 2 BY <1>1, ShrHalves
  <2>3. m + n \in Nat /\ (m + n) + 1 = m + (n + 1) OBVIOUS
  <2>4. Shr(x, (m + n) + 1) = Shr(x, m + n) \div 2 BY <2>3, ShrHalves
  <2> QED BY <2>1, <2>2, <2>3, <2>4
<1>4. Nat \subseteq S
  <2> HIDE DEF S
  <2> QED BY <1>2, <1>3, SetInduction
<1> QED BY <1>4

(* A number shifts to 0 exactly if it is below the power of two.             *)
LEMMA ShrZero ==
  ASSUME NEW x \in Nat, NEW n \in Nat
  PROVE  Shr(x, n) = 0 <=> x < Pow2[n]
<1> DEFINE t == Pow2[n]
           q == x \div t
           r == x % t
<1>1. t \in Nat \ {0} BY Pow2Recursion
<1>2. q \in Nat /\ r \in 0..(t - 1) /\ x = q * t + r
  <2> HIDE DEF t
  <2> QED BY ONLY <1>1, SplitAt
<1>3. q = 0 <=> x < t
  <2> HIDE DEF t, q, r
  <2>1. CASE q = 0
    <3>1. q * t = 0 BY <2>1, <1>1
    <3> QED BY <2>1, <3>1, <1>1, <1>2
  <2>2. CASE q >= 1
    <3>1. q * t >= t BY <2>2, <1>1, <1>2
    <3> QED BY <2>2, <3>1, <1>1, <1>2
  <2> QED BY <2>1, <2>2, <1>2
<1> QED BY <1>3 DEF Shr

-----------------------------------------------------------------------------
(* The parent of a node has the node and its sibling for children.           *)
LEMMA ParentOf ==
  ASSUME NEW x \in Nat, NEW h \in Nat \ {0}
  PROVE  LET y == Shr(x, h - 1)
             z == Shr(x, h)
         IN  /\ y \in Nat /\ z \in Nat
             /\ Bit(x, h - 1) = 1 => y = 2 * z + 1 /\ Sibling(y) = 2 * z
             /\ Bit(x, h - 1) # 1 => y = 2 * z /\ Sibling(y) = 2 * z + 1
<1> DEFINE y == Shr(x, h - 1)
           z == Shr(x, h)
<1>1. h - 1 \in Nat /\ (h - 1) + 1 = h OBVIOUS
<1>2. y \in Nat /\ z = y \div 2 BY <1>1, ShrHalves
<1>3. Bit(x, h - 1) = y % 2 BY DEF Bit
<1> HIDE DEF y, z
<1>4. z \in Nat /\ y = z * 2 + (y % 2) /\ y % 2 \in 0..1 BY <1>2
<1>5. y % 2 = 1 => y = 2 * z + 1 /\ Sibling(y) = 2 * z BY <1>2, <1>4 DEF Sibling
<1>6. y % 2 # 1 => y = 2 * z /\ Sibling(y) = 2 * z + 1 BY <1>2, <1>4 DEF Sibling
<1> QED BY <1>2, <1>3, <1>4, <1>5, <1>6 DEF y, z

-----------------------------------------------------------------------------
(* The distance from x to the next multiple of 1 << n after it. *)
Rem(x, n) == (Shr(x, n) + 1) * Pow2[n] - x

(* Multiplying by one more adds the number once more.                        *)
LEMMA TimesSucc ==
  ASSUME NEW m \in Int, NEW n \in Int
  PROVE  m * n \in Int /\ (m + 1) * n = m * n + n
OBVIOUS

(* The product of two numbers is a number.                                   *)
LEMMA TimesNat ==
  ASSUME NEW m \in Nat, NEW n \in Nat
  PROVE  m * n \in Nat
OBVIOUS

(* A shift by no place changes nothing.                                      *)
LEMMA ShrNone == ASSUME NEW x \in Nat PROVE Shr(x, 0) = x
<1>1. x \div 1 = x OBVIOUS
<1> QED BY <1>1, Pow2Recursion DEF Shr

(* The distance to the next multiple is between 1 and the modulus.           *)
LEMMA RemRange ==
  ASSUME NEW x \in Nat, NEW n \in Nat
  PROVE  /\ Rem(x, n) \in 1..Pow2[n]
         /\ Shr(x, n) * Pow2[n] <= x
         /\ x < (Shr(x, n) + 1) * Pow2[n]
<1> DEFINE t == Pow2[n]
           q == x \div t
           r == x % t
<1>1. t \in Nat \ {0} BY Pow2Recursion
<1>2. q \in Nat /\ r \in 0..(t - 1) /\ x = q * t + r
  <2> HIDE DEF t
  <2> QED BY ONLY <1>1, SplitAt
<1>3. (q + 1) * t = q * t + t /\ q * t \in Nat
  <2> HIDE DEF q, t
  <2> QED BY ONLY <1>1, <1>2
<1>4. (q + 1) * t - x \in 1..t /\ q * t <= x /\ x < (q + 1) * t
  <2> HIDE DEF q, t, r
  <2> DEFINE m == q * t
             mm == (q + 1) * t
  <2>1. m \in Nat /\ mm = m + t /\ x = m + r BY <1>2, <1>3
  <2> HIDE DEF m, mm
  <2>2. mm - x \in 1..t /\ m <= x /\ x < mm BY <2>1, <1>1, <1>2
  <2> QED BY <2>2 DEF m, mm
<1> QED BY <1>4 DEF Rem, Shr

(* The shift of a number that lies between two multiples.                    *)
LEMMA ShrUnique ==
  ASSUME NEW x \in Nat, NEW n \in Nat, NEW q \in Nat,
         q * Pow2[n] <= x, x < (q + 1) * Pow2[n]
  PROVE  Shr(x, n) = q
<1> DEFINE t == Pow2[n]
           u == Shr(x, n)
<1>1. t \in Nat \ {0} BY Pow2Recursion
<1>2. u \in Nat BY ShrHalves
<1>3. u * t <= x /\ x < (u + 1) * t BY RemRange
<1> HIDE DEF t, u
<1>4. q * t <= x /\ x < (q + 1) * t BY DEF t
<1>5. ASSUME u < q PROVE FALSE
  <2>1. u + 1 <= q BY <1>5, <1>2
  <2>2. (u + 1) * t <= q * t BY ONLY <2>1, <1>1, <1>2, q \in Nat
  <2>3. (u + 1) * t \in Nat /\ q * t \in Nat BY ONLY <1>1, <1>2, q \in Nat
  <2> QED BY ONLY <2>2, <2>3, <1>3, <1>4, x \in Nat
<1>6. ASSUME q < u PROVE FALSE
  <2>1. q + 1 <= u BY <1>6, <1>2
  <2>2. (q + 1) * t <= u * t BY ONLY <2>1, <1>1, <1>2, q \in Nat
  <2>3. (q + 1) * t \in Nat /\ u * t \in Nat BY ONLY <1>1, <1>2, q \in Nat
  <2> QED BY ONLY <2>2, <2>3, <1>3, <1>4, x \in Nat
<1>7. u = q
  <2>1. ~(u < q) /\ ~(q < u) BY <1>5, <1>6
  <2> QED BY ONLY <2>1, <1>2, q \in Nat
<1> QED BY <1>7 DEF u

(* A bit is 0 or 1, and says whether the shift is even.                      *)
LEMMA BitValue ==
  ASSUME NEW x \in Nat, NEW n \in Nat
  PROVE  /\ Bit(x, n) \in {0, 1}
         /\ Shr(x, n) = 2 * Shr(x, n + 1) + Bit(x, n)
<1>1. Shr(x, n) \in Nat /\ Shr(x, n + 1) = Shr(x, n) \div 2 BY ShrHalves
<1> DEFINE u == Shr(x, n)
<1>2. u % 2 \in {0, 1} /\ u = 2 * (u \div 2) + (u % 2)
  <2>1. u \in Nat BY <1>1
  <2> HIDE DEF u
  <2> QED BY <2>1
<1> QED BY <1>1, <1>2 DEF Bit

(* Counting up past n ones: every shift below goes up by one, and the next   *)
(* number is a multiple of 1 << n.                                           *)
LEMMA Ones ==
  ASSUME NEW x \in Nat, NEW t \in Nat, \A n \in 0..(t - 1) : Bit(x, n) = 1
  PROVE  \A n \in 0..t : /\ Shr(x + 1, n) = Shr(x, n) + 1
                         /\ Rem(x, n) = 1
<1> DEFINE S == {n \in Nat : n <= t => /\ Shr(x + 1, n) = Shr(x, n) + 1
                                       /\ x + 1 = (Shr(x, n) + 1) * Pow2[n]}
<1>1. 0 \in S BY ShrNone, Pow2Recursion
<1>2. ASSUME NEW n \in Nat, n \in S PROVE n + 1 \in S
  <2> SUFFICES ASSUME n + 1 <= t
               PROVE  /\ Shr(x + 1, n + 1) = Shr(x, n + 1) + 1
                      /\ x + 1 = (Shr(x, n + 1) + 1) * Pow2[n + 1]
    OBVIOUS
  <2>1. n \in 0..(t - 1) /\ n <= t OBVIOUS
  <2>2. Bit(x, n) = 1 BY <2>1
  <2>3. Shr(x + 1, n) = Shr(x, n) + 1 /\ x + 1 = (Shr(x, n) + 1) * Pow2[n]
    BY <1>2, <2>1
  <2>4. Shr(x, n) = 2 * Shr(x, n + 1) + 1 /\ Shr(x, n + 1) \in Nat
    BY <2>2, BitValue, ShrHalves
  <2>5. Shr(x + 1, n + 1) = Shr(x + 1, n) \div 2 BY ShrHalves
  <2>6. Shr(x + 1, n + 1) = Shr(x, n + 1) + 1
    <3> DEFINE u == Shr(x, n + 1)
               v == Shr(x + 1, n)
    <3>1. u \in Nat /\ v = 2 * u + 2 BY <2>3, <2>4
    <3> HIDE DEF u, v
    <3>2. v \div 2 = u + 1 BY <3>1
    <3> QED BY <3>2, <2>5 DEF u, v
  <2>7. x + 1 = (Shr(x, n + 1) + 1) * Pow2[n + 1]
    <3> DEFINE u == Shr(x, n + 1)
               m == Pow2[n]
    <3>1. m \in Nat /\ Pow2[n + 1] = 2 * m BY Pow2Recursion
    <3>2. x + 1 = (2 * u + 1 + 1) * m /\ u \in Nat BY <2>3, <2>4
    <3> HIDE DEF u, m
    <3>3. (2 * u + 1 + 1) * m = (u + 1) * (2 * m) BY ONLY <3>1, <3>2
    <3>4. x + 1 = (u + 1) * Pow2[n + 1] BY ONLY <3>1, <3>2, <3>3
    <3> QED BY <3>4 DEF u
  <2> QED BY <2>6, <2>7
<1>3. Nat \subseteq S
  <2> HIDE DEF S
  <2> QED BY <1>1, <1>2, SetInduction
<1>4. ASSUME NEW n \in 0..t PROVE Shr(x + 1, n) = Shr(x, n) + 1 /\ Rem(x, n) = 1
  <2>1. n \in S BY <1>3
  <2>2. Shr(x + 1, n) = Shr(x, n) + 1 /\ x + 1 = (Shr(x, n) + 1) * Pow2[n] BY <2>1
  <2> QED BY <2>2 DEF Rem
<1> QED BY <1>4

(* Past a zero nothing changes.                                              *)
LEMMA Carry ==
  ASSUME NEW x \in Nat, NEW t \in Nat, \A n \in 0..(t - 1) : Bit(x, n) = 1,
         Bit(x, t) = 0
  PROVE  /\ \A n \in Nat : n > t => /\ Shr(x + 1, n) = Shr(x, n)
                                    /\ Bit(x + 1, n) = Bit(x, n)
                                    /\ Rem(x, n) > 1
                                    /\ Rem(x + 1, n) = Rem(x, n) - 1
         /\ Bit(x + 1, t) = 1
         /\ \A n \in 0..(t - 1) : Bit(x + 1, n) = 0
         /\ \A n \in 0..t : Rem(x + 1, n) = Pow2[n]
<1>1. \A n \in 0..t : Shr(x + 1, n) = Shr(x, n) + 1 /\ Rem(x, n) = 1 BY Ones
<1>2. Shr(x, t) = 2 * Shr(x, t + 1) /\ Shr(x, t + 1) \in Nat BY BitValue, ShrHalves
<1>3. Shr(x + 1, t) = 2 * Shr(x, t + 1) + 1 BY <1>1, <1>2
<1>4. Shr(x + 1, t + 1) = Shr(x, t + 1)
  <2>1. Shr(x + 1, t + 1) = Shr(x + 1, t) \div 2 BY ShrHalves
  <2> QED BY <1>2, <1>3, <2>1
<1>5. Bit(x + 1, t) = 1 BY <1>2, <1>3 DEF Bit
<1>6. ASSUME NEW n \in 0..(t - 1) PROVE Bit(x + 1, n) = 0
  <2>1. Bit(x, n) = 1 OBVIOUS
  <2>2. Shr(x + 1, n) = Shr(x, n) + 1 BY <1>1
  <2>3. Shr(x, n) = 2 * Shr(x, n + 1) + 1 /\ Shr(x, n + 1) \in Nat
    BY <2>1, BitValue, ShrHalves
  <2> QED BY <2>2, <2>3 DEF Bit
<1>7. ASSUME NEW n \in Nat, n > t PROVE Shr(x + 1, n) = Shr(x, n)
  <2> DEFINE m == n - (t + 1)
  <2>1. m \in Nat /\ (t + 1) + m = n /\ t + 1 \in Nat BY <1>7
  <2>2. Shr(Shr(x, t + 1), m) = Shr(x, (t + 1) + m) BY <2>1, ShrSum
  <2>3. Shr(Shr(x + 1, t + 1), m) = Shr(x + 1, (t + 1) + m) BY <2>1, ShrSum
  <2> QED BY <2>1, <2>2, <2>3, <1>4
<1>8. ASSUME NEW n \in Nat, n > t
      PROVE  Rem(x + 1, n) = Rem(x, n) - 1 /\ Rem(x, n) > 1
  <2> DEFINE m == (Shr(x, n) + 1) * Pow2[n]
  <2>1. m \in Int
    <3>1. Shr(x, n) \in Nat /\ Pow2[n] \in Nat BY ShrHalves, Pow2Recursion
    <3> QED BY ONLY <3>1
  <2>2. Rem(x, n) = m - x /\ Rem(x + 1, n) = m - (x + 1)
    BY <1>7, <1>8 DEF Rem
  <2>3. Rem(x + 1, n) >= 1 BY RemRange
  <2> HIDE DEF m
  <2> QED BY <2>1, <2>2, <2>3
<1>9. ASSUME NEW n \in 0..t PROVE Rem(x + 1, n) = Pow2[n]
  <2> DEFINE q == Shr(x, n)
             m == Pow2[n]
  <2>0. n \in Nat OBVIOUS
  <2>1. q \in Nat /\ m \in Nat BY <2>0, ShrHalves, Pow2Recursion
  <2>2. Shr(x + 1, n) = q + 1 /\ (q + 1) * m - x = 1 BY <1>1 DEF Rem
  <2>3. Rem(x + 1, n) = ((q + 1) + 1) * m - (x + 1) BY <2>2 DEF Rem
  <2> HIDE DEF q, m
  <2>4. ((q + 1) + 1) * m = (q + 1) * m + m /\ (q + 1) * m \in Nat BY ONLY <2>1
  <2>5. Rem(x + 1, n) = m
    <3> DEFINE k == (q + 1) * m
    <3>1. k \in Nat /\ k - x = 1 /\ Rem(x + 1, n) = (k + m) - (x + 1) BY <2>2, <2>3, <2>4
    <3> HIDE DEF k
    <3> QED BY <3>1, <2>1
  <2> QED BY <2>5 DEF m
<1> QED BY <1>5, <1>6, <1>7, <1>8, <1>9 DEF Bit

(* A number with a one below n is not a multiple of 1 << n.                  *)
LEMMA OneBelow ==
  ASSUME NEW x \in Nat, NEW n \in Nat, NEW l \in 0..(n - 1), Bit(x, l) = 1
  PROVE  Rem(x, n) < Pow2[n]
<1>1. Rem(x, n) \in 1..Pow2[n] BY RemRange
<1>2. SUFFICES ASSUME Rem(x, n) = Pow2[n] PROVE FALSE
  <2>1. Pow2[n] \in Nat BY Pow2Recursion
  <2> QED BY <1>1, <2>1
<1> DEFINE q == Shr(x, n)
           m == n - (l + 1)
<1>3. m \in Nat /\ (l + 1) + m = n OBVIOUS
<1>4. q \in Nat /\ Pow2[n] \in Nat \ {0} /\ Pow2[l] \in Nat \ {0} /\ Pow2[m] \in Nat \ {0}
  <2>1. l \in Nat OBVIOUS
  <2> HIDE DEF m
  <2> QED BY <2>1, <1>3, ShrHalves, Pow2Recursion
<1>5. x = q * Pow2[n]
  <2> DEFINE t == Pow2[n]
  <2>1. (q + 1) * t - x = t BY <1>2 DEF Rem
  <2>2. (q + 1) * t = q * t + t /\ q * t \in Nat
    <3> HIDE DEF q
    <3> QED BY ONLY <1>4
  <2> DEFINE k == q * t
             kk == (q + 1) * t
  <2>3. t \in Nat /\ k \in Nat /\ kk = k + t /\ kk - x = t BY <1>4, <2>1, <2>2
  <2> HIDE DEF k, kk, t
  <2>4. x = k BY <2>3
  <2> QED BY <2>4 DEF k, t
<1>6. Pow2[n] = (2 * Pow2[l]) * Pow2[m]
  <2>1. Pow2[(l + 1) + m] = Pow2[l + 1] * Pow2[m] BY <1>3, Pow2Sum
  <2>2. Pow2[l + 1] = 2 * Pow2[l] BY Pow2Recursion
  <2> QED BY <2>1, <2>2, <1>3
<1> DEFINE u == q * Pow2[m]
           w == 2 * u
<1>7. u \in Nat /\ w \in Nat /\ x = w * Pow2[l]
  <2> HIDE DEF q
  <2> DEFINE a == Pow2[l]
             b == Pow2[m]
  <2>1. a \in Nat /\ b \in Nat /\ x = q * ((2 * a) * b) BY <1>4, <1>5, <1>6
  <2> HIDE DEF a, b
  <2>2. q * b \in Nat BY ONLY <2>1, <1>4
  <2>3. q * ((2 * a) * b) = (2 * (q * b)) * a BY ONLY <2>1, <1>4
  <2> QED BY <2>1, <2>2, <2>3 DEF a, b
<1>8. Shr(x, l) = w
  <2> HIDE DEF w
  <2>1. w * Pow2[l] <= x BY <1>7
  <2>2. x < (w + 1) * Pow2[l]
    <3>1. (w + 1) * Pow2[l] = w * Pow2[l] + Pow2[l] BY <1>4, <1>7, TimesSucc
    <3> QED BY <3>1, <1>4, <1>7
  <2>3. l \in Nat OBVIOUS
  <2> QED BY <2>1, <2>2, <2>3, <1>7, ShrUnique
<1>9. Bit(x, l) = 0
  <2> HIDE DEF u
  <2> QED BY <1>7, <1>8 DEF Bit
<1> QED BY <1>9

-----------------------------------------------------------------------------
(* g is the recursion of SumTo up to n. *)
Adding(n, g, f) == g = [i \in 0..n |-> IF i = 0 THEN 0 ELSE g[i - 1] + f[i - 1]]

(* The recursion that defines SumTo can be carried out over any number of    *)
(* terms.                                                                    *)
LEMMA AddingExists ==
  ASSUME NEW f
  PROVE  \A n \in Nat : \E g : Adding(n, g, f)
<1> DEFINE S == {n \in Nat : \E g : Adding(n, g, f)}
<1>1. 0 \in S
  <2>1. Adding(0, [i \in 0..0 |-> 0], f) BY DEF Adding
  <2> QED BY <2>1
<1>2. ASSUME NEW n \in Nat, n \in S PROVE n + 1 \in S
  <2>1. PICK g : Adding(n, g, f) BY <1>2
  <2> DEFINE h == [i \in 0..(n + 1) |-> IF i = n + 1 THEN g[n] + f[n] ELSE g[i]]
  <2>2. ASSUME NEW i \in 0..(n + 1)
        PROVE  h[i] = IF i = 0 THEN 0 ELSE h[i - 1] + f[i - 1]
    <3>1. CASE i = n + 1
      <4>1. i # 0 /\ i - 1 = n /\ n \in 0..(n + 1) /\ n # n + 1 BY <3>1
      <4>2. h[i] = g[n] + f[n] BY <3>1
      <4>3. h[n] = g[n] BY <4>1
      <4> QED BY <4>1, <4>2, <4>3, <3>1
    <3>2. CASE i # n + 1
      <4>1. i \in 0..n BY <3>2
      <4>2. h[i] = g[i] BY <3>2
      <4>3. g[i] = IF i = 0 THEN 0 ELSE g[i - 1] + f[i - 1]
        BY <2>1, <4>1 DEF Adding
      <4>4. i # 0 => h[i - 1] = g[i - 1] BY <4>1
      <4> QED BY <4>2, <4>3, <4>4
    <3> QED BY <3>1, <3>2
  <2>3. h = [i \in 0..(n + 1) |-> h[i]] OBVIOUS
  <2>4. Adding(n + 1, h, f)
    <3> HIDE DEF h
    <3> QED BY <2>2, <2>3 DEF Adding
  <2> QED BY <2>4
<1>3. Nat \subseteq S
  <2> HIDE DEF S
  <2> QED BY <1>1, <1>2, SetInduction
<1> QED BY <1>3

(* Two such recursions agree where both are defined.                         *)
LEMMA AddingUnique ==
  ASSUME NEW m \in Nat, NEW n \in Nat, NEW f, NEW g, NEW h,
         Adding(m, g, f), Adding(n, h, f), m <= n
  PROVE  g[m] = h[m]
<1> DEFINE S == {i \in Nat : i <= m => g[i] = h[i]}
<1>1. 0 \in S BY DEF Adding
<1>2. ASSUME NEW i \in Nat, i \in S PROVE i + 1 \in S
  <2> SUFFICES ASSUME i + 1 <= m PROVE g[i + 1] = h[i + 1] OBVIOUS
  <2>1. i + 1 \in 0..m /\ i + 1 \in 0..n /\ i + 1 # 0 /\ (i + 1) - 1 = i OBVIOUS
  <2>2. g[i + 1] = g[i] + f[i] /\ h[i + 1] = h[i] + f[i] BY <2>1 DEF Adding
  <2>3. g[i] = h[i] BY <1>2
  <2> QED BY <2>2, <2>3
<1>3. Nat \subseteq S
  <2> HIDE DEF S
  <2> QED BY <1>1, <1>2, SetInduction
<1> QED BY <1>3

(* What the recursive definition of SumTo says.                              *)
LEMMA SumRecursion ==
  ASSUME NEW f
  PROVE  /\ SumTo(f, 0) = 0
         /\ \A n \in Nat : SumTo(f, n + 1) = SumTo(f, n) + f[n]
<1> DEFINE Upto(n) == CHOOSE g : Adding(n, g, f)
<1>1. \A n \in Nat : Adding(n, Upto(n), f) BY AddingExists
<1>2. \A n \in Nat : SumTo(f, n) = Upto(n)[n] BY DEF SumTo, Adding
<1> HIDE DEF Upto
<1>3. SumTo(f, 0) = 0
  <2>1. Adding(0, Upto(0), f) /\ 0 \in 0..0 BY <1>1
  <2>2. Upto(0)[0] = 0 BY <2>1 DEF Adding
  <2> QED BY <1>2, <2>2
<1>4. ASSUME NEW n \in Nat PROVE SumTo(f, n + 1) = SumTo(f, n) + f[n]
  <2>1. Adding(n, Upto(n), f) /\ Adding(n + 1, Upto(n + 1), f) BY <1>1
  <2>2. n <= n + 1 OBVIOUS
  <2>3. Upto(n)[n] = Upto(n + 1)[n] BY <2>1, <2>2, AddingUnique
  <2>4. n + 1 \in 0..(n + 1) /\ n + 1 # 0 /\ (n + 1) - 1 = n OBVIOUS
  <2>5. Upto(n + 1)[n + 1] = Upto(n + 1)[n] + f[n] BY <2>1, <2>4 DEF Adding
  <2>6. SumTo(f, n + 1) = Upto(n + 1)[n + 1] /\ SumTo(f, n) = Upto(n)[n] BY <1>2
  <2> QED BY <2>3, <2>5, <2>6
<1> QED BY <1>3, <1>4

(* A sum of integers is one.                                                 *)
LEMMA SumInt ==
  ASSUME NEW f, NEW n \in Nat, \A i \in 0..(n - 1) : f[i] \in Int
  PROVE  SumTo(f, n) \in Int
<1> DEFINE S == {m \in Nat : m <= n => SumTo(f, m) \in Int}
<1>1. 0 \in S BY SumRecursion
<1>2. ASSUME NEW m \in Nat, m \in S PROVE m + 1 \in S
  <2> SUFFICES ASSUME m + 1 <= n PROVE SumTo(f, m + 1) \in Int OBVIOUS
  <2>1. f[m] \in Int /\ SumTo(f, m) \in Int BY <1>2
  <2>2. SumTo(f, m + 1) = SumTo(f, m) + f[m] BY SumRecursion
  <2> QED BY <2>1, <2>2
<1>3. Nat \subseteq S
  <2> HIDE DEF S
  <2> QED BY <1>1, <1>2, SetInduction
<1> QED BY <1>3

(* Greater terms make a greater sum.                                         *)
LEMMA SumLeq ==
  ASSUME NEW f, NEW g, NEW n \in Nat,
         \A i \in 0..(n - 1) : f[i] \in Int /\ g[i] \in Int /\ f[i] <= g[i]
  PROVE  SumTo(f, n) <= SumTo(g, n)
<1> DEFINE S == {m \in Nat : m <= n => /\ SumTo(f, m) \in Int /\ SumTo(g, m) \in Int
                                       /\ SumTo(f, m) <= SumTo(g, m)}
<1>1. 0 \in S BY SumRecursion
<1>2. ASSUME NEW m \in Nat, m \in S PROVE m + 1 \in S
  <2> SUFFICES ASSUME m + 1 <= n
               PROVE  /\ SumTo(f, m + 1) \in Int /\ SumTo(g, m + 1) \in Int
                      /\ SumTo(f, m + 1) <= SumTo(g, m + 1)
    OBVIOUS
  <2>1. f[m] \in Int /\ g[m] \in Int /\ f[m] <= g[m] OBVIOUS
  <2>2. SumTo(f, m) \in Int /\ SumTo(g, m) \in Int /\ SumTo(f, m) <= SumTo(g, m) BY <1>2
  <2>3. SumTo(f, m + 1) = SumTo(f, m) + f[m] BY SumRecursion
  <2>4. SumTo(g, m + 1) = SumTo(g, m) + g[m] BY SumRecursion
  <2> QED BY <2>1, <2>2, <2>3, <2>4
<1>3. Nat \subseteq S
  <2> HIDE DEF S
  <2> QED BY <1>1, <1>2, SetInduction
<1> QED BY <1>3

(* A sum changes by what one of its terms changes by.                        *)
LEMMA SumChange ==
  ASSUME NEW f, NEW g, NEW n \in Nat, NEW c \in 0..(n - 1),
         \A i \in 0..(n - 1) : f[i] \in Int /\ g[i] \in Int,
         \A i \in 0..(n - 1) : i # c => f[i] = g[i]
  PROVE  SumTo(g, n) = SumTo(f, n) + (g[c] - f[c])
<1> DEFINE S == {m \in Nat : m <= n => /\ SumTo(f, m) \in Int /\ SumTo(g, m) \in Int
                                       /\ m <= c => SumTo(g, m) = SumTo(f, m)
                                       /\ m > c => SumTo(g, m) = SumTo(f, m) + (g[c] - f[c])}
<1>1. 0 \in S BY SumRecursion
<1>2. ASSUME NEW m \in Nat, m \in S PROVE m + 1 \in S
  <2> SUFFICES ASSUME m + 1 <= n
               PROVE  /\ SumTo(f, m + 1) \in Int /\ SumTo(g, m + 1) \in Int
                      /\ m + 1 <= c => SumTo(g, m + 1) = SumTo(f, m + 1)
                      /\ m + 1 > c => SumTo(g, m + 1) = SumTo(f, m + 1) + (g[c] - f[c])
    OBVIOUS
  <2>1. f[m] \in Int /\ g[m] \in Int /\ (m # c => f[m] = g[m])
        /\ f[c] \in Int /\ g[c] \in Int
    OBVIOUS
  <2>2. /\ SumTo(f, m) \in Int /\ SumTo(g, m) \in Int
        /\ m <= c => SumTo(g, m) = SumTo(f, m)
        /\ m > c => SumTo(g, m) = SumTo(f, m) + (g[c] - f[c])
    BY <1>2
  <2>3. SumTo(f, m + 1) = SumTo(f, m) + f[m] BY SumRecursion
  <2>4. SumTo(g, m + 1) = SumTo(g, m) + g[m] BY SumRecursion
  <2> QED BY <2>1, <2>2, <2>3, <2>4
<1>3. Nat \subseteq S
  <2> HIDE DEF S
  <2> QED BY <1>1, <1>2, SetInduction
<1> QED BY <1>3

(* A sum of n terms up to c is at most n * c.                                *)
LEMMA SumBound ==
  ASSUME NEW f, NEW n \in Nat, NEW c \in Nat,
         \A i \in 0..(n - 1) : f[i] \in Int /\ f[i] <= c
  PROVE  SumTo(f, n) <= n * c
<1> DEFINE S == {m \in Nat : m <= n => SumTo(f, m) \in Int /\ SumTo(f, m) <= m * c}
<1>1. 0 \in S BY SumRecursion
<1>2. ASSUME NEW m \in Nat, m \in S PROVE m + 1 \in S
  <2> SUFFICES ASSUME m + 1 <= n
               PROVE  SumTo(f, m + 1) \in Int /\ SumTo(f, m + 1) <= (m + 1) * c
    OBVIOUS
  <2>1. f[m] \in Int /\ f[m] <= c OBVIOUS
  <2>2. SumTo(f, m) \in Int /\ SumTo(f, m) <= m * c BY <1>2
  <2>3. SumTo(f, m + 1) = SumTo(f, m) + f[m] BY SumRecursion
  <2>4. (m + 1) * c = m * c + c /\ m * c \in Int BY TimesSucc
  <2> QED BY <2>1, <2>2, <2>3, <2>4
<1>3. Nat \subseteq S
  <2> HIDE DEF S
  <2> QED BY <1>1, <1>2, SetInduction
<1> QED BY <1>3

(* No term of a sum of naturals is greater than the sum.                     *)
LEMMA SumTerm ==
  ASSUME NEW f, NEW n \in Nat, NEW c \in 0..(n - 1), \A i \in 0..(n - 1) : f[i] \in Nat
  PROVE  f[c] <= SumTo(f, n)
<1> DEFINE S == {m \in Nat : m <= n => SumTo(f, m) \in Nat /\ (m > c => f[c] <= SumTo(f, m))}
<1>1. 0 \in S BY SumRecursion
<1>2. ASSUME NEW m \in Nat, m \in S PROVE m + 1 \in S
  <2> SUFFICES ASSUME m + 1 <= n
               PROVE  SumTo(f, m + 1) \in Nat /\ (m + 1 > c => f[c] <= SumTo(f, m + 1))
    OBVIOUS
  <2>1. f[m] \in Nat /\ f[c] \in Nat OBVIOUS
  <2>2. SumTo(f, m) \in Nat /\ (m > c => f[c] <= SumTo(f, m)) BY <1>2
  <2>3. SumTo(f, m + 1) = SumTo(f, m) + f[m] BY SumRecursion
  <2> QED BY <2>1, <2>2, <2>3
<1>3. Nat \subseteq S
  <2> HIDE DEF S
  <2> QED BY <1>1, <1>2, SetInduction
<1> QED BY <1>3

-----------------------------------------------------------------------------
(* One step of compute_root, from height h - 1 to height h. *)
Up(a, leaf, auth, h, x) ==
  IF Bit(leaf, h - 1) = 1
  THEN HashPair(a, h - 1, Shr(leaf, h), auth[h - 1], x)
  ELSE HashPair(a, h - 1, Shr(leaf, h), x, auth[h - 1])

(* g is the recursion of ComputeRoot up to height n. *)
Climb(n, g, a, leafNode, leaf, auth) ==
  g = [h \in 0..n |-> IF h = 0 THEN leafNode ELSE Up(a, leaf, auth, h, g[h - 1])]

-----------------------------------------------------------------------------
(* A value of the tree is not Junk, and no one-time signature is.            *)
LEMMA NodeIsNotJunk ==
  ASSUME NEW a, NEW h, NEW i
  PROVE  Node(a, h, i) # Junk
<1>1. DOMAIN Node(a, h, i) = {"subtree", "height", "index"} BY DEF Node
<1>2. DOMAIN Junk = {"junk"} BY DEF Junk
<1> QED BY <1>1, <1>2

LEMMA SigIsNotJunk ==
  ASSUME NEW a, NEW leaf, NEW m
  PROVE  WotsSign(a, leaf, m) # Junk
<1>1. DOMAIN WotsSign(a, leaf, m) = {"key", "msg"} BY DEF WotsSign
<1>2. DOMAIN Junk = {"junk"} BY DEF Junk
<1> QED BY <1>1, <1>2

LEMMA DigestIsNotJunk ==
  ASSUME NEW r, NEW idx, NEW m
  PROVE  Digest(r, idx, m) # Junk
<1>1. DOMAIN Digest(r, idx, m) = {"r", "idx", "msg"} BY DEF Digest
<1>2. DOMAIN Junk = {"junk"} BY DEF Junk
<1> QED BY <1>1, <1>2

(* The recursion of compute_root can be carried out up to any height.        *)
LEMMA ClimbExists ==
  ASSUME NEW a, NEW leafNode, NEW leaf, NEW auth
  PROVE  \A n \in Nat : \E g : Climb(n, g, a, leafNode, leaf, auth)
<1> DEFINE S == {n \in Nat : \E g : Climb(n, g, a, leafNode, leaf, auth)}
<1>1. 0 \in S
  <2>1. Climb(0, [h \in 0..0 |-> leafNode], a, leafNode, leaf, auth) BY DEF Climb
  <2> QED BY <2>1
<1>2. ASSUME NEW n \in Nat, n \in S PROVE n + 1 \in S
  <2>1. PICK g : Climb(n, g, a, leafNode, leaf, auth) BY <1>2
  <2> DEFINE f == [h \in 0..(n + 1) |->
                     IF h = n + 1 THEN Up(a, leaf, auth, n + 1, g[n]) ELSE g[h]]
  <2>2. ASSUME NEW h \in 0..(n + 1)
        PROVE  f[h] = IF h = 0 THEN leafNode ELSE Up(a, leaf, auth, h, f[h - 1])
    <3>1. CASE h = n + 1
      <4>1. h # 0 /\ h - 1 = n /\ n \in 0..(n + 1) /\ n # n + 1 BY <3>1
      <4>2. f[h] = Up(a, leaf, auth, n + 1, g[n]) BY <3>1
      <4>3. f[n] = g[n] BY <4>1
      <4> QED BY <4>1, <4>2, <4>3, <3>1
    <3>2. CASE h # n + 1
      <4>1. h \in 0..n BY <3>2
      <4>2. f[h] = g[h] BY <3>2
      <4>3. g[h] = IF h = 0 THEN leafNode ELSE Up(a, leaf, auth, h, g[h - 1])
        BY <2>1, <4>1 DEF Climb
      <4>4. h # 0 => f[h - 1] = g[h - 1] BY <4>1
      <4> QED BY <4>2, <4>3, <4>4
    <3> QED BY <3>1, <3>2
  <2>3. f = [h \in 0..(n + 1) |-> f[h]] OBVIOUS
  <2>4. Climb(n + 1, f, a, leafNode, leaf, auth)
    <3> HIDE DEF f
    <3> QED BY <2>2, <2>3 DEF Climb
  <2> QED BY <2>4
<1>3. Nat \subseteq S
  <2> HIDE DEF S
  <2> QED BY <1>1, <1>2, SetInduction
<1> QED BY <1>3

(* What the recursive definition of ComputeRoot says.                        *)
LEMMA ComputeRootRecursion ==
  ASSUME NEW th \in Nat, NEW a, NEW leafNode, NEW leaf, NEW auth
  PROVE  \E up : /\ up[0] = leafNode
                 /\ \A h \in 1..th : up[h] = Up(a, leaf, auth, h, up[h - 1])
                 /\ ComputeRoot(th, a, leafNode, leaf, auth) = up[th]
<1> DEFINE up == CHOOSE g : Climb(th, g, a, leafNode, leaf, auth)
<1>1. Climb(th, up, a, leafNode, leaf, auth) BY ClimbExists
<1>2. ComputeRoot(th, a, leafNode, leaf, auth) = up[th]
  BY DEF ComputeRoot, Climb, Up
<1> HIDE DEF up
<1>3. up[0] = leafNode BY <1>1 DEF Climb
<1>4. ASSUME NEW h \in 1..th PROVE up[h] = Up(a, leaf, auth, h, up[h - 1])
  <2>1. h \in 0..th /\ h # 0 OBVIOUS
  <2> QED BY <2>1, <1>1 DEF Climb
<1> QED BY <1>2, <1>3, <1>4

-----------------------------------------------------------------------------
(* From an honest leaf and its path compute_root comes to the root.          *)
LEMMA HonestClimb ==
  ASSUME NEW th \in Nat, NEW a, NEW leaf \in 0..(Pow2[th] - 1)
  PROVE  ComputeRoot(th, a, GenLeaf(a, leaf), leaf, TreeAuth(th, a, leaf))
           = TreeRoot(th, a)
<1> DEFINE auth == TreeAuth(th, a, leaf)
<1>1. leaf \in Nat /\ leaf < Pow2[th] BY Pow2Recursion
<1>2. PICK up : /\ up[0] = GenLeaf(a, leaf)
                /\ \A h \in 1..th : up[h] = Up(a, leaf, auth, h, up[h - 1])
                /\ ComputeRoot(th, a, GenLeaf(a, leaf), leaf, auth) = up[th]
  <2> HIDE DEF auth
  <2> QED BY ComputeRootRecursion
<1> DEFINE S == {n \in Nat : n <= th => up[n] = Node(a, n, Shr(leaf, n))}
<1>3. 0 \in S
  <2>1. Shr(leaf, 0) = leaf
    <3>1. leaf \div 1 = leaf BY <1>1
    <3> QED BY <3>1, Pow2Recursion DEF Shr
  <2> QED BY <2>1, <1>2 DEF GenLeaf
<1>4. ASSUME NEW n \in Nat, n \in S PROVE n + 1 \in S
  <2> SUFFICES ASSUME n + 1 <= th PROVE up[n + 1] = Node(a, n + 1, Shr(leaf, n + 1))
    OBVIOUS
  <2>1. n + 1 \in 1..th /\ (n + 1) - 1 = n /\ n \in 0..(th - 1) OBVIOUS
  <2> DEFINE y == Shr(leaf, n)
             z == Shr(leaf, n + 1)
  <2>2. up[n] = Node(a, n, y) BY <1>4, <2>1
  <2>3. auth[n] = Node(a, n, Sibling(y)) BY <2>1 DEF TreeAuth
  <2>4. up[n + 1] = Up(a, leaf, auth, n + 1, up[n]) BY <1>2, <2>1
  <2>5. /\ Bit(leaf, n) = 1 => y = 2 * z + 1 /\ Sibling(y) = 2 * z
        /\ Bit(leaf, n) # 1 => y = 2 * z /\ Sibling(y) = 2 * z + 1
    <3>1. n + 1 \in Nat \ {0} OBVIOUS
    <3>2. LET yy == Shr(leaf, (n + 1) - 1)
              zz == Shr(leaf, n + 1)
          IN  /\ Bit(leaf, (n + 1) - 1) = 1 => yy = 2 * zz + 1 /\ Sibling(yy) = 2 * zz
              /\ Bit(leaf, (n + 1) - 1) # 1 => yy = 2 * zz /\ Sibling(yy) = 2 * zz + 1
      BY <3>1, <1>1, ParentOf
    <3> QED BY <3>2, <2>1
  <2> HIDE DEF y, z, auth
  <2>6. Up(a, leaf, auth, n + 1, up[n])
          = IF Bit(leaf, n) = 1 THEN HashPair(a, n, z, auth[n], up[n])
                                ELSE HashPair(a, n, z, up[n], auth[n])
    BY <2>1 DEF Up, z
  <2>7. CASE Bit(leaf, n) = 1
    <3>1. HashPair(a, n, z, auth[n], up[n]) = Node(a, n + 1, z)
      BY <2>2, <2>3, <2>5, <2>7 DEF HashPair
    <3> QED BY <3>1, <2>4, <2>6, <2>7 DEF z
  <2>8. CASE Bit(leaf, n) # 1
    <3>1. HashPair(a, n, z, up[n], auth[n]) = Node(a, n + 1, z)
      BY <2>2, <2>3, <2>5, <2>8 DEF HashPair
    <3> QED BY <3>1, <2>4, <2>6, <2>8 DEF z
  <2> QED BY <2>7, <2>8
<1>5. Nat \subseteq S
  <2> HIDE DEF S
  <2> QED BY <1>3, <1>4, SetInduction
<1>6. up[th] = Node(a, th, Shr(leaf, th)) BY <1>5
<1>7. Shr(leaf, th) = 0 BY <1>1, ShrZero
<1> QED BY <1>2, <1>6, <1>7 DEF TreeRoot

(* From Junk, or past a path node that is Junk, compute_root comes to Junk.  *)
LEMMA JunkClimb ==
  ASSUME NEW th \in Nat, NEW a, NEW leafNode, NEW leaf, NEW auth,
         leafNode = Junk \/ \E h \in 0..(th - 1) : auth[h] = Junk
  PROVE  ComputeRoot(th, a, leafNode, leaf, auth) = Junk
<1>1. PICK up : /\ up[0] = leafNode
                /\ \A h \in 1..th : up[h] = Up(a, leaf, auth, h, up[h - 1])
                /\ ComputeRoot(th, a, leafNode, leaf, auth) = up[th]
  BY ComputeRootRecursion
<1>2. ASSUME NEW h \in 1..th, up[h - 1] = Junk \/ auth[h - 1] = Junk
      PROVE  up[h] = Junk
  <2>1. up[h] = Up(a, leaf, auth, h, up[h - 1]) BY <1>1
  <2>2. \A i : Node(a, h - 1, i) # Junk BY NodeIsNotJunk
  <2> QED BY <2>1, <2>2, <1>2 DEF Up, HashPair
<1>3. PICK k \in 0..th : up[k] = Junk
  <2>1. CASE leafNode = Junk BY <2>1, <1>1
  <2>2. CASE \E h \in 0..(th - 1) : auth[h] = Junk
    <3>1. PICK h \in 0..(th - 1) : auth[h] = Junk BY <2>2
    <3>2. h + 1 \in 1..th /\ (h + 1) - 1 = h /\ h + 1 \in 0..th OBVIOUS
    <3>3. up[h + 1] = Junk BY <3>1, <3>2, <1>2
    <3> QED BY <3>2, <3>3
  <2> QED BY <2>1, <2>2
<1> DEFINE S == {n \in Nat : k + n <= th => up[k + n] = Junk}
<1>4. 0 \in S BY <1>3
<1>5. ASSUME NEW n \in Nat, n \in S PROVE n + 1 \in S
  <2> SUFFICES ASSUME k + (n + 1) <= th PROVE up[k + (n + 1)] = Junk OBVIOUS
  <2>1. /\ k + (n + 1) \in 1..th /\ (k + (n + 1)) - 1 = k + n /\ k + n <= th
    OBVIOUS
  <2>2. up[k + n] = Junk BY <1>5, <2>1
  <2> QED BY <2>1, <2>2, <1>2
<1>6. Nat \subseteq S
  <2> HIDE DEF S
  <2> QED BY <1>4, <1>5, SetInduction
<1>7. th - k \in Nat /\ k + (th - k) = th OBVIOUS
<1>8. up[th] = Junk BY <1>6, <1>7
<1> QED BY <1>1, <1>8

-----------------------------------------------------------------------------
(* The tree and the leaf that an index selects on layer l. *)
Place(p, idx, l) == <<l, TreeAt(p, idx, l)>>

(* One step of the loop over the layers of sign_open, to layer l. *)
Open(p, sm, l, x) ==
  ComputeRoot(p.th, Place(p, sm.idx, l - 1),
              LeafFromSig(Place(p, sm.idx, l - 1), LeafAt(p, sm.idx, l - 1),
                          sm.wots[l - 1], x),
              LeafAt(p, sm.idx, l - 1), sm.auth[l - 1])

(* g is the recursion of SignOpen up to layer n. *)
OpenLayers(n, g, p, sm) ==
  g = [l \in 0..n |-> IF l = 0 THEN Digest(sm.r, sm.idx, sm.msg)
                      ELSE Open(p, sm, l, g[l - 1])]

(* root is what sign_open computes layer by layer. *)
Opening(p, sm, root) ==
  /\ root[0] = Digest(sm.r, sm.idx, sm.msg)
  /\ \A l \in 1..p.d : root[l] = Open(p, sm, l, root[l - 1])

(* What a signature signs on layer l, and the root it ends with for l = p.d. *)
Signed(p, sm, l) ==
  IF l = 0 THEN Digest(sm.r, sm.idx, sm.msg)
           ELSE TreeRoot(p.th, Place(p, sm.idx, l - 1))

(* A signature as the signers make it. *)
Honest(p, sm) ==
  /\ sm.idx \in Nat
  /\ \A l \in 0..(p.d - 1) :
       /\ sm.wots[l] = WotsSign(Place(p, sm.idx, l), LeafAt(p, sm.idx, l), Signed(p, sm, l))
       /\ sm.auth[l] = TreeAuth(p.th, Place(p, sm.idx, l), LeafAt(p, sm.idx, l))

(* The recursion of sign_open can be carried out over any number of layers.  *)
LEMMA OpenLayersExists ==
  ASSUME NEW p, NEW sm
  PROVE  \A n \in Nat : \E g : OpenLayers(n, g, p, sm)
<1> DEFINE S == {n \in Nat : \E g : OpenLayers(n, g, p, sm)}
           first == Digest(sm.r, sm.idx, sm.msg)
<1>1. 0 \in S
  <2>1. OpenLayers(0, [l \in 0..0 |-> first], p, sm) BY DEF OpenLayers
  <2> QED BY <2>1
<1>2. ASSUME NEW n \in Nat, n \in S PROVE n + 1 \in S
  <2>1. PICK g : OpenLayers(n, g, p, sm) BY <1>2
  <2> DEFINE f == [l \in 0..(n + 1) |->
                     IF l = n + 1 THEN Open(p, sm, n + 1, g[n]) ELSE g[l]]
  <2>2. ASSUME NEW l \in 0..(n + 1)
        PROVE  f[l] = IF l = 0 THEN first ELSE Open(p, sm, l, f[l - 1])
    <3>1. CASE l = n + 1
      <4>1. l # 0 /\ l - 1 = n /\ n \in 0..(n + 1) /\ n # n + 1 BY <3>1
      <4>2. f[l] = Open(p, sm, n + 1, g[n]) BY <3>1
      <4>3. f[n] = g[n] BY <4>1
      <4> QED BY <4>1, <4>2, <4>3, <3>1
    <3>2. CASE l # n + 1
      <4>1. l \in 0..n BY <3>2
      <4>2. f[l] = g[l] BY <3>2
      <4>3. g[l] = IF l = 0 THEN first ELSE Open(p, sm, l, g[l - 1])
        BY <2>1, <4>1 DEF OpenLayers
      <4>4. l # 0 => f[l - 1] = g[l - 1] BY <4>1
      <4> QED BY <4>2, <4>3, <4>4
    <3> QED BY <3>1, <3>2
  <2>3. f = [l \in 0..(n + 1) |-> f[l]] OBVIOUS
  <2>4. OpenLayers(n + 1, f, p, sm)
    <3> HIDE DEF f
    <3> QED BY <2>2, <2>3 DEF OpenLayers
  <2> QED BY <2>4
<1>3. Nat \subseteq S
  <2> HIDE DEF S
  <2> QED BY <1>1, <1>2, SetInduction
<1> QED BY <1>3

(* What the recursive definition of SignOpen says.                           *)
LEMMA SignOpenRecursion ==
  ASSUME NEW p, p.d \in Nat, NEW pkRoot, NEW sm
  PROVE  \E root : Opening(p, sm, root) /\ (SignOpen(p, pkRoot, sm) <=> root[p.d] = pkRoot)
<1> DEFINE root == CHOOSE g : OpenLayers(p.d, g, p, sm)
<1>1. OpenLayers(p.d, root, p, sm) BY OpenLayersExists
<1>2. SignOpen(p, pkRoot, sm) <=> root[p.d] = pkRoot
  BY DEF SignOpen, OpenLayers, Open, Place
<1> HIDE DEF root
<1>3. root[0] = Digest(sm.r, sm.idx, sm.msg) BY <1>1 DEF OpenLayers
<1>4. ASSUME NEW l \in 1..p.d PROVE root[l] = Open(p, sm, l, root[l - 1])
  <2>1. l \in 0..p.d /\ l # 0 OBVIOUS
  <2> QED BY <2>1, <1>1 DEF OpenLayers
<1> QED BY <1>2, <1>3, <1>4 DEF Opening

(* An index selects a leaf that the tree has, and a tree.                    *)
LEMMA PlaceInTree ==
  ASSUME NEW th \in Nat, NEW p, p.th = th,
         NEW idx \in Nat, NEW l \in Nat
  PROVE  /\ LeafAt(p, idx, l) \in 0..(Pow2[th] - 1)
         /\ TreeAt(p, idx, l) \in Nat
<1>1. th * l \in Nat /\ th * (l + 1) \in Nat OBVIOUS
<1>2. Shr(idx, th * l) \in Nat /\ Shr(idx, th * (l + 1)) \in Nat BY ONLY <1>1, ShrHalves
<1>3. Pow2[th] \in Nat \ {0} BY Pow2Recursion
<1> DEFINE x == Shr(idx, th * l)
           t == Pow2[th]
<1>4. x % t \in 0..(t - 1)
  <2> HIDE DEF x, t
  <2>1. x \in Nat BY <1>2 DEF x
  <2>2. t \in Nat \ {0} BY <1>3 DEF t
  <2> QED BY ONLY <2>1, <2>2, SplitAt
<1> QED BY <1>2, <1>4 DEF LeafAt, TreeAt

(* sign_open recomputes what an honest signature signed, layer by layer, and *)
(* accepts it exactly if the last root is the public one.                    *)
LEMMA HonestRoot ==
  ASSUME NEW p, p.th \in Nat, p.d \in Nat, NEW pkRoot, NEW sm, Honest(p, sm)
  PROVE  SignOpen(p, pkRoot, sm) <=> Signed(p, sm, p.d) = pkRoot
<1>1. PICK root : Opening(p, sm, root) /\ (SignOpen(p, pkRoot, sm) <=> root[p.d] = pkRoot)
  BY SignOpenRecursion
<1> DEFINE S == {n \in Nat : n <= p.d => root[n] = Signed(p, sm, n)}
<1>2. 0 \in S BY <1>1 DEF Opening, Signed
<1>3. ASSUME NEW n \in Nat, n \in S PROVE n + 1 \in S
  <2> SUFFICES ASSUME n + 1 <= p.d PROVE root[n + 1] = Signed(p, sm, n + 1)
    OBVIOUS
  <2> DEFINE a    == Place(p, sm.idx, n)
             leaf == LeafAt(p, sm.idx, n)
  <2>1. n + 1 \in 1..p.d /\ (n + 1) - 1 = n /\ n \in 0..(p.d - 1) /\ n + 1 # 0 OBVIOUS
  <2>2. root[n] = Signed(p, sm, n) BY <1>3, <2>1
  <2>3. root[n + 1] = Open(p, sm, n + 1, root[n]) BY <1>1, <2>1 DEF Opening
  <2>4. /\ sm.wots[n] = WotsSign(a, leaf, Signed(p, sm, n))
        /\ sm.auth[n] = TreeAuth(p.th, a, leaf)
    BY <2>1 DEF Honest
  <2>5. LeafFromSig(a, leaf, sm.wots[n], root[n]) = GenLeaf(a, leaf)
    BY <2>2, <2>4 DEF LeafFromSig
  <2>6. leaf \in 0..(Pow2[p.th] - 1)
    <3>1. sm.idx \in Nat BY DEF Honest
    <3> QED BY <3>1, PlaceInTree
  <2>7. root[n + 1] = ComputeRoot(p.th, a, GenLeaf(a, leaf), leaf, TreeAuth(p.th, a, leaf))
    BY <2>1, <2>3, <2>4, <2>5 DEF Open
  <2>8. root[n + 1] = TreeRoot(p.th, a)
    <3> HIDE DEF a, leaf
    <3> QED BY <2>6, <2>7, HonestClimb
  <2> QED BY <2>1, <2>8 DEF Signed
<1>4. Nat \subseteq S
  <2> HIDE DEF S
  <2> QED BY <1>2, <1>3, SetInduction
<1>5. root[p.d] = Signed(p, sm, p.d) BY <1>4
<1> QED BY <1>1, <1>5

(* The tree selected on the top layer is the only one there is exactly if    *)
(* the index is one the key pair was made for.                               *)
LEMMA TopTreeOfIndex ==
  ASSUME NEW p, p.th \in Nat, p.d \in Nat \ {0}, NEW idx \in Nat
  PROVE  TreeRoot(p.th, Place(p, idx, p.d - 1)) = TreeRoot(p.th, <<p.d - 1, 0>>)
           <=> idx < Capacity(p)
<1>1. TreeAt(p, idx, p.d - 1) = Shr(idx, p.th * p.d)
  <2>1. (p.d - 1) + 1 = p.d OBVIOUS
  <2> QED BY <2>1 DEF TreeAt
<1>2. p.th * p.d \in Nat OBVIOUS
<1>3. TreeAt(p, idx, p.d - 1) = 0 <=> idx < Pow2[p.th * p.d]
  BY ONLY <1>1, <1>2, ShrZero, idx \in Nat
<1>4. TreeRoot(p.th, Place(p, idx, p.d - 1)) = TreeRoot(p.th, <<p.d - 1, 0>>)
        <=> TreeAt(p, idx, p.d - 1) = 0
  BY DEF TreeRoot, Node, Place
<1> QED BY <1>3, <1>4 DEF Capacity

(* A layer whose one-time signature is not one on the value below, or whose  *)
(* path has a node of Junk, gives Junk.                                      *)
LEMMA UnsignedLayer ==
  ASSUME NEW p, p.th \in Nat, p.d \in Nat, NEW sm, NEW root, Opening(p, sm, root),
         NEW l \in 0..(p.d - 1),
         \/ sm.wots[l] # WotsSign(Place(p, sm.idx, l), LeafAt(p, sm.idx, l), root[l])
         \/ \E h \in 0..(p.th - 1) : sm.auth[l][h] = Junk
  PROVE  root[l + 1] = Junk
<1>1. l + 1 \in 1..p.d /\ (l + 1) - 1 = l OBVIOUS
<1>2. root[l + 1] = Open(p, sm, l + 1, root[l]) BY <1>1 DEF Opening
<1> DEFINE a        == Place(p, sm.idx, l)
           leaf     == LeafAt(p, sm.idx, l)
           leafNode == LeafFromSig(a, leaf, sm.wots[l], root[l])
           auth     == sm.auth[l]
<1>3. root[l + 1] = ComputeRoot(p.th, a, leafNode, leaf, auth)
  BY <1>1, <1>2 DEF Open
<1>4. leafNode = Junk \/ \E h \in 0..(p.th - 1) : auth[h] = Junk
  BY DEF LeafFromSig
<1> HIDE DEF a, leaf, leafNode, auth
<1> QED BY <1>3, <1>4, JunkClimb

(* If no one-time signature is one on Junk, a layer that gives Junk makes    *)
(* sign_open reject.                                                         *)
LEMMA JunkRejected ==
  ASSUME NEW p, p.th \in Nat, p.d \in Nat, NEW sm, NEW root, Opening(p, sm, root),
         \A l \in 0..(p.d - 1) :
           sm.wots[l] # WotsSign(Place(p, sm.idx, l), LeafAt(p, sm.idx, l), Junk),
         NEW k \in 0..p.d, root[k] = Junk
  PROVE  root[p.d] = Junk
<1> DEFINE S == {n \in Nat : k + n <= p.d => root[k + n] = Junk}
<1>1. 0 \in S OBVIOUS
<1>2. ASSUME NEW n \in Nat, n \in S PROVE n + 1 \in S
  <2> SUFFICES ASSUME k + (n + 1) <= p.d PROVE root[k + (n + 1)] = Junk OBVIOUS
  <2>1. k + n \in 0..(p.d - 1) /\ (k + n) + 1 = k + (n + 1) OBVIOUS
  <2>2. root[k + n] = Junk BY <1>2, <2>1
  <2> DEFINE l == k + n
  <2>3. sm.wots[l] # WotsSign(Place(p, sm.idx, l), LeafAt(p, sm.idx, l), root[l])
    BY <2>1, <2>2
  <2>4. root[l + 1] = Junk
    <3>1. l \in 0..(p.d - 1) BY <2>1
    <3> HIDE DEF l
    <3> QED BY <3>1, <2>3, UnsignedLayer
  <2> QED BY <2>1, <2>4
<1>3. Nat \subseteq S
  <2> HIDE DEF S
  <2> QED BY <1>1, <1>2, SetInduction
<1>4. p.d - k \in Nat /\ k + (p.d - k) = p.d OBVIOUS
<1> QED BY <1>3, <1>4

(* An honest signature opens exactly if its index is one of the key pair's.  *)
LEMMA HonestOpens ==
  ASSUME NEW p, p.th \in Nat, p.d \in Nat \ {0}, NEW sm, Honest(p, sm)
  PROVE  SignOpen(p, TreeRoot(p.th, <<p.d - 1, 0>>), sm) <=> sm.idx < Capacity(p)
<1>1. sm.idx \in Nat BY DEF Honest
<1>2. p.d \in Nat /\ p.d # 0 OBVIOUS
<1>3. SignOpen(p, TreeRoot(p.th, <<p.d - 1, 0>>), sm)
        <=> Signed(p, sm, p.d) = TreeRoot(p.th, <<p.d - 1, 0>>)
  BY <1>2, HonestRoot
<1>4. Signed(p, sm, p.d) = TreeRoot(p.th, Place(p, sm.idx, p.d - 1))
  BY <1>2 DEF Signed
<1>5. TreeRoot(p.th, Place(p, sm.idx, p.d - 1)) = TreeRoot(p.th, <<p.d - 1, 0>>)
        <=> sm.idx < Capacity(p)
  BY <1>1, TopTreeOfIndex
<1> QED BY <1>3, <1>4, <1>5

-----------------------------------------------------------------------------
\* The shape of a state, and what the operations of treehash_update change.

(* The numbers of the treehash instances. *)
Insts(p) == 0..(Instances(p) - 1)

(* The shape of a treehash_inst.                                             *)
IsInstance(t) ==
  t = [h |-> t.h, next |-> t.next, usage |-> t.usage, completed |-> t.completed,
       node |-> t.node]

(* The shape of a bds_state. *)
IsState(p, st) ==
  /\ st = [stack |-> st.stack, levels |-> st.levels, offset |-> st.offset,
           auth |-> st.auth, keep |-> st.keep, inst |-> st.inst,
           retain |-> st.retain, nextLeaf |-> st.nextLeaf, peak |-> st.peak]
  /\ st.stack = [s \in Slots(p) |-> st.stack[s]]
  /\ st.levels = [s \in Slots(p) |-> st.levels[s]]
  /\ st.inst = [j \in Insts(p) |-> st.inst[j]]
  /\ \A j \in Insts(p) : IsInstance(st.inst[j])

(* t has what s has, but for the stack and instance j. *)
SameBut(p, s, t, j) ==
  /\ IsState(p, t)
  /\ t.auth = s.auth /\ t.keep = s.keep /\ t.retain = s.retain
  /\ t.nextLeaf = s.nextLeaf
  /\ \A i \in Insts(p) : i # j => t.inst[i] = s.inst[i]
  /\ t.inst[j].h = s.inst[j].h

(* t is s but for d nodes of instance j, taken from the stack. *)
Popped(p, s, t, j, d) ==
  /\ SameBut(p, s, t, j)
  /\ t.stack = s.stack /\ t.levels = s.levels /\ t.peak = s.peak
  /\ t.offset = s.offset - d
  /\ t.inst[j].next = s.inst[j].next
  /\ t.inst[j].completed = s.inst[j].completed
  /\ t.inst[j].node = s.inst[j].node
  /\ t.inst[j].usage = s.inst[j].usage - d

(* t is s after instance j has finished its node. *)
Finished(p, s, t, j, node) ==
  /\ SameBut(p, s, t, j)
  /\ t.stack = s.stack /\ t.levels = s.levels /\ t.peak = s.peak
  /\ t.offset = s.offset
  /\ t.inst[j].next = s.inst[j].next
  /\ t.inst[j].completed = TRUE
  /\ t.inst[j].node = node
  /\ t.inst[j].usage = s.inst[j].usage

(* t is s after instance j has put a node on the stack. *)
Stowed(p, s, t, j, node, level) ==
  /\ SameBut(p, s, t, j)
  /\ t.stack[s.offset] = node /\ t.levels[s.offset] = level
  /\ \A x \in Slots(p) : x # s.offset => t.stack[x] = s.stack[x] /\ t.levels[x] = s.levels[x]
  /\ t.peak = Max({s.peak, s.offset + 1})
  /\ t.offset = s.offset + 1
  /\ t.inst[j].completed = s.inst[j].completed
  /\ t.inst[j].node = s.inst[j].node
  /\ t.inst[j].usage = s.inst[j].usage + 1

(* The three changes treehash_update makes to the state: a node of instance  *)
(* j taken from the stack, the node of instance j finished, and a node of it *)
(* put on the stack.                                                         *)
Pop(s, j) == [s EXCEPT !.inst[j].usage = @ - 1, !.offset = @ - 1]

Mark(s, j, node) == [s EXCEPT !.inst[j].node = node, !.inst[j].completed = TRUE]

Stow(s, j, node, level, leaf) ==
  [Push(s, node, level) EXCEPT !.inst[j].usage = @ + 1, !.inst[j].next = leaf + 1]

(* Taking a node from the stack changes its height and the count of instance *)
(* j.                                                                        *)
LEMMA PopFields ==
  ASSUME NEW p, NEW s, IsState(p, s), NEW j \in Insts(p)
  PROVE  Popped(p, s, Pop(s, j), j, 1)
<1>1. PICK u : u = Pop(s, j) OBVIOUS
<1>2. s = [stack |-> s.stack, levels |-> s.levels, offset |-> s.offset,
           auth |-> s.auth, keep |-> s.keep, inst |-> s.inst,
           retain |-> s.retain, nextLeaf |-> s.nextLeaf, peak |-> s.peak]
  BY DEF IsState
<1>3. u = [stack |-> s.stack, levels |-> s.levels, offset |-> s.offset - 1,
           auth |-> s.auth, keep |-> s.keep,
           inst |-> [s.inst EXCEPT ![j].usage = @ - 1],
           retain |-> s.retain, nextLeaf |-> s.nextLeaf, peak |-> s.peak]
  BY ONLY <1>1, <1>2 DEF Pop
<1>4. PICK y : y = [s.inst[j] EXCEPT !.usage = @ - 1] OBVIOUS
<1>5. IsInstance(s.inst[j]) BY DEF IsState
<1>6. y = [h |-> s.inst[j].h, next |-> s.inst[j].next, usage |-> s.inst[j].usage - 1,
           completed |-> s.inst[j].completed, node |-> s.inst[j].node]
  BY ONLY <1>4, <1>5 DEF IsInstance
<1>7. u.inst = [i \in Insts(p) |-> IF i = j THEN y ELSE s.inst[i]]
  <2>1. s.inst = [i \in Insts(p) |-> s.inst[i]] BY DEF IsState
  <2>2. u.inst = [s.inst EXCEPT ![j].usage = @ - 1] BY ONLY <1>3
  <2> QED BY ONLY <2>1, <2>2, <1>4
<1>8. /\ u.stack = s.stack /\ u.levels = s.levels /\ u.auth = s.auth /\ u.keep = s.keep
      /\ u.retain = s.retain /\ u.nextLeaf = s.nextLeaf /\ u.peak = s.peak
      /\ u.offset = s.offset - 1
  BY ONLY <1>3
<1>9. u = [stack |-> u.stack, levels |-> u.levels, offset |-> u.offset,
           auth |-> u.auth, keep |-> u.keep, inst |-> u.inst,
           retain |-> u.retain, nextLeaf |-> u.nextLeaf, peak |-> u.peak]
  BY ONLY <1>3
<1>10. IsInstance(y) BY ONLY <1>6 DEF IsInstance
<1>11. u.inst[j] = y /\ \A i \in Insts(p) : i # j => u.inst[i] = s.inst[i]
  BY ONLY <1>7, j \in Insts(p)
<1>12. IsState(p, u) BY <1>7, <1>8, <1>9, <1>10, <1>11 DEF IsState
<1>13. /\ y.usage = s.inst[j].usage - 1 /\ y.h = s.inst[j].h /\ y.next = s.inst[j].next
       /\ y.completed = s.inst[j].completed /\ y.node = s.inst[j].node
  BY ONLY <1>6
<1>14. Popped(p, s, u, j, 1)
  <2> HIDE <1>1
  <2> QED BY <1>8, <1>11, <1>12, <1>13 DEF Popped, SameBut
<1> QED BY <1>1, <1>14

(* Finishing a node changes instance j and no other.                         *)
LEMMA FinishFields ==
  ASSUME NEW p, NEW s, IsState(p, s), NEW j \in Insts(p), NEW node
  PROVE  Finished(p, s, Mark(s, j, node), j, node)
<1>1. PICK u : u = Mark(s, j, node) OBVIOUS
<1>2. s = [stack |-> s.stack, levels |-> s.levels, offset |-> s.offset,
           auth |-> s.auth, keep |-> s.keep, inst |-> s.inst,
           retain |-> s.retain, nextLeaf |-> s.nextLeaf, peak |-> s.peak]
  BY DEF IsState
<1> DEFINE w == [s.inst EXCEPT ![j].node = node]
<1>3. u = [stack |-> s.stack, levels |-> s.levels, offset |-> s.offset,
           auth |-> s.auth, keep |-> s.keep,
           inst |-> [w EXCEPT ![j].completed = TRUE],
           retain |-> s.retain, nextLeaf |-> s.nextLeaf, peak |-> s.peak]
  BY ONLY <1>1, <1>2 DEF Mark
<1> DEFINE y0 == [s.inst[j] EXCEPT !.node = node]
<1>4. PICK y : y = [y0 EXCEPT !.completed = TRUE] OBVIOUS
<1>5. IsInstance(s.inst[j]) BY DEF IsState
<1>6. y = [h |-> s.inst[j].h, next |-> s.inst[j].next, usage |-> s.inst[j].usage,
           completed |-> TRUE, node |-> node]
  <2>1. y0 = [h |-> s.inst[j].h, next |-> s.inst[j].next, usage |-> s.inst[j].usage,
              completed |-> s.inst[j].completed, node |-> node]
    BY ONLY <1>5 DEF IsInstance
  <2> HIDE DEF y0
  <2> QED BY ONLY <1>4, <2>1
<1>7. u.inst = [i \in Insts(p) |-> IF i = j THEN y ELSE s.inst[i]]
  <2>1. s.inst = [i \in Insts(p) |-> s.inst[i]] BY DEF IsState
  <2>2. u.inst = [w EXCEPT ![j].completed = TRUE]
    <3> HIDE DEF w
    <3> QED BY ONLY <1>3
  <2>3. w = [i \in Insts(p) |-> IF i = j THEN y0 ELSE s.inst[i]] BY ONLY <2>1
  <2>4. w[j] = y0 BY ONLY <2>3, j \in Insts(p)
  <2> HIDE DEF w, y0
  <2> QED BY ONLY <2>2, <2>3, <2>4, <1>4
<1>8. /\ u.stack = s.stack /\ u.levels = s.levels /\ u.auth = s.auth /\ u.keep = s.keep
      /\ u.retain = s.retain /\ u.nextLeaf = s.nextLeaf /\ u.peak = s.peak
      /\ u.offset = s.offset
  BY ONLY <1>3
<1>9. u = [stack |-> u.stack, levels |-> u.levels, offset |-> u.offset,
           auth |-> u.auth, keep |-> u.keep, inst |-> u.inst,
           retain |-> u.retain, nextLeaf |-> u.nextLeaf, peak |-> u.peak]
  BY ONLY <1>3
<1>10. IsInstance(y) BY ONLY <1>6 DEF IsInstance
<1>11. u.inst[j] = y /\ \A i \in Insts(p) : i # j => u.inst[i] = s.inst[i]
  BY ONLY <1>7, j \in Insts(p)
<1>12. IsState(p, u) BY <1>7, <1>8, <1>9, <1>10, <1>11 DEF IsState
<1>13. /\ y.usage = s.inst[j].usage /\ y.h = s.inst[j].h /\ y.next = s.inst[j].next
       /\ y.completed = TRUE /\ y.node = node
  BY ONLY <1>6
<1>14. Finished(p, s, u, j, node)
  <2> HIDE <1>1
  <2> QED BY <1>8, <1>11, <1>12, <1>13 DEF Finished, SameBut
<1> QED BY <1>1, <1>14

(* A push changes the slot at the top of the stack, and no instance.         *)
LEMMA PushFields ==
  ASSUME NEW p, NEW s, IsState(p, s), s.offset \in Slots(p), NEW node, NEW level
  PROVE  LET u == Push(s, node, level)
         IN  /\ IsState(p, u)
             /\ u.auth = s.auth /\ u.keep = s.keep /\ u.retain = s.retain
             /\ u.nextLeaf = s.nextLeaf /\ u.inst = s.inst
             /\ u.stack[s.offset] = node /\ u.levels[s.offset] = level
             /\ \A x \in Slots(p) : x # s.offset =>
                  u.stack[x] = s.stack[x] /\ u.levels[x] = s.levels[x]
             /\ u.peak = Max({s.peak, s.offset + 1})
             /\ u.offset = s.offset + 1
<1>1. PICK u : u = Push(s, node, level) OBVIOUS
<1>2. s = [stack |-> s.stack, levels |-> s.levels, offset |-> s.offset,
           auth |-> s.auth, keep |-> s.keep, inst |-> s.inst,
           retain |-> s.retain, nextLeaf |-> s.nextLeaf, peak |-> s.peak]
  BY DEF IsState
<1>3. u = [stack |-> [s.stack EXCEPT ![s.offset] = node],
           levels |-> [s.levels EXCEPT ![s.offset] = level],
           offset |-> s.offset + 1, auth |-> s.auth, keep |-> s.keep, inst |-> s.inst,
           retain |-> s.retain, nextLeaf |-> s.nextLeaf,
           peak |-> Max({s.peak, s.offset + 1})]
  BY ONLY <1>1, <1>2 DEF Push
<1>4. /\ u.offset = s.offset + 1 /\ u.auth = s.auth /\ u.keep = s.keep
      /\ u.retain = s.retain /\ u.nextLeaf = s.nextLeaf /\ u.inst = s.inst
      /\ u.peak = Max({s.peak, s.offset + 1})
      /\ u.stack = [s.stack EXCEPT ![s.offset] = node]
      /\ u.levels = [s.levels EXCEPT ![s.offset] = level]
  BY ONLY <1>3
<1>5. /\ u.stack = [x \in Slots(p) |-> IF x = s.offset THEN node ELSE s.stack[x]]
      /\ u.levels = [x \in Slots(p) |-> IF x = s.offset THEN level ELSE s.levels[x]]
  <2>1. s.stack = [x \in Slots(p) |-> s.stack[x]] /\ s.levels = [x \in Slots(p) |-> s.levels[x]]
    BY DEF IsState
  <2> QED BY ONLY <1>4, <2>1
<1>6. u = [stack |-> u.stack, levels |-> u.levels, offset |-> u.offset,
           auth |-> u.auth, keep |-> u.keep, inst |-> u.inst,
           retain |-> u.retain, nextLeaf |-> u.nextLeaf, peak |-> u.peak]
  BY ONLY <1>3
<1>7. /\ u.stack[s.offset] = node /\ u.levels[s.offset] = level
      /\ \A x \in Slots(p) : x # s.offset => u.stack[x] = s.stack[x] /\ u.levels[x] = s.levels[x]
  BY ONLY <1>5, s.offset \in Slots(p)
<1>8. u.stack = [x \in Slots(p) |-> u.stack[x]] /\ u.levels = [x \in Slots(p) |-> u.levels[x]]
  BY ONLY <1>5
<1>9. IsState(p, u)
  <2>1. s.inst = [j \in Insts(p) |-> s.inst[j]] /\ \A j \in Insts(p) : IsInstance(s.inst[j])
    BY DEF IsState
  <2>2. u.inst = s.inst BY <1>4
  <2> HIDE <1>1
  <2> QED BY <2>1, <2>2, <1>6, <1>8 DEF IsState
<1> QED BY <1>1, <1>4, <1>7, <1>9

(* Putting a node on the stack changes one slot, and instance j.             *)
LEMMA StowFields ==
  ASSUME NEW p, NEW s0, IsState(p, s0), NEW j \in Insts(p), s0.offset \in Slots(p),
         NEW node, NEW level, NEW leaf
  PROVE  LET u == Stow(s0, j, node, level, leaf)
         IN  Stowed(p, s0, u, j, node, level) /\ u.inst[j].next = leaf + 1
<1>0. PICK s : s = Push(s0, node, level) OBVIOUS
<1>a. /\ IsState(p, s)
      /\ s.auth = s0.auth /\ s.keep = s0.keep /\ s.retain = s0.retain
      /\ s.nextLeaf = s0.nextLeaf /\ s.inst = s0.inst
      /\ s.stack[s0.offset] = node /\ s.levels[s0.offset] = level
      /\ \A x \in Slots(p) : x # s0.offset =>
           s.stack[x] = s0.stack[x] /\ s.levels[x] = s0.levels[x]
      /\ s.peak = Max({s0.peak, s0.offset + 1})
      /\ s.offset = s0.offset + 1
  BY <1>0, PushFields
<1>1. PICK u : u = Stow(s0, j, node, level, leaf) OBVIOUS
<1>2. s = [stack |-> s.stack, levels |-> s.levels, offset |-> s.offset,
           auth |-> s.auth, keep |-> s.keep, inst |-> s.inst,
           retain |-> s.retain, nextLeaf |-> s.nextLeaf, peak |-> s.peak]
  BY <1>a DEF IsState
<1> DEFINE w == [s.inst EXCEPT ![j].usage = @ + 1]
<1>3. u = [stack |-> s.stack, levels |-> s.levels, offset |-> s.offset,
           auth |-> s.auth, keep |-> s.keep,
           inst |-> [w EXCEPT ![j].next = leaf + 1],
           retain |-> s.retain, nextLeaf |-> s.nextLeaf, peak |-> s.peak]
  BY ONLY <1>0, <1>1, <1>2 DEF Stow
<1> DEFINE y0 == [s.inst[j] EXCEPT !.usage = @ + 1]
<1>4. PICK y : y = [y0 EXCEPT !.next = leaf + 1] OBVIOUS
<1>5. IsInstance(s.inst[j]) BY <1>a DEF IsState
<1>6. y = [h |-> s.inst[j].h, next |-> leaf + 1, usage |-> s.inst[j].usage + 1,
           completed |-> s.inst[j].completed, node |-> s.inst[j].node]
  <2>1. y0 = [h |-> s.inst[j].h, next |-> s.inst[j].next, usage |-> s.inst[j].usage + 1,
              completed |-> s.inst[j].completed, node |-> s.inst[j].node]
    BY ONLY <1>5 DEF IsInstance
  <2> HIDE DEF y0
  <2> QED BY ONLY <1>4, <2>1
<1>7. u.inst = [i \in Insts(p) |-> IF i = j THEN y ELSE s.inst[i]]
  <2>1. s.inst = [i \in Insts(p) |-> s.inst[i]] BY <1>a DEF IsState
  <2>2. u.inst = [w EXCEPT ![j].next = leaf + 1]
    <3> HIDE DEF w
    <3> QED BY ONLY <1>3
  <2>3. w = [i \in Insts(p) |-> IF i = j THEN y0 ELSE s.inst[i]] BY ONLY <2>1
  <2>4. w[j] = y0 BY ONLY <2>3, j \in Insts(p)
  <2> HIDE DEF w, y0
  <2> QED BY ONLY <2>2, <2>3, <2>4, <1>4
<1>8. /\ u.stack = s.stack /\ u.levels = s.levels /\ u.auth = s.auth /\ u.keep = s.keep
      /\ u.retain = s.retain /\ u.nextLeaf = s.nextLeaf /\ u.peak = s.peak
      /\ u.offset = s.offset
  BY ONLY <1>3
<1>9. u = [stack |-> u.stack, levels |-> u.levels, offset |-> u.offset,
           auth |-> u.auth, keep |-> u.keep, inst |-> u.inst,
           retain |-> u.retain, nextLeaf |-> u.nextLeaf, peak |-> u.peak]
  BY ONLY <1>3
<1>10. IsInstance(y) BY ONLY <1>6 DEF IsInstance
<1>11. u.inst[j] = y /\ \A i \in Insts(p) : i # j => u.inst[i] = s.inst[i]
  BY ONLY <1>7, j \in Insts(p)
<1>b. IsState(p, s) BY <1>a
<1>12. IsState(p, u) BY <1>b, <1>7, <1>8, <1>9, <1>10, <1>11 DEF IsState
<1>13. /\ y.usage = s.inst[j].usage + 1 /\ y.h = s.inst[j].h /\ y.next = leaf + 1
       /\ y.completed = s.inst[j].completed /\ y.node = s.inst[j].node
  BY ONLY <1>6
<1>14. Stowed(p, s0, u, j, node, level) /\ u.inst[j].next = leaf + 1
  <2> HIDE <1>1, <1>0
  <2> QED BY <1>a, <1>8, <1>11, <1>12, <1>13 DEF Stowed, SameBut
<1> QED BY <1>1, <1>14

-----------------------------------------------------------------------------
\* The shared stack.

(* What the proofs assume of a parameter set. *)
TreeParams(p) == p.th \in Nat \ {0} /\ p.k \in 0..p.th

(* The nodes instance j has on the shared stack. *)
Held(st, j) == IF st.inst[j].completed THEN 0 ELSE st.inst[j].usage

(* base[j] is the number of nodes on the shared stack that belong to          *)
(* instance j, to a higher one or, at the bottom, to none.                   *)
Chain(p, st, base) ==
  /\ base \in [0..Instances(p) -> Nat]
  /\ base[0] = st.offset
  /\ \A j \in Insts(p) : Held(st, j) \in Nat /\ base[j] = base[j + 1] + Held(st, j)

(* The slots of instance j. *)
Own(base, j) == base[j + 1]..(base[j] - 1)

(* The shared stack: the nodes of every instance lie together, those of the   *)
(* lower instances above, their levels fall from the bottom to the top, and  *)
(* an instance has one node for each one bit of the number of its leaves.  A *)
(* node that belongs to none is above all instances: the root of the tree.   *)
Shared(p, a, st, base) ==
  /\ Chain(p, st, base)
  /\ \A x \in 0..(base[Instances(p)] - 1) : st.levels[x] >= Instances(p)
  /\ \A j \in Insts(p) : /\ st.inst[j].completed \in BOOLEAN
                         /\ ~st.inst[j].completed => st.inst[j].next \in Nat
  /\ \A x \in 0..(st.offset - 1) : st.levels[x] \in Nat /\ st.levels[x] + x <= p.th
  /\ \A x, y \in 0..(st.offset - 1) : x < y => st.levels[y] < st.levels[x]
  /\ \A j \in Insts(p) : \A x \in Own(base, j) :
       LET l == st.levels[x] IN
       /\ l < j /\ Bit(st.inst[j].next, l) = 1
       /\ st.stack[x] = Node(a, l, Shr(st.inst[j].next, l) - 1)
  /\ \A j \in Insts(p) : \A l \in 0..(j - 1) :
       ~st.inst[j].completed /\ Bit(st.inst[j].next, l) = 1
         => \E x \in Own(base, j) : st.levels[x] = l
  /\ \A j \in Insts(p) :
       Held(st, j) > 0 => \A x \in 0..(base[j + 1] - 1) : st.levels[x] >= j

(* Instance j may be given a leaf: what it has on the stack is on top, and    *)
(* if it has nothing there, what lies there is high enough.                  *)
OnTop(st, j) ==
  /\ \A i \in 0..(j - 1) : Held(st, i) = 0
  /\ Held(st, j) = 0 => \A x \in 0..(st.offset - 1) : st.levels[x] >= j

(* No root of a complete tree lies at the bottom of the stack. *)
Rootless(p, st) == \A x \in 0..(st.offset - 1) : st.levels[x] < Instances(p)

(* Lower instances lie above higher ones. *)
LEMMA ChainFalls ==
  ASSUME NEW p, TreeParams(p), NEW st, NEW base, Chain(p, st, base),
         NEW i \in 0..Instances(p), NEW o \in 0..Instances(p), i <= o
  PROVE  base[o] <= base[i]
<1> DEFINE S == {n \in Nat : i + n <= Instances(p) => base[i + n] <= base[i]}
<1>0. Instances(p) \in Nat BY DEF Instances, TreeParams
<1>a. \A n \in 0..Instances(p) : base[n] \in Nat BY DEF Chain
<1>1. 0 \in S BY <1>a
<1>2. ASSUME NEW n \in Nat, n \in S PROVE n + 1 \in S
  <2> SUFFICES ASSUME i + (n + 1) <= Instances(p) PROVE base[i + (n + 1)] <= base[i]
    OBVIOUS
  <2>1. i + n \in Insts(p) /\ i + n <= Instances(p) /\ (i + n) + 1 = i + (n + 1)
        /\ i + n \in 0..Instances(p) /\ i + (n + 1) \in 0..Instances(p)
    BY <1>0 DEF Insts
  <2>2. base[i + n] = base[(i + n) + 1] + Held(st, i + n)
        /\ Held(st, i + n) \in Nat
    BY <2>1 DEF Chain
  <2>3. base[i + n] <= base[i] BY <1>2, <2>1
  <2> QED BY <2>1, <2>2, <2>3, <1>a
<1>3. Nat \subseteq S
  <2> HIDE DEF S
  <2> QED BY <1>1, <1>2, SetInduction
<1>4. o - i \in Nat /\ i + (o - i) = o BY <1>0
<1> QED BY <1>3, <1>4

(* Instances with nothing on the stack lie between the same two slots.       *)
LEMMA ChainFlat ==
  ASSUME NEW p, TreeParams(p), NEW st, NEW base, Chain(p, st, base),
         NEW i \in 0..Instances(p), NEW o \in 0..Instances(p), i <= o,
         \A n \in i..(o - 1) : Held(st, n) = 0
  PROVE  base[o] = base[i]
<1> DEFINE S == {n \in Nat : i + n <= o => base[i + n] = base[i]}
<1>0. Instances(p) \in Nat BY DEF Instances, TreeParams
<1>a. \A n \in 0..Instances(p) : base[n] \in Nat BY DEF Chain
<1>1. 0 \in S BY <1>a
<1>2. ASSUME NEW n \in Nat, n \in S PROVE n + 1 \in S
  <2> SUFFICES ASSUME i + (n + 1) <= o PROVE base[i + (n + 1)] = base[i]
    OBVIOUS
  <2>1. i + n \in Insts(p) /\ i + n <= o /\ (i + n) + 1 = i + (n + 1)
        /\ i + n \in 0..Instances(p) /\ i + (n + 1) \in 0..Instances(p)
        /\ i + n \in i..(o - 1)
    BY <1>0 DEF Insts
  <2>2. base[i + n] = base[(i + n) + 1] + Held(st, i + n)
    BY <2>1 DEF Chain
  <2>3. base[i + n] = base[i] BY <1>2, <2>1
  <2>4. Held(st, i + n) = 0 BY <2>1
  <2> QED BY <2>1, <2>2, <2>3, <2>4, <1>a
<1>3. Nat \subseteq S
  <2> HIDE DEF S
  <2> QED BY <1>1, <1>2, SetInduction
<1>4. o - i \in Nat /\ i + (o - i) = o BY <1>0
<1> QED BY <1>3, <1>4

-----------------------------------------------------------------------------
(* One turn of the merge loop of treehash_update. *)
MergeStep(a, j, leaf, s) ==
  IF TopIsSibling(s.st, j, s.h)
  THEN [st |-> Pop(s.st, j),
        node |-> HashPair(a, s.h, Shr(leaf, s.h + 1), s.st.stack[s.st.offset - 1], s.node),
        h |-> s.h + 1]
  ELSE s

(* The leaf before it has been merged with anything.                         *)
MergeStart(a, st, leaf) == [st |-> st, node |-> GenLeaf(a, leaf), h |-> 0]

(* g is the recursion of the merge loop over n turns. *)
Merging(n, g, a, j, leaf, x) ==
  g = [k \in 0..n |-> IF k = 0 THEN x ELSE MergeStep(a, j, leaf, g[k - 1])]

(* The recursion of the merge loop can be carried out over any number of     *)
(* turns.                                                                    *)
LEMMA MergingExists ==
  ASSUME NEW a, NEW j, NEW leaf, NEW x
  PROVE  \A n \in Nat : \E g : Merging(n, g, a, j, leaf, x)
<1> DEFINE S == {n \in Nat : \E g : Merging(n, g, a, j, leaf, x)}
<1>1. 0 \in S
  <2>1. Merging(0, [k \in 0..0 |-> x], a, j, leaf, x) BY DEF Merging
  <2> QED BY <2>1
<1>2. ASSUME NEW n \in Nat, n \in S PROVE n + 1 \in S
  <2>1. PICK g : Merging(n, g, a, j, leaf, x) BY <1>2
  <2> DEFINE f == [k \in 0..(n + 1) |->
                     IF k = n + 1 THEN MergeStep(a, j, leaf, g[n]) ELSE g[k]]
  <2>2. ASSUME NEW k \in 0..(n + 1)
        PROVE  f[k] = IF k = 0 THEN x ELSE MergeStep(a, j, leaf, f[k - 1])
    <3>1. CASE k = n + 1
      <4>1. k # 0 /\ k - 1 = n /\ n \in 0..(n + 1) /\ n # n + 1 BY <3>1
      <4>2. f[k] = MergeStep(a, j, leaf, g[n]) BY <3>1
      <4>3. f[n] = g[n] BY <4>1
      <4> QED BY <4>1, <4>2, <4>3, <3>1
    <3>2. CASE k # n + 1
      <4>1. k \in 0..n BY <3>2
      <4>2. f[k] = g[k] BY <3>2
      <4>3. g[k] = IF k = 0 THEN x ELSE MergeStep(a, j, leaf, g[k - 1])
        BY <2>1, <4>1 DEF Merging
      <4>4. k # 0 => f[k - 1] = g[k - 1] BY <4>1
      <4> QED BY <4>2, <4>3, <4>4
    <3> QED BY <3>1, <3>2
  <2>3. f = [k \in 0..(n + 1) |-> f[k]] OBVIOUS
  <2>4. Merging(n + 1, f, a, j, leaf, x)
    <3> HIDE DEF f
    <3> QED BY <2>2, <2>3 DEF Merging
  <2> QED BY <2>4
<1>3. Nat \subseteq S
  <2> HIDE DEF S
  <2> QED BY <1>1, <1>2, SetInduction
<1> QED BY <1>3

(* treehash_update in terms of its loop.                                     *)
LEMMA TreehashUpdateLoop ==
  ASSUME NEW p, p.th \in Nat, NEW a, NEW st, NEW j
  PROVE  LET leaf == st.inst[j].next IN
         \E g : /\ g[0] = MergeStart(a, st, leaf)
                /\ \A k \in 1..p.th : g[k] = MergeStep(a, j, leaf, g[k - 1])
                /\ TreehashUpdate(p, a, st, j)
                     = IF g[p.th].h = st.inst[j].h
                       THEN Mark(g[p.th].st, j, g[p.th].node)
                       ELSE Stow(g[p.th].st, j, g[p.th].node, g[p.th].h, leaf)
<1> DEFINE leaf == st.inst[j].next
           x == MergeStart(a, st, leaf)
           g == CHOOSE g : Merging(p.th, g, a, j, leaf, x)
<1>0. \A n \in Nat : \E f : Merging(n, f, a, j, leaf, x)
  <2> HIDE DEF leaf, x
  <2> QED BY MergingExists
<1>1. Merging(p.th, g, a, j, leaf, x) BY <1>0
<1>2. \A z : (CHOOSE y \in {MergeStep(a, j, leaf, v) : v \in {z}} : TRUE)
               = MergeStep(a, j, leaf, z)
  <2> TAKE z
  <2>1. {MergeStep(a, j, leaf, v) : v \in {z}} = {MergeStep(a, j, leaf, z)} OBVIOUS
  <2> QED BY <2>1
<1> DEFINE w == CHOOSE f :
                  f = [k \in 0..p.th |->
                         IF k = 0 THEN x
                         ELSE CHOOSE y \in {MergeStep(a, j, leaf, z) : z \in {f[k - 1]}} : TRUE]
<1>3. w = g
  <2> HIDE DEF x, leaf
  <2> QED BY <1>2 DEF Merging
<1>6. TreehashUpdate(p, a, st, j)
        = IF w[p.th].h = st.inst[j].h
          THEN Mark(w[p.th].st, j, w[p.th].node)
          ELSE Stow(w[p.th].st, j, w[p.th].node, w[p.th].h, leaf)
  BY Zenon DEF TreehashUpdate, Loop, MergeStep, MergeStart, Pop, Mark, Stow
<1> HIDE DEF g
<1>4. g[0] = x BY <1>1 DEF Merging
<1>5. ASSUME NEW k \in 1..p.th PROVE g[k] = MergeStep(a, j, leaf, g[k - 1])
  <2>1. k \in 0..p.th /\ k # 0 OBVIOUS
  <2> QED BY <2>1, <1>1 DEF Merging
<1> QED BY <1>3, <1>4, <1>5, <1>6

(* What the merge loop has done after merging h nodes: m is the state.        *)
Merged(p, a, st, base, j, h, m, node) ==
  LET leaf == st.inst[j].next IN
  /\ h \in 0..j /\ h <= Held(st, j)
  /\ Popped(p, st, m, j, h)
  /\ node = Node(a, h, Shr(leaf, h))
  /\ \A n \in 0..(h - 1) : Bit(leaf, n) = 1
  /\ \A x \in base[j + 1]..(st.offset - h - 1) : st.levels[x] >= h
  /\ \A x \in (st.offset - h)..(st.offset - 1) : st.levels[x] < h

(* What treehash_update has made of st after merging h nodes: t.              *)
AfterUpdate(p, a, st, base, j, h, m, t) ==
  LET leaf == st.inst[j].next IN
  /\ Merged(p, a, st, base, j, h, m, Node(a, h, Shr(leaf, h)))
  /\ h = j => /\ Held(st, j) = h
              /\ t = Mark(m, j, Node(a, h, Shr(leaf, h)))
  /\ h < j => /\ Bit(leaf, h) = 0
              /\ \A x \in base[j + 1]..(st.offset - h - 1) : st.levels[x] > h
              /\ t = Stow(m, j, Node(a, h, Shr(leaf, h)), h, leaf)

(* treehash_update merges a leaf with the nodes of the instance as far as    *)
(* the ones of its number go.                                                *)
LEMMA TreehashUpdateResult ==
  ASSUME NEW p, TreeParams(p), NEW a, NEW st, IsState(p, st), NEW base,
         Shared(p, a, st, base), NEW j \in Insts(p), ~st.inst[j].completed,
         st.inst[j].h = j, \A i \in 0..(j - 1) : Held(st, i) = 0
  PROVE  \E h \in 0..j : \E m :
           AfterUpdate(p, a, st, base, j, h, m, TreehashUpdate(p, a, st, j))
<1> DEFINE leaf == st.inst[j].next
           N == Instances(p)
           u == Held(st, j)
<1>1. PICK g : /\ g[0] = MergeStart(a, st, leaf)
               /\ \A k \in 1..p.th : g[k] = MergeStep(a, j, leaf, g[k - 1])
               /\ TreehashUpdate(p, a, st, j)
                    = IF g[p.th].h = st.inst[j].h
                      THEN Mark(g[p.th].st, j, g[p.th].node)
                      ELSE Stow(g[p.th].st, j, g[p.th].node, g[p.th].h, leaf)
  BY TreehashUpdateLoop DEF TreeParams
<1>2. /\ N \in Nat /\ N <= p.th /\ p.th \in Nat /\ j \in Nat /\ j < N /\ j + 1 \in 0..N
      /\ j \in 0..N
  BY DEF TreeParams, Instances, Insts
<1>3. leaf \in Nat /\ u \in Nat /\ u = st.inst[j].usage BY DEF Shared, Chain, Held
<1>4. st.offset \in Nat /\ base[j] = st.offset /\ base[j + 1] \in Nat
      /\ st.offset = base[j + 1] + u
  <2>1. Chain(p, st, base) BY DEF Shared
  <2>2. 0 \in 0..N /\ 0 <= j BY <1>2
  <2>3. \A n \in 0..(j - 1) : Held(st, n) = 0 OBVIOUS
  <2>4. base[j] = base[0] BY <2>1, <2>2, <2>3, <1>2, ChainFlat
  <2> QED BY <2>1, <2>2, <2>4, <1>2 DEF Chain
<1>5. \A x \in 0..(st.offset - 1) : st.levels[x] \in Nat BY DEF Shared
<1>6. \A x, y \in 0..(st.offset - 1) : x < y => st.levels[y] < st.levels[x] BY DEF Shared
<1>7. \A x \in base[j + 1]..(st.offset - 1) :
        /\ st.levels[x] < j /\ Bit(leaf, st.levels[x]) = 1
        /\ st.stack[x] = Node(a, st.levels[x], Shr(leaf, st.levels[x]) - 1)
  BY <1>4 DEF Shared, Own
<1>8. \A l \in 0..(j - 1) : Bit(leaf, l) = 1
         => \E x \in base[j + 1]..(st.offset - 1) : st.levels[x] = l
  BY <1>4 DEF Shared, Own
<1> HIDE DEF leaf, N
<1> DEFINE Inv(k) ==
      \E h \in 0..j : \E m, node :
        /\ g[k] = [st |-> m, node |-> node, h |-> h]
        /\ Merged(p, a, st, base, j, h, m, node)
        /\ h = k \/ h = u \/ st.levels[st.offset - h - 1] # h
<1> DEFINE S == {k \in Nat : k <= p.th => Inv(k)}
<1>9. 0 \in S
  <2>1. g[0] = [st |-> st, node |-> GenLeaf(a, leaf), h |-> 0] BY <1>1 DEF MergeStart
  <2>2. Popped(p, st, st, j, 0)
    BY <1>3, <1>4 DEF Popped, SameBut
  <2>3. GenLeaf(a, leaf) = Node(a, 0, Shr(leaf, 0)) BY <1>3, ShrNone DEF GenLeaf
  <2>4. Merged(p, a, st, base, j, 0, st, GenLeaf(a, leaf))
    BY <2>2, <2>3, <1>2, <1>3, <1>4, <1>5 DEF Merged, leaf
  <2> QED BY <2>1, <2>4, <1>2
<1>10. ASSUME NEW k \in Nat, k \in S PROVE k + 1 \in S
  <2> SUFFICES ASSUME k + 1 <= p.th PROVE Inv(k + 1)
    <3> HIDE DEF Inv
    <3> QED OBVIOUS
  <2>0. k + 1 \in 1..p.th /\ (k + 1) - 1 = k /\ k <= p.th BY <1>2
  <2>20. PICK h \in 0..j : \E m, node :
          /\ g[k] = [st |-> m, node |-> node, h |-> h]
          /\ Merged(p, a, st, base, j, h, m, node)
          /\ h = k \/ h = u \/ st.levels[st.offset - h - 1] # h
    BY <1>10, <2>0
  <2>1. PICK m, node :
          /\ g[k] = [st |-> m, node |-> node, h |-> h]
          /\ Merged(p, a, st, base, j, h, m, node)
          /\ h = k \/ h = u \/ st.levels[st.offset - h - 1] # h
    BY <2>20
  <2>2. g[k + 1] = MergeStep(a, j, leaf, g[k]) BY <1>1, <2>0
  <2>3. g[k].st = m /\ g[k].node = node /\ g[k].h = h BY ONLY <2>1
  <2>4. /\ m.offset = st.offset - h /\ m.stack = st.stack /\ m.levels = st.levels
        /\ m.inst[j].usage = u - h /\ h <= u /\ IsState(p, m)
    BY <2>1, <1>3 DEF Merged, Popped, SameBut
  <2>5. TopIsSibling(m, j, h) <=> h < u /\ st.levels[st.offset - h - 1] = h
    BY <2>4, <1>3, <1>2 DEF TopIsSibling
  <2>6. CASE TopIsSibling(m, j, h)
    <3> DEFINE x == st.offset - h - 1
    <3>1. h < u /\ st.levels[x] = h /\ x \in base[j + 1]..(st.offset - 1)
      BY <2>5, <2>6, <1>3, <1>4
    <3>2. h = k BY <2>1, <3>1
    <3>3. h < j /\ Bit(leaf, h) = 1 /\ st.stack[x] = Node(a, h, Shr(leaf, h) - 1)
      BY <3>1, <1>7
    <3>4. Shr(leaf, h) = 2 * Shr(leaf, h + 1) + 1 /\ Shr(leaf, h + 1) \in Nat
      <4>1. h \in Nat /\ h + 1 \in Nat OBVIOUS
      <4> QED BY <4>1, <3>3, <1>3, BitValue, ShrHalves
    <3>5. node = Node(a, h, Shr(leaf, h)) BY <2>1 DEF Merged, leaf
    <3>6. st.stack[x] = Node(a, h, 2 * Shr(leaf, h + 1)) BY <3>3, <3>4
    <3>7. HashPair(a, h, Shr(leaf, h + 1), m.stack[m.offset - 1], node)
            = Node(a, h + 1, Shr(leaf, h + 1))
      <4>1. m.stack[m.offset - 1] = st.stack[x] BY <2>4
      <4> QED BY <4>1, <3>4, <3>5, <3>6 DEF HashPair
    <3> DEFINE mm == Pop(m, j)
               nn == Node(a, h + 1, Shr(leaf, h + 1))
    <3>8. g[k + 1] = [st |-> mm, node |-> nn, h |-> h + 1]
      BY <2>2, <2>3, <2>6, <3>7 DEF MergeStep
    <3>9. Popped(p, m, mm, j, 1) BY <2>4, PopFields
    <3>10. Popped(p, st, mm, j, h + 1)
      <4>1. Popped(p, st, m, j, h) BY <2>1 DEF Merged
      <4>2. h \in Nat /\ st.offset \in Nat /\ u \in Nat BY <1>3, <1>4
      <4>3. mm.offset = st.offset - (h + 1) BY <3>9, <2>4, <4>2 DEF Popped
      <4>4. mm.inst[j].usage = u - (h + 1) BY <3>9, <2>4, <4>2 DEF Popped
      <4> HIDE DEF mm
      <4> QED BY <4>1, <4>3, <4>4, <3>9, <1>3 DEF Popped, SameBut
    <3>11. \A n \in 0..h : Bit(leaf, n) = 1
      <4>1. \A n \in 0..(h - 1) : Bit(leaf, n) = 1 BY <2>1 DEF Merged, leaf
      <4> QED BY <4>1, <3>3
    <3>12. \A y \in base[j + 1]..(st.offset - (h + 1) - 1) : st.levels[y] >= h + 1
      <4> TAKE y \in base[j + 1]..(st.offset - (h + 1) - 1)
      <4>1. y \in 0..(st.offset - 1) /\ x \in 0..(st.offset - 1) /\ y < x
        BY <1>4, <3>1
      <4>2. st.levels[x] < st.levels[y] /\ st.levels[y] \in Nat BY <4>1, <1>5, <1>6
      <4> QED BY <4>2, <3>1
    <3>13. \A y \in (st.offset - (h + 1))..(st.offset - 1) : st.levels[y] < h + 1
      <4> TAKE y \in (st.offset - (h + 1))..(st.offset - 1)
      <4>1. y \in 0..(st.offset - 1) BY <1>4, <3>1
      <4>2. CASE y = x BY <4>2, <3>1
      <4>3. CASE y # x
        <5>1. y \in (st.offset - h)..(st.offset - 1) BY <4>3, <1>4
        <5>2. st.levels[y] < h BY <5>1, <2>1 DEF Merged
        <5>3. st.levels[y] \in Nat BY <4>1, <1>5
        <5> QED BY <5>2, <5>3
      <4> QED BY <4>2, <4>3
    <3>14. Merged(p, a, st, base, j, h + 1, mm, nn)
      <4>1. h + 1 \in 0..j /\ h + 1 <= u BY <3>1, <3>3, <1>3, <1>2
      <4>2. (h + 1) - 1 = h OBVIOUS
      <4> HIDE DEF mm
      <4> QED BY <4>1, <4>2, <3>10, <3>11, <3>12, <3>13 DEF Merged, leaf
    <3>15. h + 1 \in 0..j /\ h + 1 = k + 1 BY <3>2, <3>3, <1>2
    <3> HIDE DEF mm, nn
    <3> QED BY <3>8, <3>14, <3>15
  <2>7. CASE ~TopIsSibling(m, j, h)
    <3>1. g[k + 1] = g[k] BY <2>2, <2>3, <2>7 DEF MergeStep
    <3>2. h = u \/ st.levels[st.offset - h - 1] # h BY <2>4, <2>5, <2>7, <1>3, <1>2
    <3> QED BY <2>1, <3>1, <3>2
  <2> QED BY <2>6, <2>7
<1>11. Nat \subseteq S
  <2> HIDE DEF S
  <2> QED BY <1>9, <1>10, SetInduction
<1>12. Inv(p.th)
  <2>1. p.th \in S BY <1>11, <1>2
  <2>2. p.th <= p.th BY <1>2
  <2> HIDE DEF Inv
  <2> QED BY <2>1, <2>2
<1>50. PICK h \in 0..j : \E m, node :
          /\ g[p.th] = [st |-> m, node |-> node, h |-> h]
          /\ Merged(p, a, st, base, j, h, m, node)
          /\ h = p.th \/ h = u \/ st.levels[st.offset - h - 1] # h
  BY <1>12
<1>13. PICK m, node :
          /\ g[p.th] = [st |-> m, node |-> node, h |-> h]
          /\ Merged(p, a, st, base, j, h, m, node)
          /\ h = p.th \/ h = u \/ st.levels[st.offset - h - 1] # h
  BY <1>50
<1>14. g[p.th].st = m /\ g[p.th].node = node /\ g[p.th].h = h BY ONLY <1>13
<1>15. /\ node = Node(a, h, Shr(leaf, h)) /\ h <= u
       /\ \A x \in base[j + 1]..(st.offset - h - 1) : st.levels[x] >= h
       /\ \A x \in (st.offset - h)..(st.offset - 1) : st.levels[x] < h
  BY <1>13 DEF Merged, leaf
<1>16. h = u \/ st.levels[st.offset - h - 1] # h BY <1>13, <1>2
<1>17. CASE h = j
  <2>1. u = h
    <3>1. SUFFICES ASSUME h < u PROVE FALSE BY <1>3, <1>15
    <3> DEFINE x == st.offset - h - 1
    <3>2. x \in base[j + 1]..(st.offset - 1) /\ x \in base[j + 1]..(st.offset - h - 1)
          /\ x \in 0..(st.offset - 1)
      BY <3>1, <1>3, <1>4
    <3>3. st.levels[x] < j /\ st.levels[x] >= h /\ st.levels[x] \in Nat
      BY <3>2, <1>7, <1>15, <1>5
    <3> QED BY <3>3, <1>17, <1>2
  <2>2. TreehashUpdate(p, a, st, j) = Mark(m, j, Node(a, h, Shr(leaf, h)))
    BY <1>1, <1>14, <1>15, <1>17
  <2>3. Merged(p, a, st, base, j, h, m, Node(a, h, Shr(leaf, h))) BY <1>13, <1>15
  <2>4. PICK t : t = TreehashUpdate(p, a, st, j) OBVIOUS
  <2>5. ~(h < j) BY <1>2, <1>17
  <2>6. AfterUpdate(p, a, st, base, j, h, m, t)
    BY <2>1, <2>2, <2>3, <2>4, <2>5 DEF AfterUpdate, leaf
  <2> QED BY <1>2, <1>17, <2>4, <2>6
<1>18. CASE h < j
  <2>1. \A x \in base[j + 1]..(st.offset - h - 1) : st.levels[x] > h
    <3> TAKE x \in base[j + 1]..(st.offset - h - 1)
    <3> DEFINE y == st.offset - h - 1
    <3>1. h < u /\ x \in 0..(st.offset - 1) /\ y \in 0..(st.offset - 1)
          /\ y \in base[j + 1]..(st.offset - h - 1) /\ x <= y
      BY <1>3, <1>4, <1>15
    <3>2. st.levels[y] >= h /\ st.levels[y] # h /\ st.levels[y] \in Nat
          /\ st.levels[x] \in Nat
      BY <3>1, <1>15, <1>16, <1>5, <1>3
    <3>3. x < y => st.levels[y] < st.levels[x] BY <3>1, <1>6
    <3> QED BY <3>1, <3>2, <3>3
  <2>2. Bit(leaf, h) = 0
    <3>1. Bit(leaf, h) # 1
      <4>1. SUFFICES ASSUME Bit(leaf, h) = 1 PROVE FALSE OBVIOUS
      <4>2. PICK x \in base[j + 1]..(st.offset - 1) : st.levels[x] = h
        <5>1. h \in 0..(j - 1) BY <1>18, <1>2
        <5> QED BY <5>1, <4>1, <1>8
      <4>a. x \in 0..(st.offset - 1) /\ h \in Int BY <1>4
      <4>b. st.levels[x] \in Nat BY <4>a, <1>5
      <4>3. CASE x \in base[j + 1]..(st.offset - h - 1) BY <4>3, <4>2, <2>1, <4>a
      <4>4. CASE x \in (st.offset - h)..(st.offset - 1)
        <5>1. st.levels[x] < h BY ONLY <4>4, <1>15
        <5> QED BY ONLY <5>1, <4>2, <4>a
      <4> QED BY <4>3, <4>4, <1>4
    <3>2. h \in Nat BY <1>2
    <3> QED BY <3>1, <3>2, <1>3, BitValue
  <2>3. TreehashUpdate(p, a, st, j) = Stow(m, j, Node(a, h, Shr(leaf, h)), h, leaf)
    BY <1>1, <1>14, <1>15, <1>18, <1>2
  <2>4. Merged(p, a, st, base, j, h, m, Node(a, h, Shr(leaf, h))) BY <1>13, <1>15
  <2>5. PICK t : t = TreehashUpdate(p, a, st, j) OBVIOUS
  <2>6. h # j BY <1>2, <1>18
  <2>7. AfterUpdate(p, a, st, base, j, h, m, t)
    BY <2>1, <2>2, <2>3, <2>4, <2>5, <2>6 DEF AfterUpdate, leaf
  <2> QED BY <1>2, <1>18, <2>5, <2>7
<1> QED BY <1>17, <1>18, <1>2

(* The shared stack is in order after instance j has finished: it has taken  *)
(* all its nodes from the top, and no lower instance had any.                *)
LEMMA SharedAfterFinish ==
  ASSUME NEW p, TreeParams(p), NEW a, NEW st, IsState(p, st), NEW base,
         Shared(p, a, st, base), NEW j \in Insts(p), ~st.inst[j].completed,
         \A i \in 0..(j - 1) : Held(st, i) = 0,
         NEW m, Popped(p, st, m, j, Held(st, j)),
         NEW node, NEW t, Finished(p, m, t, j, node)
  PROVE  \E b : Shared(p, a, t, b)
<1> DEFINE N == Instances(p)
           u == Held(st, j)
           b == [i \in 0..N |-> IF i <= j THEN base[j + 1] ELSE base[i]]
<1>1. /\ N \in Nat /\ j \in Nat /\ j < N /\ j + 1 \in 0..N /\ j \in 0..N
  BY DEF TreeParams, Instances, Insts
<1>2. /\ t.stack = st.stack /\ t.levels = st.levels /\ t.offset = st.offset - u
      /\ \A i \in Insts(p) : i # j => t.inst[i] = st.inst[i]
      /\ Held(t, j) = 0 /\ t.inst[j].completed = TRUE
      /\ \A i \in Insts(p) : i # j => Held(t, i) = Held(st, i)
  BY DEF Popped, Finished, SameBut, Held
<1>3. u \in Nat /\ base[j + 1] \in Nat /\ base[j] = base[j + 1] + u
  BY <1>1 DEF Shared, Chain
<1>4. base[j] = st.offset
  <2>1. Chain(p, st, base) BY DEF Shared
  <2>2. 0 \in 0..N /\ 0 <= j BY <1>1
  <2>3. base[j] = base[0] BY <2>1, <2>2, <1>1, ChainFlat
  <2> QED BY <2>1, <2>3 DEF Chain
<1>5. t.offset = base[j + 1] /\ Held(t, j) = 0 /\ base[j + 1] <= st.offset
  BY <1>2, <1>3, <1>4
<1>6. \A i \in Insts(p) : i \in Nat /\ i + 1 \in 0..N /\ i \in 0..N
  BY <1>1 DEF Insts
<1>7. Chain(p, t, b)
  <2>1. b \in [0..N -> Nat]
    <3>1. base \in [0..N -> Nat] BY DEF Shared, Chain
    <3> QED BY <3>1, <1>1
  <2>2. b[0] = t.offset BY <1>1, <1>5
  <2>3. ASSUME NEW i \in Insts(p)
        PROVE  Held(t, i) \in Nat /\ b[i] = b[i + 1] + Held(t, i)
    <3>1. Held(st, i) \in Nat /\ base[i] = base[i + 1] + Held(st, i)
      BY DEF Shared, Chain
    <3>2. CASE i < j
      <4>1. Held(t, i) = 0 BY <3>2, <1>2, <1>6
      <4>2. b[i] = base[j + 1] /\ b[i + 1] = base[j + 1] BY <3>2, <1>1, <1>6
      <4> QED BY <4>1, <4>2, <1>3
    <3>3. CASE i = j
      <4>1. b[i] = base[j + 1] /\ b[i + 1] = base[j + 1] BY <3>3, <1>1, <1>6
      <4> QED BY <4>1, <3>3, <1>3, <1>5
    <3>4. CASE i > j
      <4>0. i \in 0..N /\ i + 1 \in 0..N /\ ~(i <= j) /\ ~(i + 1 <= j)
        <5>1. i \in Nat /\ i \in 0..N /\ i + 1 \in 0..N BY <1>6
        <5>2. j \in Nat BY <1>1
        <5> QED BY ONLY <3>4, <5>1, <5>2
      <4>1. b[i] = base[i] /\ b[i + 1] = base[i + 1] BY ONLY <4>0
      <4>2. t.inst[i] = st.inst[i] BY <3>4, <1>2, <1>1, <1>6
      <4> QED BY <4>1, <4>2, <3>1 DEF Held
    <3> QED BY <3>2, <3>3, <3>4, <1>1, <1>6
  <2> HIDE DEF b
  <2> QED BY <2>1, <2>2, <2>3 DEF Chain
<1>8. ASSUME NEW i \in Insts(p), i <= j PROVE Own(b, i) = {}
  <2>1. b[i] = base[j + 1] /\ b[i + 1] = base[j + 1] BY <1>8, <1>1, <1>6
  <2> HIDE DEF b
  <2> QED BY <2>1, <1>3 DEF Own
<1>9. ASSUME NEW i \in Insts(p), i > j PROVE Own(b, i) = Own(base, i) /\ b[i + 1] = base[i + 1]
  <2>1. b[i] = base[i] /\ b[i + 1] = base[i + 1] BY <1>9, <1>1, <1>6
  <2> HIDE DEF b
  <2> QED BY <2>1 DEF Own
<1>10. \A x \in 0..(t.offset - 1) : x \in 0..(st.offset - 1) BY <1>3, <1>4, <1>5
<1>11. \A i \in Insts(p) : /\ t.inst[i].completed \in BOOLEAN
                           /\ ~t.inst[i].completed => t.inst[i].next \in Nat
  BY <1>2, <1>5 DEF Shared
<1>12. \A x \in 0..(t.offset - 1) : t.levels[x] \in Nat /\ t.levels[x] + x <= p.th
  BY <1>2, <1>10 DEF Shared
<1>13. \A x, y \in 0..(t.offset - 1) : x < y => t.levels[y] < t.levels[x]
  BY <1>2, <1>10 DEF Shared
<1>14. ASSUME NEW i \in Insts(p), NEW x \in Own(b, i)
       PROVE  LET l == t.levels[x] IN
              /\ l < i /\ Bit(t.inst[i].next, l) = 1
              /\ t.stack[x] = Node(a, l, Shr(t.inst[i].next, l) - 1)
  <2>0. ~(i <= j) BY <1>8
  <2>1. i > j
    <3>1. i \in Nat BY <1>6
    <3> QED BY ONLY <2>0, <3>1, <1>1
  <2>2. x \in Own(base, i) /\ t.inst[i] = st.inst[i] BY <2>1, <1>9, <1>2, <1>1, <1>6
  <2> QED BY <2>2, <1>2 DEF Shared
<1>15. ASSUME NEW i \in Insts(p), NEW l \in 0..(i - 1),
              ~t.inst[i].completed, Bit(t.inst[i].next, l) = 1
       PROVE  \E x \in Own(b, i) : t.levels[x] = l
  <2>1. i # j BY <1>15, <1>2
  <2>2. t.inst[i] = st.inst[i] BY <2>1, <1>2
  <2>3. PICK x \in Own(base, i) : st.levels[x] = l
    BY <2>2, <1>15 DEF Shared
  <2>4. CASE i < j
    <3>1. Held(st, i) = 0 /\ base[i] = base[i + 1] + Held(st, i)
          /\ base[i + 1] \in Nat
      BY <2>4, <1>6 DEF Shared, Chain
    <3>2. Own(base, i) = {} BY <3>1 DEF Own
    <3> QED BY <3>2
  <2>5. CASE i > j
    <3>1. x \in Own(b, i) BY <2>5, <1>9
    <3> QED BY <3>1, <2>3, <1>2
  <2> QED BY <2>1, <2>4, <2>5, <1>1, <1>6
<1>16. ASSUME NEW i \in Insts(p), Held(t, i) > 0, NEW x \in 0..(b[i + 1] - 1)
       PROVE  t.levels[x] >= i
  <2>1. i > j
    <3>1. i # j BY <1>16, <1>5
    <3>2. i < j => Held(t, i) = 0 BY <1>2, <1>6
    <3>3. Held(t, i) # 0 BY <1>16
    <3>4. i \in Nat /\ j \in Nat BY <1>1, <1>6
    <3> QED BY ONLY <3>1, <3>2, <3>3, <3>4
  <2>2. t.inst[i] = st.inst[i] /\ b[i + 1] = base[i + 1] BY <2>1, <1>9, <1>2, <1>1, <1>6
  <2>3. Held(st, i) > 0 BY <1>16, <2>2 DEF Held
  <2>4. x \in 0..(base[i + 1] - 1) BY <2>2
  <2> QED BY <2>3, <2>4, <1>2 DEF Shared
<1>18. b[N] = base[N] /\ \A x \in 0..(b[N] - 1) : t.levels[x] >= N
  <2>1. b[N] = base[N] BY <1>1
  <2>2. \A x \in 0..(base[N] - 1) : st.levels[x] >= N BY DEF Shared
  <2> HIDE DEF b
  <2> QED BY <2>1, <2>2, <1>2
<1> HIDE DEF b
<1>17. Shared(p, a, t, b)
  BY <1>18, <1>7, <1>11, <1>12, <1>13, <1>14, <1>15, <1>16 DEF Shared
<1> QED BY <1>17

(* The shared stack is in order after instance j has put the node it merged  *)
(* on top: the ones of its number below height h have become one node at h.  *)
LEMMA SharedAfterStow ==
  ASSUME NEW p, TreeParams(p), NEW a, NEW st, IsState(p, st), NEW base,
         Shared(p, a, st, base), NEW j \in Insts(p), ~st.inst[j].completed, OnTop(st, j),
         NEW h \in 0..(j - 1), NEW m,
         LET leaf == st.inst[j].next IN
           /\ Merged(p, a, st, base, j, h, m, Node(a, h, Shr(leaf, h)))
           /\ Bit(leaf, h) = 0
           /\ \A x \in base[j + 1]..(st.offset - h - 1) : st.levels[x] > h,
         NEW t, Stowed(p, m, t, j, Node(a, h, Shr(st.inst[j].next, h)), h),
         t.inst[j].next = st.inst[j].next + 1
  PROVE  (\E b : Shared(p, a, t, b)) /\ t.offset <= p.th + 1
<1> DEFINE N == Instances(p)
           u == Held(st, j)
           leaf == st.inst[j].next
           new == st.offset - h
           b == [i \in 0..N |-> IF i <= j THEN new + 1 ELSE base[i]]
<1>1. /\ N \in Nat /\ N <= p.th /\ j \in Nat /\ j < N /\ j + 1 \in 0..N /\ j \in 0..N
      /\ h \in Nat /\ h < j
  BY DEF TreeParams, Instances, Insts
<1>2. Popped(p, st, m, j, h) /\ h <= u BY DEF Merged
<1>3. /\ u \in Nat /\ base[j + 1] \in Nat /\ base[j] = base[j + 1] + u /\ leaf \in Nat
      /\ u = st.inst[j].usage
  BY <1>1 DEF Shared, Chain, Held
<1>4. base[j] = st.offset
  <2>1. Chain(p, st, base) BY DEF Shared
  <2>2. 0 \in 0..N /\ 0 <= j BY <1>1
  <2>3. base[j] = base[0] BY <2>1, <2>2, <1>1, ChainFlat DEF OnTop
  <2> QED BY <2>1, <2>3 DEF Chain
<1>5. \A x \in 0..(st.offset - 1) : st.levels[x] \in Nat /\ st.levels[x] + x <= p.th BY DEF Shared
<1>6. \A x, y \in 0..(st.offset - 1) : x < y => st.levels[y] < st.levels[x] BY DEF Shared
<1>7. new \in Nat /\ base[j + 1] <= new /\ new <= st.offset /\ new \in Slots(p) /\ p.th \in Nat
  <2>1. new \in Nat /\ base[j + 1] <= new /\ new <= st.offset BY <1>1, <1>2, <1>3, <1>4
  <2>2. st.offset <= p.th + 1
    <3>1. CASE st.offset = 0 BY <3>1 DEF TreeParams
    <3>2. CASE st.offset > 0
      <4>1. st.offset - 1 \in 0..(st.offset - 1) /\ st.offset \in Nat BY <3>2, <1>3, <1>4
      <4> QED BY <4>1, <1>5 DEF TreeParams
    <3> QED BY <3>1, <3>2, <1>3, <1>4
  <2> QED BY <2>1, <2>2, <1>1, <1>3, <1>4 DEF Slots, TreeParams
<1>8. /\ t.offset = new + 1
      /\ t.stack[new] = Node(a, h, Shr(leaf, h)) /\ t.levels[new] = h
      /\ \A x \in Slots(p) : x # new => t.stack[x] = st.stack[x] /\ t.levels[x] = st.levels[x]
      /\ \A i \in Insts(p) : i # j => t.inst[i] = st.inst[i]
      /\ Held(t, j) = (u - h) + 1 /\ t.inst[j].completed = st.inst[j].completed
      /\ \A i \in Insts(p) : i # j => Held(t, i) = Held(st, i)
  BY <1>2, <1>3 DEF Popped, Stowed, SameBut, Held
<1>9. \A x \in 0..(new - 1) : /\ x \in 0..(st.offset - 1) /\ x \in Slots(p) /\ x # new
                              /\ t.stack[x] = st.stack[x] /\ t.levels[x] = st.levels[x]
  <2> TAKE x \in 0..(new - 1)
  <2>1. x \in 0..(st.offset - 1) /\ x \in Slots(p) /\ x # new
    BY <1>1, <1>3, <1>4, <1>7 DEF Slots, TreeParams
  <2> QED BY <2>1, <1>8
<1>10. \A i \in Insts(p) : i \in Nat /\ i + 1 \in 0..N /\ i \in 0..N
  BY <1>1 DEF Insts
\* Everything below the new node is higher.
<1>11. ASSUME NEW x \in 0..(new - 1) PROVE st.levels[x] > h
  <2>1. CASE x >= base[j + 1]
    <3>1. x \in base[j + 1]..(st.offset - h - 1) BY <2>1, <1>3
    <3> QED BY <3>1
  <2>2. CASE x < base[j + 1]
    <3>1. st.levels[x] \in Nat /\ x \in 0..(st.offset - 1) BY <1>9, <1>5
    <3>2. CASE u = 0
      <4>1. st.levels[x] >= j BY <3>1, <3>2 DEF OnTop
      <4> QED BY <3>1, <4>1, <1>1
    <3>3. CASE u > 0
      <4>1. x \in 0..(base[j + 1] - 1) BY <2>2, <1>3
      <4>2. st.levels[x] >= j BY <3>3, <4>1 DEF Shared
      <4> QED BY <3>1, <4>2, <1>1
    <3> QED BY <3>2, <3>3, <1>3
  <2> QED BY <2>1, <2>2, <1>3
<1>12. Chain(p, t, b)
  <2>1. b \in [0..N -> Nat]
    <3>1. base \in [0..N -> Nat] BY DEF Shared, Chain
    <3>2. new + 1 \in Nat BY <1>7
    <3> HIDE DEF new
    <3> QED BY <3>1, <3>2, <1>1
  <2>2. b[0] = t.offset BY <1>1, <1>8
  <2>3. ASSUME NEW i \in Insts(p)
        PROVE  Held(t, i) \in Nat /\ b[i] = b[i + 1] + Held(t, i)
    <3>1. Held(st, i) \in Nat /\ base[i] = base[i + 1] + Held(st, i)
      BY DEF Shared, Chain
    <3>2. CASE i < j
      <4>1. Held(t, i) = 0 BY <3>2, <1>8, <1>10 DEF OnTop
      <4>2. b[i] = new + 1 /\ b[i + 1] = new + 1 BY <3>2, <1>1, <1>10
      <4> HIDE DEF b
      <4> QED BY <4>1, <4>2, <1>7
    <3>3. CASE i = j
      <4>1. b[i] = new + 1 /\ b[i + 1] = base[j + 1] BY <3>3, <1>1, <1>10
      <4> HIDE DEF b
      <4> QED BY <4>1, <3>3, <1>1, <1>2, <1>3, <1>4, <1>8
    <3>4. CASE i > j
      <4>1. b[i] = base[i] /\ b[i + 1] = base[i + 1] BY <3>4, <1>1, <1>10
      <4>2. t.inst[i] = st.inst[i] BY <3>4, <1>8, <1>1, <1>10
      <4> QED BY <4>1, <4>2, <3>1 DEF Held
    <3> QED BY <3>2, <3>3, <3>4, <1>1, <1>10
  <2> HIDE DEF b
  <2> QED BY <2>1, <2>2, <2>3 DEF Chain
<1>13. ASSUME NEW i \in Insts(p), i < j PROVE Own(b, i) = {} /\ Held(t, i) = 0
  <2>1. b[i] = new + 1 /\ b[i + 1] = new + 1 BY <1>13, <1>1, <1>10
  <2>2. Held(t, i) = 0 BY <1>13, <1>8, <1>10 DEF OnTop
  <2> HIDE DEF b, new
  <2> QED BY <2>1, <2>2, <1>7 DEF Own
<1>14. ASSUME NEW i \in Insts(p), i > j
       PROVE  /\ Own(b, i) = Own(base, i) /\ b[i + 1] = base[i + 1]
              /\ t.inst[i] = st.inst[i]
              /\ \A x \in Own(b, i) : x \in 0..(new - 1)
              /\ base[i + 1] <= new
  <2>1. b[i] = base[i] /\ b[i + 1] = base[i + 1] BY <1>14, <1>1, <1>10
  <2>2. t.inst[i] = st.inst[i] BY <1>14, <1>8, <1>1, <1>10
  <2>3. base[i] <= base[j + 1] /\ base[i + 1] <= base[i] /\ base[i + 1] \in Nat
    <3>1. Chain(p, st, base) BY DEF Shared
    <3>0. i \in Nat /\ i \in 0..N /\ i + 1 \in 0..N BY <1>10
    <3>2. j + 1 <= i /\ i <= i + 1 /\ i \in 0..N /\ i + 1 \in 0..N
      BY ONLY <3>0, <1>14, <1>1
    <3>3. base[i] <= base[j + 1] BY <3>1, <3>2, <1>1, ChainFalls
    <3>4. base[i + 1] <= base[i] BY <3>1, <3>2, <1>1, ChainFalls
    <3> QED BY <3>1, <3>2, <3>3, <3>4 DEF Chain
  <2>4. base[i] \in Nat BY <1>10 DEF Shared, Chain
  <2> HIDE DEF b, new
  <2> QED BY <2>1, <2>2, <2>3, <2>4, <1>3, <1>7 DEF Own
<1>15. Own(b, j) = base[j + 1]..new
  <2>1. b[j] = new + 1 /\ b[j + 1] = base[j + 1] BY <1>1
  <2>2. (new + 1) - 1 = new BY <1>7
  <2> HIDE DEF b, new
  <2> QED BY <2>1, <2>2 DEF Own
<1>16. \A i \in Insts(p) : /\ t.inst[i].completed \in BOOLEAN
                           /\ ~t.inst[i].completed => t.inst[i].next \in Nat
  <2>1. t.inst[j].next \in Nat /\ ~t.inst[j].completed /\ t.inst[j].completed \in BOOLEAN
    BY <1>3, <1>8 DEF Shared
  <2> QED BY <2>1, <1>8 DEF Shared
<1>17. \A x \in 0..(t.offset - 1) : t.levels[x] \in Nat /\ t.levels[x] + x <= p.th
  <2> TAKE x \in 0..(t.offset - 1)
  <2>1. CASE x \in 0..(new - 1) BY <2>1, <1>5, <1>9
  <2>2. CASE x = new
    <3>1. CASE new = 0 BY <3>1, <2>2, <1>1, <1>7, <1>8
    <3>2. CASE new > 0
      <4>1. new - 1 \in 0..(new - 1) BY <3>2, <1>7
      <4>2. st.levels[new - 1] > h /\ st.levels[new - 1] \in Nat
            /\ st.levels[new - 1] + (new - 1) <= p.th
        BY <4>1, <1>5, <1>9, <1>11
      <4> HIDE DEF new
      <4> QED BY <4>2, <2>2, <1>1, <1>7, <1>8
    <3> QED BY <3>1, <3>2, <1>7
  <2> QED BY <2>1, <2>2, <1>7, <1>8
<1>18. ASSUME NEW x \in 0..(t.offset - 1), NEW y \in 0..(t.offset - 1), x < y
       PROVE  t.levels[y] < t.levels[x]
  <2>1. x \in 0..(new - 1) /\ (y \in 0..(new - 1) \/ y = new) BY <1>7, <1>8, <1>18
  <2>2. t.levels[x] = st.levels[x] /\ x \in 0..(st.offset - 1) BY <2>1, <1>9
  <2>3. CASE y = new BY <2>1, <2>2, <2>3, <1>8, <1>11
  <2>4. CASE y \in 0..(new - 1)
    <3>1. t.levels[y] = st.levels[y] /\ y \in 0..(st.offset - 1) BY <2>4, <1>9
    <3> QED BY <3>1, <2>2, <1>6, <1>18
  <2> QED BY <2>1, <2>3, <2>4
\* The bits of the next leaf.
<1>19. /\ \A n \in Nat : n > h => Shr(leaf + 1, n) = Shr(leaf, n) /\ Bit(leaf + 1, n) = Bit(leaf, n)
       /\ Bit(leaf + 1, h) = 1
       /\ \A n \in 0..(h - 1) : Bit(leaf + 1, n) = 0
       /\ Shr(leaf + 1, h) = Shr(leaf, h) + 1
       /\ Shr(leaf, h) \in Nat
  <2>1. (\A n \in 0..(h - 1) : Bit(leaf, n) = 1) /\ Bit(leaf, h) = 0 BY DEF Merged
  <2>2. h \in 0..h BY <1>1
  <2>3. leaf \in Nat /\ h \in Nat BY <1>1, <1>3
  <2> HIDE DEF leaf
  <2>4. /\ \A n \in Nat : n > h => Shr(leaf + 1, n) = Shr(leaf, n)
                                  /\ Bit(leaf + 1, n) = Bit(leaf, n)
        /\ Bit(leaf + 1, h) = 1
        /\ \A n \in 0..(h - 1) : Bit(leaf + 1, n) = 0
    BY ONLY <2>1, <2>3, Carry
  <2>5. Shr(leaf + 1, h) = Shr(leaf, h) + 1 BY ONLY <2>1, <2>2, <2>3, Ones
  <2>6. Shr(leaf, h) \in Nat BY <2>3, ShrHalves
  <2> QED BY <2>4, <2>5, <2>6
<1>20. ASSUME NEW i \in Insts(p), NEW x \in Own(b, i)
       PROVE  LET l == t.levels[x] IN
              /\ l < i /\ Bit(t.inst[i].next, l) = 1
              /\ t.stack[x] = Node(a, l, Shr(t.inst[i].next, l) - 1)
  <2>1. CASE i < j BY <2>1, <1>13
  <2>2. CASE i = j
    <3>1. x \in base[j + 1]..new BY <2>2, <1>15
    <3>2. CASE x = new
      <4>1. Shr(leaf + 1, h) - 1 = Shr(leaf, h) BY <1>19
      <4> QED BY <4>1, <2>2, <3>2, <1>1, <1>8, <1>19
    <3>3. CASE x # new
      <4>1. x \in 0..(new - 1) /\ x \in Own(base, j) BY <3>1, <3>3, <1>3, <1>4, <1>7 DEF Own
      <4>2. /\ st.levels[x] < j /\ Bit(leaf, st.levels[x]) = 1
            /\ st.stack[x] = Node(a, st.levels[x], Shr(leaf, st.levels[x]) - 1)
        BY <4>1 DEF Shared
      <4>3. st.levels[x] \in Nat /\ st.levels[x] > h BY <4>1, <1>5, <1>9, <1>11
      <4>4. t.levels[x] = st.levels[x] /\ t.stack[x] = st.stack[x] BY <4>1, <1>9
      <4> QED BY <4>2, <4>3, <4>4, <2>2, <1>19
    <3> QED BY <3>2, <3>3
  <2>3. CASE i > j
    <3>1. /\ x \in Own(base, i) /\ t.inst[i] = st.inst[i] /\ x \in 0..(new - 1)
      BY <2>3, <1>14
    <3>2. t.levels[x] = st.levels[x] /\ t.stack[x] = st.stack[x] BY <3>1, <1>9
    <3> QED BY <3>1, <3>2 DEF Shared
  <2>4. i < j \/ i = j \/ i > j
    <3>1. i \in Nat BY ONLY i \in Insts(p) DEF Insts
    <3>2. j \in Nat BY ONLY <1>1
    <3> QED BY ONLY <3>1, <3>2
  <2> QED BY ONLY <2>1, <2>2, <2>3, <2>4
<1>21. ASSUME NEW i \in Insts(p), NEW l \in 0..(i - 1),
              ~t.inst[i].completed, Bit(t.inst[i].next, l) = 1
       PROVE  \E x \in Own(b, i) : t.levels[x] = l
  <2>1. CASE i < j
    <3>0. i # j BY <2>1, <1>1
    <3>1. t.inst[i] = st.inst[i] BY <3>0, <1>8
    <3>2. PICK x \in Own(base, i) : st.levels[x] = l BY <3>1, <1>21 DEF Shared
    <3>3. Held(st, i) = 0 /\ base[i] = base[i + 1] + Held(st, i)
          /\ base[i + 1] \in Nat
      <4>1. i \in Nat BY ONLY i \in Insts(p) DEF Insts
      <4>2. i \in 0..(j - 1)
        <5>1. j \in Nat BY ONLY <1>1
        <5> QED BY ONLY <2>1, <4>1, <5>1
      <4>3. Held(st, i) = 0 BY <4>2 DEF OnTop
      <4>4. base \in [0..N -> Nat] /\ base[i] = base[i + 1] + Held(st, i)
        BY DEF Shared, Chain
      <4>5. i + 1 \in 0..N BY <1>10
      <4>6. base[i + 1] \in Nat BY ONLY <4>4, <4>5
      <4> QED BY <4>3, <4>4, <4>6
    <3>4. Own(base, i) = {} BY <3>3 DEF Own
    <3> QED BY <3>2, <3>4
  <2>2. CASE i = j
    <3>1. l \in Nat /\ Bit(leaf + 1, l) = 1 BY <2>2, <1>21, <1>10
    <3>2. l >= h
      <4>1. l < h => l \in 0..(h - 1) BY <3>1, <1>1
      <4> QED BY <4>1, <3>1, <1>1, <1>19
    <3>3. CASE l = h
      <4>1. new \in Own(b, j) BY <1>15, <1>7, <1>3
      <4> QED BY <4>1, <3>3, <2>2, <1>8
    <3>4. CASE l > h
      <4>1. Bit(leaf, l) = 1 BY <3>1, <3>4, <1>19
      <4>2. PICK x \in Own(base, j) : st.levels[x] = l BY <4>1, <2>2 DEF Shared
      <4>3. x \in base[j + 1]..(st.offset - 1) BY <4>2, <1>4 DEF Own
      <4>4. ~(x \in new..(st.offset - 1))
        <5>1. \A y \in new..(st.offset - 1) : st.levels[y] < h BY DEF Merged
        <5> QED BY <5>1, <4>2, <3>1, <3>4, <1>1
      <4>5. x \in base[j + 1]..(new - 1) BY <4>3, <4>4, <1>3, <1>4, <1>7
      <4>6. x \in Own(b, j) /\ x \in 0..(new - 1) BY <4>5, <1>15, <1>3, <1>7
      <4> QED BY <4>2, <4>6, <2>2, <1>9
    <3> QED BY <3>1, <3>2, <3>3, <3>4, <1>1
  <2>3. CASE i > j
    <3>1. Own(b, i) = Own(base, i) /\ t.inst[i] = st.inst[i]
          /\ \A x \in Own(b, i) : x \in 0..(new - 1)
      BY <2>3, <1>14
    <3>2. PICK x \in Own(base, i) : st.levels[x] = l BY <3>1, <1>21 DEF Shared
    <3> QED BY <3>1, <3>2, <1>9
  <2> QED BY <2>1, <2>2, <2>3, <1>1, <1>10
<1>22. ASSUME NEW i \in Insts(p), Held(t, i) > 0, NEW x \in 0..(b[i + 1] - 1)
       PROVE  t.levels[x] >= i
  <2>1. CASE i < j BY <2>1, <1>13, <1>22
  <2>2. CASE i = j
    <3>1. x \in 0..(base[j + 1] - 1)
      <4>1. b[j + 1] = base[j + 1] BY <1>1
      <4> QED BY <4>1, <2>2
    <3>2. x \in 0..(new - 1) BY <3>1, <1>3, <1>7
    <3>3. t.levels[x] = st.levels[x] /\ x \in 0..(st.offset - 1) BY <3>2, <1>9
    <3>4. st.levels[x] >= j
      <4>1. CASE u = 0 BY <4>1, <3>3 DEF OnTop
      <4>2. CASE u > 0 BY <4>2, <3>1 DEF Shared
      <4> QED BY <4>1, <4>2, <1>3
    <3> QED BY <3>3, <3>4, <2>2
  <2>3. CASE i > j
    <3>1. t.inst[i] = st.inst[i] /\ b[i + 1] = base[i + 1] /\ base[i + 1] <= new
      BY <2>3, <1>14
    <3>2. base[i + 1] \in Nat BY <1>10 DEF Shared, Chain
    <3>3. x \in 0..(base[i + 1] - 1) /\ x \in 0..(new - 1) BY <3>1, <3>2, <1>7
    <3>4. st.levels[x] >= i BY <3>1, <3>3, <1>22 DEF Shared, Held
    <3> QED BY <3>3, <3>4, <1>9
  <2> QED BY <2>1, <2>2, <2>3, <1>1, <1>10
<1>25. b[N] = base[N] /\ \A x \in 0..(b[N] - 1) : t.levels[x] >= N
  <2>1. b[N] = base[N] BY <1>1
  <2>2. \A x \in 0..(base[N] - 1) : st.levels[x] >= N BY DEF Shared
  <2>3. base[N] <= base[j + 1] /\ base[N] \in Nat
    <3>1. Chain(p, st, base) /\ N \in 0..N /\ j + 1 <= N BY <1>1 DEF Shared
    <3>2. base[N] <= base[j + 1] BY <3>1, <1>1, ChainFalls
    <3> QED BY <3>1, <3>2 DEF Chain
  <2>4. ASSUME NEW x \in 0..(base[N] - 1) PROVE t.levels[x] >= N
    <3>1. x \in 0..(new - 1) BY <2>3, <1>3, <1>7
    <3> QED BY <2>2, <3>1, <1>9
  <2> HIDE DEF b
  <2> QED BY <2>1, <2>4
<1>23. t.offset <= p.th + 1
  <2>1. t.offset - 1 = new /\ new \in 0..(t.offset - 1) BY <1>7, <1>8
  <2>2. t.levels[new] \in Nat /\ t.levels[new] + new <= p.th BY <2>1, <1>17
  <2> QED BY <2>1, <2>2, <1>1, <1>7, <1>8
<1> HIDE DEF b
<1>24. Shared(p, a, t, b)
  BY <1>25, <1>12, <1>16, <1>17, <1>18, <1>20, <1>21, <1>22 DEF Shared
<1> QED BY <1>23, <1>24

-----------------------------------------------------------------------------
\* Which instance bds_treehash_update updates.

(* The least element of a set. *)
LEMMA MinIs ==
  ASSUME NEW S, S \subseteq Int, NEW t \in S, \A y \in S : t <= y
  PROVE  Min(S) = t
<1>1. \A z \in S : (\A y \in S : z <= y) => z = t
  <2> TAKE z \in S
  <2> HAVE \A y \in S : z <= y
  <2>1. z <= t /\ t <= z /\ z \in Int /\ t \in Int OBVIOUS
  <2> QED BY ONLY <2>1
<1>2. \E z \in S : \A y \in S : z <= y OBVIOUS
<1> QED BY <1>1, <1>2 DEF Min

(* The unfinished instances work on the right node that follows the one in    *)
(* the path of leaf x, and the first two right nodes came with the tree.     *)
Work(p, st, x) ==
  \A j \in Insts(p) : ~st.inst[j].completed =>
    /\ st.inst[j].h = j
    /\ st.inst[j].next \in 0..(Pow2[p.th] - 1)
    /\ Shr(st.inst[j].next, j) = 2 * Shr(x, j + 1) + 3
    /\ Shr(x, j + 1) # 0

(* treehash_minheight_on_stack finds the top of the shared stack, whichever   *)
(* instance is asked about.                                                  *)
LEMMA LowIs ==
  ASSUME NEW p, TreeParams(p), NEW a, NEW st, NEW base, Shared(p, a, st, base),
         NEW j \in Insts(p)
  PROVE  /\ st.inst[j].completed => Low(p, st, j) = p.th
         /\ ~st.inst[j].completed /\ Held(st, j) = 0 => Low(p, st, j) = j
         /\ Held(st, j) > 0 =>
              /\ ~st.inst[j].completed
              /\ st.offset > 0 /\ st.offset - 1 \in 0..(st.offset - 1)
              /\ st.levels[st.offset - 1] < j
              /\ \A x \in 0..(st.offset - 1) : st.levels[st.offset - 1] <= st.levels[x]
              /\ Low(p, st, j) = st.levels[st.offset - 1]
         /\ Low(p, st, j) \in Nat
         /\ ~st.inst[j].completed => Low(p, st, j) < p.th
<1> DEFINE N == Instances(p)
<1>1. /\ N \in Nat /\ N <= p.th /\ j \in Nat /\ j < N /\ j + 1 \in 0..N /\ j \in 0..N
      /\ p.th \in Nat
  BY DEF TreeParams, Instances, Insts
<1>2. st.inst[j].completed => Low(p, st, j) = p.th BY DEF Low
<1>3. ~st.inst[j].completed /\ Held(st, j) = 0 => Low(p, st, j) = j BY DEF Low, Held
<1>4. ASSUME Held(st, j) > 0
      PROVE  /\ ~st.inst[j].completed
             /\ st.offset > 0 /\ st.offset - 1 \in 0..(st.offset - 1)
             /\ st.levels[st.offset - 1] < j
             /\ \A x \in 0..(st.offset - 1) : st.levels[st.offset - 1] <= st.levels[x]
             /\ Low(p, st, j) = st.levels[st.offset - 1]
             /\ Low(p, st, j) \in Nat
  <2> DEFINE u == Held(st, j)
             o == st.offset
             T == st.levels[o - 1]
             L == {p.th} \cup {st.levels[o - i] : i \in 1..u}
  <2>1. ~st.inst[j].completed /\ u = st.inst[j].usage
    <3>1. ~st.inst[j].completed
      <4>1. SUFFICES ASSUME st.inst[j].completed PROVE FALSE OBVIOUS
      <4>2. Held(st, j) = 0 BY <4>1 DEF Held
      <4> QED BY <4>2, <1>4
    <3> QED BY <3>1 DEF Held
  <2>2. u \in Nat /\ base[j] = base[j + 1] + u /\ base[j + 1] \in Nat /\ base[0] = o
        /\ o \in Nat
    BY <1>1 DEF Shared, Chain
  <2>3. base[j] <= o
    <3>1. Chain(p, st, base) /\ 0 \in 0..N /\ 0 <= j BY <1>1 DEF Shared
    <3> QED BY <3>1, <1>1, <2>2, ChainFalls
  <2>4. u <= o /\ o > 0 /\ o - 1 \in 0..(o - 1) BY <2>2, <2>3, <1>4
  <2>5. \A x \in 0..(o - 1) : st.levels[x] \in Nat BY DEF Shared
  <2>6. \A x, y \in 0..(o - 1) : x < y => st.levels[y] < st.levels[x] BY DEF Shared
  <2>7. ASSUME NEW x \in 0..(o - 1) PROVE T <= st.levels[x]
    <3>1. x = o - 1 \/ x < o - 1 BY <2>4
    <3>2. x = o - 1 => T <= st.levels[x] BY <2>4, <2>5
    <3>3. x < o - 1 => T < st.levels[x] BY <2>4, <2>6
    <3>4. T \in Nat /\ st.levels[x] \in Nat BY <2>4, <2>5
    <3> QED BY <3>1, <3>2, <3>3, <3>4
  <2>8. T < j
    <3> DEFINE y == base[j] - 1
    <3>1. y \in Own(base, j) /\ y \in 0..(o - 1) BY <2>2, <2>3, <2>4, <1>4 DEF Own
    <3>2. st.levels[y] < j BY <3>1 DEF Shared
    <3>3. T <= st.levels[y] BY <3>1, <2>7
    <3>4. T \in Nat /\ st.levels[y] \in Nat BY <3>1, <2>4, <2>5
    <3> QED BY <3>2, <3>3, <3>4, <1>1
  <2>9. Min(L) = T
    <3>1. \A i \in 1..u : o - i \in 0..(o - 1) BY <2>2, <2>4
    <3>2. L \subseteq Int BY <3>1, <2>5, <1>1
    <3>3. T \in L
      <4>1. 1 \in 1..u BY <2>2, <1>4
      <4> QED BY <4>1
    <3>4. T <= p.th
      <4>1. T \in Nat BY <2>4, <2>5
      <4> QED BY <4>1, <2>8, <1>1
    <3>5. \A y \in L : T <= y BY <3>1, <3>4, <2>7
    <3> HIDE DEF L, T
    <3> QED BY <3>2, <3>3, <3>5, MinIs
  <2>10. Low(p, st, j) = Min(L)
    <3>1. u # 0 BY <1>4
    <3> QED BY <2>1, <3>1 DEF Low
  <2>11. T \in Nat BY <2>4, <2>5
  <2> QED BY <2>1, <2>4, <2>7, <2>8, <2>9, <2>10, <2>11
<1>5. Held(st, j) \in Nat /\ st.inst[j].completed \in BOOLEAN BY DEF Shared, Chain
<1>6. Low(p, st, j) \in Nat /\ (~st.inst[j].completed => Low(p, st, j) < p.th)
  <2>1. CASE Held(st, j) > 0
    <3>1. Low(p, st, j) \in Nat /\ Low(p, st, j) < j BY <2>1, <1>4
    <3> QED BY <3>1, <1>1
  <2>2. CASE Held(st, j) = 0 BY <2>2, <1>1, <1>2, <1>3, <1>5
  <2> QED BY <2>1, <2>2, <1>5
<1> QED BY <1>2, <1>3, <1>4, <1>6

(* The instance that is updated first.                                       *)
LEMMA NeediestIs ==
  ASSUME NEW p, TreeParams(p), NEW a, NEW st, NEW base, Shared(p, a, st, base),
         NEW j \in Neediest(p, st)
  PROVE  /\ j \in Insts(p) /\ ~st.inst[j].completed
         /\ \A o \in Insts(p) : ~st.inst[o].completed
              => \/ Low(p, st, j) < Low(p, st, o)
                 \/ Low(p, st, j) = Low(p, st, o) /\ j <= o
<1> DEFINE low == [i \in Insts(p) |-> Low(p, st, i)]
           open == {i \in Insts(p) : Low(p, st, i) < p.th}
<1>1. j \in open /\ \A o \in open : Before(low, j, o)
  BY DEF Neediest, Insts
<1>2. j \in Insts(p) BY <1>1
<1>3. ~st.inst[j].completed
  <2>1. Low(p, st, j) < p.th /\ p.th \in Nat BY <1>1 DEF TreeParams
  <2> QED BY <1>2, <2>1, LowIs
<1>4. ASSUME NEW o \in Insts(p), ~st.inst[o].completed
      PROVE  \/ Low(p, st, j) < Low(p, st, o)
             \/ Low(p, st, j) = Low(p, st, o) /\ j <= o
  <2>1. o \in open BY <1>4, LowIs
  <2>2. Before(low, j, o) BY <1>1, <2>1
  <2> QED BY <2>2, <1>2 DEF Before
<1> QED BY <1>2, <1>3, <1>4

(* There is such an instance unless all have finished: the least height, and *)
(* the least instance at it.                                                 *)
LEMMA NeediestExists ==
  ASSUME NEW p, TreeParams(p), NEW a, NEW st, NEW base, Shared(p, a, st, base),
         NEW o \in Insts(p), ~st.inst[o].completed
  PROVE  Neediest(p, st) # {}
<1> DEFINE low == [i \in Insts(p) |-> Low(p, st, i)]
           open == {i \in Insts(p) : Low(p, st, i) < p.th}
           Heights == {Low(p, st, i) : i \in open}
<1>1. o \in open BY LowIs
<1>2. Insts(p) \subseteq Nat BY DEF Insts
<1>3. PICK h \in Heights : \A k \in Heights : h <= k
  <2>1. Heights \subseteq Nat BY LowIs
  <2>2. Heights # {} BY <1>1
  <2> HIDE DEF Heights
  <2> QED BY <2>1, <2>2, LeastNumber
<1> DEFINE At == {i \in open : Low(p, st, i) = h}
<1>4. PICK j \in At : \A k \in At : j <= k
  <2>1. At \subseteq Nat BY <1>2
  <2>2. At # {} BY <1>3
  <2> HIDE DEF At
  <2> QED BY <2>1, <2>2, LeastNumber
<1>5. \A i \in open : Before(low, j, i)
  <2> TAKE i \in open
  <2>1. j \in Insts(p) /\ i \in Insts(p) /\ Low(p, st, j) = h OBVIOUS
  <2>2. h <= Low(p, st, i) BY <1>3
  <2>3. Low(p, st, i) \in Nat /\ h \in Nat BY <2>1, LowIs
  <2>4. CASE Low(p, st, i) = h
    <3>1. j <= i BY <1>4, <2>4
    <3> QED BY <3>1, <2>1, <2>4 DEF Before
  <2>5. CASE Low(p, st, i) # h
    <3>1. h < Low(p, st, i) BY <2>2, <2>3, <2>5
    <3> QED BY <3>1, <2>1 DEF Before
  <2> QED BY <2>4, <2>5
<1>6. j \in Neediest(p, st) BY <1>5 DEF Neediest, Insts
<1> QED BY <1>6

(* What it has on the stack is on top, and if it is not the lowest one       *)
(* unfinished, it completes a node below the height of the others.           *)
LEMMA NeediestOnTop ==
  ASSUME NEW p, TreeParams(p), NEW a, NEW st, NEW base, Shared(p, a, st, base),
         NEW j \in Neediest(p, st)
  PROVE  /\ OnTop(st, j)
         /\ \A h \in 0..(j - 1) : ~st.inst[h].completed
              => \E l \in 0..(h - 1) : Bit(st.inst[j].next, l) = 1
<1> DEFINE N == Instances(p)
           T == st.levels[st.offset - 1]
<1>1. /\ j \in Insts(p) /\ ~st.inst[j].completed
      /\ \A o \in Insts(p) : ~st.inst[o].completed
           => \/ Low(p, st, j) < Low(p, st, o)
              \/ Low(p, st, j) = Low(p, st, o) /\ j <= o
  BY NeediestIs
<1>2. /\ N \in Nat /\ j \in Nat /\ j < N /\ j + 1 \in 0..N /\ j \in 0..N
      /\ \A i \in 0..(j - 1) : i \in Insts(p) /\ i \in Nat
  BY <1>1 DEF TreeParams, Instances, Insts
<1>3. Chain(p, st, base) BY DEF Shared
<1>4. Held(st, j) \in Nat BY <1>1, <1>3 DEF Chain
<1>5. ASSUME NEW i \in 0..(j - 1) PROVE Held(st, i) = 0
  <2>1. i \in Insts(p) /\ i \in Nat /\ i < j /\ Held(st, i) \in Nat
    BY <1>2, <1>3 DEF Chain
  <2>2. SUFFICES ASSUME Held(st, i) > 0 PROVE FALSE BY <2>1
  <2>3. ~st.inst[i].completed /\ Low(p, st, i) = T /\ T < i /\ T \in Nat
    BY <2>1, <2>2, LowIs
  <2>4. Low(p, st, j) < T \/ (Low(p, st, j) = T /\ j <= i) BY <1>1, <2>1, <2>3
  <2>5. Low(p, st, j) < T /\ Low(p, st, j) \in Nat
    <3>1. Low(p, st, j) \in Nat BY <1>1, LowIs
    <3> QED BY <3>1, <2>1, <2>4, <1>2
  <2>6. CASE Held(st, j) = 0
    <3>1. Low(p, st, j) = j BY <1>1, <2>6, LowIs
    <3> QED BY <3>1, <2>1, <2>3, <2>5, <1>2
  <2>7. CASE Held(st, j) > 0
    <3>1. Low(p, st, j) = T BY <1>1, <2>7, LowIs
    <3> QED BY <3>1, <2>3, <2>5
  <2> QED BY <2>6, <2>7, <1>4
<1>6. ASSUME Held(st, j) = 0, NEW x \in 0..(st.offset - 1)
      PROVE  st.levels[x] >= j
  <2>0. st.levels[x] \in Nat BY DEF Shared
  <2>1. (\E o \in Insts(p) : Held(st, o) > 0) \/ st.levels[x] >= j
    <3>1. SUFFICES ASSUME \A o \in Insts(p) : ~(Held(st, o) > 0) PROVE st.levels[x] >= j
      OBVIOUS
    <3>2. \A o \in 0..(N - 1) : Held(st, o) = 0
      <4>1. \A o \in Insts(p) : Held(st, o) \in Nat BY <1>3 DEF Chain
      <4> QED BY <3>1, <4>1 DEF Insts
    <3>3. 0 \in 0..N /\ N \in 0..N /\ 0 <= N BY <1>2
    <3>4. base[N] = base[0] BY <3>2, <3>3, <1>3, ChainFlat
    <3>5. base[N] = st.offset BY <3>4, <1>3 DEF Chain
    <3>6. st.levels[x] >= N BY <3>5 DEF Shared
    <3> QED BY <3>6, <2>0, <1>2
  <2> SUFFICES ASSUME NEW o \in Insts(p), Held(st, o) > 0 PROVE st.levels[x] >= j BY <2>1
  <2>2. Held(st, o) > 0 OBVIOUS
  <2>3. /\ ~st.inst[o].completed /\ Low(p, st, o) = T /\ T \in Nat /\ T <= st.levels[x]
    BY <2>2, LowIs
  <2>4. Low(p, st, j) = j BY <1>1, <1>6, LowIs
  <2>5. j <= T
    <3>1. j < Low(p, st, o) \/ (j = Low(p, st, o) /\ j <= o) BY <1>1, <2>3, <2>4
    <3> HIDE DEF T
    <3> QED BY <3>1, <2>3, <1>2
  <2>6. st.levels[x] \in Nat BY DEF Shared
  <2> QED BY <2>3, <2>5, <2>6, <1>2
<1>7. ASSUME NEW h \in 0..(j - 1), ~st.inst[h].completed
      PROVE  \E l \in 0..(h - 1) : Bit(st.inst[j].next, l) = 1
  <2>1. h \in Insts(p) /\ h \in Nat /\ h < j BY <1>2
  <2>2. Held(st, h) = 0 BY <1>5
  <2>3. Low(p, st, h) = h BY <2>1, <2>2, <1>7, LowIs
  <2>4. Low(p, st, j) < h /\ Low(p, st, j) \in Nat
    <3>1. Low(p, st, j) \in Nat BY <1>1, LowIs
    <3> QED BY <3>1, <2>1, <2>3, <1>1, <1>7, <1>2
  <2>5. Held(st, j) > 0
    <3>1. SUFFICES ASSUME Held(st, j) = 0 PROVE FALSE BY <1>4
    <3>2. Low(p, st, j) = j BY <3>1, <1>1, LowIs
    <3> QED BY <3>2, <2>1, <2>4, <1>2
  <2>6. T < h /\ T \in Nat /\ st.offset > 0
    BY <1>1, <2>4, <2>5, LowIs
  <2>7. st.offset - 1 \in Own(base, j)
    <3>1. base[j] = base[0]
      <4>1. 0 \in 0..N /\ 0 <= j BY <1>2
      <4> QED BY <4>1, <1>2, <1>3, <1>5, ChainFlat
    <3>2. base[0] = st.offset /\ base[j] = base[j + 1] + Held(st, j)
          /\ base[j + 1] \in Nat
      BY <1>1, <1>2, <1>3 DEF Chain
    <3> QED BY <3>1, <3>2, <2>5, <1>4 DEF Own
  <2>8. Bit(st.inst[j].next, T) = 1 BY <2>7, <1>1 DEF Shared
  <2>9. T \in 0..(h - 1) BY <2>6, <2>1
  <2> QED BY <2>8, <2>9
<1> QED BY <1>5, <1>6, <1>7 DEF OnTop

(* The greater of two numbers is one of them.                                *)
LEMMA MaxOfTwo ==
  ASSUME NEW x \in Int, NEW y \in Int
  PROVE  Max({x, y}) \in {x, y}
<1>1. \E z \in {x, y} : \A w \in {x, y} : z >= w
  <2>1. CASE x >= y BY <2>1
  <2>2. CASE y >= x BY <2>2
  <2> QED BY <2>1, <2>2
<1> QED BY <1>1 DEF Max

(* t is st after one update, of instance j: it has finished its node, or it   *)
(* has one leaf more behind it.                                              *)
Progress(p, a, st, t, j) ==
  LET leaf == st.inst[j].next IN
  /\ SameBut(p, st, t, j)
  /\ \/ /\ t.inst[j].completed
        /\ t.inst[j].node = Node(a, j, Shr(leaf, j))
        /\ \A n \in 0..j : Rem(leaf, n) = 1
     \/ /\ ~t.inst[j].completed
        /\ t.inst[j].next = leaf + 1
        /\ Shr(leaf + 1, j) = Shr(leaf, j)
        /\ Rem(leaf, j) > 1
        /\ \A n \in 0..j : \/ Rem(leaf, n) > 1 /\ Rem(leaf + 1, n) = Rem(leaf, n) - 1
                           \/ Rem(leaf, n) = 1 /\ Rem(leaf + 1, n) = Pow2[n]

(* treehash_update keeps the shared stack and the work in order, and the     *)
(* stack within tree_height nodes.                                           *)
LEMMA UpdateStep ==
  ASSUME NEW p, TreeParams(p), NEW a, NEW st, IsState(p, st), NEW base,
         Shared(p, a, st, base), NEW x \in Nat, Work(p, st, x),
         st.peak \in 0..(p.th + 1), NEW j \in Neediest(p, st)
  PROVE  LET t == TreehashUpdate(p, a, st, j) IN
         /\ IsState(p, t)
         /\ \E b : Shared(p, a, t, b)
         /\ Work(p, t, x)
         /\ t.peak \in 0..(p.th + 1)
         /\ Progress(p, a, st, t, j)
         /\ Rootless(p, st) => Rootless(p, t)
<1> DEFINE t == TreehashUpdate(p, a, st, j)
           leaf == st.inst[j].next
<1>1. j \in Insts(p) /\ ~st.inst[j].completed /\ OnTop(st, j) BY NeediestIs, NeediestOnTop
<1>2. /\ st.inst[j].h = j /\ leaf \in 0..(Pow2[p.th] - 1)
      /\ Shr(leaf, j) = 2 * Shr(x, j + 1) + 3 /\ Shr(x, j + 1) # 0
  BY <1>1 DEF Work
<1>30. PICK h \in 0..j : \E m : AfterUpdate(p, a, st, base, j, h, m, t)
  <2>1. \A i \in 0..(j - 1) : Held(st, i) = 0 BY <1>1 DEF OnTop
  <2>2. /\ TreeParams(p) /\ IsState(p, st) /\ Shared(p, a, st, base) /\ j \in Insts(p)
        /\ ~st.inst[j].completed /\ st.inst[j].h = j
    BY <1>1, <1>2
  <2> QED BY ONLY <2>1, <2>2, TreehashUpdateResult
<1>31. PICK m : AfterUpdate(p, a, st, base, j, h, m, t) BY <1>30
<1>3. /\ Merged(p, a, st, base, j, h, m, Node(a, h, Shr(leaf, h)))
      /\ h = j => /\ Held(st, j) = h
                  /\ t = Mark(m, j, Node(a, h, Shr(leaf, h)))
      /\ h < j => /\ Bit(leaf, h) = 0
                  /\ \A y \in base[j + 1]..(st.offset - h - 1) : st.levels[y] > h
                  /\ t = Stow(m, j, Node(a, h, Shr(leaf, h)), h, leaf)
  BY ONLY <1>31 DEF AfterUpdate
<1>4. Instances(p) \in Nat /\ Instances(p) <= p.th /\ p.th \in Nat /\ j \in Nat /\ h \in Nat
      /\ leaf \in Nat /\ j < p.th
  BY <1>1, <1>2 DEF TreeParams, Instances, Insts
<1>5. Popped(p, st, m, j, h) /\ \A n \in 0..(h - 1) : Bit(leaf, n) = 1
  BY <1>3 DEF Merged
<1>6. IsState(p, m) BY <1>5 DEF Popped, SameBut
<1> HIDE DEF t, leaf
<1>7. CASE h = j
  <2> DEFINE node == Node(a, h, Shr(leaf, h))
  <2>1. t = Mark(m, j, node) /\ Held(st, j) = h BY <1>3, <1>7
  <2>2. Finished(p, m, t, j, node) BY <2>1, <1>1, <1>6, FinishFields
  <2>3. \E b : Shared(p, a, t, b)
    <3>1. Popped(p, st, m, j, Held(st, j)) BY <2>1, <1>5
    <3> HIDE DEF node
    <3> QED BY <2>2, <3>1, <1>1, SharedAfterFinish DEF OnTop
  <2>4. SameBut(p, st, t, j) /\ t.inst[j].completed /\ t.inst[j].node = node /\ t.peak = st.peak
    BY <2>2, <1>5 DEF Finished, Popped, SameBut
  <2>5. \A n \in 0..j : Rem(leaf, n) = 1
    BY <1>4, <1>5, <1>7, Ones
  <2>6. Progress(p, a, st, t, j) BY <2>4, <2>5, <1>7 DEF Progress, leaf
  <2>7. Work(p, t, x)
    <3> SUFFICES ASSUME NEW i \in Insts(p), ~t.inst[i].completed
                 PROVE  /\ t.inst[i].h = i
                        /\ t.inst[i].next \in 0..(Pow2[p.th] - 1)
                        /\ Shr(t.inst[i].next, i) = 2 * Shr(x, i + 1) + 3
                        /\ Shr(x, i + 1) # 0
      BY DEF Work
    <3>1. t.inst[i] = st.inst[i] BY <2>4 DEF SameBut
    <3> QED BY <3>1 DEF Work
  <2>8. Rootless(p, st) => Rootless(p, t)
    <3>1. t.levels = st.levels /\ t.offset <= st.offset /\ t.offset \in Nat /\ st.offset \in Nat
      <4>1. t.levels = st.levels /\ t.offset = st.offset - h
        BY <2>2, <1>5 DEF Finished, Popped, SameBut
      <4>2. st.offset \in Nat /\ t.offset \in Nat
        <5>1. 0 \in 0..Instances(p) BY <1>4
        <5>2. st.offset \in Nat BY <5>1 DEF Shared, Chain
        <5>3. t.offset \in Nat BY <5>1, <2>3 DEF Shared, Chain
        <5> QED BY <5>2, <5>3
      <4> QED BY <4>1, <4>2, <1>4
    <3> QED BY <3>1 DEF Rootless
  <2> QED BY <2>3, <2>4, <2>6, <2>7, <2>8 DEF t, SameBut
<1>8. CASE h < j
  <2> DEFINE node == Node(a, h, Shr(leaf, h))
  <2>1. t = Stow(m, j, node, h, leaf) /\ Bit(leaf, h) = 0
        /\ \A y \in base[j + 1]..(st.offset - h - 1) : st.levels[y] > h
    BY <1>3, <1>8
  <2>2. m.offset \in Slots(p) /\ m.offset \in Nat
    <3>1. st.offset \in Nat /\ st.offset <= p.th + 1
      <4>1. st.offset \in Nat
        <5>1. 0 \in 0..Instances(p) BY <1>4
        <5> QED BY <5>1 DEF Shared, Chain
      <4>2. CASE st.offset = 0 BY <4>2, <1>4
      <4>3. CASE st.offset > 0
        <5>1. st.offset - 1 \in 0..(st.offset - 1) BY <4>1, <4>3
        <5>2. st.levels[st.offset - 1] \in Nat
              /\ st.levels[st.offset - 1] + (st.offset - 1) <= p.th
          BY <5>1 DEF Shared
        <5> QED BY <5>2, <4>1, <1>4
      <4> QED BY <4>1, <4>2, <4>3
    <3>2. m.offset = st.offset - h /\ h <= Held(st, j) BY <1>3, <1>5 DEF Popped, Merged
    <3>3. Held(st, j) <= st.offset
      <4>1. Chain(p, st, base) BY DEF Shared
      <4>2. Held(st, j) \in Nat /\ base[j] = base[j + 1] + Held(st, j)
        BY <4>1, <1>1 DEF Chain
      <4>3. j + 1 \in 0..Instances(p) /\ j \in 0..Instances(p) /\ 0 \in 0..Instances(p)
            /\ 0 <= j
        BY <1>1, <1>4 DEF Insts
      <4>4. base[j + 1] \in Nat /\ base[0] = st.offset BY <4>1, <4>3 DEF Chain
      <4>5. base[j] <= base[0] BY <4>1, <4>3, ChainFalls
      <4> QED BY <4>2, <4>4, <4>5, <3>1
    <3>4. Held(st, j) \in Nat BY <1>1 DEF Shared, Chain
    <3> QED BY <3>1, <3>2, <3>3, <3>4, <1>4 DEF Slots
  <2>3. Stowed(p, m, t, j, node, h) /\ t.inst[j].next = leaf + 1
    BY <2>1, <2>2, <1>1, <1>6, StowFields
  <2>4. (\E b : Shared(p, a, t, b)) /\ t.offset <= p.th + 1
    <3>1. h \in 0..(j - 1) BY <1>8, <1>4
    <3>2. Merged(p, a, st, base, j, h, m, Node(a, h, Shr(leaf, h))) BY <1>3
    <3> QED BY <2>1, <2>3, <3>1, <3>2, <1>1, SharedAfterStow DEF leaf
  <2>5. SameBut(p, st, t, j) /\ t.inst[j].completed = st.inst[j].completed
        /\ t.peak = Max({st.peak, m.offset + 1}) /\ t.offset = m.offset + 1
    BY <2>3, <1>5 DEF Stowed, Popped, SameBut
  <2>6. t.peak \in 0..(p.th + 1)
    <3>1. st.peak \in Int /\ m.offset + 1 \in Int BY <2>2
    <3>2. t.peak \in {st.peak, m.offset + 1} BY ONLY <2>5, <3>1, MaxOfTwo
    <3> QED BY <3>2, <2>2, <2>4, <2>5, <1>4
  <2>7. /\ \A n \in Nat : n > h => /\ Shr(leaf + 1, n) = Shr(leaf, n)
                                   /\ Rem(leaf, n) > 1
                                   /\ Rem(leaf + 1, n) = Rem(leaf, n) - 1
        /\ \A n \in 0..h : Rem(leaf + 1, n) = Pow2[n]
        /\ \A n \in 0..h : Rem(leaf, n) = 1
    <3>1. (\A n \in 0..(h - 1) : Bit(leaf, n) = 1) /\ Bit(leaf, h) = 0 BY <2>1, <1>5
    <3>2. /\ \A n \in Nat : n > h => /\ Shr(leaf + 1, n) = Shr(leaf, n)
                                      /\ Rem(leaf, n) > 1
                                      /\ Rem(leaf + 1, n) = Rem(leaf, n) - 1
          /\ \A n \in 0..h : Rem(leaf + 1, n) = Pow2[n]
      BY ONLY <3>1, <1>4, Carry
    <3>3. \A n \in 0..h : Rem(leaf, n) = 1 BY ONLY <3>1, <1>4, Ones
    <3> QED BY ONLY <3>2, <3>3
  <2>8. Progress(p, a, st, t, j)
    <3>1. ~t.inst[j].completed BY <2>5, <1>1
    <3>2. \A n \in 0..j : \/ Rem(leaf, n) > 1 /\ Rem(leaf + 1, n) = Rem(leaf, n) - 1
                          \/ Rem(leaf, n) = 1 /\ Rem(leaf + 1, n) = Pow2[n]
      <4> TAKE n \in 0..j
      <4>1. n \in Nat /\ (n > h \/ n \in 0..h) BY <1>4
      <4> QED BY <4>1, <2>7
    <3> QED BY <3>1, <3>2, <2>3, <2>5, <2>7, <1>4, <1>8 DEF Progress, leaf
  <2>9. Work(p, t, x)
    <3> SUFFICES ASSUME NEW i \in Insts(p), ~t.inst[i].completed
                 PROVE  /\ t.inst[i].h = i
                        /\ t.inst[i].next \in 0..(Pow2[p.th] - 1)
                        /\ Shr(t.inst[i].next, i) = 2 * Shr(x, i + 1) + 3
                        /\ Shr(x, i + 1) # 0
      BY DEF Work
    <3>1. CASE i # j
      <4>1. t.inst[i] = st.inst[i] BY <3>1, <2>5 DEF SameBut
      <4> QED BY <4>1 DEF Work
    <3>2. CASE i = j
      <4>1. t.inst[j].h = j /\ t.inst[j].next = leaf + 1
        BY <2>3, <2>5, <1>2 DEF SameBut
      <4>2. Shr(leaf + 1, j) = Shr(leaf, j) /\ Shr(leaf + 1, p.th) = Shr(leaf, p.th)
        BY <2>7, <1>4, <1>8
      <4>3. leaf + 1 < Pow2[p.th]
        <5>1. Pow2[p.th] \in Nat BY <1>4, Pow2Recursion
        <5>2. leaf < Pow2[p.th] BY <5>1, <1>2 DEF leaf
        <5>3. Shr(leaf, p.th) = 0 BY <5>2, <1>4, ShrZero
        <5>4. leaf + 1 \in Nat BY <1>4
        <5> QED BY <5>3, <5>4, <4>2, <1>4, ShrZero
      <4>4. leaf + 1 \in 0..(Pow2[p.th] - 1)
        <5>1. Pow2[p.th] \in Nat BY <1>4, Pow2Recursion
        <5> QED BY <5>1, <4>3, <1>4
      <4> QED BY <4>1, <4>2, <4>4, <3>2, <1>2 DEF leaf
    <3> QED BY <3>1, <3>2
  <2>10. Rootless(p, st) => Rootless(p, t)
    <3> SUFFICES ASSUME Rootless(p, st), NEW y \in 0..(t.offset - 1)
                 PROVE  t.levels[y] < Instances(p)
      BY DEF Rootless
    <3>1. CASE y = m.offset
      <4>1. t.levels[y] = h BY <3>1, <2>3 DEF Stowed
      <4> QED BY <4>1, <1>1, <1>4, <1>8 DEF Insts
    <3>2. CASE y # m.offset
      <4>1. st.offset \in Nat
        <5>1. 0 \in 0..Instances(p) BY <1>4
        <5> QED BY <5>1 DEF Shared, Chain
      <4>2. y \in 0..(st.offset - 1) /\ y \in Slots(p)
        <5>1. m.offset = st.offset - h BY <1>5 DEF Popped
        <5>2. y \in Nat /\ y < m.offset BY <3>2, <2>2, <2>5
        <5>3. y <= p.th + 2 BY <5>2, <2>2, <1>4 DEF Slots
        <5> QED BY <5>1, <5>2, <5>3, <4>1, <1>4 DEF Slots
      <4>3. t.levels[y] = st.levels[y] BY <4>2, <3>2, <2>3, <1>5 DEF Stowed, Popped
      <4> QED BY <4>2, <4>3 DEF Rootless
    <3> QED BY <3>1, <3>2
  <2> QED BY <2>4, <2>5, <2>6, <2>8, <2>9, <2>10 DEF t, SameBut
<1> QED BY <1>7, <1>8, <1>4

-----------------------------------------------------------------------------
\* How many updates are needed, and how many there are.

(* The instances that can be unfinished: the right nodes of the two top       *)
(* levels are all built with the tree.                                       *)
Contenders(p) ==
  IF Instances(p) <= p.th - 2 THEN Instances(p)
  ELSE IF p.th >= 2 THEN p.th - 2 ELSE 0

(* The updates that go to the node instance j is working on before instance   *)
(* h has finished its own.                                                   *)
Load(st, h, j) ==
  LET t == st.inst[j] IN
  IF t.completed THEN 0
  ELSE IF j <= h THEN Rem(t.next, j)
  ELSE IF Rem(t.next, h) = Pow2[h] THEN 0
  ELSE Rem(t.next, h)

(* Those that go to the nodes it begins from leaf x on until then. *)
Again(x, h, j) ==
  IF j < h THEN Pow2[j] * (Rem(Shr(x, j + 1), h - j) - 1) ELSE 0

(* Both, for every instance.                                                 *)
Demands(p, st, x, h) ==
  [j \in 0..(Contenders(p) - 1) |-> Load(st, h, j) + Again(x, h, j)]

(* The updates given out by the time instance h has finished. *)
Demand(p, st, x, h) == SumTo(Demands(p, st, x, h), Contenders(p))

(* Those that are given out before the tree ends, at the most. *)
Demanded(p, st, x) == Demand(p, st, x, p.th - 1)

(* The calls left before the node of instance h is taken give enough updates, *)
(* after the given number of those of the current call.                      *)
InBudget(p, st, x, spent) ==
  \A h \in Insts(p) : ~st.inst[h].completed =>
    Demand(p, st, x, h) + spent <= (Instances(p) \div 2) * Rem(x, h + 1)

(* What the bookkeeping of the updates needs to know of the instances. *)
Counted(p, st) ==
  \A j \in Insts(p) : /\ st.inst[j].completed \in BOOLEAN
                      /\ ~st.inst[j].completed => st.inst[j].next \in Nat

(* No more instances contend than there are.                                 *)
LEMMA ContendersRange ==
  ASSUME NEW p, TreeParams(p)
  PROVE  Contenders(p) \in Nat /\ Contenders(p) <= Instances(p) /\ Instances(p) \in Nat
BY DEF Contenders, TreeParams, Instances

(* An unfinished instance is one of them.                                    *)
LEMMA UnfinishedContends ==
  ASSUME NEW p, TreeParams(p), NEW st, NEW x \in Nat, Work(p, st, x),
         NEW j \in Insts(p), ~st.inst[j].completed
  PROVE  j \in 0..(Contenders(p) - 1)
<1> DEFINE y == st.inst[j].next
<1>1. y \in 0..(Pow2[p.th] - 1) /\ Shr(y, j) = 2 * Shr(x, j + 1) + 3 BY DEF Work
<1>2. /\ p.th \in Nat /\ p.th # 0 /\ j \in Nat /\ j < Instances(p) /\ Instances(p) <= p.th
      /\ Instances(p) \in Nat
  BY DEF TreeParams, Instances, Insts
<1>3. Pow2[p.th] \in Nat BY <1>2, Pow2Recursion
<1>4. y \in Nat /\ y < Pow2[p.th] BY <1>1, <1>3
<1>5. Shr(x, j + 1) \in Nat BY <1>2, ShrHalves
<1>6. Shr(y, p.th) = 0 BY <1>2, <1>4, ShrZero
<1> HIDE DEF y
<1>7. Shr(y, j + 1) = Shr(x, j + 1) + 1
  <2> DEFINE z == Shr(x, j + 1)
  <2>1. z \in Nat /\ Shr(y, j) = 2 * z + 3 BY <1>1, <1>5 DEF y
  <2>2. Shr(y, j + 1) = Shr(y, j) \div 2 BY <1>2, <1>4, ShrHalves
  <2> HIDE DEF z
  <2>3. (2 * z + 3) \div 2 = z + 1 BY ONLY <2>1
  <2>4. Shr(y, j + 1) = z + 1 BY ONLY <2>1, <2>2, <2>3
  <2> QED BY <2>4 DEF z
<1>8. j # p.th - 1
  <2>1. SUFFICES ASSUME j = p.th - 1 PROVE FALSE OBVIOUS
  <2>2. j + 1 = p.th BY <2>1, <1>2
  <2> QED BY <2>2, <1>5, <1>6, <1>7
<1>9. j # p.th - 2
  <2>1. SUFFICES ASSUME j = p.th - 2 PROVE FALSE OBVIOUS
  <2>2. (j + 1) + 1 = p.th /\ j + 1 \in Nat BY <2>1, <1>2
  <2> DEFINE z == Shr(x, j + 1)
  <2>3. z \in Nat /\ z # 0 /\ Shr(y, j + 1) = z + 1 BY <1>5, <1>7 DEF Work
  <2>4. Shr(y, (j + 1) + 1) = Shr(y, j + 1) \div 2 BY <2>2, <1>4, ShrHalves
  <2>5. Shr(y, (j + 1) + 1) = 0 BY <2>2, <1>6
  <2> HIDE DEF z
  <2>6. (z + 1) \div 2 = 0 BY <2>3, <2>4, <2>5
  <2>7. (z + 1) \div 2 >= 1 BY ONLY <2>3
  <2> QED BY ONLY <2>6, <2>7
<1>10. j < p.th - 2
  BY ONLY <1>2, <1>8, <1>9
<1>11. j < Contenders(p) /\ Contenders(p) \in Nat
  BY ONLY <1>2, <1>10 DEF Contenders
<1> QED BY <1>11, <1>2

(* The updates left to a node are no more than its leaves, and while         *)
(* instance h works, no more than its own.                                   *)
LEMMA LoadRange ==
  ASSUME NEW p, TreeParams(p), NEW st, Counted(p, st), NEW h \in Nat, NEW j \in Insts(p)
  PROVE  /\ Load(st, h, j) \in Nat
         /\ j <= h => Load(st, h, j) <= Pow2[j]
         /\ Load(st, h, j) <= Pow2[h]
<1> DEFINE t == st.inst[j]
<1>1. h \in Nat /\ j \in Nat BY DEF Insts
<1>2. Pow2[h] \in Nat /\ Pow2[j] \in Nat BY <1>1, Pow2Recursion
<1>3. t.completed \in BOOLEAN BY DEF Counted
<1>4. CASE t.completed BY <1>2, <1>4 DEF Load
<1>5. CASE ~t.completed
  <2>1. t.next \in Nat BY <1>5 DEF Counted
  <2>2. Rem(t.next, j) \in 1..Pow2[j] /\ Rem(t.next, h) \in 1..Pow2[h]
    BY <2>1, <1>1, RemRange
  <2>3. CASE j <= h
    <3>1. Pow2[j] <= Pow2[h] BY <2>3, <1>1, Pow2Monotone
    <3>2. Load(st, h, j) = Rem(t.next, j) BY <1>5, <2>3 DEF Load
    <3> HIDE DEF t
    <3> QED BY <3>1, <3>2, <2>2, <1>2
  <2>4. CASE ~(j <= h)
    <3>1. Load(st, h, j) = 0 \/ Load(st, h, j) = Rem(t.next, h)
      BY <1>5, <2>4 DEF Load
    <3> HIDE DEF t
    <3> QED BY <3>1, <2>2, <2>4, <1>2
  <2> QED BY <2>3, <2>4
<1> QED BY <1>3, <1>4, <1>5

(* A lower instance that begins again until instance h has finished needs    *)
(* fewer updates than the node of instance h has leaves; a higher one gets   *)
(* none.                                                                     *)
LEMMA AgainRange ==
  ASSUME NEW x \in Nat, NEW h \in Nat, NEW j \in Nat
  PROVE  /\ Again(x, h, j) \in Nat
         /\ j < h => Again(x, h, j) + Pow2[j] <= Pow2[h]
         /\ j >= h => Again(x, h, j) = 0
<1>1. CASE j < h
  <2> DEFINE r == Rem(Shr(x, j + 1), h - j)
             m == Pow2[j]
             n == Pow2[h - j]
  <2>1. h - j \in Nat /\ j + (h - j) = h /\ j + 1 \in Nat BY <1>1
  <2>2. m \in Nat /\ n \in Nat BY <2>1, Pow2Recursion
  <2>3. Shr(x, j + 1) \in Nat BY <2>1, ShrHalves
  <2>4. r \in 1..n BY <2>1, <2>3, RemRange
  <2>5. Pow2[h] = m * n
    <3>1. Pow2[j + (h - j)] = Pow2[j] * Pow2[h - j] BY <2>1, Pow2Sum
    <3> QED BY <3>1, <2>1
  <2>6. Again(x, h, j) = m * (r - 1) BY <1>1 DEF Again
  <2> HIDE DEF r, m, n
  <2>7. r - 1 \in Nat /\ r <= n /\ r \in Nat BY <2>2, <2>4
  <2>8. m * (r - 1) \in Nat BY ONLY <2>2, <2>7, TimesNat
  <2>9. m * (r - 1) + m = m * r BY ONLY <2>2, <2>7
  <2>10. m * r <= m * n BY ONLY <2>2, <2>7
  <2> QED BY <2>5, <2>6, <2>8, <2>9, <2>10, <1>1 DEF m
<1>2. CASE j >= h BY <1>2 DEF Again
<1> QED BY <1>1, <1>2

(* One update brings every instance that is not finished one update nearer.  *)
LEMMA UpdateSpends ==
  ASSUME NEW p, TreeParams(p), NEW a, NEW st, NEW base, Shared(p, a, st, base),
         NEW x \in Nat, Work(p, st, x), NEW j \in Neediest(p, st),
         NEW t, Progress(p, a, st, t, j), Counted(p, t),
         NEW h \in Nat, h >= Contenders(p) \/ (h \in Insts(p) /\ ~t.inst[h].completed)
  PROVE  /\ h < Contenders(p) => ~st.inst[h].completed
         /\ Demand(p, st, x, h) \in Int
         /\ Demand(p, t, x, h) = Demand(p, st, x, h) - 1
<1> DEFINE M == Contenders(p)
           leaf == st.inst[j].next
           f == Demands(p, st, x, h)
           g == Demands(p, t, x, h)
<1>1. /\ j \in Insts(p) /\ ~st.inst[j].completed
      /\ \A i \in 0..(j - 1) : ~st.inst[i].completed
           => \E l \in 0..(i - 1) : Bit(leaf, l) = 1
  BY NeediestIs, NeediestOnTop
<1>2. M \in Nat /\ M <= Instances(p) /\ Instances(p) \in Nat BY ContendersRange
<1>3. /\ \A i \in 0..(M - 1) : i \in Insts(p) /\ i \in Nat
      /\ h \in Nat /\ j \in Nat
  BY <1>1, <1>2 DEF Insts
<1>4. j \in 0..(M - 1) /\ j < M
  <2>1. j \in 0..(M - 1) BY <1>1, UnfinishedContends
  <2> HIDE DEF M
  <2> QED BY <2>1, <1>2
<1>5. h < M => h \in Insts(p) /\ ~st.inst[h].completed
  <2> SUFFICES ASSUME h < M PROVE h \in Insts(p) /\ ~st.inst[h].completed OBVIOUS
  <2>0. h \in Insts(p) /\ ~t.inst[h].completed BY <1>2, <1>3
  <2>1. CASE h = j BY <2>1, <1>1
  <2>2. CASE h # j
    <3>1. t.inst[h] = st.inst[h] BY <2>0, <2>2 DEF Progress, SameBut
    <3> QED BY <2>0, <3>1
  <2> QED BY <2>1, <2>2
<1>6. Counted(p, st) BY DEF Shared, Counted
<1>7. \A i \in 0..(M - 1) : f[i] \in Int /\ g[i] \in Int
  <2> TAKE i \in 0..(M - 1)
  <2>1. i \in Insts(p) /\ i \in Nat BY <1>3
  <2>2. Load(st, h, i) \in Nat /\ Load(t, h, i) \in Nat BY <2>1, <1>6, LoadRange
  <2>3. Again(x, h, i) \in Nat BY <2>1, <1>3, AgainRange
  <2>4. f[i] = Load(st, h, i) + Again(x, h, i) /\ g[i] = Load(t, h, i) + Again(x, h, i)
    BY DEF Demands
  <2> HIDE DEF f, g
  <2> QED BY <2>2, <2>3, <2>4
<1>8. \A i \in 0..(M - 1) : i # j => f[i] = g[i]
  <2> TAKE i \in 0..(M - 1)
  <2> HAVE i # j
  <2>1. t.inst[i] = st.inst[i] BY <1>3 DEF Progress, SameBut
  <2>2. Load(t, h, i) = Load(st, h, i) BY <2>1 DEF Load
  <2> QED BY <2>2 DEF Demands
<1>9. leaf \in Nat BY <1>1 DEF Shared
<1>10. Load(t, h, j) = Load(st, h, j) - 1
  <2>1. CASE j <= h
    <3>1. Load(st, h, j) = Rem(leaf, j) BY <2>1, <1>1 DEF Load
    <3>2. j \in 0..j BY <1>3
    <3>3. CASE t.inst[j].completed
      <4>1. Rem(leaf, j) = 1 BY <3>2, <3>3 DEF Progress
      <4>2. Load(t, h, j) = 0 BY <3>3 DEF Load
      <4> QED BY <4>1, <4>2, <3>1
    <3>4. CASE ~t.inst[j].completed
      <4>1. t.inst[j].next = leaf + 1 /\ Rem(leaf, j) > 1
            /\ (Rem(leaf + 1, j) = Rem(leaf, j) - 1 \/ Rem(leaf, j) = 1)
        BY <3>2, <3>4 DEF Progress
      <4>2. Load(t, h, j) = Rem(leaf + 1, j) BY <4>1, <3>4, <2>1 DEF Load
      <4>3. Rem(leaf, j) # 1 BY <4>1
      <4> QED BY <4>1, <4>2, <4>3, <3>1
    <3> QED BY <3>3, <3>4
  <2>2. CASE h < j
    <3>1. h \in 0..(j - 1) /\ h \in 0..j BY <2>2, <1>3
    <3>0. h < M BY <2>2, <1>2, <1>3, <1>4
    <3>2. PICK l \in 0..(h - 1) : Bit(leaf, l) = 1 BY <3>0, <3>1, <1>1, <1>5
    <3>3. Rem(leaf, h) < Pow2[h] BY <3>2, <1>3, <1>9, OneBelow
    <3>4. Rem(leaf, h) \in 1..Pow2[h] /\ Pow2[h] \in Nat BY <1>3, <1>9, RemRange, Pow2Recursion
    <3>5. Load(st, h, j) = Rem(leaf, h)
      <4>1. ~(j <= h) BY <2>2, <1>3
      <4>2. Rem(leaf, h) # Pow2[h] BY <3>3, <3>4
      <4> QED BY <4>1, <4>2, <1>1 DEF Load
    <3>6. CASE t.inst[j].completed
      <4>1. Rem(leaf, h) = 1 BY <3>1, <3>6 DEF Progress
      <4>2. Load(t, h, j) = 0 BY <3>6 DEF Load
      <4> QED BY <4>1, <4>2, <3>5
    <3>7. CASE ~t.inst[j].completed
      <4>1. /\ t.inst[j].next = leaf + 1
            /\ \/ Rem(leaf, h) > 1 /\ Rem(leaf + 1, h) = Rem(leaf, h) - 1
               \/ Rem(leaf, h) = 1 /\ Rem(leaf + 1, h) = Pow2[h]
        BY <3>1, <3>7 DEF Progress
      <4>2. ~(j <= h) BY <2>2, <1>3
      <4>3. Load(t, h, j) = IF Rem(leaf + 1, h) = Pow2[h] THEN 0 ELSE Rem(leaf + 1, h)
        BY <4>1, <4>2, <3>7 DEF Load
      <4> HIDE DEF leaf
      <4> QED BY <4>1, <4>3, <3>3, <3>4, <3>5
    <3> QED BY <3>6, <3>7
  <2> QED BY <2>1, <2>2, <1>3
<1>11. g[j] - f[j] = -1
  <2>1. f[j] = Load(st, h, j) + Again(x, h, j) /\ g[j] = Load(t, h, j) + Again(x, h, j)
    BY <1>4 DEF Demands
  <2>2. Again(x, h, j) \in Nat /\ Load(st, h, j) \in Nat
    BY <1>1, <1>3, <1>6, AgainRange, LoadRange
  <2> HIDE DEF f, g
  <2> QED BY <2>1, <2>2, <1>10
<1> HIDE DEF f, g, M
<1>12. SumTo(g, M) = SumTo(f, M) + (g[j] - f[j]) BY <1>2, <1>4, <1>7, <1>8, SumChange
<1>13. SumTo(f, M) \in Int BY <1>2, <1>7, SumInt
<1>14. SumTo(g, M) = SumTo(f, M) - 1 BY ONLY <1>11, <1>12, <1>13
<1> QED BY <1>5, <1>13, <1>14 DEF Demand, f, g, M

(* An instance whose node is taken at leaf x has finished it.                *)
LEMMA OnTime ==
  ASSUME NEW p, TreeParams(p), NEW st, NEW x \in Nat, Work(p, st, x), Counted(p, st),
         InBudget(p, st, x, Instances(p) \div 2),
         NEW j \in Insts(p), Rem(x, j + 1) = 1
  PROVE  st.inst[j].completed
<1>1. SUFFICES ASSUME ~st.inst[j].completed PROVE FALSE OBVIOUS
<1> DEFINE M == Contenders(p)
           B == Instances(p) \div 2
           f == Demands(p, st, x, j)
<1>2. M \in Nat /\ M <= Instances(p) /\ Instances(p) \in Nat /\ B \in Nat BY ContendersRange
<1>3. j \in 0..(M - 1) /\ j \in Nat BY <1>1, UnfinishedContends DEF Insts
<1>4. \A i \in 0..(M - 1) : f[i] \in Nat
  <2> TAKE i \in 0..(M - 1)
  <2>1. i \in Insts(p) /\ i \in Nat BY <1>2 DEF Insts
  <2>2. Load(st, j, i) \in Nat BY <2>1, <1>3, LoadRange
  <2>3. Again(x, j, i) \in Nat BY <2>1, <1>3, AgainRange
  <2>4. f[i] = Load(st, j, i) + Again(x, j, i) BY DEF Demands
  <2> HIDE DEF f
  <2> QED BY <2>2, <2>3, <2>4
<1>5. f[j] >= 1
  <2>1. st.inst[j].next \in Nat BY <1>1 DEF Counted
  <2>2. Load(st, j, j) = Rem(st.inst[j].next, j) BY <1>1, <1>3 DEF Load
  <2>3. Rem(st.inst[j].next, j) >= 1 BY <2>1, <1>3, RemRange
  <2>4. Again(x, j, j) = 0 BY <1>3, AgainRange
  <2>5. f[j] = Load(st, j, j) + Again(x, j, j) BY <1>3 DEF Demands
  <2>6. Rem(st.inst[j].next, j) \in Int
    <3>1. Rem(st.inst[j].next, j) \in 1..Pow2[j] /\ Pow2[j] \in Nat
      BY <2>1, <1>3, RemRange, Pow2Recursion
    <3> QED BY <3>1
  <2> HIDE DEF f
  <2> QED BY <2>2, <2>3, <2>4, <2>5, <2>6
<1>6. Demand(p, st, x, j) + B <= B * 1 BY <1>1 DEF InBudget
<1>7. Demand(p, st, x, j) = SumTo(f, M) BY DEF Demand
<1> HIDE DEF f, M, B
<1>8. f[j] <= SumTo(f, M) BY <1>2, <1>3, <1>4, SumTerm
<1>9. SumTo(f, M) \in Int BY <1>2, <1>4, SumInt
<1>10. f[j] \in Int BY <1>3, <1>4
<1> QED BY <1>2, <1>5, <1>6, <1>7, <1>8, <1>9, <1>10

(* One turn of the loop of bds_treehash_update. *)
UpdateTurn(p, a, s) ==
  IF Neediest(p, s.st) = {} THEN s
  ELSE [st   |-> TreehashUpdate(p, a, s.st, CHOOSE j \in Neediest(p, s.st) : TRUE),
        left |-> s.left - 1]

(* g is the recursion of that loop over n turns. *)
Updating(n, g, p, a, x) ==
  g = [k \in 0..n |-> IF k = 0 THEN x ELSE UpdateTurn(p, a, g[k - 1])]

(* The recursion of the loop can be carried out over any number of turns.    *)
LEMMA UpdatingExists ==
  ASSUME NEW p, NEW a, NEW x
  PROVE  \A n \in Nat : \E g : Updating(n, g, p, a, x)
<1> DEFINE S == {n \in Nat : \E g : Updating(n, g, p, a, x)}
<1>1. 0 \in S
  <2>1. Updating(0, [k \in 0..0 |-> x], p, a, x) BY DEF Updating
  <2> QED BY <2>1
<1>2. ASSUME NEW n \in Nat, n \in S PROVE n + 1 \in S
  <2>1. PICK g : Updating(n, g, p, a, x) BY <1>2
  <2> DEFINE f == [k \in 0..(n + 1) |->
                     IF k = n + 1 THEN UpdateTurn(p, a, g[n]) ELSE g[k]]
  <2>2. ASSUME NEW k \in 0..(n + 1)
        PROVE  f[k] = IF k = 0 THEN x ELSE UpdateTurn(p, a, f[k - 1])
    <3>1. CASE k = n + 1
      <4>1. k # 0 /\ k - 1 = n /\ n \in 0..(n + 1) /\ n # n + 1 BY <3>1
      <4>2. f[k] = UpdateTurn(p, a, g[n]) BY <3>1
      <4>3. f[n] = g[n] BY <4>1
      <4> QED BY <4>1, <4>2, <4>3, <3>1
    <3>2. CASE k # n + 1
      <4>1. k \in 0..n BY <3>2
      <4>2. f[k] = g[k] BY <3>2
      <4>3. g[k] = IF k = 0 THEN x ELSE UpdateTurn(p, a, g[k - 1])
        BY <2>1, <4>1 DEF Updating
      <4>4. k # 0 => f[k - 1] = g[k - 1] BY <4>1
      <4> QED BY <4>2, <4>3, <4>4
    <3> QED BY <3>1, <3>2
  <2>3. f = [k \in 0..(n + 1) |-> f[k]] OBVIOUS
  <2>4. Updating(n + 1, f, p, a, x)
    <3> HIDE DEF f
    <3> QED BY <2>2, <2>3 DEF Updating
  <2> QED BY <2>4
<1>3. Nat \subseteq S
  <2> HIDE DEF S
  <2> QED BY <1>1, <1>2, SetInduction
<1> QED BY <1>3

(* bds_treehash_update in terms of its loop.                                 *)
LEMMA BdsTreehashUpdateLoop ==
  ASSUME NEW p, NEW a, NEW st, NEW u, NEW n \in Nat, Available(p, u) = n
  PROVE  \E g : /\ g[0] = [st |-> st, left |-> u]
                /\ \A k \in 1..n : g[k] = UpdateTurn(p, a, g[k - 1])
                /\ BdsTreehashUpdate(p, a, st, u)
                     = [g[n] EXCEPT !.left = Char(g[n].left)]
<1> DEFINE x == [st |-> st, left |-> u]
           g == CHOOSE g : Updating(n, g, p, a, x)
<1>0. \A m \in Nat : \E f : Updating(m, f, p, a, x)
  <2> HIDE DEF x
  <2> QED BY UpdatingExists
<1>1. Updating(n, g, p, a, x) BY <1>0
<1>2. \A z : (CHOOSE y \in {UpdateTurn(p, a, v) : v \in {z}} : TRUE) = UpdateTurn(p, a, z)
  <2> TAKE z
  <2>1. {UpdateTurn(p, a, v) : v \in {z}} = {UpdateTurn(p, a, z)} OBVIOUS
  <2> QED BY <2>1
<1> DEFINE w == CHOOSE f :
                  f = [k \in 0..n |->
                         IF k = 0 THEN x
                         ELSE CHOOSE y \in {UpdateTurn(p, a, z) : z \in {f[k - 1]}} : TRUE]
<1>3. w = g
  <2> HIDE DEF x
  <2> QED BY <1>2 DEF Updating
<1>5. BdsTreehashUpdate(p, a, st, u) = [w[n] EXCEPT !.left = Char(w[n].left)]
  BY Zenon DEF BdsTreehashUpdate, Loop, UpdateTurn
<1> HIDE DEF g
<1>6. g[0] = x BY <1>1 DEF Updating
<1>7. ASSUME NEW k \in 1..n PROVE g[k] = UpdateTurn(p, a, g[k - 1])
  <2>1. k \in 0..n /\ k # 0 OBVIOUS
  <2> QED BY <2>1, <1>1 DEF Updating
<1> QED BY <1>3, <1>5, <1>6, <1>7

(* t is st after n updates, while leaf x is the one the path is for: the     *)
(* instances that have finished since then have the node that follows, and   *)
(* those that have not have had n updates of the instances' common work.     *)
Updated(p, a, st, t, x, n) ==
  /\ IsState(p, t)
  /\ \E b : Shared(p, a, t, b)
  /\ Work(p, t, x)
  /\ t.peak \in 0..(p.th + 1)
  /\ t.auth = st.auth /\ t.keep = st.keep /\ t.retain = st.retain
  /\ t.nextLeaf = st.nextLeaf
  /\ Rootless(p, st) => Rootless(p, t)
  /\ \A j \in Insts(p) :
       /\ st.inst[j].completed => t.inst[j] = st.inst[j]
       /\ ~st.inst[j].completed /\ t.inst[j].completed
            => t.inst[j].node = Node(a, j, 2 * Shr(x, j + 1) + 3)
       /\ ~t.inst[j].completed
            => /\ Demand(p, st, x, j) \in Int
               /\ Demand(p, t, x, j) + n = Demand(p, st, x, j)

(* The update of the neediest instance is one more of them.                  *)
LEMMA UpdatedStep ==
  ASSUME NEW p, TreeParams(p), NEW a, NEW st, NEW s, NEW x \in Nat, NEW n \in Nat,
         Updated(p, a, st, s, x, n), NEW j \in Neediest(p, s),
         \A i \in Insts(p) : ~st.inst[i].completed => Demand(p, st, x, i) \in Int
  PROVE  Updated(p, a, st, TreehashUpdate(p, a, s, j), x, n + 1)
<1> DEFINE t == TreehashUpdate(p, a, s, j)
<1>1. PICK base : Shared(p, a, s, base) BY DEF Updated
<1>2. IsState(p, s) /\ Work(p, s, x) /\ s.peak \in 0..(p.th + 1) BY DEF Updated
<1>3. /\ IsState(p, t)
      /\ \E b : Shared(p, a, t, b)
      /\ Work(p, t, x)
      /\ t.peak \in 0..(p.th + 1)
      /\ Progress(p, a, s, t, j)
      /\ Rootless(p, s) => Rootless(p, t)
  BY <1>1, <1>2, UpdateStep
<1>4. j \in Insts(p) /\ ~s.inst[j].completed BY <1>1, NeediestIs
<1>5. Counted(p, t) BY <1>3 DEF Shared, Counted
<1> HIDE DEF t
<1>6. SameBut(p, s, t, j) BY <1>3 DEF Progress
<1>7. /\ t.auth = st.auth /\ t.keep = st.keep /\ t.retain = st.retain
      /\ t.nextLeaf = st.nextLeaf
  BY <1>6 DEF Updated, SameBut
<1>8. ASSUME NEW i \in Insts(p), st.inst[i].completed PROVE t.inst[i] = st.inst[i]
  <2>1. s.inst[i] = st.inst[i] BY <1>8 DEF Updated
  <2>2. i # j BY <2>1, <1>4, <1>8
  <2> QED BY <2>1, <2>2, <1>6 DEF SameBut
<1>9. ASSUME NEW i \in Insts(p), ~st.inst[i].completed, t.inst[i].completed
      PROVE  t.inst[i].node = Node(a, i, 2 * Shr(x, i + 1) + 3)
  <2>1. CASE i # j
    <3>1. t.inst[i] = s.inst[i] BY <2>1, <1>6 DEF SameBut
    <3> QED BY <3>1, <1>9 DEF Updated
  <2>2. CASE i = j
    <3>1. t.inst[j].node = Node(a, j, Shr(s.inst[j].next, j))
      BY <1>3, <1>9, <2>2 DEF Progress
    <3>2. Shr(s.inst[j].next, j) = 2 * Shr(x, j + 1) + 3 BY <1>2, <1>4 DEF Work
    <3> QED BY <3>1, <3>2, <2>2
  <2> QED BY <2>1, <2>2
<1>10. ASSUME NEW i \in Insts(p), ~t.inst[i].completed
       PROVE  /\ Demand(p, st, x, i) \in Int
              /\ Demand(p, t, x, i) + (n + 1) = Demand(p, st, x, i)
  <2>0. i \in Nat BY DEF Insts
  <2>1. /\ ~s.inst[i].completed /\ Demand(p, s, x, i) \in Int
        /\ Demand(p, t, x, i) = Demand(p, s, x, i) - 1
    <3>1. i < Contenders(p)
      <4>1. i \in 0..(Contenders(p) - 1) BY <1>3, <1>10, UnfinishedContends
      <4> QED BY <4>1, <2>0, ContendersRange
    <3> QED BY <2>0, <3>1, <1>1, <1>2, <1>3, <1>5, <1>10, UpdateSpends
  <2>2. Demand(p, st, x, i) \in Int /\ Demand(p, s, x, i) + n = Demand(p, st, x, i)
    BY <2>1 DEF Updated
  <2> QED BY <2>1, <2>2
<1>11. Rootless(p, st) => Rootless(p, t) BY <1>3 DEF Updated
<1> QED BY <1>3, <1>7, <1>8, <1>9, <1>10, <1>11 DEF Updated, t

(* The demand is a number.                                                   *)
LEMMA DemandInt ==
  ASSUME NEW p, TreeParams(p), NEW st, Counted(p, st), NEW x \in Nat, NEW h \in Nat
  PROVE  /\ Demand(p, st, x, h) \in Int
         /\ \A i \in 0..(Contenders(p) - 1) :
              /\ i \in Insts(p) /\ i \in Nat
              /\ Demands(p, st, x, h)[i] = Load(st, h, i) + Again(x, h, i)
              /\ Load(st, h, i) \in Nat /\ Again(x, h, i) \in Nat
<1> DEFINE M == Contenders(p)
           f == Demands(p, st, x, h)
<1>1. M \in Nat /\ M <= Instances(p) /\ Instances(p) \in Nat BY ContendersRange
<1>2. ASSUME NEW i \in 0..(M - 1)
      PROVE  /\ i \in Insts(p) /\ i \in Nat
             /\ f[i] = Load(st, h, i) + Again(x, h, i)
             /\ Load(st, h, i) \in Nat /\ Again(x, h, i) \in Nat
  <2>1. i \in Insts(p) /\ i \in Nat /\ h \in Nat BY <1>1 DEF Insts
  <2>2. Load(st, h, i) \in Nat BY <2>1, LoadRange
  <2>3. Again(x, h, i) \in Nat BY <2>1, AgainRange
  <2>4. f[i] = Load(st, h, i) + Again(x, h, i) BY DEF Demands
  <2> HIDE DEF f
  <2> QED BY <2>1, <2>2, <2>3, <2>4
<1> HIDE DEF f, M
<1>3. \A i \in 0..(M - 1) : f[i] \in Int
  <2> TAKE i \in 0..(M - 1)
  <2> QED BY <1>2
<1>4. SumTo(f, M) \in Int BY <1>1, <1>3, SumInt
<1> QED BY <1>2, <1>4 DEF Demand, f, M

(* Every instance is finished. *)
AllDone(p, st) == \A j \in Insts(p) : st.inst[j].completed

(* Of n updates e have been given out on the way from st to t: all of them,   *)
(* or as many as it took to finish every instance.                           *)
GivenOut(p, st, t, x, n, e) ==
  /\ Demanded(p, t, x) = Demanded(p, st, x) - e
  /\ e < n => AllDone(p, t)
  /\ AllDone(p, st) => e = 0

(* bds_treehash_update gives all its updates away, or leaves no instance     *)
(* unfinished.                                                               *)
LEMMA UpdatesResult ==
  ASSUME NEW p, TreeParams(p), NEW a, NEW st, IsState(p, st), NEW base,
         Shared(p, a, st, base), NEW x \in Nat, Work(p, st, x), st.peak \in 0..(p.th + 1),
         \A i \in Insts(p) : ~st.inst[i].completed => Demand(p, st, x, i) \in Int,
         NEW u \in Int, NEW n \in Nat, Available(p, u) = n
  PROVE  LET r == BdsTreehashUpdate(p, a, st, u) IN
         /\ Updated(p, a, st, r.st, x, n)
         /\ \E e \in 0..n : r.left = Char(u - e) /\ GivenOut(p, st, r.st, x, n, e)
<1>1. PICK g : /\ g[0] = [st |-> st, left |-> u]
               /\ \A k \in 1..n : g[k] = UpdateTurn(p, a, g[k - 1])
               /\ BdsTreehashUpdate(p, a, st, u) = [g[n] EXCEPT !.left = Char(g[n].left)]
  BY BdsTreehashUpdateLoop
<1> DEFINE S == {k \in Nat : k <= n =>
                   /\ g[k] = [st |-> g[k].st, left |-> g[k].left]
                   /\ Updated(p, a, st, g[k].st, x, k)
                   /\ \E e \in 0..k : /\ g[k].left = u - e
                                      /\ GivenOut(p, st, g[k].st, x, k, e)}
<1>a. Demanded(p, st, x) \in Int
  <2>1. Counted(p, st) BY DEF Shared, Counted
  <2>2. p.th - 1 \in Nat BY DEF TreeParams
  <2> QED BY <2>1, <2>2, DemandInt DEF Demanded
<1>2. 0 \in S
  <2>1. g[0].st = st /\ g[0].left = u BY ONLY <1>1
  <2>2. g[0] = [st |-> g[0].st, left |-> g[0].left] BY <2>1, <1>1
  <2>3. Updated(p, a, st, st, x, 0)
    <3>1. \A i \in Insts(p) : ~st.inst[i].completed
            => Demand(p, st, x, i) \in Int /\ Demand(p, st, x, i) + 0 = Demand(p, st, x, i)
      OBVIOUS
    <3> QED BY <3>1 DEF Updated
  <2>4. GivenOut(p, st, st, x, 0, 0) BY <1>a DEF GivenOut
  <2>5. 0 \in 0..0 /\ u = u - 0 OBVIOUS
  <2> QED BY <2>1, <2>2, <2>3, <2>4, <2>5
<1>3. ASSUME NEW k \in Nat, k \in S PROVE k + 1 \in S
  <2> SUFFICES ASSUME k + 1 <= n
               PROVE  /\ g[k + 1] = [st |-> g[k + 1].st, left |-> g[k + 1].left]
                      /\ Updated(p, a, st, g[k + 1].st, x, k + 1)
                      /\ \E e \in 0..(k + 1) :
                           /\ g[k + 1].left = u - e
                           /\ GivenOut(p, st, g[k + 1].st, x, k + 1, e)
    OBVIOUS
  <2>1. k + 1 \in 1..n /\ (k + 1) - 1 = k /\ k <= n OBVIOUS
  <2>2. g[k + 1] = UpdateTurn(p, a, g[k]) BY <2>1, <1>1
  <2>3. g[k] = [st |-> g[k].st, left |-> g[k].left] /\ Updated(p, a, st, g[k].st, x, k)
    BY <1>3, <2>1
  <2>6. PICK e \in 0..k : g[k].left = u - e /\ GivenOut(p, st, g[k].st, x, k, e)
    BY <1>3, <2>1
  <2> DEFINE s == g[k].st
  <2>4. CASE Neediest(p, s) = {}
    <3>1. g[k + 1] = g[k] BY <2>2, <2>4 DEF UpdateTurn
    <3>2. Updated(p, a, st, s, x, k) BY <2>3
    <3>3. PICK b : Shared(p, a, s, b) BY <3>2 DEF Updated
    <3>4. \A i \in Insts(p) : s.inst[i].completed
      <4> HIDE DEF s
      <4> QED BY <2>4, <3>3, NeediestExists
    <3>5. Updated(p, a, st, s, x, k + 1)
      <4> HIDE DEF s
      <4> QED BY <3>2, <3>4 DEF Updated
    <3>6. GivenOut(p, st, s, x, k + 1, e) BY <3>4, <2>6 DEF GivenOut, AllDone
    <3>7. e \in 0..(k + 1) OBVIOUS
    <3> HIDE DEF s
    <3>8. g[k + 1].left = u - e /\ g[k + 1].st = s BY <3>1, <2>6 DEF s
    <3> QED BY <3>1, <3>5, <3>6, <3>7, <3>8, <2>3
  <2>5. CASE Neediest(p, s) # {}
    <3> DEFINE j == CHOOSE j \in Neediest(p, s) : TRUE
               t == TreehashUpdate(p, a, s, j)
    <3>1. g[k + 1] = [st |-> t, left |-> g[k].left - 1]
      BY <2>2, <2>5 DEF UpdateTurn
    <3>2. j \in Neediest(p, s) BY <2>5
    <3>3. Updated(p, a, st, t, x, k + 1)
      <4> HIDE DEF j, s
      <4> QED BY <2>3, <3>2, UpdatedStep DEF s
    <3>5. GivenOut(p, st, t, x, k + 1, e + 1)
      <4> HIDE DEF s
      <4>1. PICK b : Shared(p, a, s, b) BY <2>3 DEF Updated, s
      <4>2. IsState(p, s) /\ Work(p, s, x) /\ s.peak \in 0..(p.th + 1)
        BY <2>3 DEF Updated, s
      <4>3. Progress(p, a, s, t, j) BY <4>1, <4>2, <3>2, UpdateStep
      <4>4. Counted(p, t) BY <3>3 DEF Updated, Shared, Counted
      <4>5. p.th - 1 \in Nat /\ p.th - 1 >= Contenders(p)
        BY DEF TreeParams, Contenders, Instances
      <4>6. Demanded(p, s, x) \in Int /\ Demanded(p, t, x) = Demanded(p, s, x) - 1
        BY <4>1, <4>2, <4>3, <4>4, <4>5, <3>2, UpdateSpends DEF Demanded
      <4>7. j \in Insts(p) /\ ~s.inst[j].completed BY <3>2, <4>1, NeediestIs
      <4>8. GivenOut(p, st, s, x, k, e) BY <2>6 DEF s
      <4>9. e = k /\ ~AllDone(p, s) BY <4>7, <4>8 DEF GivenOut, AllDone
      <4>10. ~AllDone(p, st)
        <5>1. SUFFICES ASSUME AllDone(p, st) PROVE FALSE OBVIOUS
        <5>2. s.inst[j] = st.inst[j] BY <4>7, <5>1, <2>3 DEF Updated, AllDone, s
        <5> QED BY <5>1, <5>2, <4>7 DEF AllDone
      <4>11. Demanded(p, s, x) = Demanded(p, st, x) - e BY <4>8 DEF GivenOut
      <4> HIDE DEF t, j
      <4>12. Demanded(p, t, x) = Demanded(p, st, x) - (e + 1) BY <4>6, <4>11, <1>a
      <4> QED BY <4>9, <4>10, <4>12 DEF GivenOut
    <3>6. e + 1 \in 0..(k + 1) OBVIOUS
    <3> HIDE DEF t
    <3>4. g[k + 1].st = t /\ g[k + 1].left = g[k].left - 1 BY ONLY <3>1
    <3>7. g[k + 1].left = u - (e + 1) BY <3>4, <2>6
    <3> QED BY <3>1, <3>3, <3>4, <3>5, <3>6, <3>7
  <2> QED BY <2>4, <2>5
<1>4. Nat \subseteq S
  <2> HIDE DEF S
  <2> QED BY <1>2, <1>3, SetInduction
<1>5. n \in S BY <1>4
<1>6. g[n] = [st |-> g[n].st, left |-> g[n].left] /\ Updated(p, a, st, g[n].st, x, n)
  BY <1>5
<1>8. PICK e \in 0..n : g[n].left = u - e /\ GivenOut(p, st, g[n].st, x, n, e) BY <1>5
<1>7. BdsTreehashUpdate(p, a, st, u).st = g[n].st
      /\ BdsTreehashUpdate(p, a, st, u).left = Char(u - e)
  <2>1. PICK r : r = BdsTreehashUpdate(p, a, st, u) OBVIOUS
  <2>2. PICK c : c = Char(g[n].left) OBVIOUS
  <2>3. r = [g[n] EXCEPT !.left = c] BY <2>1, <2>2, <1>1
  <2>4. r.st = g[n].st /\ r.left = c BY ONLY <2>3, <1>6
  <2>5. c = Char(u - e) BY <2>2, <1>8
  <2> QED BY <2>1, <2>4, <2>5
<1> QED BY <1>6, <1>7, <1>8

-----------------------------------------------------------------------------
\* bds_round.

(* The shifts of a multiple of 1 << n.                                       *)
LEMMA Multiple ==
  ASSUME NEW n \in Nat, NEW w \in Nat
  PROVE  /\ w * Pow2[n] \in Nat
         /\ Shr(w * Pow2[n], n) = w
         /\ Rem(w * Pow2[n], n) = Pow2[n]
<1> DEFINE m == Pow2[n]
           y == w * Pow2[n]
<1>1. m \in Nat \ {0} BY Pow2Recursion
<1>2. y \in Nat /\ (w + 1) * m = y + m BY <1>1, TimesSucc, TimesNat
<1> HIDE DEF y, m
<1>3. y < (w + 1) * m /\ (w + 1) * m - y = m BY ONLY <1>1, <1>2
<1>4. w * Pow2[n] <= y /\ y < (w + 1) * Pow2[n]
  <2>1. w * Pow2[n] = y BY DEF y
  <2>2. y < (w + 1) * Pow2[n] BY <1>3 DEF m
  <2> QED BY <2>1, <2>2, <1>2
<1>5. Shr(y, n) = w BY <1>2, <1>4, ShrUnique
<1>6. Rem(y, n) = Pow2[n] BY <1>3, <1>5 DEF Rem, m
<1> QED BY <1>2, <1>5, <1>6 DEF y

(* A multiple of 1 << n is one of every lower power.                         *)
LEMMA MultipleBelow ==
  ASSUME NEW j \in Nat, NEW w \in Nat, NEW n \in 0..j
  PROVE  /\ Rem(w * Pow2[j], n) = Pow2[n]
         /\ n < j => Bit(w * Pow2[j], n) = 0
<1> DEFINE v == w * Pow2[j - n]
           y == w * Pow2[j]
<1>1. j - n \in Nat /\ (j - n) + n = j /\ n \in Nat OBVIOUS
<1>2. Pow2[j - n] \in Nat /\ Pow2[n] \in Nat BY <1>1, Pow2Recursion
<1>3. Pow2[j] = Pow2[j - n] * Pow2[n]
  <2>1. Pow2[(j - n) + n] = Pow2[j - n] * Pow2[n] BY <1>1, Pow2Sum
  <2> QED BY <2>1, <1>1
<1>4. v \in Nat BY <1>2, TimesNat
<1>5. y = v * Pow2[n]
  <2> DEFINE b == Pow2[j - n]
             c == Pow2[n]
  <2>1. b \in Nat /\ c \in Nat BY <1>2
  <2> HIDE DEF b, c
  <2>2. w * (b * c) = (w * b) * c BY ONLY <2>1, w \in Nat
  <2> QED BY <2>2, <1>3 DEF b, c
<1>6. Rem(y, n) = Pow2[n]
  <2> HIDE DEF v, y
  <2> QED BY <1>1, <1>4, <1>5, Multiple
<1>7. ASSUME n < j PROVE Bit(y, n) = 0
  <2>1. y \in Nat
    <3>1. Pow2[j] \in Nat BY Pow2Recursion
    <3> QED BY ONLY <3>1, TimesNat
  <2> HIDE DEF y
  <2>2. Bit(y, n) \in {0, 1} BY <2>1, <1>1, BitValue
  <2>3. Rem(y, j) = Pow2[j] BY Multiple DEF y
  <2>4. n \in 0..(j - 1) BY <1>7
  <2>5. Bit(y, n) = 1 => Rem(y, j) < Pow2[j] BY <2>1, <2>4, OneBelow
  <2>6. Pow2[j] \in Nat BY Pow2Recursion
  <2> QED BY <2>2, <2>3, <2>5, <2>6
<1> QED BY <1>6, <1>7

(* Before the last leaf tau is the number of ones that end the leaf's        *)
(* number.                                                                   *)
LEMMA TauIs ==
  ASSUME NEW p, TreeParams(p), NEW x \in Nat, x < Pow2[p.th] - 1
  PROVE  /\ Tau(p, x) \in 0..(p.th - 1)
         /\ \A n \in 0..(Tau(p, x) - 1) : Bit(x, n) = 1
         /\ Bit(x, Tau(p, x)) = 0
<1> DEFINE Z == {i \in 0..(p.th - 1) : Bit(x, i) = 0}
<1>1. p.th \in Nat /\ p.th # 0 BY DEF TreeParams
<1>2. \A n \in 0..(p.th - 1) : Bit(x, n) \in {0, 1}
  <2>1. \A n \in 0..(p.th - 1) : n \in Nat OBVIOUS
  <2> QED BY <2>1, BitValue
<1>3. Z # {}
  <2>1. SUFFICES ASSUME Z = {} PROVE FALSE OBVIOUS
  <2>2. \A n \in 0..(p.th - 1) : Bit(x, n) = 1 BY <2>1, <1>2
  <2>3. p.th \in 0..p.th BY <1>1
  <2>4. Rem(x, p.th) = 1 BY <2>2, <2>3, <1>1, Ones
  <2>5. Pow2[p.th] \in Nat BY <1>1, Pow2Recursion
  <2>6. Shr(x, p.th) = 0 BY <1>1, <2>5, ShrZero
  <2>7. Rem(x, p.th) = Pow2[p.th] - x
    <3>1. Rem(x, p.th) = (0 + 1) * Pow2[p.th] - x BY <2>6 DEF Rem
    <3> QED BY <3>1, <2>5
  <2> QED BY <2>4, <2>5, <2>7
<1>4. PICK t \in Z : \A i \in Z : t <= i
  <2>1. Z \subseteq Nat OBVIOUS
  <2> HIDE DEF Z
  <2> QED BY <2>1, <1>3, LeastNumber
<1>5. Tau(p, x) = t
  <2>1. {p.th} \cup Z \subseteq Int BY <1>1
  <2>2. t \in {p.th} \cup Z BY <1>4
  <2>3. \A y \in {p.th} \cup Z : t <= y BY <1>1, <1>4
  <2>4. Min({p.th} \cup Z) = t BY ONLY <2>1, <2>2, <2>3, MinIs
  <2> QED BY <2>4 DEF Tau
<1>6. ASSUME NEW n \in 0..(t - 1) PROVE Bit(x, n) = 1
  <2>1. n \in 0..(p.th - 1) /\ ~(t <= n) /\ t \in Nat BY <1>1, <1>4
  <2>2. n \notin Z BY <2>1, <1>4
  <2> QED BY <2>1, <2>2, <1>2
<1> QED BY <1>4, <1>5, <1>6

(* The instance that begins the next right node. *)
Restarted(t, j, start) ==
  [t EXCEPT !.h = j, !.next = start, !.completed = FALSE, !.usage = 0]

(* It keeps its node, and nothing else.                                      *)
LEMMA RestartedFields ==
  ASSUME NEW v, IsInstance(v), NEW j, NEW w
  PROVE  Restarted(v, j, w) = [h |-> j, next |-> w, usage |-> 0, completed |-> FALSE,
                               node |-> v.node]
<1>1. PICK v1 : v1 = [v EXCEPT !.h = j] OBVIOUS
<1>2. PICK v2 : v2 = [v1 EXCEPT !.next = w] OBVIOUS
<1>3. PICK v3 : v3 = [v2 EXCEPT !.completed = FALSE] OBVIOUS
<1>4. PICK v4 : v4 = [v3 EXCEPT !.usage = 0] OBVIOUS
<1>5. v1 = [h |-> j, next |-> v.next, usage |-> v.usage, completed |-> v.completed,
            node |-> v.node]
  BY ONLY <1>1, IsInstance(v) DEF IsInstance
<1>6. v2 = [h |-> j, next |-> w, usage |-> v.usage, completed |-> v.completed,
            node |-> v.node]
  BY ONLY <1>2, <1>5
<1>7. v3 = [h |-> j, next |-> w, usage |-> v.usage, completed |-> FALSE, node |-> v.node]
  BY ONLY <1>3, <1>6
<1>8. v4 = [h |-> j, next |-> w, usage |-> 0, completed |-> FALSE, node |-> v.node]
  BY ONLY <1>4, <1>7
<1>9. v4 = Restarted(v, j, w)
  BY ONLY <1>1, <1>2, <1>3, <1>4, Zenon DEF Restarted
<1> QED BY <1>8, <1>9

(* t is st after bds_round of leaf x: it has another keep, another path, and  *)
(* the instances below tau begin again unless the tree ends before.          *)
Rounded(p, a, st, x, t) ==
  /\ IsState(p, t)
  /\ t.stack = st.stack /\ t.levels = st.levels /\ t.offset = st.offset
  /\ t.retain = st.retain /\ t.nextLeaf = st.nextLeaf /\ t.peak = st.peak
  /\ t.keep = Keep(p, st, x) /\ t.auth = NextPath(p, a, st, x)
  /\ \A j \in Insts(p) :
       LET again == j < Tau(p, x) /\ x + 1 + 3 * Pow2[j] < Pow2[p.th] IN
       /\ again => t.inst[j] = [h |-> j, next |-> x + 1 + 3 * Pow2[j], usage |-> 0,
                                completed |-> FALSE, node |-> st.inst[j].node]
       /\ ~again => t.inst[j] = st.inst[j]

(* bds_round does that.                                                      *)
LEMMA RoundFields ==
  ASSUME NEW p, NEW a, NEW st, IsState(p, st), NEW x \in Nat
  PROVE  Rounded(p, a, st, x, BdsRound(p, a, st, x))
<1>1. PICK u : u = BdsRound(p, a, st, x) OBVIOUS
<1>2. st = [stack |-> st.stack, levels |-> st.levels, offset |-> st.offset,
            auth |-> st.auth, keep |-> st.keep, inst |-> st.inst,
            retain |-> st.retain, nextLeaf |-> st.nextLeaf, peak |-> st.peak]
  BY DEF IsState
<1>3. u = [stack |-> st.stack, levels |-> st.levels, offset |-> st.offset,
           auth |-> NextPath(p, a, st, x), keep |-> Keep(p, st, x), inst |-> Restart(p, st, x),
           retain |-> st.retain, nextLeaf |-> st.nextLeaf, peak |-> st.peak]
  BY ONLY <1>1, <1>2 DEF BdsRound
<1>4. /\ u.stack = st.stack /\ u.levels = st.levels /\ u.offset = st.offset
      /\ u.retain = st.retain /\ u.nextLeaf = st.nextLeaf /\ u.peak = st.peak
      /\ u.keep = Keep(p, st, x) /\ u.auth = NextPath(p, a, st, x)
      /\ u.inst = Restart(p, st, x)
  BY ONLY <1>3
<1> DEFINE start(j) == x + 1 + 3 * Pow2[j]
           Again_(j) == j < Tau(p, x) /\ start(j) < Pow2[p.th]
<1>5. u.inst = [j \in Insts(p) |-> IF Again_(j) THEN Restarted(st.inst[j], j, start(j))
                                   ELSE st.inst[j]]
  BY <1>4 DEF Restart, Insts, Restarted
<1>6. \A j \in Insts(p) :
        Restarted(st.inst[j], j, start(j))
          = [h |-> j, next |-> start(j), usage |-> 0, completed |-> FALSE,
             node |-> st.inst[j].node]
  <2> TAKE j \in Insts(p)
  <2>1. PICK w : w = start(j) OBVIOUS
  <2>2. PICK v : v = st.inst[j] OBVIOUS
  <2>3. IsInstance(v) BY <2>2 DEF IsState
  <2>4. Restarted(v, j, w) = [h |-> j, next |-> w, usage |-> 0, completed |-> FALSE,
                              node |-> v.node]
    BY <2>3, RestartedFields
  <2> QED BY <2>1, <2>2, <2>4
<1> HIDE DEF Again_
<1>7. \A j \in Insts(p) :
        /\ Again_(j) => u.inst[j] = [h |-> j, next |-> start(j), usage |-> 0,
                                     completed |-> FALSE, node |-> st.inst[j].node]
        /\ ~Again_(j) => u.inst[j] = st.inst[j]
  <2> HIDE DEF start
  <2> QED BY <1>5, <1>6
<1>8. \A j \in Insts(p) : IsInstance(u.inst[j])
  <2> TAKE j \in Insts(p)
  <2>1. CASE Again_(j)
    <3>1. PICK v : v = u.inst[j] OBVIOUS
    <3>2. PICK w, nd : w = start(j) /\ nd = st.inst[j].node OBVIOUS
    <3>3. v = [h |-> j, next |-> w, usage |-> 0, completed |-> FALSE, node |-> nd]
      BY <2>1, <1>7, <3>1, <3>2
    <3>4. IsInstance(v) BY ONLY <3>3 DEF IsInstance
    <3> QED BY <3>1, <3>4
  <2>2. CASE ~Again_(j)
    <3>1. u.inst[j] = st.inst[j] BY <2>2, <1>7
    <3> QED BY <3>1 DEF IsState
  <2> QED BY <2>1, <2>2
<1>9. IsState(p, u)
  <2>1. u = [stack |-> u.stack, levels |-> u.levels, offset |-> u.offset,
             auth |-> u.auth, keep |-> u.keep, inst |-> u.inst,
             retain |-> u.retain, nextLeaf |-> u.nextLeaf, peak |-> u.peak]
    BY ONLY <1>3
  <2>2. u.inst = [j \in Insts(p) |-> u.inst[j]] BY ONLY <1>5
  <2>3. u.stack = [s \in Slots(p) |-> u.stack[s]] /\ u.levels = [s \in Slots(p) |-> u.levels[s]]
    BY <1>4 DEF IsState
  <2> HIDE <1>1
  <2> QED BY <2>1, <2>2, <2>3, <1>8 DEF IsState
<1>10. Rounded(p, a, st, x, u)
  <2> HIDE <1>1
  <2> QED BY <1>4, <1>7, <1>9 DEF Again_, Rounded
<1> QED BY <1>1, <1>10

(* The leaf at which an instance begins again is the first one below the     *)
(* right node after the one in the new path.                                 *)
LEMMA StartIs ==
  ASSUME NEW x \in Nat, NEW t \in Nat, \A n \in 0..(t - 1) : Bit(x, n) = 1,
         Bit(x, t) = 0, NEW j \in 0..(t - 1)
  PROVE  LET y == x + 1 + 3 * Pow2[j] IN
         /\ y \in Nat
         /\ Shr(y, j) = 2 * Shr(x + 1, j + 1) + 3
         /\ Shr(x + 1, j + 1) # 0
         /\ \A n \in 0..j : Rem(y, n) = Pow2[n]
         /\ \A n \in 0..(j - 1) : Bit(y, n) = 0
<1> DEFINE q == Shr(x + 1, j + 1)
           m == Pow2[j]
           w == 2 * q + 3
           y == x + 1 + 3 * Pow2[j]
<1>1. j \in Nat /\ j + 1 \in 0..t /\ j + 1 \in Nat OBVIOUS
<1>2. q \in Nat /\ m \in Nat \ {0} /\ Pow2[j + 1] = 2 * m
  <2>1. x + 1 \in Nat OBVIOUS
  <2>2. q \in Nat BY <2>1, <1>1, ShrHalves
  <2> QED BY <2>2, <1>1, Pow2Recursion
<1>3. Rem(x + 1, j + 1) = Pow2[j + 1] BY <1>1, Carry
<1>4. (q + 1) * (2 * m) - (x + 1) = 2 * m BY <1>2, <1>3 DEF Rem
<1>5. x + 1 = q * (2 * m)
  <2> DEFINE k == q * (2 * m)
             kk == (q + 1) * (2 * m)
  <2> HIDE DEF q, m
  <2>1. 2 * m \in Nat BY <1>2
  <2>2. k \in Nat /\ kk = k + 2 * m BY ONLY <1>2, <2>1, TimesNat, TimesSucc
  <2>3. kk - (x + 1) = 2 * m BY <1>4
  <2> HIDE DEF k, kk
  <2>4. x + 1 = k BY ONLY <2>1, <2>2, <2>3, x \in Nat
  <2> QED BY <2>4 DEF k
<1>6. y = w * m
  <2>1. q * (2 * m) + 3 * m = (2 * q + 3) * m
    <3> HIDE DEF q, m
    <3> QED BY ONLY <1>2
  <2> QED BY <1>5, <2>1
<1>7. q # 0
  <2>1. SUFFICES ASSUME q = 0 PROVE FALSE OBVIOUS
  <2> HIDE DEF q, m
  <2>2. q * (2 * m) = 0 BY ONLY <2>1, <1>2
  <2> QED BY <2>2, <1>5
<1>8. w \in Nat BY <1>2
<1> HIDE DEF w
<1>9. y \in Nat /\ Shr(y, j) = w
  <2> HIDE DEF y
  <2> QED BY <1>1, <1>6, <1>8, Multiple
<1>10. ASSUME NEW n \in 0..j
       PROVE  Rem(y, n) = Pow2[n] /\ (n < j => Bit(y, n) = 0)
  <2> HIDE DEF y
  <2> QED BY <1>1, <1>6, <1>8, MultipleBelow
<1> HIDE DEF q, y
<1>11. \A n \in 0..(j - 1) : Bit(y, n) = 0
  <2> TAKE n \in 0..(j - 1)
  <2>1. n \in 0..j /\ n < j OBVIOUS
  <2> QED BY <2>1, <1>10
<1> QED BY <1>7, <1>9, <1>10, <1>11 DEF q, w, y

(* So each of those that can gets an update every other call.                *)
LEMMA ContendersHalf ==
  ASSUME NEW p, TreeParams(p), EnoughUpdates(p)
  PROVE  Contenders(p) <= 2 * (Instances(p) \div 2)
<1> DEFINE N == Instances(p)
           M == Contenders(p)
<1>1. N \in Nat /\ M \in Nat /\ M <= N BY ContendersRange
<1>2. CASE N % 2 = 0
  <2>1. N = 2 * (N \div 2) BY ONLY <1>2, <1>1
  <2> QED BY <2>1, <1>1
<1>3. CASE p.k <= 1 /\ N % 2 # 0
  <2>1. N = 2 * (N \div 2) + 1 BY ONLY <1>3, <1>1
  <2>2. N >= p.th - 1 /\ p.th \in Nat BY <1>3 DEF TreeParams, Instances
  <2>3. M <= N - 1
    <3>1. N >= 1 BY <2>1, <1>1
    <3>2. M = (IF N <= p.th - 2 THEN N ELSE IF p.th >= 2 THEN p.th - 2 ELSE 0)
      BY DEF Contenders
    <3>3. ~(N <= p.th - 2) BY <2>2, <1>1
    <3>4. M = (IF p.th >= 2 THEN p.th - 2 ELSE 0) BY ONLY <3>2, <3>3
    <3> HIDE DEF N, M
    <3>5. M <= N - 1 BY ONLY <3>4, <2>2, <3>1, <1>1
    <3> QED BY <3>5
  <2> HIDE DEF N, M
  <2> QED BY <2>1, <2>3, <1>1 DEF N, M
<1> QED BY <1>2, <1>3 DEF EnoughUpdates

(* The instances between two signatures, the next one with leaf x. *)
Ready(p, a, st, x) ==
  /\ IsState(p, st)
  /\ \E b : Shared(p, a, st, b)
  /\ Work(p, st, x)
  /\ st.peak \in 0..(p.th + 1)
  /\ InBudget(p, st, x, Instances(p) \div 2)

(* Every instance below t, bits of x that are one, has been finished.        *)
LEMMA ReadyOnTime ==
  ASSUME NEW p, TreeParams(p), NEW a, NEW st, NEW x \in Nat, Ready(p, a, st, x),
         NEW t \in Nat, \A n \in 0..(t - 1) : Bit(x, n) = 1,
         NEW j \in Insts(p), j < t
  PROVE  st.inst[j].completed
<1>1. Work(p, st, x) /\ InBudget(p, st, x, Instances(p) \div 2) BY DEF Ready
<1>2. Counted(p, st) BY DEF Ready, Shared, Counted
<1>3. j \in Nat BY DEF Insts
<1>4. j + 1 \in 0..t BY <1>3
<1>5. Rem(x, j + 1) = 1 BY <1>4, Ones
<1> QED BY <1>1, <1>2, <1>5, OnTime

(* What an instance still has to do for the nodes it begins again goes down  *)
(* by one node's work when it begins one.                                    *)
LEMMA AgainFalls ==
  ASSUME NEW x \in Nat, NEW t \in Nat, \A n \in 0..(t - 1) : Bit(x, n) = 1,
         Bit(x, t) = 0, NEW j \in 0..(t - 1), NEW h \in Nat, t <= h
  PROVE  Again(x + 1, h, j) + Pow2[j] = Again(x, h, j)
<1> DEFINE z == Shr(x, j + 1)
           d == t - (j + 1)
           k == h - j
<1>1. j \in Nat /\ j + 1 \in Nat /\ j + 1 \in 0..t /\ d \in Nat /\ k \in Nat /\ k > d /\ j < h
  OBVIOUS
<1>2. z \in Nat BY <1>1, ShrHalves
<1>3. Shr(x + 1, j + 1) = z + 1 BY <1>1, Ones
<1>4. \A n \in 0..(d - 1) : Bit(z, n) = 1
  <2> TAKE n \in 0..(d - 1)
  <2>1. n \in Nat /\ (j + 1) + n \in 0..(t - 1) BY <1>1
  <2>2. Shr(z, n) = Shr(x, (j + 1) + n) BY <2>1, <1>1, ShrSum
  <2>3. Bit(x, (j + 1) + n) = 1 BY <2>1
  <2> QED BY <2>2, <2>3 DEF Bit
<1>5. Bit(z, d) = 0
  <2>1. (j + 1) + d = t BY <1>1
  <2>2. Shr(z, d) = Shr(x, (j + 1) + d) BY <1>1, ShrSum
  <2> QED BY <2>1, <2>2 DEF Bit
<1> HIDE DEF z, d, k
<1>6. Rem(z + 1, k) = Rem(z, k) - 1 BY <1>1, <1>2, <1>4, <1>5, Carry
<1>7. Rem(z, k) \in Int
  <2>1. Rem(z, k) \in 1..Pow2[k] /\ Pow2[k] \in Nat BY <1>1, <1>2, RemRange, Pow2Recursion
  <2> QED BY <2>1
<1>8. /\ Again(x, h, j) = Pow2[j] * (Rem(z, k) - 1)
      /\ Again(x + 1, h, j) = Pow2[j] * (Rem(z + 1, k) - 1)
  BY <1>1, <1>3 DEF Again, z, k
<1> DEFINE r == Rem(z, k)
           m == Pow2[j]
<1>9. m \in Nat BY <1>1, Pow2Recursion
<1>10. Again(x, h, j) = m * (r - 1) /\ Again(x + 1, h, j) = m * (r - 1 - 1) /\ r \in Int
  BY <1>6, <1>7, <1>8
<1> HIDE DEF r, m
<1>11. m * (r - 1 - 1) + m = m * (r - 1) BY ONLY <1>9, <1>10
<1> QED BY <1>10, <1>11 DEF m

(* The round puts the instances that begin again where the invariants want   *)
(* them, and the updates of the calls that remain are still enough.          *)
LEMMA RoundKeepsOrder ==
  ASSUME NEW p, TreeParams(p), EnoughUpdates(p), NEW a, NEW st,
         NEW x \in Nat, x < Pow2[p.th] - 1, Ready(p, a, st, x)
  PROVE  LET s == BdsRound(p, a, st, x) IN
         /\ IsState(p, s)
         /\ \E b : Shared(p, a, s, b)
         /\ Work(p, s, x + 1)
         /\ s.peak \in 0..(p.th + 1)
         /\ InBudget(p, s, x + 1, 0)
         /\ Demanded(p, s, x + 1) <= Demanded(p, st, x)
<1> DEFINE s == BdsRound(p, a, st, x)
           t == Tau(p, x)
           N == Instances(p)
           B == N \div 2
           start(j) == x + 1 + 3 * Pow2[j]
           Renewed(j) == j < t /\ start(j) < Pow2[p.th]
<1>1. t \in 0..(p.th - 1) /\ (\A n \in 0..(t - 1) : Bit(x, n) = 1) /\ Bit(x, t) = 0
  BY TauIs
<1>2. t \in Nat /\ p.th \in Nat /\ N \in Nat /\ N <= p.th /\ B \in Nat
      /\ \A j \in Insts(p) : j \in Nat /\ j < N /\ j < p.th
  BY <1>1 DEF TreeParams, Instances, Insts
<1>3. PICK base : Shared(p, a, st, base) BY DEF Ready
<1>4. IsState(p, st) /\ Work(p, st, x) /\ st.peak \in 0..(p.th + 1) /\ InBudget(p, st, x, B)
  BY DEF Ready
<1>5. /\ IsState(p, s)
      /\ s.stack = st.stack /\ s.levels = st.levels /\ s.offset = st.offset
      /\ s.peak = st.peak
      /\ \A j \in Insts(p) :
           /\ Renewed(j) => s.inst[j] = [h |-> j, next |-> start(j), usage |-> 0,
                                         completed |-> FALSE, node |-> st.inst[j].node]
           /\ ~Renewed(j) => s.inst[j] = st.inst[j]
  <2>1. Rounded(p, a, st, x, s) BY <1>4, RoundFields
  <2> HIDE DEF s
  <2> QED BY <2>1 DEF Rounded
<1>6. ASSUME NEW j \in Insts(p), Renewed(j)
      PROVE  /\ j \in 0..(t - 1)
             /\ st.inst[j].completed
             /\ s.inst[j].h = j /\ s.inst[j].next = start(j) /\ s.inst[j].usage = 0
             /\ s.inst[j].completed = FALSE
             /\ start(j) \in Nat /\ start(j) < Pow2[p.th]
             /\ Shr(start(j), j) = 2 * Shr(x + 1, j + 1) + 3
             /\ Shr(x + 1, j + 1) # 0
             /\ \A n \in 0..j : Rem(start(j), n) = Pow2[n]
             /\ \A n \in 0..(j - 1) : Bit(start(j), n) = 0
  <2>1. j \in 0..(t - 1) BY <1>2, <1>6
  <2>2. st.inst[j].completed BY <1>1, <1>2, <1>6, ReadyOnTime
  <2>3. /\ start(j) \in Nat
        /\ Shr(start(j), j) = 2 * Shr(x + 1, j + 1) + 3
        /\ Shr(x + 1, j + 1) # 0
        /\ \A n \in 0..j : Rem(start(j), n) = Pow2[n]
        /\ \A n \in 0..(j - 1) : Bit(start(j), n) = 0
    BY <2>1, <1>1, <1>2, StartIs
  <2>4. s.inst[j] = [h |-> j, next |-> start(j), usage |-> 0,
                     completed |-> FALSE, node |-> st.inst[j].node]
    BY <1>5, <1>6
  <2>5. /\ s.inst[j].h = j /\ s.inst[j].next = start(j) /\ s.inst[j].usage = 0
        /\ s.inst[j].completed = FALSE
    BY ONLY <2>4
  <2> QED BY <2>1, <2>2, <2>3, <2>5, <1>6
<1>7. ASSUME NEW j \in Insts(p), ~Renewed(j) PROVE s.inst[j] = st.inst[j]
  BY <1>5, <1>7
<1>8. ASSUME NEW j \in Insts(p), ~st.inst[j].completed
      PROVE  ~Renewed(j) /\ j >= t
  <2>1. ~(j < t) BY <1>1, <1>2, <1>8, ReadyOnTime
  <2> QED BY <2>1, <1>2
<1> HIDE DEF s, t, start, Renewed
<1>9. ASSUME NEW j \in Insts(p) PROVE Held(s, j) = Held(st, j)
  <2>1. CASE Renewed(j)
    <3>1. st.inst[j].completed /\ s.inst[j].usage = 0 BY <2>1, <1>6
    <3> QED BY <3>1 DEF Held
  <2>2. CASE ~Renewed(j) BY <2>2, <1>7 DEF Held
  <2> QED BY <2>1, <2>2
<1>10. Shared(p, a, s, base)
  <2>1. Chain(p, s, base) BY <1>3, <1>5, <1>9 DEF Shared, Chain
  <2>2. ASSUME NEW j \in Insts(p)
        PROVE  /\ s.inst[j].completed \in BOOLEAN
               /\ ~s.inst[j].completed => s.inst[j].next \in Nat
    <3>1. CASE Renewed(j) BY <3>1, <1>6
    <3>2. CASE ~Renewed(j) BY <3>2, <1>3, <1>7 DEF Shared
    <3> QED BY <3>1, <3>2
  <2>3. ASSUME NEW j \in Insts(p), NEW y \in Own(base, j)
        PROVE  LET l == s.levels[y] IN
               /\ l < j /\ Bit(s.inst[j].next, l) = 1
               /\ s.stack[y] = Node(a, l, Shr(s.inst[j].next, l) - 1)
    <3>1. CASE Renewed(j)
      <4>1. Held(st, j) = 0 BY <3>1, <1>6 DEF Held
      <4>2. base[j] = base[j + 1] + 0 BY <4>1, <1>3 DEF Shared, Chain
      <4>3. base[j + 1] \in Nat
        <5>1. j + 1 \in 0..Instances(p) BY <1>2
        <5> QED BY <5>1, <1>3 DEF Shared, Chain
      <4> QED BY <4>2, <4>3 DEF Own
    <3>2. CASE ~Renewed(j)
      <4>1. s.inst[j] = st.inst[j] BY <3>2, <1>7
      <4> QED BY <4>1, <1>3, <1>5 DEF Shared
    <3> QED BY <3>1, <3>2
  <2>4. ASSUME NEW j \in Insts(p), NEW l \in 0..(j - 1), ~s.inst[j].completed,
               Bit(s.inst[j].next, l) = 1
        PROVE  \E y \in Own(base, j) : s.levels[y] = l
    <3>1. CASE Renewed(j)
      <4>1. s.inst[j].next = start(j) /\ Bit(start(j), l) = 0 BY <3>1, <1>6
      <4> QED BY <4>1, <2>4
    <3>2. CASE ~Renewed(j)
      <4>1. s.inst[j] = st.inst[j] BY <3>2, <1>7
      <4> QED BY <4>1, <2>4, <1>3, <1>5 DEF Shared
    <3> QED BY <3>1, <3>2
  <2>5. /\ \A y \in 0..(s.offset - 1) : s.levels[y] \in Nat /\ s.levels[y] + y <= p.th
        /\ \A y \in 0..(base[Instances(p)] - 1) : s.levels[y] >= Instances(p)
        /\ \A y, z \in 0..(s.offset - 1) : y < z => s.levels[z] < s.levels[y]
    BY <1>3, <1>5 DEF Shared
  <2>6. \A j \in Insts(p) :
          Held(s, j) > 0 => \A y \in 0..(base[j + 1] - 1) : s.levels[y] >= j
    BY <1>3, <1>5, <1>9 DEF Shared
  <2> QED BY <2>1, <2>2, <2>3, <2>4, <2>5, <2>6 DEF Shared
<1>11. Work(p, s, x + 1)
  <2> SUFFICES ASSUME NEW j \in Insts(p), ~s.inst[j].completed
               PROVE  /\ s.inst[j].h = j
                      /\ s.inst[j].next \in 0..(Pow2[p.th] - 1)
                      /\ Shr(s.inst[j].next, j) = 2 * Shr(x + 1, j + 1) + 3
                      /\ Shr(x + 1, j + 1) # 0
    BY DEF Work
  <2>1. Pow2[p.th] \in Nat BY <1>2, Pow2Recursion
  <2>2. CASE Renewed(j)
    <3>0. start(j) \in Nat /\ start(j) < Pow2[p.th] BY <2>2, <1>6
    <3>1. start(j) \in 0..(Pow2[p.th] - 1) BY ONLY <3>0, <2>1
    <3> QED BY <3>1, <2>2, <1>6
  <2>3. CASE ~Renewed(j)
    <3>1. s.inst[j] = st.inst[j] /\ ~st.inst[j].completed BY <2>3, <1>7
    <3>2. j + 1 \in Nat /\ j + 1 > t BY <3>1, <1>2, <1>8
    <3>3. Shr(x + 1, j + 1) = Shr(x, j + 1) BY <3>2, <1>1, <1>2, Carry
    <3> QED BY <3>1, <3>3, <1>4 DEF Work
  <2> QED BY <2>2, <2>3
<1>12. ASSUME NEW h \in Nat, h >= t
       PROVE  Demand(p, s, x + 1, h) <= Demand(p, st, x, h)
  <2> DEFINE M == Contenders(p)
             f == Demands(p, s, x + 1, h)
             e == Demands(p, st, x, h)
  <2>1. M \in Nat /\ M <= N BY ContendersRange
  <2>2. Counted(p, s) /\ Counted(p, st) BY <1>3, <1>10 DEF Shared, Counted
  <2>3. x + 1 \in Nat OBVIOUS
  <2>4. /\ Demand(p, s, x + 1, h) \in Int
        /\ \A i \in 0..(M - 1) :
             /\ i \in Insts(p) /\ i \in Nat
             /\ f[i] = Load(s, h, i) + Again(x + 1, h, i)
             /\ Load(s, h, i) \in Nat /\ Again(x + 1, h, i) \in Nat
    <3>1. TreeParams(p) OBVIOUS
    <3> QED BY ONLY <3>1, <2>2, <2>3, DemandInt
  <2>5. /\ Demand(p, st, x, h) \in Int
        /\ \A i \in 0..(M - 1) :
             /\ i \in Insts(p) /\ i \in Nat
             /\ e[i] = Load(st, h, i) + Again(x, h, i)
             /\ Load(st, h, i) \in Nat /\ Again(x, h, i) \in Nat
    <3>1. TreeParams(p) OBVIOUS
    <3> QED BY ONLY <3>1, <2>2, <2>3, DemandInt
  <2> HIDE DEF f, e, M
  <2>6. \A i \in 0..(M - 1) : f[i] \in Int /\ e[i] \in Int /\ f[i] <= e[i]
    <3> TAKE i \in 0..(M - 1)
    <3>1. i \in Insts(p) /\ i \in Nat BY <2>4
    <3>2. /\ f[i] = Load(s, h, i) + Again(x + 1, h, i)
          /\ Load(s, h, i) \in Nat /\ Again(x + 1, h, i) \in Nat
      BY <2>4
    <3>3. /\ e[i] = Load(st, h, i) + Again(x, h, i)
          /\ Load(st, h, i) \in Nat /\ Again(x, h, i) \in Nat
      BY <2>5
    <3>4. CASE i < t
      <4>1. st.inst[i].completed BY <3>1, <3>4, <1>8, <1>2
      <4>2. Load(st, h, i) = 0 BY <4>1 DEF Load
      <4>3. i <= h BY <3>1, <3>4, <1>12, <1>2, <2>3
      <4>4. Load(s, h, i) <= Pow2[i] BY <3>1, <4>3, <2>2, <2>3, LoadRange
      <4>5. Again(x + 1, h, i) + Pow2[i] = Again(x, h, i)
        <5>1. i \in 0..(t - 1) /\ t <= h BY <3>1, <3>4, <1>12, <1>2, <2>3
        <5> QED BY <5>1, <1>1, <1>2, <2>3, AgainFalls
      <4>6. Pow2[i] \in Nat BY <3>1, Pow2Recursion
      <4> QED BY <3>2, <3>3, <4>2, <4>4, <4>5, <4>6
    <3>5. CASE ~(i < t)
      <4>1. s.inst[i] = st.inst[i]
        <5>1. ~Renewed(i) BY <3>5 DEF Renewed
        <5> QED BY <5>1, <3>1, <1>7
      <4>2. Load(s, h, i) = Load(st, h, i) BY <4>1 DEF Load
      <4>3. Again(x + 1, h, i) = Again(x, h, i)
        <5>1. i + 1 \in Nat /\ i + 1 > t BY <3>1, <3>5, <1>2
        <5>2. Shr(x + 1, i + 1) = Shr(x, i + 1) BY <5>1, <1>1, <1>2, Carry
        <5> QED BY <5>2 DEF Again
      <4> QED BY <3>2, <3>3, <4>2, <4>3
    <3> QED BY <3>4, <3>5
  <2>7. SumTo(f, M) <= SumTo(e, M) BY <2>1, <2>6, SumLeq
  <2> QED BY <2>7 DEF Demand, f, e, M
<1>13. InBudget(p, s, x + 1, 0)
  <2> SUFFICES ASSUME NEW h \in Insts(p), ~s.inst[h].completed
               PROVE  Demand(p, s, x + 1, h) + 0 <= B * Rem(x + 1, h + 1)
    BY DEF InBudget
  <2> DEFINE M == Contenders(p)
             f == Demands(p, s, x + 1, h)
             e == Demands(p, st, x, h)
  <2>1. M \in Nat /\ M <= N BY ContendersRange
  <2>2. Counted(p, s) /\ Counted(p, st) BY <1>3, <1>10 DEF Shared, Counted
  <2>3. h \in Nat /\ h + 1 \in Nat /\ x + 1 \in Nat BY <1>2
  <2>4. /\ Demand(p, s, x + 1, h) \in Int
        /\ \A i \in 0..(M - 1) :
             /\ i \in Insts(p) /\ i \in Nat
             /\ f[i] = Load(s, h, i) + Again(x + 1, h, i)
             /\ Load(s, h, i) \in Nat /\ Again(x + 1, h, i) \in Nat
    <3>1. TreeParams(p) OBVIOUS
    <3> QED BY ONLY <3>1, <2>2, <2>3, DemandInt
  <2>5. /\ Demand(p, st, x, h) \in Int
        /\ \A i \in 0..(M - 1) :
             /\ i \in Insts(p) /\ i \in Nat
             /\ e[i] = Load(st, h, i) + Again(x, h, i)
             /\ Load(st, h, i) \in Nat /\ Again(x, h, i) \in Nat
    <3>1. TreeParams(p) OBVIOUS
    <3> QED BY ONLY <3>1, <2>2, <2>3, DemandInt
  <2>6. Demand(p, s, x + 1, h) = SumTo(f, M) /\ Demand(p, st, x, h) = SumTo(e, M)
    BY DEF Demand
  <2> HIDE DEF f, e, M
  <2>7. CASE Renewed(h)
    <3> DEFINE c == Pow2[h]
    <3>1. c \in Nat /\ Pow2[h + 1] = 2 * c BY <2>3, Pow2Recursion
    <3>2. Rem(x + 1, h + 1) = 2 * c
      <4>0. h \in 0..(t - 1) BY <2>7, <1>6
      <4>1. h + 1 \in 0..t BY ONLY <4>0, <1>2
      <4> QED BY <4>1, <3>1, <1>1, <1>2, Carry
    <3>3. \A i \in 0..(M - 1) : f[i] \in Int /\ f[i] <= c
      <4> TAKE i \in 0..(M - 1)
      <4>1. i \in Insts(p) /\ i \in Nat BY <2>4
      <4>2. /\ Load(s, h, i) \in Nat
            /\ i <= h => Load(s, h, i) <= Pow2[i]
            /\ Load(s, h, i) <= c
        BY <4>1, <2>2, <2>3, LoadRange
      <4>3. /\ i < h => Again(x + 1, h, i) + Pow2[i] <= c
            /\ i >= h => Again(x + 1, h, i) = 0
        BY <4>1, <2>3, AgainRange
      <4>4. f[i] = Load(s, h, i) + Again(x + 1, h, i) /\ Again(x + 1, h, i) \in Nat BY <2>4
      <4>5. Pow2[i] \in Nat BY <4>1, Pow2Recursion
      <4> HIDE DEF c
      <4> QED BY <4>1, <4>2, <4>3, <4>4, <4>5, <2>3, <3>1
    <3> HIDE DEF c
    <3>4. SumTo(f, M) <= M * c BY <2>1, <3>1, <3>3, SumBound
    <3>5. M <= 2 * B BY ContendersHalf DEF M
    <3>6. M * c <= (2 * B) * c
      <4> HIDE DEF B, N
      <4> QED BY ONLY <3>5, <2>1, <3>1, <1>2
    <3>7. (2 * B) * c = B * (2 * c)
      <4> HIDE DEF B
      <4> QED BY ONLY <3>1, <1>2
    <3>8. B * (2 * c) \in Int /\ M * c \in Int
      <4> HIDE DEF B
      <4> QED BY ONLY <3>1, <1>2, <2>1
    <3> HIDE DEF B
    <3> QED BY <3>2, <3>4, <3>6, <3>7, <3>8, <2>4, <2>6
  <2>8. CASE ~Renewed(h)
    <3>1. ~st.inst[h].completed /\ h >= t BY <2>8, <1>7, <1>8
    <3>2. Demand(p, st, x, h) + B <= B * Rem(x, h + 1) BY <3>1, <1>4 DEF InBudget
    <3>3. h + 1 > t BY <3>1, <1>2
    <3>4. Rem(x + 1, h + 1) = Rem(x, h + 1) - 1 BY <3>3, <2>3, <1>1, <1>2, Carry
    <3>5. Rem(x, h + 1) \in Int
      <4>1. Rem(x, h + 1) \in 1..Pow2[h + 1] /\ Pow2[h + 1] \in Nat
        BY <2>3, RemRange, Pow2Recursion
      <4> QED BY <4>1
    <3>7. Demand(p, s, x + 1, h) <= Demand(p, st, x, h) BY <3>1, <2>3, <1>12
    <3>8. B * (Rem(x, h + 1) - 1) = B * Rem(x, h + 1) - B /\ B * Rem(x, h + 1) \in Int
      <4> HIDE DEF B
      <4> QED BY ONLY <3>5, <1>2
    <3> DEFINE br == B * Rem(x, h + 1)
    <3>9. B * Rem(x + 1, h + 1) = br - B /\ br \in Int BY <3>4, <3>8
    <3>10. Demand(p, st, x, h) + B <= br BY <3>2
    <3> HIDE DEF B, br
    <3> QED BY <3>7, <3>9, <3>10, <2>4, <2>5, <1>2
  <2> QED BY <2>7, <2>8
<1>14. Demanded(p, s, x + 1) <= Demanded(p, st, x)
  <2>1. p.th - 1 \in Nat /\ p.th - 1 >= t BY <1>1, <1>2
  <2> QED BY <2>1, <1>12 DEF Demanded
<1> QED BY <1>4, <1>5, <1>10, <1>11, <1>13, <1>14 DEF s

(* One signature of leaf x leaves the instances ready for leaf x + 1.        *)
LEMMA ReadyAfterSign ==
  ASSUME NEW p, TreeParams(p), EnoughUpdates(p), NEW a, NEW st,
         NEW x \in Nat, x < Pow2[p.th] - 1, Ready(p, a, st, x)
  PROVE  LET s == BdsRound(p, a, st, x)
             t == BdsTreehashUpdate(p, a, s, Instances(p) \div 2).st
         IN  /\ Ready(p, a, t, x + 1)
             /\ Updated(p, a, s, t, x + 1, Instances(p) \div 2)
<1> DEFINE s == BdsRound(p, a, st, x)
           B == Instances(p) \div 2
           t == BdsTreehashUpdate(p, a, s, B).st
<1>1. /\ IsState(p, s)
      /\ \E b : Shared(p, a, s, b)
      /\ Work(p, s, x + 1)
      /\ s.peak \in 0..(p.th + 1)
      /\ InBudget(p, s, x + 1, 0)
  BY RoundKeepsOrder
<1>2. PICK base : Shared(p, a, s, base) BY <1>1
<1>3. B \in Nat /\ x + 1 \in Nat
  <2>1. Instances(p) \in Nat BY ContendersRange
  <2> QED BY <2>1
<1>4. \A i \in Insts(p) : ~s.inst[i].completed => Demand(p, s, x + 1, i) \in Int
  <2>1. Counted(p, s) BY <1>2 DEF Shared, Counted
  <2> HIDE DEF s
  <2>2. \A i \in Insts(p) : i \in Nat BY DEF Insts
  <2> QED BY <2>1, <2>2, <1>3, DemandInt
<1>5. Updated(p, a, s, t, x + 1, B)
  <2> HIDE DEF s, B
  <2>1. B \in Int /\ Available(p, B) = B BY <1>3 DEF Available
  <2> QED BY <1>1, <1>2, <1>3, <1>4, <2>1, UpdatesResult
<1> HIDE DEF t, B, s
<1>6. InBudget(p, t, x + 1, B)
  <2> SUFFICES ASSUME NEW h \in Insts(p), ~t.inst[h].completed
               PROVE  Demand(p, t, x + 1, h) + B <= B * Rem(x + 1, h + 1)
    BY DEF InBudget, B
  <2>1. /\ Demand(p, s, x + 1, h) \in Int
        /\ Demand(p, t, x + 1, h) + B = Demand(p, s, x + 1, h)
    BY <1>5 DEF Updated
  <2>2. ~s.inst[h].completed
    <3>1. SUFFICES ASSUME s.inst[h].completed PROVE FALSE OBVIOUS
    <3>2. t.inst[h] = s.inst[h] BY <3>1, <1>5 DEF Updated
    <3> QED BY <3>1, <3>2
  <2>3. Demand(p, s, x + 1, h) + 0 <= B * Rem(x + 1, h + 1) BY <2>2, <1>1 DEF InBudget, B
  <2> QED BY <2>1, <2>3
<1>7. Ready(p, a, t, x + 1) BY <1>5, <1>6 DEF Ready, Updated, B
<1> QED BY <1>5, <1>7 DEF s, t, B

-----------------------------------------------------------------------------
\* Building a tree.

(* The shape of a bds_state, with that of its path, keep and retain. *)
FullState(p, st) ==
  /\ IsState(p, st)
  /\ st.auth = [h \in 0..(p.th - 1) |-> st.auth[h]]
  /\ st.keep = [s \in 0..((p.th \div 2) - 1) |-> st.keep[s]]
  /\ st.retain = [s \in 0..(Pow2[p.k] - p.k - 2) |-> st.retain[s]]

(* t is s but for the nodes in the path, in retain and in the instances. *)
NodesOnly(p, s, t) ==
  /\ FullState(p, t)
  /\ t.stack = s.stack /\ t.levels = s.levels /\ t.offset = s.offset
  /\ t.keep = s.keep /\ t.nextLeaf = s.nextLeaf /\ t.peak = s.peak
  /\ \A j \in Insts(p) : /\ t.inst[j].h = s.inst[j].h
                         /\ t.inst[j].next = s.inst[j].next
                         /\ t.inst[j].usage = s.inst[j].usage
                         /\ t.inst[j].completed = s.inst[j].completed

(* The three places a finished node is kept in. *)
ToAuth(s, h, node) == [s EXCEPT !.auth[h] = node]
ToRetain(s, n, node) == [s EXCEPT !.retain[n] = node]
ToInst(s, h, node) == [s EXCEPT !.inst[h].node = node]

(* A node kept in the path changes nothing else.                             *)
LEMMA ToAuthFields ==
  ASSUME NEW p, NEW s, FullState(p, s), NEW h \in 0..(p.th - 1), NEW node
  PROVE  LET t == ToAuth(s, h, node) IN
         /\ NodesOnly(p, s, t) /\ t.retain = s.retain /\ t.inst = s.inst
         /\ t.auth[h] = node
         /\ \A n \in 0..(p.th - 1) : n # h => t.auth[n] = s.auth[n]
<1>1. PICK u : u = ToAuth(s, h, node) OBVIOUS
<1>2. s = [stack |-> s.stack, levels |-> s.levels, offset |-> s.offset,
           auth |-> s.auth, keep |-> s.keep, inst |-> s.inst,
           retain |-> s.retain, nextLeaf |-> s.nextLeaf, peak |-> s.peak]
  BY DEF FullState, IsState
<1>3. u = [stack |-> s.stack, levels |-> s.levels, offset |-> s.offset,
           auth |-> [s.auth EXCEPT ![h] = node], keep |-> s.keep, inst |-> s.inst,
           retain |-> s.retain, nextLeaf |-> s.nextLeaf, peak |-> s.peak]
  BY ONLY <1>1, <1>2 DEF ToAuth
<1>4. /\ u.stack = s.stack /\ u.levels = s.levels /\ u.offset = s.offset
      /\ u.keep = s.keep /\ u.inst = s.inst /\ u.retain = s.retain
      /\ u.nextLeaf = s.nextLeaf /\ u.peak = s.peak
      /\ u.auth = [s.auth EXCEPT ![h] = node]
  BY ONLY <1>3
<1>5. u = [stack |-> u.stack, levels |-> u.levels, offset |-> u.offset,
           auth |-> u.auth, keep |-> u.keep, inst |-> u.inst,
           retain |-> u.retain, nextLeaf |-> u.nextLeaf, peak |-> u.peak]
  BY ONLY <1>3
<1>6. s.auth = [n \in 0..(p.th - 1) |-> s.auth[n]] BY DEF FullState
<1>7. u.auth = [n \in 0..(p.th - 1) |-> IF n = h THEN node ELSE s.auth[n]]
  BY ONLY <1>4, <1>6
<1>8. /\ u.auth = [n \in 0..(p.th - 1) |-> u.auth[n]]
      /\ u.auth[h] = node
      /\ \A n \in 0..(p.th - 1) : n # h => u.auth[n] = s.auth[n]
  BY ONLY <1>7, h \in 0..(p.th - 1)
<1>9. FullState(p, u)
  <2> HIDE <1>1
  <2> QED BY <1>4, <1>5, <1>8 DEF FullState, IsState
<1> QED BY <1>1, <1>4, <1>8, <1>9 DEF NodesOnly

(* Nor does one kept in retain.                                              *)
LEMMA ToRetainFields ==
  ASSUME NEW p, NEW s, FullState(p, s), NEW n \in 0..(Pow2[p.k] - p.k - 2), NEW node
  PROVE  LET t == ToRetain(s, n, node) IN
         /\ NodesOnly(p, s, t) /\ t.auth = s.auth /\ t.inst = s.inst
         /\ t.retain[n] = node
         /\ \A m \in 0..(Pow2[p.k] - p.k - 2) : m # n => t.retain[m] = s.retain[m]
<1>1. PICK u : u = ToRetain(s, n, node) OBVIOUS
<1> DEFINE D == 0..(Pow2[p.k] - p.k - 2)
<1>0. n \in D OBVIOUS
<1>2. s = [stack |-> s.stack, levels |-> s.levels, offset |-> s.offset,
           auth |-> s.auth, keep |-> s.keep, inst |-> s.inst,
           retain |-> s.retain, nextLeaf |-> s.nextLeaf, peak |-> s.peak]
  BY DEF FullState, IsState
<1>3. u = [stack |-> s.stack, levels |-> s.levels, offset |-> s.offset,
           auth |-> s.auth, keep |-> s.keep, inst |-> s.inst,
           retain |-> [s.retain EXCEPT ![n] = node], nextLeaf |-> s.nextLeaf,
           peak |-> s.peak]
  BY ONLY <1>1, <1>2 DEF ToRetain
<1>4. /\ u.stack = s.stack /\ u.levels = s.levels /\ u.offset = s.offset
      /\ u.keep = s.keep /\ u.inst = s.inst /\ u.auth = s.auth
      /\ u.nextLeaf = s.nextLeaf /\ u.peak = s.peak
      /\ u.retain = [s.retain EXCEPT ![n] = node]
  BY ONLY <1>3
<1>5. u = [stack |-> u.stack, levels |-> u.levels, offset |-> u.offset,
           auth |-> u.auth, keep |-> u.keep, inst |-> u.inst,
           retain |-> u.retain, nextLeaf |-> u.nextLeaf, peak |-> u.peak]
  BY ONLY <1>3
<1>6. s.retain = [m \in D |-> s.retain[m]] BY DEF FullState
<1> HIDE DEF D
<1>7. u.retain = [m \in D |-> IF m = n THEN node ELSE s.retain[m]]
  BY ONLY <1>4, <1>6
<1>8. /\ u.retain = [m \in D |-> u.retain[m]]
      /\ u.retain[n] = node
      /\ \A m \in D : m # n => u.retain[m] = s.retain[m]
  BY ONLY <1>7, <1>0
<1>9. FullState(p, u)
  <2> HIDE <1>1
  <2> QED BY <1>4, <1>5, <1>8 DEF FullState, IsState, D
<1> QED BY <1>1, <1>4, <1>8, <1>9 DEF NodesOnly, D

(* Nor does one kept in an instance.                                         *)
LEMMA ToInstFields ==
  ASSUME NEW p, NEW s, FullState(p, s), NEW j \in Insts(p), NEW node
  PROVE  LET t == ToInst(s, j, node) IN
         /\ NodesOnly(p, s, t) /\ t.auth = s.auth /\ t.retain = s.retain
         /\ t.inst[j].node = node
         /\ \A i \in Insts(p) : i # j => t.inst[i] = s.inst[i]
<1>1. PICK u : u = ToInst(s, j, node) OBVIOUS
<1>2. s = [stack |-> s.stack, levels |-> s.levels, offset |-> s.offset,
           auth |-> s.auth, keep |-> s.keep, inst |-> s.inst,
           retain |-> s.retain, nextLeaf |-> s.nextLeaf, peak |-> s.peak]
  BY DEF FullState, IsState
<1>3. u = [stack |-> s.stack, levels |-> s.levels, offset |-> s.offset,
           auth |-> s.auth, keep |-> s.keep, inst |-> [s.inst EXCEPT ![j].node = node],
           retain |-> s.retain, nextLeaf |-> s.nextLeaf, peak |-> s.peak]
  BY ONLY <1>1, <1>2 DEF ToInst
<1>4. PICK y : y = [s.inst[j] EXCEPT !.node = node] OBVIOUS
<1>5. IsInstance(s.inst[j]) BY DEF FullState, IsState
<1>6. y = [h |-> s.inst[j].h, next |-> s.inst[j].next, usage |-> s.inst[j].usage,
           completed |-> s.inst[j].completed, node |-> node]
  BY ONLY <1>4, <1>5 DEF IsInstance
<1>7. u.inst = [i \in Insts(p) |-> IF i = j THEN y ELSE s.inst[i]]
  <2>1. s.inst = [i \in Insts(p) |-> s.inst[i]] BY DEF FullState, IsState
  <2>2. u.inst = [s.inst EXCEPT ![j].node = node] BY ONLY <1>3
  <2> QED BY ONLY <2>1, <2>2, <1>4
<1>8. /\ u.stack = s.stack /\ u.levels = s.levels /\ u.offset = s.offset
      /\ u.keep = s.keep /\ u.auth = s.auth /\ u.retain = s.retain
      /\ u.nextLeaf = s.nextLeaf /\ u.peak = s.peak
  BY ONLY <1>3
<1>9. u = [stack |-> u.stack, levels |-> u.levels, offset |-> u.offset,
           auth |-> u.auth, keep |-> u.keep, inst |-> u.inst,
           retain |-> u.retain, nextLeaf |-> u.nextLeaf, peak |-> u.peak]
  BY ONLY <1>3
<1>10. IsInstance(y) BY ONLY <1>6 DEF IsInstance
<1>11. /\ u.inst[j] = y /\ u.inst = [i \in Insts(p) |-> u.inst[i]]
       /\ \A i \in Insts(p) : i # j => u.inst[i] = s.inst[i]
  BY ONLY <1>7, j \in Insts(p)
<1>12. FullState(p, u)
  <2> HIDE <1>1
  <2> QED BY <1>8, <1>9, <1>10, <1>11 DEF FullState, IsState
<1>13. /\ y.h = s.inst[j].h /\ y.next = s.inst[j].next /\ y.usage = s.inst[j].usage
       /\ y.completed = s.inst[j].completed /\ y.node = node
  BY ONLY <1>6
<1> QED BY <1>1, <1>8, <1>11, <1>12, <1>13 DEF NodesOnly

-----------------------------------------------------------------------------
(* The right node of index q at height h is where bds_round will look for it: *)
(* the first one is the path of leaf 0, and of the later ones retain has     *)
(* those of the top levels and the instances the second one.                 *)
Saved(p, a, st, h, q) ==
  /\ q = 1 => st.auth[h] = Node(a, h, 1)
  /\ q # 1 /\ h >= Instances(p) => st.retain[RetainSlot(p, h, (q - 3) \div 2)] = Node(a, h, q)
  /\ q = 3 /\ h < Instances(p) => st.inst[h].node = Node(a, h, 3)

(* The right nodes of a level, by index. *)
Right(p, h) == {q \in 1..(Pow2[p.th - h] - 1) : q % 2 = 1}

(* Every right node of the top levels has a slot of its own in retain.       *)
LEMMA RetainSlots ==
  ASSUME NEW p, TreeParams(p), NEW h \in 0..(p.th - 1), h >= Instances(p),
         NEW q \in Right(p, h), q # 1
  PROVE  /\ RetainSlot(p, h, (q - 3) \div 2) \in 0..(Pow2[p.k] - p.k - 2)
         /\ \A g \in 0..(p.th - 1) : \A r \in Right(p, g) :
              g >= Instances(p) /\ r # 1 /\ (g # h \/ r # q)
                => RetainSlot(p, g, (r - 3) \div 2) # RetainSlot(p, h, (q - 3) \div 2)
<1>1. p.th \in Nat /\ p.k \in 0..p.th /\ Instances(p) = p.th - p.k
  BY DEF TreeParams, Instances
<1>2. ASSUME NEW g \in 0..(p.th - 1), NEW r \in Right(p, g), r # 1
      PROVE  LET m == p.th - 1 - g IN
             /\ m \in Nat /\ Pow2[m] \in Nat
             /\ (r - 3) \div 2 \in 0..(Pow2[m] - 2) /\ r = 2 * ((r - 3) \div 2) + 3
  <2> DEFINE m == p.th - 1 - g
  <2>1. m \in Nat /\ m + 1 = p.th - g BY <1>1
  <2>2. Pow2[m] \in Nat /\ Pow2[p.th - g] = 2 * Pow2[m] BY <2>1, Pow2Recursion
  <2>3. r \in 1..(2 * Pow2[m] - 1) /\ r % 2 = 1 BY <2>2 DEF Right
  <2> DEFINE c == Pow2[m]
  <2>4. c \in Nat /\ r \in Int /\ r >= 1 /\ r <= 2 * c - 1 /\ r % 2 = 1 BY <2>2, <2>3
  <2> HIDE DEF c
  <2>5. r >= 3 BY ONLY <2>4, r # 1
  <2>6. r = 2 * ((r - 3) \div 2) + 3 BY ONLY <2>4, <2>5
  <2>7. (r - 3) \div 2 \in 0..(c - 2) BY ONLY <2>4, <2>5, <2>6
  <2> QED BY <2>1, <2>2, <2>6, <2>7 DEF c
<1> DEFINE low(m) == Pow2[m] - m - 1
<1>3. ASSUME NEW g \in 0..(p.th - 1), NEW r \in Right(p, g), r # 1
      PROVE  LET m == p.th - 1 - g
                 s == RetainSlot(p, g, (r - 3) \div 2)
             IN  s = low(m) + (r - 3) \div 2 /\ low(m) \in Int /\ s \in low(m)..(low(m + 1) - 1)
  <2> DEFINE m == p.th - 1 - g
             c == Pow2[m]
             row == (r - 3) \div 2
             s == RetainSlot(p, g, row)
  <2>1. m \in Nat /\ c \in Nat /\ row \in 0..(c - 2) BY <1>2, <1>3
  <2>2. Pow2[m + 1] = 2 * c BY <2>1, Pow2Recursion
  <2>3. s = c + g - p.th + row BY DEF RetainSlot
  <2>4. g = p.th - 1 - m /\ g \in Int BY <1>1
  <2> HIDE DEF row, m
  <2>5. low(m) = c - m - 1 /\ low(m + 1) = 2 * c - (m + 1) - 1 BY <2>2
  <2> HIDE DEF s, c, low
  <2>6. c + g - p.th + row = c - m - 1 + row BY ONLY <2>1, <2>4, <1>1
  <2>7. s = low(m) + row BY ONLY <2>1, <2>3, <2>4, <2>5, <2>6, <1>1
  <2>8. low(m) \in Int /\ low(m + 1) \in Int BY ONLY <2>1, <2>5
  <2>9. s \in low(m)..(low(m + 1) - 1) BY ONLY <2>1, <2>5, <2>7, <2>8
  <2> QED BY <2>7, <2>8, <2>9 DEF s, row, m
<1>4. ASSUME NEW m \in Nat PROVE low(m) \in Nat /\ low(m) <= low(m + 1)
  <2> DEFINE S == {n \in Nat : low(n) \in Nat /\ low(n) <= low(n + 1)}
  <2>1. \A n \in Nat : low(n + 1) = low(n) + Pow2[n] - 1 /\ Pow2[n] \in Nat /\ Pow2[n] >= 1
                       /\ low(n) \in Int
    <3> TAKE n \in Nat
    <3>1. Pow2[n] \in Nat \ {0} /\ Pow2[n + 1] = 2 * Pow2[n] BY Pow2Recursion
    <3> QED BY <3>1
  <2>2. low(0) = 0 BY Pow2Recursion
  <2> HIDE DEF low
  <2>3. 0 \in S BY <2>1, <2>2
  <2>4. ASSUME NEW n \in Nat, n \in S PROVE n + 1 \in S
    <3>1. low(n) \in Nat /\ low(n) <= low(n + 1) BY <2>4
    <3>2. n + 1 \in Nat OBVIOUS
    <3>3. low(n + 1) = low(n) + Pow2[n] - 1 /\ Pow2[n] \in Nat /\ Pow2[n] >= 1 BY <2>1
    <3>4. /\ low((n + 1) + 1) = low(n + 1) + Pow2[n + 1] - 1
          /\ Pow2[n + 1] \in Nat /\ Pow2[n + 1] >= 1
      BY <2>1, <3>2
    <3>5. low(n + 1) \in Nat BY ONLY <3>1, <3>3
    <3>6. low(n + 1) <= low((n + 1) + 1) BY ONLY <3>4, <3>5
    <3> QED BY <3>5, <3>6
  <2>5. Nat \subseteq S
    <3> HIDE DEF S
    <3> QED BY <2>3, <2>4, SetInduction
  <2> QED BY <2>5
<1>5. \A m, n \in Nat : m <= n => low(m) <= low(n)
  <2> SUFFICES ASSUME NEW m \in Nat PROVE \A n \in Nat : m <= n => low(m) <= low(n) OBVIOUS
  <2> DEFINE S == {d \in Nat : low(m) <= low(m + d)}
  <2> HIDE DEF low
  <2>1. 0 \in S BY <1>4
  <2>2. ASSUME NEW d \in Nat, d \in S PROVE d + 1 \in S
    <3>1. m + d \in Nat /\ (m + d) + 1 = m + (d + 1) /\ (m + d) + 1 \in Nat OBVIOUS
    <3>2. low(m + d) \in Nat /\ low(m) \in Nat /\ low((m + d) + 1) \in Nat
          /\ low(m + d) <= low((m + d) + 1)
      BY <3>1, <1>4
    <3> QED BY <3>1, <3>2, <2>2
  <2>3. Nat \subseteq S
    <3> HIDE DEF S
    <3> QED BY <2>1, <2>2, SetInduction
  <2> TAKE n \in Nat
  <2> HAVE m <= n
  <2>4. n - m \in Nat /\ m + (n - m) = n OBVIOUS
  <2> QED BY <2>3, <2>4
<1>6. RetainSlot(p, h, (q - 3) \div 2) \in 0..(Pow2[p.k] - p.k - 2)
  <2> DEFINE m == p.th - 1 - h
             s == RetainSlot(p, h, (q - 3) \div 2)
  <2>1. m \in Nat /\ m + 1 \in Nat /\ m + 1 <= p.k /\ p.k \in Nat BY <1>1
  <2>2. s \in low(m)..(low(m + 1) - 1) /\ low(m) \in Int BY <1>3
  <2>3. low(m + 1) <= low(p.k) BY <2>1, <1>5
  <2>4. low(p.k) = Pow2[p.k] - p.k - 1 /\ Pow2[p.k] \in Nat BY <2>1, Pow2Recursion
  <2> HIDE DEF s, m, low
  <2>5. low(m) \in Nat /\ low(m + 1) \in Nat /\ low(p.k) \in Nat BY <2>1, <1>4
  <2>6. s \in Int /\ s >= 0 /\ s <= Pow2[p.k] - p.k - 2
    BY ONLY <2>1, <2>2, <2>3, <2>4, <2>5
  <2>7. s \in 0..(Pow2[p.k] - p.k - 2) BY ONLY <2>6, <2>4, <2>1
  <2> QED BY <2>7 DEF s
<1>7. ASSUME NEW g \in 0..(p.th - 1), NEW r \in Right(p, g), r # 1, g # h \/ r # q
      PROVE  RetainSlot(p, g, (r - 3) \div 2) # RetainSlot(p, h, (q - 3) \div 2)
  <2> DEFINE m == p.th - 1 - h
             n == p.th - 1 - g
             s == RetainSlot(p, h, (q - 3) \div 2)
             t == RetainSlot(p, g, (r - 3) \div 2)
  <2>1. m \in Nat /\ n \in Nat /\ m + 1 \in Nat /\ n + 1 \in Nat /\ (g = h <=> m = n) BY <1>1
  <2>2. s = low(m) + (q - 3) \div 2 /\ s \in low(m)..(low(m + 1) - 1) BY <1>3
  <2>3. t = low(n) + (r - 3) \div 2 /\ t \in low(n)..(low(n + 1) - 1) BY <1>3, <1>7
  <2>4. q = 2 * ((q - 3) \div 2) + 3 /\ r = 2 * ((r - 3) \div 2) + 3
        /\ (q - 3) \div 2 \in Int /\ (r - 3) \div 2 \in Int
    <3>1. (q - 3) \div 2 \in 0..(Pow2[m] - 2) /\ q = 2 * ((q - 3) \div 2) + 3
          /\ Pow2[m] \in Nat
      BY <1>2
    <3>2. (r - 3) \div 2 \in 0..(Pow2[n] - 2) /\ r = 2 * ((r - 3) \div 2) + 3
          /\ Pow2[n] \in Nat
      BY <1>2, <1>7
    <3> QED BY <3>1, <3>2
  <2>5. low(m) \in Nat /\ low(n) \in Nat /\ low(m + 1) \in Nat /\ low(n + 1) \in Nat
    BY <2>1, <1>4
  <2>6. /\ m + 1 <= n => low(m + 1) <= low(n)
        /\ n + 1 <= m => low(n + 1) <= low(m)
    BY <2>1, <1>5
  <2> HIDE DEF s, t, low, m, n
  <2>7. CASE m = n
    <3>1. r # q BY <2>7, <2>1, <1>7
    <3>2. low(m) = low(n) BY <2>7
    <3>3. (q - 3) \div 2 # (r - 3) \div 2 BY <3>1, <2>4
    <3> DEFINE u == (q - 3) \div 2
               v == (r - 3) \div 2
    <3>4. s = low(m) + u /\ t = low(m) + v /\ u \in Int /\ v \in Int /\ u # v
      BY <3>2, <3>3, <2>2, <2>3, <2>4
    <3> HIDE DEF u, v
    <3>5. s # t BY ONLY <3>4, <2>5
    <3> QED BY <3>5 DEF s, t
  <2>8. CASE m < n
    <3>1. s <= low(m + 1) - 1 /\ low(n) <= t /\ low(m + 1) <= low(n) /\ s \in Int /\ t \in Int
      BY <2>8, <2>1, <2>2, <2>3, <2>5, <2>6
    <3>2. s # t BY ONLY <3>1, <2>5
    <3> QED BY <3>2 DEF s, t
  <2>9. CASE n < m
    <3>1. t <= low(n + 1) - 1 /\ low(m) <= s /\ low(n + 1) <= low(m) /\ s \in Int /\ t \in Int
      BY <2>9, <2>1, <2>2, <2>3, <2>5, <2>6
    <3>2. s # t BY ONLY <3>1, <2>5
    <3> QED BY <3>2 DEF s, t
  <2> QED BY <2>1, <2>7, <2>8, <2>9
<1> QED BY <1>6, <1>7

(* A node that is kept is where it will be looked for, and overwrites none   *)
(* that is there.                                                            *)
LEMMA KeepNodeResult ==
  ASSUME NEW p, TreeParams(p), NEW a, NEW st, FullState(p, st), NEW i \in Nat,
         NEW h \in 0..(p.th - 1), Shr(i, h) \in Right(p, h)
  PROVE  LET t == KeepNode(p, st, h, i, Node(a, h, Shr(i, h))) IN
         /\ NodesOnly(p, st, t)
         /\ Saved(p, a, t, h, Shr(i, h))
         /\ \A g \in 0..(p.th - 1) : \A r \in Right(p, g) :
              Saved(p, a, st, g, r) => Saved(p, a, t, g, r)
<1> DEFINE q == Shr(i, h)
           node == Node(a, h, q)
           t == KeepNode(p, st, h, i, node)
           N == Instances(p)
<1>1. q \in Right(p, h) /\ h \in Nat /\ N \in Nat /\ q \in Int
  <2>1. q \in Right(p, h) OBVIOUS
  <2>2. q \in Int BY <2>1 DEF Right
  <2> QED BY <2>1, <2>2 DEF TreeParams, Instances
<1>2. CASE q = 1
  <2>1. t = ToAuth(st, h, node)
    <3> HIDE DEF node
    <3> QED BY <1>2 DEF KeepNode, ToAuth
  <2>2. /\ NodesOnly(p, st, t) /\ t.retain = st.retain /\ t.inst = st.inst
        /\ t.auth[h] = node
        /\ \A n \in 0..(p.th - 1) : n # h => t.auth[n] = st.auth[n]
    <3> HIDE DEF t, node
    <3> QED BY <2>1, ToAuthFields
  <2> HIDE DEF t
  <2>3. Saved(p, a, t, h, q) BY <2>2, <1>2 DEF Saved
  <2>4. ASSUME NEW g \in 0..(p.th - 1), NEW r \in Right(p, g), Saved(p, a, st, g, r)
        PROVE  Saved(p, a, t, g, r)
    <3>1. r = 1 => t.auth[g] = Node(a, g, 1)
      <4>1. CASE g = h BY <4>1, <2>2, <1>2
      <4>2. CASE g # h BY <4>2, <2>2, <2>4 DEF Saved
      <4> QED BY <4>1, <4>2
    <3> QED BY <3>1, <2>2, <2>4 DEF Saved
  <2> QED BY <2>2, <2>3, <2>4 DEF t
<1>3. CASE q # 1 /\ h >= N
  <2> DEFINE n == RetainSlot(p, h, (q - 3) \div 2)
  <2>1. t = ToRetain(st, n, node)
    <3> HIDE DEF node
    <3> QED BY <1>1, <1>3 DEF KeepNode, ToRetain
  <2>2. n \in 0..(Pow2[p.k] - p.k - 2) BY <1>1, <1>3, RetainSlots
  <2>3. /\ NodesOnly(p, st, t) /\ t.auth = st.auth /\ t.inst = st.inst
        /\ t.retain[n] = node
        /\ \A m \in 0..(Pow2[p.k] - p.k - 2) : m # n => t.retain[m] = st.retain[m]
    <3> HIDE DEF t, node, n
    <3> QED BY <2>1, <2>2, ToRetainFields
  <2> HIDE DEF t
  <2>4. Saved(p, a, t, h, q) BY <2>3, <1>1, <1>3 DEF Saved
  <2>5. ASSUME NEW g \in 0..(p.th - 1), NEW r \in Right(p, g), Saved(p, a, st, g, r)
        PROVE  Saved(p, a, t, g, r)
    <3>1. CASE g = h /\ r = q BY <3>1, <2>4
    <3>2. CASE g # h \/ r # q
      <4> DEFINE m == RetainSlot(p, g, (r - 3) \div 2)
      <4>1. ASSUME r # 1, g >= N
            PROVE  m \in 0..(Pow2[p.k] - p.k - 2) /\ m # n
        <5>1. m \in 0..(Pow2[p.k] - p.k - 2) BY <4>1, RetainSlots
        <5>2. m # n BY <4>1, <3>2, <1>1, <1>3, RetainSlots
        <5> QED BY <5>1, <5>2
      <4>2. ASSUME r # 1, g >= N PROVE t.retain[m] = Node(a, g, r)
        <5>1. t.retain[m] = st.retain[m] BY <4>1, <4>2, <2>3
        <5> QED BY <5>1, <4>2, <2>5 DEF Saved
      <4> QED BY <4>2, <2>3, <2>5 DEF Saved
    <3> QED BY <3>1, <3>2
  <2> QED BY <2>3, <2>4, <2>5 DEF t
<1>4. CASE q = 3 /\ h < N
  <2>1. t = ToInst(st, h, node)
    <3> HIDE DEF node
    <3> QED BY <1>4, <1>1 DEF KeepNode, ToInst
  <2>2. /\ NodesOnly(p, st, t) /\ t.auth = st.auth /\ t.retain = st.retain
        /\ t.inst[h].node = node
        /\ \A j \in Insts(p) : j # h => t.inst[j] = st.inst[j]
    <3>1. h \in Insts(p) BY <1>1, <1>4 DEF Insts
    <3> HIDE DEF t, node
    <3> QED BY <2>1, <3>1, ToInstFields
  <2> HIDE DEF t
  <2>3. Saved(p, a, t, h, q) BY <2>2, <1>1, <1>4 DEF Saved
  <2>4. ASSUME NEW g \in 0..(p.th - 1), NEW r \in Right(p, g), Saved(p, a, st, g, r)
        PROVE  Saved(p, a, t, g, r)
    <3>1. ASSUME r = 3, g < N PROVE t.inst[g].node = Node(a, g, 3)
      <4>1. CASE g = h BY <4>1, <2>2, <1>4
      <4>2. CASE g # h
        <5>1. g \in Insts(p) BY <3>1, <1>1 DEF Insts
        <5> QED BY <5>1, <4>2, <3>1, <2>2, <2>4 DEF Saved
      <4> QED BY <4>1, <4>2
    <3> QED BY <3>1, <2>2, <2>4 DEF Saved
  <2> QED BY <2>2, <2>3, <2>4 DEF t
<1>5. CASE q # 1 /\ q # 3 /\ h < N
  <2>1. t = st
    <3> HIDE DEF node
    <3> QED BY <1>5, <1>1 DEF KeepNode
  <2>2. NodesOnly(p, st, st) BY DEF NodesOnly
  <2>3. Saved(p, a, st, h, q) BY <1>1, <1>5 DEF Saved
  <2> QED BY <2>1, <2>2, <2>3
<1> QED BY <1>1, <1>2, <1>3, <1>4, <1>5

(* t has the instances of s but for their nodes, and its keep and nextLeaf. *)
SameFlags(p, s, t) ==
  /\ t.keep = s.keep /\ t.nextLeaf = s.nextLeaf
  /\ \A j \in Insts(p) : /\ t.inst[j].h = s.inst[j].h
                         /\ t.inst[j].next = s.inst[j].next
                         /\ t.inst[j].usage = s.inst[j].usage
                         /\ t.inst[j].completed = s.inst[j].completed

(* A tree under construction, after i leaves: the stack has one node for      *)
(* each one bit of i, and the right nodes finished so far are kept.          *)
Built(p, a, st, i) ==
  /\ FullState(p, st)
  /\ st.offset \in Nat
  /\ \A x \in 0..(st.offset - 1) :
       /\ st.levels[x] \in Nat /\ st.levels[x] + x <= p.th
       /\ i < Pow2[p.th] => st.levels[x] + x < p.th
       /\ Bit(i, st.levels[x]) = 1
       /\ st.stack[x] = Node(a, st.levels[x], Shr(i, st.levels[x]) - 1)
  /\ \A x, y \in 0..(st.offset - 1) : x < y => st.levels[y] < st.levels[x]
  /\ \A l \in 0..p.th : Bit(i, l) = 1 => \E x \in 0..(st.offset - 1) : st.levels[x] = l
  /\ \A h \in 0..(p.th - 1) : \A q \in Right(p, h) : q < Shr(i, h) => Saved(p, a, st, h, q)

(* Two nodes on top of the stack replaced by their parent. *)
Joined(s, top, node, level) ==
  [s EXCEPT !.stack[top - 1] = node, !.levels[top - 1] = level, !.offset = top]

(* That changes nothing but the stack.                                       *)
LEMMA JoinedFields ==
  ASSUME NEW p, NEW s, FullState(p, s), NEW top, top - 1 \in Slots(p), NEW node, NEW level
  PROVE  LET t == Joined(s, top, node, level) IN
         /\ FullState(p, t) /\ SameFlags(p, s, t)
         /\ t.auth = s.auth /\ t.retain = s.retain /\ t.inst = s.inst /\ t.peak = s.peak
         /\ t.offset = top
         /\ t.stack[top - 1] = node /\ t.levels[top - 1] = level
         /\ \A x \in Slots(p) : x # top - 1 => t.stack[x] = s.stack[x] /\ t.levels[x] = s.levels[x]
<1>0. PICK c : c = top - 1 OBVIOUS
<1>1. PICK u : u = Joined(s, top, node, level) OBVIOUS
<1>2. s = [stack |-> s.stack, levels |-> s.levels, offset |-> s.offset,
           auth |-> s.auth, keep |-> s.keep, inst |-> s.inst,
           retain |-> s.retain, nextLeaf |-> s.nextLeaf, peak |-> s.peak]
  BY DEF FullState, IsState
<1>3. PICK v : v = [s EXCEPT !.stack[c] = node] OBVIOUS
<1>4. PICK w : w = [v EXCEPT !.levels[c] = level] OBVIOUS
<1>5. u = [w EXCEPT !.offset = top]
  BY ONLY <1>0, <1>1, <1>3, <1>4, Zenon DEF Joined
<1>6. v = [stack |-> [s.stack EXCEPT ![c] = node], levels |-> s.levels, offset |-> s.offset,
           auth |-> s.auth, keep |-> s.keep, inst |-> s.inst,
           retain |-> s.retain, nextLeaf |-> s.nextLeaf, peak |-> s.peak]
  BY ONLY <1>2, <1>3
<1>7. w = [stack |-> [s.stack EXCEPT ![c] = node],
           levels |-> [s.levels EXCEPT ![c] = level], offset |-> s.offset,
           auth |-> s.auth, keep |-> s.keep, inst |-> s.inst,
           retain |-> s.retain, nextLeaf |-> s.nextLeaf, peak |-> s.peak]
  BY ONLY <1>6, <1>4
<1>8. u = [stack |-> [s.stack EXCEPT ![c] = node],
           levels |-> [s.levels EXCEPT ![c] = level], offset |-> top,
           auth |-> s.auth, keep |-> s.keep, inst |-> s.inst,
           retain |-> s.retain, nextLeaf |-> s.nextLeaf, peak |-> s.peak]
  BY ONLY <1>5, <1>7
<1>9. /\ u.auth = s.auth /\ u.keep = s.keep /\ u.retain = s.retain
      /\ u.nextLeaf = s.nextLeaf /\ u.inst = s.inst /\ u.peak = s.peak
      /\ u.offset = top
      /\ u.stack = [s.stack EXCEPT ![c] = node]
      /\ u.levels = [s.levels EXCEPT ![c] = level]
  BY ONLY <1>8
<1>10. /\ u.stack = [x \in Slots(p) |-> IF x = c THEN node ELSE s.stack[x]]
       /\ u.levels = [x \in Slots(p) |-> IF x = c THEN level ELSE s.levels[x]]
  <2>1. s.stack = [x \in Slots(p) |-> s.stack[x]] /\ s.levels = [x \in Slots(p) |-> s.levels[x]]
    BY DEF FullState, IsState
  <2> QED BY ONLY <1>9, <2>1
<1>11. u = [stack |-> u.stack, levels |-> u.levels, offset |-> u.offset,
            auth |-> u.auth, keep |-> u.keep, inst |-> u.inst,
            retain |-> u.retain, nextLeaf |-> u.nextLeaf, peak |-> u.peak]
  BY ONLY <1>8
<1>12. c \in Slots(p) BY <1>0
<1>13. /\ u.stack[c] = node /\ u.levels[c] = level
       /\ \A x \in Slots(p) : x # c => u.stack[x] = s.stack[x] /\ u.levels[x] = s.levels[x]
  BY ONLY <1>10, <1>12
<1>14. u.stack = [x \in Slots(p) |-> u.stack[x]] /\ u.levels = [x \in Slots(p) |-> u.levels[x]]
  BY ONLY <1>10
<1>15. FullState(p, u)
  <2>1. /\ s.inst = [j \in Insts(p) |-> s.inst[j]] /\ \A j \in Insts(p) : IsInstance(s.inst[j])
        /\ s.auth = [h \in 0..(p.th - 1) |-> s.auth[h]]
        /\ s.keep = [n \in 0..((p.th \div 2) - 1) |-> s.keep[n]]
        /\ s.retain = [n \in 0..(Pow2[p.k] - p.k - 2) |-> s.retain[n]]
    BY DEF FullState, IsState
  <2> HIDE <1>1
  <2> QED BY <2>1, <1>9, <1>11, <1>14 DEF FullState, IsState
<1> QED BY <1>0, <1>1, <1>9, <1>13, <1>15 DEF SameFlags

(* A push keeps the rest of the shape.                                       *)
LEMMA PushFull ==
  ASSUME NEW p, NEW s, FullState(p, s), s.offset \in Slots(p), NEW node, NEW level
  PROVE  LET u == Push(s, node, level)
         IN  /\ FullState(p, u)
             /\ u.auth = s.auth /\ u.keep = s.keep /\ u.retain = s.retain
             /\ u.nextLeaf = s.nextLeaf /\ u.inst = s.inst
             /\ u.stack[s.offset] = node /\ u.levels[s.offset] = level
             /\ \A x \in Slots(p) : x # s.offset =>
                  u.stack[x] = s.stack[x] /\ u.levels[x] = s.levels[x]
             /\ u.peak = Max({s.peak, s.offset + 1})
             /\ u.offset = s.offset + 1
<1>1. PICK u : u = Push(s, node, level) OBVIOUS
<1>2. /\ IsState(p, u)
      /\ u.auth = s.auth /\ u.keep = s.keep /\ u.retain = s.retain
      /\ u.nextLeaf = s.nextLeaf /\ u.inst = s.inst
      /\ u.stack[s.offset] = node /\ u.levels[s.offset] = level
      /\ \A x \in Slots(p) : x # s.offset =>
           u.stack[x] = s.stack[x] /\ u.levels[x] = s.levels[x]
      /\ u.peak = Max({s.peak, s.offset + 1})
      /\ u.offset = s.offset + 1
  <2>1. IsState(p, s) BY DEF FullState
  <2> QED BY <1>1, <2>1, PushFields
<1>3. FullState(p, u)
  <2> HIDE <1>1
  <2> QED BY <1>2 DEF FullState
<1> QED BY <1>1, <1>2, <1>3

-----------------------------------------------------------------------------
(* The state the merge loop of AddLeaf starts with. *)
AddLeafBase(p, a, i, st) ==
  LET pushed == Push(st, GenLeaf(a, i), 0)
  IN  IF Instances(p) > 0 /\ i = 3
      THEN ToInst(pushed, 0, pushed.stack[pushed.offset])
      ELSE pushed

(* g is the recursion of that loop over n turns. *)
Joining(n, g, p, a, i, x) ==
  g = [k \in 0..n |-> IF k = 0 THEN x ELSE MergeTop(p, a, i, g[k - 1])]

(* The recursion of the loop can be carried out over any number of turns.    *)
LEMMA JoiningExists ==
  ASSUME NEW p, NEW a, NEW i, NEW x
  PROVE  \A n \in Nat : \E g : Joining(n, g, p, a, i, x)
<1> DEFINE S == {n \in Nat : \E g : Joining(n, g, p, a, i, x)}
<1>1. 0 \in S
  <2>1. Joining(0, [k \in 0..0 |-> x], p, a, i, x) BY DEF Joining
  <2> QED BY <2>1
<1>2. ASSUME NEW n \in Nat, n \in S PROVE n + 1 \in S
  <2>1. PICK g : Joining(n, g, p, a, i, x) BY <1>2
  <2> DEFINE f == [k \in 0..(n + 1) |->
                     IF k = n + 1 THEN MergeTop(p, a, i, g[n]) ELSE g[k]]
  <2>2. ASSUME NEW k \in 0..(n + 1)
        PROVE  f[k] = IF k = 0 THEN x ELSE MergeTop(p, a, i, f[k - 1])
    <3>1. CASE k = n + 1
      <4>1. k # 0 /\ k - 1 = n /\ n \in 0..(n + 1) /\ n # n + 1 BY <3>1
      <4>2. f[k] = MergeTop(p, a, i, g[n]) BY <3>1
      <4>3. f[n] = g[n] BY <4>1
      <4> QED BY <4>1, <4>2, <4>3, <3>1
    <3>2. CASE k # n + 1
      <4>1. k \in 0..n BY <3>2
      <4>2. f[k] = g[k] BY <3>2
      <4>3. g[k] = IF k = 0 THEN x ELSE MergeTop(p, a, i, g[k - 1])
        BY <2>1, <4>1 DEF Joining
      <4>4. k # 0 => f[k - 1] = g[k - 1] BY <4>1
      <4> QED BY <4>2, <4>3, <4>4
    <3> QED BY <3>1, <3>2
  <2>3. f = [k \in 0..(n + 1) |-> f[k]] OBVIOUS
  <2>4. Joining(n + 1, f, p, a, i, x)
    <3> HIDE DEF f
    <3> QED BY <2>2, <2>3 DEF Joining
  <2> QED BY <2>4
<1>3. Nat \subseteq S
  <2> HIDE DEF S
  <2> QED BY <1>1, <1>2, SetInduction
<1> QED BY <1>3

(* AddLeaf in terms of its loop.                                             *)
LEMMA AddLeafLoop ==
  ASSUME NEW p, p.th \in Nat, NEW a, NEW i, NEW st
  PROVE  \E g : /\ g[0] = AddLeafBase(p, a, i, st)
                /\ \A k \in 1..p.th : g[k] = MergeTop(p, a, i, g[k - 1])
                /\ AddLeaf(p, a, i, st) = g[p.th]
<1> DEFINE x == AddLeafBase(p, a, i, st)
           g == CHOOSE g : Joining(p.th, g, p, a, i, x)
<1>0. \A n \in Nat : \E f : Joining(n, f, p, a, i, x)
  <2> HIDE DEF x
  <2> QED BY JoiningExists
<1>1. Joining(p.th, g, p, a, i, x) BY <1>0
<1>2. \A z : (CHOOSE y \in {MergeTop(p, a, i, v) : v \in {z}} : TRUE) = MergeTop(p, a, i, z)
  <2> TAKE z
  <2>1. {MergeTop(p, a, i, v) : v \in {z}} = {MergeTop(p, a, i, z)} OBVIOUS
  <2> QED BY <2>1
<1> DEFINE w == CHOOSE f :
                  f = [k \in 0..p.th |->
                         IF k = 0 THEN x
                         ELSE CHOOSE y \in {MergeTop(p, a, i, z) : z \in {f[k - 1]}} : TRUE]
<1>3. w = g
  <2> HIDE DEF x
  <2> QED BY <1>2 DEF Joining
<1>5. AddLeaf(p, a, i, st) = w[p.th]
  BY Zenon DEF AddLeaf, Loop, AddLeafBase, ToInst
<1> HIDE DEF g
<1>6. g[0] = x BY <1>1 DEF Joining
<1>7. ASSUME NEW k \in 1..p.th PROVE g[k] = MergeTop(p, a, i, g[k - 1])
  <2>1. k \in 0..p.th /\ k # 0 OBVIOUS
  <2> QED BY <2>1, <1>1 DEF Joining
<1> QED BY <1>3, <1>5, <1>6, <1>7

(* What the merge loop has done with leaf i after c merges: m is the state,   *)
(* st the one before the leaf was pushed.                                    *)
Climbed(p, a, st, i, c, m) ==
  /\ FullState(p, m) /\ SameFlags(p, st, m)
  /\ c \in 0..st.offset
  /\ m.offset = st.offset - c + 1
  /\ m.levels[st.offset - c] = c /\ m.stack[st.offset - c] = Node(a, c, Shr(i, c))
  /\ \A x \in 0..(st.offset - c - 1) :
       /\ m.levels[x] = st.levels[x] /\ m.stack[x] = st.stack[x]
       /\ st.levels[x] >= c
  /\ \A x \in (st.offset - c)..(st.offset - 1) : st.levels[x] < c
  /\ m.peak = Max({st.peak, st.offset + 1})
  /\ \A h \in 0..(p.th - 1) : \A q \in Right(p, h) :
       q < Shr(i, h) \/ (h < c /\ q = Shr(i, h)) => Saved(p, a, m, h, q)

(* A node of the tree lies below its root.                                   *)
LEMMA IndexRange ==
  ASSUME NEW th \in Nat, NEW i \in Nat, i < Pow2[th], NEW h \in 0..th
  PROVE  Shr(i, h) \in 0..(Pow2[th - h] - 1)
<1> DEFINE q == Shr(i, h)
           m == th - h
<1>1. h \in Nat /\ m \in Nat /\ h + m = th OBVIOUS
<1>2. q \in Nat BY <1>1, ShrHalves
<1>3. Shr(q, m) = Shr(i, h + m) BY <1>1, ShrSum
<1>4. Shr(i, th) = 0 BY ShrZero
<1>5. Shr(q, m) = 0 BY <1>1, <1>3, <1>4
<1> HIDE DEF q
<1>6. q < Pow2[m] BY <1>1, <1>2, <1>5, ShrZero
<1>7. Pow2[m] \in Nat BY <1>1, Pow2Recursion
<1> HIDE DEF m
<1>8. q \in 0..(Pow2[m] - 1) BY <1>2, <1>6, <1>7
<1> QED BY <1>8 DEF q, m

(* The stack of a tree that is not complete has room.                        *)
LEMMA BuiltRoom ==
  ASSUME NEW p, TreeParams(p), NEW a, NEW st, NEW i \in 0..(Pow2[p.th] - 1),
         Built(p, a, st, i)
  PROVE  /\ i \in Nat /\ i < Pow2[p.th] /\ Pow2[p.th] \in Nat
         /\ st.offset \in 0..p.th
         /\ \A x \in 0..(st.offset - 1) : st.levels[x] \in 0..(p.th - 1) /\ st.levels[x] + x < p.th
<1>1. p.th \in Nat BY DEF TreeParams
<1>2. Pow2[p.th] \in Nat BY <1>1, Pow2Recursion
<1>3. i \in Nat /\ i < Pow2[p.th] BY <1>2
<1>4. \A x \in 0..(st.offset - 1) : st.levels[x] \in Nat /\ st.levels[x] + x < p.th
  BY <1>3 DEF Built
<1>5. st.offset \in Nat BY DEF Built
<1>6. st.offset <= p.th
  <2>1. CASE st.offset = 0 BY <2>1, <1>1
  <2>2. CASE st.offset > 0
    <3>1. st.offset - 1 \in 0..(st.offset - 1) BY <2>2, <1>5
    <3>2. st.levels[st.offset - 1] \in Nat /\ st.levels[st.offset - 1] + (st.offset - 1) < p.th
      BY <3>1, <1>4
    <3> QED BY <3>2, <1>1, <1>5
  <2> QED BY <2>1, <2>2, <1>5
<1>7. \A x \in 0..(st.offset - 1) : st.levels[x] \in 0..(p.th - 1)
  <2> TAKE x \in 0..(st.offset - 1)
  <2>1. st.levels[x] \in Nat /\ st.levels[x] + x < p.th /\ x \in Nat BY <1>4
  <2> QED BY <2>1, <1>1
<1> QED BY <1>2, <1>3, <1>4, <1>5, <1>6, <1>7

(* The leaf on top of the stack.                                             *)
LEMMA LeafPushed ==
  ASSUME NEW p, TreeParams(p), NEW a, NEW st, NEW i \in 0..(Pow2[p.th] - 1),
         Built(p, a, st, i)
  PROVE  Climbed(p, a, st, i, 0, AddLeafBase(p, a, i, st))
<1> DEFINE N == Instances(p)
           o == st.offset
           leaf == GenLeaf(a, i)
           pushed == Push(st, leaf, 0)
           m == AddLeafBase(p, a, i, st)
<1>1. /\ i \in Nat /\ o \in 0..p.th /\ p.th \in Nat /\ N \in Nat
      /\ \A x \in 0..(o - 1) : st.levels[x] \in 0..(p.th - 1)
  BY BuiltRoom DEF TreeParams, Instances
<1>2. o \in Slots(p) BY <1>1 DEF Slots
<1>3. FullState(p, st) BY DEF Built
<1>4. /\ FullState(p, pushed)
      /\ pushed.auth = st.auth /\ pushed.keep = st.keep /\ pushed.retain = st.retain
      /\ pushed.nextLeaf = st.nextLeaf /\ pushed.inst = st.inst
      /\ pushed.stack[o] = leaf /\ pushed.levels[o] = 0
      /\ \A x \in Slots(p) : x # o =>
           pushed.stack[x] = st.stack[x] /\ pushed.levels[x] = st.levels[x]
      /\ pushed.peak = Max({st.peak, o + 1})
      /\ pushed.offset = o + 1
  <2>1. PICK level : level = 0 OBVIOUS
  <2>2. pushed = Push(st, leaf, level) BY <2>1
  <2> HIDE DEF leaf, pushed
  <2>3. LET u == Push(st, leaf, level)
        IN  /\ FullState(p, u)
            /\ u.auth = st.auth /\ u.keep = st.keep /\ u.retain = st.retain
            /\ u.nextLeaf = st.nextLeaf /\ u.inst = st.inst
            /\ u.stack[o] = leaf /\ u.levels[o] = level
            /\ \A x \in Slots(p) : x # o =>
                 u.stack[x] = st.stack[x] /\ u.levels[x] = st.levels[x]
            /\ u.peak = Max({st.peak, o + 1})
            /\ u.offset = o + 1
    <3> HIDE <2>1
    <3> QED BY ONLY <1>2, <1>3, PushFull
  <2> QED BY <2>1, <2>2, <2>3
<1>5. leaf = Node(a, 0, Shr(i, 0)) BY <1>1, ShrNone DEF GenLeaf
<1> HIDE DEF pushed, leaf
<1>6. \A h \in 0..(p.th - 1) : \A q \in Right(p, h) : q < Shr(i, h) => Saved(p, a, pushed, h, q)
  BY <1>4 DEF Built, Saved
<1>7. /\ FullState(p, m) /\ m.stack = pushed.stack /\ m.levels = pushed.levels
      /\ m.offset = pushed.offset /\ m.peak = pushed.peak
      /\ SameFlags(p, st, m)
      /\ \A h \in 0..(p.th - 1) : \A q \in Right(p, h) : q < Shr(i, h) => Saved(p, a, m, h, q)
  <2>1. CASE ~(N > 0 /\ i = 3)
    <3>1. m = pushed BY <2>1 DEF AddLeafBase, pushed, leaf
    <3>2. SameFlags(p, st, pushed) BY <1>4 DEF SameFlags
    <3> QED BY <3>1, <3>2, <1>4, <1>6
  <2>2. CASE N > 0 /\ i = 3
    <3> DEFINE any == pushed.stack[pushed.offset]
    <3>1. m = ToInst(pushed, 0, any) BY <2>2 DEF AddLeafBase, pushed, leaf
    <3>2. 0 \in Insts(p) BY <2>2, <1>1 DEF Insts
    <3>3. /\ NodesOnly(p, pushed, m) /\ m.auth = pushed.auth /\ m.retain = pushed.retain
          /\ m.inst[0].node = any
          /\ \A j \in Insts(p) : j # 0 => m.inst[j] = pushed.inst[j]
      <4> HIDE DEF any, m
      <4> QED BY <3>1, <3>2, <1>4, ToInstFields
    <3> HIDE DEF m
    <3>4. ASSUME NEW h \in 0..(p.th - 1), NEW q \in Right(p, h), q < Shr(i, h)
          PROVE  Saved(p, a, m, h, q)
      <4>1. Saved(p, a, pushed, h, q) BY <3>4, <1>6
      <4>2. ASSUME q = 3, h < N PROVE m.inst[h].node = Node(a, h, 3)
        <5>1. h # 0
          <6>1. SUFFICES ASSUME h = 0 PROVE FALSE OBVIOUS
          <6>2. Shr(i, 0) = 3 BY <2>2, ShrNone
          <6> QED BY <6>1, <6>2, <3>4, <4>2
        <5>2. h \in Insts(p) BY <4>2, <1>1 DEF Insts
        <5>3. m.inst[h] = pushed.inst[h] BY <5>1, <5>2, <3>3
        <5> QED BY <5>3, <4>1, <4>2 DEF Saved
      <4> QED BY <4>1, <4>2, <3>3 DEF Saved
    <3>5. SameFlags(p, st, m) BY <3>3, <1>4 DEF NodesOnly, SameFlags
    <3> QED BY <3>3, <3>4, <3>5 DEF NodesOnly
  <2> QED BY <2>1, <2>2
<1> HIDE DEF m
<1>8. \A x \in 0..(o - 0 - 1) : /\ m.levels[x] = st.levels[x] /\ m.stack[x] = st.stack[x]
                                /\ st.levels[x] >= 0
  <2> TAKE x \in 0..(o - 0 - 1)
  <2>1. x \in Slots(p) /\ x # o /\ x \in 0..(o - 1) BY <1>1 DEF Slots
  <2>2. st.levels[x] \in 0..(p.th - 1) BY <2>1, <1>1
  <2> QED BY <2>1, <2>2, <1>4, <1>7
<1>9. m.offset = o - 0 + 1 /\ o - 0 = o /\ 0 \in 0..o BY <1>1, <1>4, <1>7
<1>10. \A h \in 0..(p.th - 1) : ~(h < 0) OBVIOUS
<1>11. \A x \in (o - 0)..(o - 1) : st.levels[x] < 0 BY <1>1
<1>12. m.levels[o - 0] = 0 /\ m.stack[o - 0] = Node(a, 0, Shr(i, 0)) BY <1>4, <1>5, <1>7, <1>9
<1>13. m.peak = Max({st.peak, o + 1}) BY <1>4, <1>7
<1> QED BY <1>7, <1>8, <1>9, <1>10, <1>11, <1>12, <1>13 DEF Climbed, m, o

(* A one bit of the leaf's number: its node is kept and merged with the one  *)
(* below it on the stack.                                                    *)
LEMMA ClimbStep ==
  ASSUME NEW p, TreeParams(p), NEW a, NEW st, NEW i \in 0..(Pow2[p.th] - 1),
         Built(p, a, st, i), NEW c \in 0..(p.th - 1), Bit(i, c) = 1, NEW m,
         Climbed(p, a, st, i, c, m)
  PROVE  Climbed(p, a, st, i, c + 1, MergeTop(p, a, i, m))
<1> DEFINE o == st.offset
           q == Shr(i, c)
           z == Shr(i, c + 1)
           node == Node(a, c, q)
           kept == KeepNode(p, m, c, i, node)
           top == o - c
           parent == Node(a, c + 1, z)
           t == MergeTop(p, a, i, m)
<1>1. /\ i \in Nat /\ i < Pow2[p.th] /\ o \in 0..p.th /\ p.th \in Nat /\ p.th # 0
      /\ c \in Nat /\ c + 1 \in Nat
  BY BuiltRoom DEF TreeParams
<1>2. /\ FullState(p, m) /\ SameFlags(p, st, m) /\ c \in 0..o
      /\ m.offset = o - c + 1 /\ m.levels[top] = c /\ m.stack[top] = node
      /\ \A x \in 0..(o - c - 1) :
           m.levels[x] = st.levels[x] /\ m.stack[x] = st.stack[x] /\ st.levels[x] >= c
      /\ \A x \in (o - c)..(o - 1) : st.levels[x] < c
      /\ m.peak = Max({st.peak, o + 1})
      /\ \A h \in 0..(p.th - 1) : \A r \in Right(p, h) :
           r < Shr(i, h) \/ (h < c /\ r = Shr(i, h)) => Saved(p, a, m, h, r)
  BY DEF Climbed
<1>3. q = 2 * z + 1 /\ z \in Nat /\ q \in Nat
  BY <1>1, BitValue, ShrHalves
<1>4. \A x \in 0..(o - 1) :
        /\ st.levels[x] \in Nat /\ Bit(i, st.levels[x]) = 1
        /\ st.stack[x] = Node(a, st.levels[x], Shr(i, st.levels[x]) - 1)
  BY DEF Built
<1>5. \A x, y \in 0..(o - 1) : x < y => st.levels[y] < st.levels[x] BY DEF Built
<1>6. top - 1 \in 0..(o - 1) /\ st.levels[top - 1] = c /\ top \in Nat /\ top > 0
  <2>1. c \in 0..p.th BY <1>1
  <2>2. PICK x \in 0..(o - 1) : st.levels[x] = c BY <2>1 DEF Built
  <2>3. x \in Nat /\ ~(x \in (o - c)..(o - 1)) BY <2>2, <1>2, <1>1
  <2>4. x <= o - c - 1 /\ o - c - 1 \in 0..(o - 1) BY <2>2, <2>3, <1>1
  <2>5. x = o - c - 1
    <3>1. SUFFICES ASSUME x < o - c - 1 PROVE FALSE BY <2>3, <2>4, <1>1
    <3>2. st.levels[o - c - 1] < st.levels[x] BY <3>1, <2>4, <1>5
    <3>3. o - c - 1 \in 0..(o - c - 1) BY <3>1, <2>3, <1>1
    <3>4. st.levels[o - c - 1] >= c /\ st.levels[o - c - 1] \in Nat BY <3>3, <2>4, <1>2, <1>4
    <3> QED BY <3>2, <3>4, <2>2, <1>1
  <2> QED BY <2>2, <2>3, <2>4, <2>5, <1>1
<1>7. m.levels[top - 1] = c /\ m.stack[top - 1] = Node(a, c, 2 * z)
  <2>1. top - 1 \in 0..(o - c - 1) BY <1>6, <1>1
  <2>2. m.levels[top - 1] = st.levels[top - 1] /\ m.stack[top - 1] = st.stack[top - 1]
    BY <2>1, <1>2
  <2>3. st.stack[top - 1] = Node(a, c, q - 1) BY <1>4, <1>6
  <2>4. q - 1 = 2 * z BY <1>3
  <2> QED BY <2>2, <2>3, <2>4, <1>6
<1>8. q \in Right(p, c)
  <2>1. c \in 0..p.th BY <1>1
  <2>2. q \in 0..(Pow2[p.th - c] - 1) BY <1>1, <2>1, IndexRange
  <2>3. Pow2[p.th - c] \in Nat /\ p.th - c \in Nat BY <1>1, Pow2Recursion
  <2> HIDE DEF q, z
  <2>4. q % 2 = 1 /\ q >= 1 BY ONLY <1>3
  <2> QED BY <2>2, <2>3, <2>4, <1>3 DEF Right
<1>9. /\ NodesOnly(p, m, kept)
      /\ Saved(p, a, kept, c, q)
      /\ \A g \in 0..(p.th - 1) : \A r \in Right(p, g) :
           Saved(p, a, m, g, r) => Saved(p, a, kept, g, r)
  BY <1>1, <1>2, <1>8, KeepNodeResult
<1>10. t = Joined(kept, top, parent, c + 1)
  <2>1. m.offset - 1 = top BY <1>1, <1>2
  <2>2. m.offset > 1 BY <1>2, <1>6, <1>1
  <2>3. HashPair(a, c, z, m.stack[top - 1], m.stack[top]) = parent
    BY <1>2, <1>3, <1>7 DEF HashPair
  <2> DEFINE left == m.stack[top - 1]
  <2>4. m.levels[m.offset - 1] = c /\ m.stack[m.offset - 1] = node
        /\ m.levels[m.offset - 1] = m.levels[m.offset - 1 - 1]
        /\ m.stack[m.offset - 1 - 1] = left
    BY <2>1, <1>2, <1>7
  <2> HIDE DEF kept, node, left, top, parent, z
  <2>5. MergeTop(p, a, i, m)
          = [KeepNode(p, m, c, i, node) EXCEPT
              !.stack[top - 1] = HashPair(a, c, Shr(i, c + 1), left, node),
              !.levels[top - 1] = c + 1,
              !.offset = top]
    BY <2>1, <2>2, <2>4 DEF MergeTop
  <2>6. HashPair(a, c, Shr(i, c + 1), left, node) = parent BY <2>3, <1>2 DEF left, z
  <2> QED BY <2>5, <2>6 DEF Joined, kept
<1>11. FullState(p, kept) BY <1>9 DEF NodesOnly
<1>12. top - 1 \in Slots(p) BY <1>1, <1>6 DEF Slots
<1>13. /\ FullState(p, t) /\ SameFlags(p, kept, t)
       /\ t.auth = kept.auth /\ t.retain = kept.retain /\ t.inst = kept.inst
       /\ t.peak = kept.peak
       /\ t.offset = top
       /\ t.stack[top - 1] = parent /\ t.levels[top - 1] = c + 1
       /\ \A x \in Slots(p) : x # top - 1 =>
            t.stack[x] = kept.stack[x] /\ t.levels[x] = kept.levels[x]
  <2> HIDE DEF t, kept, parent, top
  <2> QED BY <1>10, <1>11, <1>12, JoinedFields
<1> HIDE DEF t, kept, parent
<1>14. SameFlags(p, st, t)
  <2>1. SameFlags(p, m, kept) BY <1>9 DEF NodesOnly, SameFlags
  <2> QED BY <2>1, <1>2, <1>13 DEF SameFlags
<1>15. c + 1 \in 0..o /\ t.offset = o - (c + 1) + 1 /\ o - (c + 1) = top - 1
  BY <1>1, <1>6, <1>13
<1>16. ASSUME NEW x \in 0..(o - (c + 1) - 1)
       PROVE  t.levels[x] = st.levels[x] /\ t.stack[x] = st.stack[x] /\ st.levels[x] >= c + 1
  <2>1. x \in 0..(o - c - 1) /\ x \in Slots(p) /\ x # top - 1 /\ x \in 0..(o - 1) /\ x < top - 1
    BY <1>1, <1>6 DEF Slots
  <2>2. t.levels[x] = kept.levels[x] /\ t.stack[x] = kept.stack[x] BY <2>1, <1>13
  <2>3. kept.levels[x] = m.levels[x] /\ kept.stack[x] = m.stack[x] BY <1>9 DEF NodesOnly
  <2>4. st.levels[top - 1] < st.levels[x] /\ st.levels[x] \in Nat BY <2>1, <1>4, <1>5, <1>6
  <2> QED BY <2>1, <2>2, <2>3, <2>4, <1>2, <1>6, <1>1
<1>17. ASSUME NEW x \in (o - (c + 1))..(o - 1) PROVE st.levels[x] < c + 1
  <2>1. x = top - 1 \/ x \in (o - c)..(o - 1) BY <1>1
  <2>2. CASE x = top - 1 BY <2>2, <1>6, <1>1
  <2>3. CASE x \in (o - c)..(o - 1)
    <3>1. st.levels[x] < c /\ x \in 0..(o - 1) BY <2>3, <1>2, <1>1
    <3>2. st.levels[x] \in Nat BY <3>1, <1>4
    <3> QED BY <3>1, <3>2, <1>1
  <2> QED BY <2>1, <2>2, <2>3
<1>18. ASSUME NEW h \in 0..(p.th - 1), NEW r \in Right(p, h),
              r < Shr(i, h) \/ (h < c + 1 /\ r = Shr(i, h))
       PROVE  Saved(p, a, t, h, r)
  <2>1. Saved(p, a, kept, h, r)
    <3>1. CASE h = c /\ r = q BY <3>1, <1>9
    <3>2. CASE ~(h = c /\ r = q)
      <4>1. r < Shr(i, h) \/ (h < c /\ r = Shr(i, h)) BY <3>2, <1>18, <1>1
      <4> QED BY <4>1, <1>2, <1>9
    <3> QED BY <3>1, <3>2
  <2> QED BY <2>1, <1>13 DEF Saved
<1>19. t.peak = Max({st.peak, o + 1}) BY <1>2, <1>9, <1>13 DEF NodesOnly
<1>20. t.levels[o - (c + 1)] = c + 1 /\ t.stack[o - (c + 1)] = Node(a, c + 1, Shr(i, c + 1))
  BY <1>13, <1>15 DEF parent
<1> QED BY <1>13, <1>14, <1>15, <1>16, <1>17, <1>18, <1>19, <1>20 DEF Climbed, o, t

(* Counting up past n ones clears them.                                      *)
LEMMA OnesClear ==
  ASSUME NEW x \in Nat, NEW t \in Nat, \A n \in 0..(t - 1) : Bit(x, n) = 1,
         NEW n \in 0..(t - 1)
  PROVE  Bit(x + 1, n) = 0
<1>1. n \in Nat /\ n \in 0..t OBVIOUS
<1>2. Shr(x + 1, n) = Shr(x, n) + 1 BY <1>1, Ones
<1>3. Shr(x, n) = 2 * Shr(x, n + 1) + 1 /\ Shr(x, n + 1) \in Nat
  <2>1. Bit(x, n) = 1 OBVIOUS
  <2> QED BY <2>1, <1>1, BitValue, ShrHalves
<1> QED BY <1>2, <1>3 DEF Bit

(* A zero bit ends the merging.                                              *)
LEMMA ClimbEnds ==
  ASSUME NEW p, TreeParams(p), NEW a, NEW st, NEW i \in 0..(Pow2[p.th] - 1),
         Built(p, a, st, i), NEW c \in 0..(p.th - 1), Bit(i, c) # 1, NEW m,
         Climbed(p, a, st, i, c, m)
  PROVE  MergeTop(p, a, i, m) = m
<1> DEFINE o == st.offset
<1>1. o \in 0..p.th /\ p.th \in Nat BY BuiltRoom DEF TreeParams
<1>2. /\ c \in 0..o /\ m.offset = o - c + 1 /\ m.levels[o - c] = c
      /\ \A x \in 0..(o - c - 1) : m.levels[x] = st.levels[x]
  BY DEF Climbed
<1>3. SUFFICES ASSUME m.offset > 1 PROVE m.levels[m.offset - 1] # m.levels[m.offset - 1 - 1]
  BY DEF MergeTop
<1>4. o - c - 1 \in 0..(o - c - 1) /\ o - c - 1 \in 0..(o - 1)
      /\ m.offset - 1 = o - c /\ m.offset - 1 - 1 = o - c - 1
  BY <1>1, <1>2, <1>3
<1>5. Bit(i, st.levels[o - c - 1]) = 1 BY <1>4 DEF Built
<1> QED BY <1>2, <1>4, <1>5

(* AddLeaf takes a tree under construction one leaf further.                 *)
LEMMA AddLeafResult ==
  ASSUME NEW p, TreeParams(p), NEW a, NEW st, NEW i \in 0..(Pow2[p.th] - 1),
         Built(p, a, st, i)
  PROVE  LET t == AddLeaf(p, a, i, st) IN
         /\ Built(p, a, t, i + 1)
         /\ SameFlags(p, st, t)
         /\ t.peak = Max({st.peak, st.offset + 1})
<1> DEFINE o == st.offset
           m == AddLeaf(p, a, i, st)
<1>1. /\ i \in Nat /\ i < Pow2[p.th] /\ Pow2[p.th] \in Nat /\ o \in 0..p.th
      /\ p.th \in Nat /\ p.th # 0
      /\ \A x \in 0..(o - 1) : st.levels[x] \in 0..(p.th - 1) /\ st.levels[x] + x < p.th
  BY BuiltRoom DEF TreeParams
<1>2. PICK t \in 0..p.th : /\ \A n \in 0..(t - 1) : Bit(i, n) = 1
                           /\ t < p.th => Bit(i, t) = 0
  <2> DEFINE Z == {n \in 0..p.th : n = p.th \/ Bit(i, n) = 0}
  <2>1. Z \subseteq Nat /\ Z # {} BY <1>1
  <2>2. PICK t \in Z : \A n \in Z : t <= n
    <3> HIDE DEF Z
    <3> QED BY <2>1, LeastNumber
  <2>3. ASSUME NEW n \in 0..(t - 1) PROVE Bit(i, n) = 1
    <3>1. n \in 0..p.th /\ n # p.th /\ ~(t <= n) /\ n \in Nat BY <1>1, <2>2
    <3>2. Bit(i, n) # 0 BY <3>1, <2>2
    <3> QED BY <3>1, <3>2, <1>1, BitValue
  <2>4. t \in 0..p.th /\ (t < p.th => Bit(i, t) = 0) BY <2>2, <1>1
  <2> QED BY <2>3, <2>4
<1>3. t \in Nat /\ t <= p.th BY <1>1
<1>4. Climbed(p, a, st, i, t, m)
  <2>1. PICK g : /\ g[0] = AddLeafBase(p, a, i, st)
                 /\ \A k \in 1..p.th : g[k] = MergeTop(p, a, i, g[k - 1])
                 /\ AddLeaf(p, a, i, st) = g[p.th]
    BY <1>1, AddLeafLoop
  <2> DEFINE C(k) == IF k <= t THEN k ELSE t
             S == {k \in Nat : k <= p.th => Climbed(p, a, st, i, C(k), g[k])}
  <2>2. 0 \in S
    <3>1. Climbed(p, a, st, i, 0, g[0]) BY <2>1, LeafPushed
    <3>2. C(0) = 0 BY <1>3
    <3> QED BY <3>1, <3>2
  <2>3. ASSUME NEW k \in Nat, k \in S PROVE k + 1 \in S
    <3> SUFFICES ASSUME k + 1 <= p.th PROVE Climbed(p, a, st, i, C(k + 1), g[k + 1]) OBVIOUS
    <3>1. k + 1 \in 1..p.th /\ (k + 1) - 1 = k /\ k <= p.th BY <1>1
    <3>2. Climbed(p, a, st, i, C(k), g[k]) BY <2>3, <3>1
    <3>3. g[k + 1] = MergeTop(p, a, i, g[k]) BY <2>1, <3>1
    <3>4. CASE k < t
      <4>1. C(k) = k /\ C(k + 1) = k + 1 BY <3>4, <1>3
      <4>2. k \in 0..(p.th - 1) /\ Bit(i, k) = 1 BY <3>4, <3>1, <1>1, <1>2
      <4>3. Climbed(p, a, st, i, k, g[k]) BY <3>2, <4>1
      <4>4. Climbed(p, a, st, i, k + 1, MergeTop(p, a, i, g[k])) BY <4>2, <4>3, ClimbStep
      <4> QED BY <4>1, <4>4, <3>3
    <3>5. CASE ~(k < t)
      <4>1. C(k) = t /\ C(k + 1) = t BY <3>5, <1>3
      <4>2. t \in 0..(p.th - 1) /\ Bit(i, t) = 0 BY <3>5, <3>1, <1>1, <1>2
      <4>3. Climbed(p, a, st, i, t, g[k]) BY <3>2, <4>1
      <4>4. MergeTop(p, a, i, g[k]) = g[k] BY <4>2, <4>3, ClimbEnds
      <4> QED BY <4>1, <4>3, <4>4, <3>3
    <3> QED BY <3>4, <3>5
  <2>4. Nat \subseteq S
    <3> HIDE DEF S
    <3> QED BY <2>2, <2>3, SetInduction
  <2>5. p.th \in S /\ C(p.th) = t BY <2>4, <1>1, <1>3
  <2> QED BY <2>1, <2>5, <1>1
<1> HIDE DEF m
<1>5. /\ FullState(p, m) /\ SameFlags(p, st, m)
      /\ t \in 0..o
      /\ m.offset = o - t + 1
      /\ m.levels[o - t] = t /\ m.stack[o - t] = Node(a, t, Shr(i, t))
      /\ \A x \in 0..(o - t - 1) :
           /\ m.levels[x] = st.levels[x] /\ m.stack[x] = st.stack[x]
           /\ st.levels[x] >= t
      /\ \A x \in (o - t)..(o - 1) : st.levels[x] < t
      /\ m.peak = Max({st.peak, o + 1})
      /\ \A h \in 0..(p.th - 1) : \A q \in Right(p, h) :
           q < Shr(i, h) \/ (h < t /\ q = Shr(i, h)) => Saved(p, a, m, h, q)
  BY <1>4 DEF Climbed
<1>6. \A n \in 0..t : Shr(i + 1, n) = Shr(i, n) + 1 BY <1>1, <1>2, <1>3, Ones
<1>7. \A n \in 0..(t - 1) : Bit(i + 1, n) = 0 BY <1>1, <1>2, <1>3, OnesClear
<1>8. ASSUME NEW n \in Nat, n > t, n <= p.th
      PROVE  Shr(i + 1, n) = Shr(i, n) /\ Bit(i + 1, n) = Bit(i, n)
  <2>1. Bit(i, t) = 0 BY <1>2, <1>3, <1>8, <1>1
  <2> QED BY <2>1, <1>1, <1>2, <1>3, <1>8, Carry
<1>9. Bit(i + 1, t) = 1
  <2>1. CASE t < p.th
    <3>1. Bit(i, t) = 0 BY <2>1, <1>2
    <3> QED BY <3>1, <1>1, <1>2, <1>3, Carry
  <2>2. CASE t = p.th
    <3>1. Shr(i, t) = 0 BY <2>2, <1>1, ShrZero
    <3>2. t \in 0..t BY <1>3
    <3>3. Shr(i + 1, t) = 1 BY <3>1, <3>2, <1>6
    <3> QED BY <3>3 DEF Bit
  <2> QED BY <2>1, <2>2, <1>3, <1>1
<1>10. ASSUME NEW x \in 0..(o - t - 1)
       PROVE  /\ x \in 0..(o - 1) /\ st.levels[x] \in Nat /\ st.levels[x] > t /\ t < p.th
              /\ st.levels[x] + x < p.th /\ st.levels[x] < p.th
              /\ Bit(i, st.levels[x]) = 1
              /\ st.stack[x] = Node(a, st.levels[x], Shr(i, st.levels[x]) - 1)
  <2>1. x \in 0..(o - 1) BY <1>1, <1>3
  <2>2. st.levels[x] \in 0..(p.th - 1) /\ st.levels[x] + x < p.th /\ st.levels[x] >= t
    BY <2>1, <1>1, <1>5
  <2>3. Bit(i, st.levels[x]) = 1 /\ st.stack[x] = Node(a, st.levels[x], Shr(i, st.levels[x]) - 1)
    BY <2>1 DEF Built
  <2>4. st.levels[x] # t
    <3>1. SUFFICES ASSUME st.levels[x] = t PROVE FALSE OBVIOUS
    <3>2. t < p.th BY <3>1, <2>2, <1>1
    <3> QED BY <3>1, <3>2, <2>3, <1>2
  <2> QED BY <2>1, <2>2, <2>3, <2>4, <1>1, <1>3
<1>11. i + 1 < Pow2[p.th] => t < p.th
  <2>1. SUFFICES ASSUME t = p.th, i + 1 < Pow2[p.th] PROVE FALSE BY <1>3, <1>1
  <2>2. i + 1 \in Nat BY <1>1
  <2>3. Shr(i + 1, p.th) = 0 BY <2>1, <2>2, <1>1, ShrZero
  <2>4. Shr(i, p.th) = 0 BY <1>1, ShrZero
  <2>5. t \in 0..t BY <1>3
  <2>6. Shr(i + 1, t) = Shr(i, t) + 1 BY <2>5, <1>6
  <2> QED BY <2>1, <2>3, <2>4, <2>6
<1>12. ASSUME NEW x \in 0..(m.offset - 1)
       PROVE  /\ m.levels[x] \in Nat /\ m.levels[x] + x <= p.th
              /\ i + 1 < Pow2[p.th] => m.levels[x] + x < p.th
              /\ Bit(i + 1, m.levels[x]) = 1
              /\ m.stack[x] = Node(a, m.levels[x], Shr(i + 1, m.levels[x]) - 1)
  <2>1. x \in 0..(o - t - 1) \/ x = o - t BY <1>1, <1>3, <1>5
  <2>2. CASE x \in 0..(o - t - 1)
    <3>1. m.levels[x] = st.levels[x] /\ m.stack[x] = st.stack[x] BY <2>2, <1>5
    <3>2. /\ st.levels[x] \in Nat /\ st.levels[x] > t /\ st.levels[x] < p.th
          /\ st.levels[x] + x < p.th
          /\ Bit(i, st.levels[x]) = 1
          /\ st.stack[x] = Node(a, st.levels[x], Shr(i, st.levels[x]) - 1)
      BY <2>2, <1>10
    <3>3. /\ Shr(i + 1, st.levels[x]) = Shr(i, st.levels[x])
          /\ Bit(i + 1, st.levels[x]) = Bit(i, st.levels[x])
      BY <3>2, <1>1, <1>8
    <3> QED BY <3>1, <3>2, <3>3, <1>1
  <2>3. CASE x = o - t
    <3>1. m.levels[x] = t /\ m.stack[x] = Node(a, t, Shr(i, t)) BY <2>3, <1>5
    <3>2. Shr(i + 1, t) = Shr(i, t) + 1 /\ Shr(i, t) \in Nat
      <4>1. t \in 0..t BY <1>3
      <4> QED BY <4>1, <1>6, <1>1, <1>3, ShrHalves
    <3>3. Shr(i + 1, t) - 1 = Shr(i, t) BY <3>2
    <3>4. t + x <= p.th /\ (i + 1 < Pow2[p.th] => t + x < p.th)
      <4>1. CASE x = 0 BY <4>1, <1>3, <1>11, <1>1
      <4>2. CASE x > 0
        <5>1. x - 1 \in 0..(o - t - 1) BY <2>3, <4>2, <1>1, <1>3, <1>5
        <5>2. st.levels[x - 1] \in Nat /\ st.levels[x - 1] > t /\ st.levels[x - 1] + (x - 1) < p.th
          BY <5>1, <1>10
        <5> QED BY <5>2, <2>3, <1>1, <1>3
      <4> QED BY <4>1, <4>2, <2>1, <1>1, <1>3, <1>5, <2>3
    <3> QED BY <3>1, <3>3, <3>4, <1>3, <1>9
  <2> QED BY <2>1, <2>2, <2>3
<1>13. ASSUME NEW x \in 0..(m.offset - 1), NEW y \in 0..(m.offset - 1), x < y
       PROVE  m.levels[y] < m.levels[x]
  <2>1. x \in 0..(o - t - 1) /\ (y \in 0..(o - t - 1) \/ y = o - t)
    BY <1>1, <1>3, <1>5, <1>13
  <2>2. m.levels[x] = st.levels[x] /\ st.levels[x] > t /\ x \in 0..(o - 1) BY <2>1, <1>5, <1>10
  <2>3. CASE y = o - t BY <2>2, <2>3, <1>5
  <2>4. CASE y \in 0..(o - t - 1)
    <3>1. m.levels[y] = st.levels[y] /\ y \in 0..(o - 1) BY <2>4, <1>5, <1>10
    <3> QED BY <3>1, <2>2, <1>13 DEF Built
  <2> QED BY <2>1, <2>3, <2>4
<1>14. ASSUME NEW l \in 0..p.th, Bit(i + 1, l) = 1
       PROVE  \E x \in 0..(m.offset - 1) : m.levels[x] = l
  <2>1. l \in Nat /\ ~(l \in 0..(t - 1)) BY <1>7, <1>14
  <2>2. CASE l = t
    <3>1. o - t \in 0..(m.offset - 1) BY <1>1, <1>3, <1>5
    <3> QED BY <3>1, <2>2, <1>5
  <2>3. CASE l > t
    <3>1. Bit(i, l) = 1 BY <2>1, <2>3, <1>8, <1>14
    <3>2. PICK x \in 0..(o - 1) : st.levels[x] = l BY <3>1 DEF Built
    <3>3. ~(x \in (o - t)..(o - 1)) BY <3>2, <2>1, <2>3, <1>3, <1>5
    <3>4. x \in 0..(o - t - 1) /\ x \in 0..(m.offset - 1) BY <3>2, <3>3, <1>1, <1>3, <1>5
    <3>5. m.levels[x] = l BY <3>2, <3>4, <1>5
    <3> QED BY <3>4, <3>5
  <2> QED BY <2>1, <2>2, <2>3, <1>3
<1>15. ASSUME NEW h \in 0..(p.th - 1), NEW q \in Right(p, h), q < Shr(i + 1, h)
       PROVE  Saved(p, a, m, h, q)
  <2>1. h \in Nat /\ q \in Int /\ q % 2 = 1 BY DEF Right
  <2>2. Shr(i, h) \in Nat BY <2>1, <1>1, ShrHalves
  <2>3. CASE h < t
    <3>1. Shr(i + 1, h) = Shr(i, h) + 1 BY <2>1, <2>3, <1>3, <1>6
    <3>2. q < Shr(i, h) \/ (h < t /\ q = Shr(i, h)) BY <3>1, <2>1, <2>2, <2>3, <1>15
    <3> QED BY <3>2, <1>5
  <2>4. CASE h = t
    <3>1. Shr(i + 1, h) = Shr(i, h) + 1 /\ Bit(i, h) = 0 BY <2>4, <1>1, <1>2, <1>3, <1>6
    <3>2. q # Shr(i, h) BY <3>1, <2>1 DEF Bit
    <3>3. q < Shr(i, h) BY <3>1, <3>2, <2>1, <2>2, <1>15
    <3> QED BY <3>3, <1>5
  <2>5. CASE h > t
    <3>1. Shr(i + 1, h) = Shr(i, h) BY <2>1, <2>5, <1>1, <1>8
    <3> QED BY <3>1, <1>5, <1>15
  <2> QED BY <2>1, <2>3, <2>4, <2>5, <1>3
<1>16. m.offset \in Nat BY <1>1, <1>3, <1>5
<1>17. Built(p, a, m, i + 1)
  BY <1>5, <1>12, <1>13, <1>14, <1>15, <1>16 DEF Built
<1> QED BY <1>5, <1>17 DEF m, o

(* What treehash_init does first: every instance is marked finished, and the  *)
(* stack is another one.                                                     *)
ClearedInstance(t, j) == [t EXCEPT !.h = j, !.completed = TRUE, !.usage = 0]

Cleared(p, st) ==
  [st EXCEPT !.inst = [j \in 0..(Instances(p) - 1) |->
                         [st.inst[j] EXCEPT !.h = j, !.completed = TRUE, !.usage = 0]],
             !.offset = 0]

(* What it does last: the state's own stack comes back. *)
Restored(s, st) ==
  [s EXCEPT !.stack = st.stack, !.levels = st.levels, !.offset = st.offset, !.peak = st.peak]

(* A cleared instance keeps its leaf and its node.                           *)
LEMMA ClearedInstanceFields ==
  ASSUME NEW v, IsInstance(v), NEW j
  PROVE  ClearedInstance(v, j) = [h |-> j, next |-> v.next, usage |-> 0, completed |-> TRUE,
                                  node |-> v.node]
<1>1. PICK v1 : v1 = [v EXCEPT !.h = j] OBVIOUS
<1>2. PICK v2 : v2 = [v1 EXCEPT !.completed = TRUE] OBVIOUS
<1>3. PICK v3 : v3 = [v2 EXCEPT !.usage = 0] OBVIOUS
<1>4. v1 = [h |-> j, next |-> v.next, usage |-> v.usage, completed |-> v.completed,
            node |-> v.node]
  BY ONLY <1>1, IsInstance(v) DEF IsInstance
<1>5. v2 = [h |-> j, next |-> v.next, usage |-> v.usage, completed |-> TRUE, node |-> v.node]
  BY ONLY <1>2, <1>4
<1>6. v3 = [h |-> j, next |-> v.next, usage |-> 0, completed |-> TRUE, node |-> v.node]
  BY ONLY <1>3, <1>5
<1>7. v3 = ClearedInstance(v, j) BY ONLY <1>1, <1>2, <1>3, Zenon DEF ClearedInstance
<1> QED BY <1>6, <1>7

(* A cleared state has every instance finished and an empty stack.           *)
LEMMA ClearedFields ==
  ASSUME NEW p, NEW st, FullState(p, st)
  PROVE  LET t == Cleared(p, st) IN
         /\ FullState(p, t)
         /\ t.offset = 0 /\ t.keep = st.keep /\ t.nextLeaf = st.nextLeaf
         /\ \A j \in Insts(p) : t.inst[j].h = j /\ t.inst[j].usage = 0
                                /\ t.inst[j].completed = TRUE
<1>1. PICK u : u = Cleared(p, st) OBVIOUS
<1> DEFINE inst == [j \in Insts(p) |-> ClearedInstance(st.inst[j], j)]
<1>2. st = [stack |-> st.stack, levels |-> st.levels, offset |-> st.offset,
            auth |-> st.auth, keep |-> st.keep, inst |-> st.inst,
            retain |-> st.retain, nextLeaf |-> st.nextLeaf, peak |-> st.peak]
  BY DEF FullState, IsState
<1>3. u = [st EXCEPT !.inst = inst, !.offset = 0]
  BY <1>1, Zenon DEF Cleared, ClearedInstance, Insts
<1> HIDE DEF inst
<1>4. u = [stack |-> st.stack, levels |-> st.levels, offset |-> 0,
           auth |-> st.auth, keep |-> st.keep, inst |-> inst,
           retain |-> st.retain, nextLeaf |-> st.nextLeaf, peak |-> st.peak]
  BY ONLY <1>2, <1>3
<1>5. /\ u.stack = st.stack /\ u.levels = st.levels /\ u.offset = 0
      /\ u.auth = st.auth /\ u.keep = st.keep /\ u.inst = inst
      /\ u.retain = st.retain /\ u.nextLeaf = st.nextLeaf
  BY ONLY <1>4
<1>6. u = [stack |-> u.stack, levels |-> u.levels, offset |-> u.offset,
           auth |-> u.auth, keep |-> u.keep, inst |-> u.inst,
           retain |-> u.retain, nextLeaf |-> u.nextLeaf, peak |-> u.peak]
  BY ONLY <1>4
<1>7. \A j \in Insts(p) : inst[j] = ClearedInstance(st.inst[j], j) BY DEF inst
<1>8. inst = [j \in Insts(p) |-> inst[j]] BY DEF inst
<1>9. ASSUME NEW j \in Insts(p)
      PROVE  /\ inst[j].h = j /\ inst[j].usage = 0 /\ inst[j].completed = TRUE
             /\ IsInstance(inst[j])
  <2>1. PICK v : v = st.inst[j] OBVIOUS
  <2>2. PICK y : y = inst[j] OBVIOUS
  <2>3. IsInstance(v) BY <2>1 DEF FullState, IsState
  <2>4. y = ClearedInstance(v, j) BY <1>7, <2>1, <2>2
  <2>5. y = [h |-> j, next |-> v.next, usage |-> 0, completed |-> TRUE, node |-> v.node]
    BY <2>3, <2>4, ClearedInstanceFields
  <2>6. y.h = j /\ y.usage = 0 /\ y.completed = TRUE /\ IsInstance(y)
    BY ONLY <2>5 DEF IsInstance
  <2> QED BY <2>2, <2>6
<1>10. FullState(p, u)
  <2> HIDE <1>1
  <2> QED BY <1>5, <1>6, <1>8, <1>9 DEF FullState, IsState
<1> QED BY <1>1, <1>5, <1>9, <1>10

(* A restored state has all of the other one but the stack.                  *)
LEMMA RestoredFields ==
  ASSUME NEW p, NEW s, FullState(p, s), NEW st, FullState(p, st)
  PROVE  LET t == Restored(s, st) IN
         /\ FullState(p, t)
         /\ t.stack = st.stack /\ t.levels = st.levels /\ t.offset = st.offset
         /\ t.peak = st.peak
         /\ t.auth = s.auth /\ t.keep = s.keep /\ t.inst = s.inst
         /\ t.retain = s.retain /\ t.nextLeaf = s.nextLeaf
<1>1. PICK u : u = Restored(s, st) OBVIOUS
<1>2. s = [stack |-> s.stack, levels |-> s.levels, offset |-> s.offset,
           auth |-> s.auth, keep |-> s.keep, inst |-> s.inst,
           retain |-> s.retain, nextLeaf |-> s.nextLeaf, peak |-> s.peak]
  BY DEF FullState, IsState
<1>3. u = [stack |-> st.stack, levels |-> st.levels, offset |-> st.offset,
           auth |-> s.auth, keep |-> s.keep, inst |-> s.inst,
           retain |-> s.retain, nextLeaf |-> s.nextLeaf, peak |-> st.peak]
  BY ONLY <1>1, <1>2 DEF Restored
<1>4. /\ u.stack = st.stack /\ u.levels = st.levels /\ u.offset = st.offset
      /\ u.auth = s.auth /\ u.keep = s.keep /\ u.inst = s.inst
      /\ u.retain = s.retain /\ u.nextLeaf = s.nextLeaf /\ u.peak = st.peak
  BY ONLY <1>3
<1>5. u = [stack |-> u.stack, levels |-> u.levels, offset |-> u.offset,
           auth |-> u.auth, keep |-> u.keep, inst |-> u.inst,
           retain |-> u.retain, nextLeaf |-> u.nextLeaf, peak |-> u.peak]
  BY ONLY <1>3
<1>6. FullState(p, u)
  <2> HIDE <1>1
  <2> QED BY <1>4, <1>5 DEF FullState, IsState
<1> QED BY <1>1, <1>4, <1>6

-----------------------------------------------------------------------------
(* g is the recursion of treehash_init's loop over n leaves. *)
Growing(n, g, p, a, x) ==
  g = [k \in 0..n |-> IF k = 0 THEN x ELSE AddLeaf(p, a, k - 1, g[k - 1])]

(* The recursion of the loop can be carried out over any number of leaves.   *)
LEMMA GrowingExists ==
  ASSUME NEW p, NEW a, NEW x
  PROVE  \A n \in Nat : \E g : Growing(n, g, p, a, x)
<1> DEFINE S == {n \in Nat : \E g : Growing(n, g, p, a, x)}
<1>1. 0 \in S
  <2>1. Growing(0, [k \in 0..0 |-> x], p, a, x) BY DEF Growing
  <2> QED BY <2>1
<1>2. ASSUME NEW n \in Nat, n \in S PROVE n + 1 \in S
  <2>1. PICK g : Growing(n, g, p, a, x) BY <1>2
  <2> DEFINE f == [k \in 0..(n + 1) |->
                     IF k = n + 1 THEN AddLeaf(p, a, n, g[n]) ELSE g[k]]
  <2>2. ASSUME NEW k \in 0..(n + 1)
        PROVE  f[k] = IF k = 0 THEN x ELSE AddLeaf(p, a, k - 1, f[k - 1])
    <3>1. CASE k = n + 1
      <4>1. k # 0 /\ k - 1 = n /\ n \in 0..(n + 1) /\ n # n + 1 BY <3>1
      <4>2. f[k] = AddLeaf(p, a, n, g[n]) BY <3>1
      <4>3. f[n] = g[n] BY <4>1
      <4> QED BY <4>1, <4>2, <4>3, <3>1
    <3>2. CASE k # n + 1
      <4>1. k \in 0..n BY <3>2
      <4>2. f[k] = g[k] BY <3>2
      <4>3. g[k] = IF k = 0 THEN x ELSE AddLeaf(p, a, k - 1, g[k - 1])
        BY <2>1, <4>1 DEF Growing
      <4>4. k # 0 => f[k - 1] = g[k - 1] BY <4>1
      <4> QED BY <4>2, <4>3, <4>4
    <3> QED BY <3>1, <3>2
  <2>3. f = [k \in 0..(n + 1) |-> f[k]] OBVIOUS
  <2>4. Growing(n + 1, f, p, a, x)
    <3> HIDE DEF f
    <3> QED BY <2>2, <2>3 DEF Growing
  <2> QED BY <2>4
<1>3. Nat \subseteq S
  <2> HIDE DEF S
  <2> QED BY <1>1, <1>2, SetInduction
<1> QED BY <1>3

(* treehash_init in terms of its loop.                                       *)
LEMMA TreehashInitLoop ==
  ASSUME NEW p, p.th \in Nat, NEW a, NEW st
  PROVE  LET n == Pow2[p.th] IN
         \E g : /\ g[0] = Cleared(p, st)
                /\ \A k \in 1..n : g[k] = AddLeaf(p, a, k - 1, g[k - 1])
                /\ TreehashInit(p, a, st).root = g[n].stack[0]
                /\ TreehashInit(p, a, st).state = Restored(g[n], st)
<1> DEFINE x == Cleared(p, st)
           n == Pow2[p.th]
           g == CHOOSE g : Growing(n, g, p, a, x)
<1>0. n \in Nat BY Pow2Recursion
<1>a. \A m \in Nat : \E f : Growing(m, f, p, a, x)
  <2> HIDE DEF x
  <2> QED BY GrowingExists
<1>1. Growing(n, g, p, a, x)
  <2> HIDE DEF n, x
  <2> QED BY <1>0, <1>a
<1>2. \A k, z : (CHOOSE y \in {AddLeaf(p, a, k - 1, v) : v \in {z}} : TRUE)
                  = AddLeaf(p, a, k - 1, z)
  <2> TAKE k, z
  <2>1. {AddLeaf(p, a, k - 1, v) : v \in {z}} = {AddLeaf(p, a, k - 1, z)} OBVIOUS
  <2> QED BY <2>1
<1> DEFINE w == CHOOSE f :
                  f = [k \in 0..n |->
                         IF k = 0 THEN x
                         ELSE CHOOSE y \in {AddLeaf(p, a, k - 1, z) : z \in {f[k - 1]}} : TRUE]
<1>3. w = g
  <2> HIDE DEF x, n
  <2> QED BY <1>2 DEF Growing
<1>4. TreehashInit(p, a, st) = [root |-> w[n].stack[0], state |-> Restored(w[n], st)]
  BY Zenon DEF TreehashInit, Loop, Cleared, Restored
<1> HIDE DEF g, w, n
<1>5. g[0] = x BY <1>0, <1>1 DEF Growing
<1>6. ASSUME NEW k \in 1..n PROVE g[k] = AddLeaf(p, a, k - 1, g[k - 1])
  <2>1. k \in 0..n /\ k # 0 BY <1>0
  <2> QED BY <2>1, <1>1 DEF Growing
<1>7. /\ TreehashInit(p, a, st).root = w[n].stack[0]
      /\ TreehashInit(p, a, st).state = Restored(w[n], st)
  <2> HIDE DEF x
  <2> QED BY <1>4
<1>8. /\ TreehashInit(p, a, st).root = g[n].stack[0]
      /\ TreehashInit(p, a, st).state = Restored(g[n], st)
  BY ONLY <1>3, <1>7
<1> QED BY <1>5, <1>6, <1>8 DEF n

(* A new tree: its root, every instance finished, and every right node in the *)
(* place where bds_round will look for it.                                   *)
Generated(p, a, st, root, t) ==
  /\ root = TreeRoot(p.th, a)
  /\ FullState(p, t)
  /\ t.stack = st.stack /\ t.levels = st.levels /\ t.offset = st.offset
  /\ t.peak = st.peak /\ t.keep = st.keep /\ t.nextLeaf = st.nextLeaf
  /\ \A j \in Insts(p) : t.inst[j].h = j /\ t.inst[j].usage = 0 /\ t.inst[j].completed = TRUE
  /\ \A h \in 0..(p.th - 1) : \A q \in Right(p, h) : Saved(p, a, t, h, q)

(* Before its first leaf a tree has nothing to show.                         *)
LEMMA NothingBuilt ==
  ASSUME NEW p, TreeParams(p), NEW a, NEW st, FullState(p, st), st.offset = 0
  PROVE  Built(p, a, st, 0)
<1>1. p.th \in Nat BY DEF TreeParams
<1>2. PICK i : i = 0 OBVIOUS
<1>3. i \in Nat BY <1>2
<1>4. ASSUME NEW n \in Nat PROVE Shr(i, n) = 0 /\ Bit(i, n) = 0
  <2>1. Pow2[n] \in Nat \ {0} BY Pow2Recursion
  <2>2. Shr(i, n) = 0 BY <1>2, <1>3, <2>1, ShrZero
  <2> QED BY <2>2 DEF Bit
<1>5. \A l \in 0..p.th : Bit(i, l) # 1
  <2>1. \A l \in 0..p.th : l \in Nat BY <1>1
  <2> QED BY <2>1, <1>4
<1>6. \A h \in 0..(p.th - 1) : \A q \in Right(p, h) : ~(q < Shr(i, h))
  <2> TAKE h \in 0..(p.th - 1)
  <2> TAKE q \in Right(p, h)
  <2>1. q \in Int /\ q >= 1 BY DEF Right
  <2>2. Shr(i, h) = 0 BY <1>4
  <2> QED BY <2>1, <2>2
<1>7. \A x : x \notin 0..(st.offset - 1) OBVIOUS
<1>8. Built(p, a, st, i) BY <1>5, <1>6, <1>7 DEF Built
<1> QED BY <1>2, <1>8

(* After its last leaf the root is at the bottom of the stack, and every      *)
(* right node has been kept.                                                 *)
LEMMA AllBuilt ==
  ASSUME NEW p, TreeParams(p), NEW a, NEW st, Built(p, a, st, Pow2[p.th])
  PROVE  /\ st.stack[0] = TreeRoot(p.th, a)
         /\ \A h \in 0..(p.th - 1) : \A q \in Right(p, h) : Saved(p, a, st, h, q)
<1> DEFINE L == Pow2[p.th]
<1>1. p.th \in Nat /\ p.th \in 0..p.th /\ L \in Nat BY Pow2Recursion DEF TreeParams
<1>2. ASSUME NEW h \in 0..p.th PROVE Shr(L, h) = Pow2[p.th - h]
  <2>1. h \in Nat /\ p.th - h \in Nat /\ (p.th - h) + h = p.th BY <1>1
  <2>2. Pow2[p.th - h] \in Nat BY <2>1, Pow2Recursion
  <2>3. L = Pow2[p.th - h] * Pow2[h]
    <3>1. Pow2[(p.th - h) + h] = Pow2[p.th - h] * Pow2[h] BY <2>1, Pow2Sum
    <3> QED BY <3>1, <2>1
  <2> HIDE DEF L
  <2> QED BY <2>1, <2>2, <2>3, Multiple
<1>3. Shr(L, p.th) = 1
  <2>1. p.th - p.th = 0 BY <1>1
  <2> QED BY <2>1, <1>1, <1>2, Pow2Recursion
<1>4. Bit(L, p.th) = 1 BY <1>3 DEF Bit
<1>5. PICK x \in 0..(st.offset - 1) : st.levels[x] = p.th BY <1>1, <1>4 DEF Built
<1>6. /\ st.levels[x] + x <= p.th
      /\ st.stack[x] = Node(a, st.levels[x], Shr(L, st.levels[x]) - 1)
  BY DEF Built
<1>7. x = 0 BY <1>1, <1>5, <1>6
<1>8. st.stack[0] = Node(a, p.th, 0)
  <2>1. Shr(L, p.th) - 1 = 0 BY <1>3
  <2> QED BY <2>1, <1>5, <1>6, <1>7
<1>9. ASSUME NEW h \in 0..(p.th - 1), NEW q \in Right(p, h) PROVE Saved(p, a, st, h, q)
  <2>1. h \in 0..p.th /\ p.th - h \in Nat BY <1>1
  <2>2. Pow2[p.th - h] \in Nat BY <2>1, Pow2Recursion
  <2>3. q < Shr(L, h) BY <2>1, <2>2, <1>2 DEF Right
  <2> QED BY <2>3 DEF Built
<1> QED BY <1>8, <1>9 DEF TreeRoot

(* treehash_init computes the root and prepares the state for leaf 0.        *)
LEMMA TreehashInitResult ==
  ASSUME NEW p, TreeParams(p), NEW a, NEW st, FullState(p, st)
  PROVE  LET built == TreehashInit(p, a, st)
         IN  Generated(p, a, st, built.root, built.state)
<1> DEFINE n == Pow2[p.th]
           x == Cleared(p, st)
<1>1. p.th \in Nat /\ n \in Nat BY Pow2Recursion DEF TreeParams
<1>2. PICK g : /\ g[0] = x
               /\ \A k \in 1..n : g[k] = AddLeaf(p, a, k - 1, g[k - 1])
               /\ TreehashInit(p, a, st).root = g[n].stack[0]
               /\ TreehashInit(p, a, st).state = Restored(g[n], st)
  BY <1>1, TreehashInitLoop
<1>3. /\ FullState(p, x)
      /\ x.offset = 0 /\ x.keep = st.keep /\ x.nextLeaf = st.nextLeaf
      /\ \A j \in Insts(p) : x.inst[j].h = j /\ x.inst[j].usage = 0
                             /\ x.inst[j].completed = TRUE
  BY ClearedFields
<1> HIDE DEF x
<1> DEFINE S == {k \in Nat : k <= n => Built(p, a, g[k], k) /\ SameFlags(p, x, g[k])}
<1>4. 0 \in S
  <2>1. Built(p, a, x, 0) BY <1>3, NothingBuilt
  <2>2. SameFlags(p, x, x) BY DEF SameFlags
  <2> QED BY <2>1, <2>2, <1>2
<1>5. ASSUME NEW k \in Nat, k \in S PROVE k + 1 \in S
  <2> SUFFICES ASSUME k + 1 <= n PROVE Built(p, a, g[k + 1], k + 1) /\ SameFlags(p, x, g[k + 1])
    OBVIOUS
  <2>1. k \in 0..(n - 1) /\ k + 1 \in 1..n /\ (k + 1) - 1 = k /\ k <= n
    <3> HIDE DEF n
    <3> QED BY <1>1
  <2>2. Built(p, a, g[k], k) /\ SameFlags(p, x, g[k]) BY <2>1, <1>5
  <2>3. g[k + 1] = AddLeaf(p, a, k, g[k]) BY <2>1, <1>2
  <2>4. Built(p, a, g[k + 1], k + 1) /\ SameFlags(p, g[k], g[k + 1])
    <3>1. k \in 0..(Pow2[p.th] - 1) BY <2>1
    <3>2. PICK s : s = g[k] OBVIOUS
    <3>3. Built(p, a, s, k) BY <2>2, <3>2
    <3>4. Built(p, a, AddLeaf(p, a, k, s), k + 1) /\ SameFlags(p, s, AddLeaf(p, a, k, s))
      BY ONLY TreeParams(p), <3>1, <3>3, AddLeafResult
    <3> QED BY <3>2, <3>4, <2>3
  <2>5. SameFlags(p, x, g[k + 1]) BY <2>2, <2>4 DEF SameFlags
  <2> QED BY <2>4, <2>5
<1>6. Nat \subseteq S
  <2> HIDE DEF S
  <2> QED BY <1>4, <1>5, SetInduction
<1>7. Built(p, a, g[n], n) /\ SameFlags(p, x, g[n]) BY <1>1, <1>6
<1> DEFINE m == g[n]
           t == Restored(m, st)
<1>8. /\ m.stack[0] = TreeRoot(p.th, a)
      /\ \A h \in 0..(p.th - 1) : \A q \in Right(p, h) : Saved(p, a, m, h, q)
  BY <1>7, AllBuilt
<1>9. FullState(p, m) BY <1>7 DEF Built
<1>10. SameFlags(p, x, m) BY <1>7
<1>11. TreehashInit(p, a, st).root = m.stack[0] /\ TreehashInit(p, a, st).state = t
  BY <1>2
<1> HIDE DEF m
<1>12. /\ FullState(p, t)
       /\ t.stack = st.stack /\ t.levels = st.levels /\ t.offset = st.offset
       /\ t.peak = st.peak
       /\ t.auth = m.auth /\ t.keep = m.keep /\ t.inst = m.inst
       /\ t.retain = m.retain /\ t.nextLeaf = m.nextLeaf
  BY <1>9, RestoredFields
<1> HIDE DEF t
<1>13. \A h \in 0..(p.th - 1) : \A q \in Right(p, h) : Saved(p, a, t, h, q)
  BY <1>8, <1>12 DEF Saved
<1>14. t.keep = st.keep /\ t.nextLeaf = st.nextLeaf BY <1>3, <1>10, <1>12 DEF SameFlags
<1>15. \A j \in Insts(p) : t.inst[j].h = j /\ t.inst[j].usage = 0 /\ t.inst[j].completed = TRUE
  BY <1>3, <1>10, <1>12 DEF SameFlags
<1>16. Generated(p, a, st, m.stack[0], t)
  BY <1>8, <1>12, <1>13, <1>14, <1>15 DEF Generated
<1> QED BY <1>11, <1>16

(* The stack is shared as it should be when there is nothing on it.         *)
LEMMA NothingShared ==
  ASSUME NEW p, TreeParams(p), NEW a, NEW st, st.offset = 0,
         \A j \in Insts(p) : st.inst[j].completed = TRUE
  PROVE  \E b : Shared(p, a, st, b)
<1> DEFINE b == [j \in 0..Instances(p) |-> 0]
<1>1. Instances(p) \in Nat BY ContendersRange
<1>2. \A j \in Insts(p) : b[j] = 0 /\ b[j + 1] = 0
  <2> TAKE j \in Insts(p)
  <2>1. j \in 0..Instances(p) /\ j + 1 \in 0..Instances(p) BY <1>1 DEF Insts
  <2> QED BY <2>1
<1>3. b \in [0..Instances(p) -> Nat] /\ b[0] = 0 /\ b[Instances(p)] = 0 BY <1>1
<1> HIDE DEF b
<1>4. Chain(p, st, b)
  <2>1. \A j \in Insts(p) : Held(st, j) \in Nat /\ b[j] = b[j + 1] + Held(st, j)
    <3> TAKE j \in Insts(p)
    <3>1. PICK u : u = Held(st, j) OBVIOUS
    <3>2. u = 0 BY <3>1 DEF Held
    <3>3. u \in Nat /\ b[j] = b[j + 1] + u BY <3>2, <1>2
    <3> QED BY <3>1, <3>3
  <2>2. b[0] = st.offset BY <1>3
  <2> QED BY <2>1, <2>2, <1>3 DEF Chain
<1>5. \A j \in Insts(p) : \A x : x \notin Own(b, j) BY <1>2 DEF Own
<1>6. \A x : x \notin 0..(st.offset - 1) OBVIOUS
<1>7. \A j \in Insts(p) : ~(Held(st, j) > 0)
  <2> TAKE j \in Insts(p)
  <2>1. Held(st, j) = 0 BY DEF Held
  <2> QED BY <2>1
<1>8. \A x : x \notin 0..(b[Instances(p)] - 1) BY <1>3
<1>9. Shared(p, a, st, b) BY <1>4, <1>5, <1>6, <1>7, <1>8 DEF Shared
<1> QED BY <1>9

(* All instances finished is as ready as can be.                             *)
LEMMA FinishedReady ==
  ASSUME NEW p, TreeParams(p), NEW a, NEW st, IsState(p, st), NEW x,
         \E b : Shared(p, a, st, b), st.peak \in 0..(p.th + 1),
         \A j \in Insts(p) : st.inst[j].completed
  PROVE  Ready(p, a, st, x)
BY DEF Ready, Work, InBudget

-----------------------------------------------------------------------------
\* The path of the next leaf.

(* What the state holds of the tree when the next signature uses leaf x: the  *)
(* path; the right node below every left one that comes next; all that       *)
(* retain is for; and in the finished instances the right nodes after those  *)
(* in the path.                                                              *)
Path(p, a, st, x) ==
  /\ FullState(p, st)
  /\ \A h \in 0..(p.th - 1) : st.auth[h] = Node(a, h, Sibling(Shr(x, h)))
  /\ \A h \in 0..(p.th - 2) :
       Bit(x, h) = 1 /\ Bit(x, h + 1) = 0 => st.keep[h \div 2] = Node(a, h, Shr(x, h))
  /\ \A h \in 0..(p.th - 1) : \A q \in Right(p, h) :
       h >= Instances(p) /\ q # 1
         => st.retain[RetainSlot(p, h, (q - 3) \div 2)] = Node(a, h, q)
  /\ \A j \in Insts(p) :
       st.inst[j].completed /\ 2 * Shr(x, j + 1) + 3 < Pow2[p.th - j]
         => st.inst[j].node = Node(a, j, 2 * Shr(x, j + 1) + 3)

(* The other child of the same parent.                                       *)
LEMMA SiblingIs ==
  ASSUME NEW z \in Nat
  PROVE  Sibling(2 * z) = 2 * z + 1 /\ Sibling(2 * z + 1) = 2 * z
<1>1. (2 * z) % 2 = 0 /\ (2 * z + 1) % 2 = 1 OBVIOUS
<1>2. (2 * z + 1) - 1 = 2 * z OBVIOUS
<1> QED BY <1>1, <1>2 DEF Sibling

(* A new tree has the path of leaf 0.                                        *)
LEMMA FirstPath ==
  ASSUME NEW p, TreeParams(p), NEW a, NEW t, FullState(p, t),
         \A h \in 0..(p.th - 1) : \A q \in Right(p, h) : Saved(p, a, t, h, q)
  PROVE  Path(p, a, t, 0)
<1>1. p.th \in Nat /\ Instances(p) \in Nat /\ Instances(p) <= p.th
  BY DEF TreeParams, Instances
<1>2. PICK x : x = 0 OBVIOUS
<1>3. x \in Nat BY <1>2
<1>4. ASSUME NEW n \in Nat PROVE Shr(x, n) = 0 /\ Bit(x, n) = 0
  <2>1. Pow2[n] \in Nat \ {0} BY Pow2Recursion
  <2>2. Shr(x, n) = 0 BY <1>2, <1>3, <2>1, ShrZero
  <2> QED BY <2>2 DEF Bit
<1>5. \A h \in 0..(p.th - 1) : \A q \in Right(p, h) : Saved(p, a, t, h, q) OBVIOUS
<1>6. ASSUME NEW h \in 0..(p.th - 1) PROVE t.auth[h] = Node(a, h, Sibling(Shr(x, h)))
  <2>1. p.th - h \in Nat /\ (p.th - h) - 1 \in Nat /\ ((p.th - h) - 1) + 1 = p.th - h /\ h \in Nat
    BY <1>1
  <2> DEFINE m == Pow2[(p.th - h) - 1]
  <2>2. m \in Nat \ {0} /\ Pow2[p.th - h] = 2 * m BY <2>1, Pow2Recursion
  <2> HIDE DEF m
  <2>3. 1 \in Right(p, h) BY <2>2 DEF Right
  <2>4. t.auth[h] = Node(a, h, 1) BY <2>3, <1>5 DEF Saved
  <2>5. Shr(x, h) = 0 BY <2>1, <1>4
  <2>6. Sibling(Shr(x, h)) = 1 BY <2>5 DEF Sibling
  <2> QED BY <2>4, <2>6
<1>7. \A h \in 0..(p.th - 2) : Bit(x, h) # 1
  <2> TAKE h \in 0..(p.th - 2)
  <2>1. h \in Nat OBVIOUS
  <2> QED BY <2>1, <1>4
<1>8. ASSUME NEW h \in 0..(p.th - 1), NEW q \in Right(p, h), h >= Instances(p), q # 1
      PROVE  t.retain[RetainSlot(p, h, (q - 3) \div 2)] = Node(a, h, q)
  BY <1>5, <1>8 DEF Saved
<1>9. ASSUME NEW j \in Insts(p), 2 * Shr(x, j + 1) + 3 < Pow2[p.th - j]
      PROVE  t.inst[j].node = Node(a, j, 2 * Shr(x, j + 1) + 3)
  <2>1. j \in Nat /\ j + 1 \in Nat /\ j \in 0..(p.th - 1) /\ j < Instances(p) /\ p.th - j \in Nat
    BY <1>1 DEF Insts
  <2>2. Shr(x, j + 1) = 0 BY <2>1, <1>4
  <2>3. 2 * Shr(x, j + 1) + 3 = 3 BY <2>2
  <2>4. Pow2[p.th - j] \in Nat BY <2>1, Pow2Recursion
  <2>5. 3 \in Right(p, j) BY <2>3, <2>4, <1>9 DEF Right
  <2>6. t.inst[j].node = Node(a, j, 3) BY <2>1, <2>5, <1>5 DEF Saved
  <2> QED BY <2>3, <2>6
<1>10. FullState(p, t) OBVIOUS
<1>11. Path(p, a, t, x) BY <1>6, <1>7, <1>8, <1>9, <1>10 DEF Path
<1> QED BY <1>2, <1>11

(* keep after bds_round.                                                     *)
LEMMA KeepFields ==
  ASSUME NEW p, TreeParams(p), NEW st, FullState(p, st), NEW x \in Nat, x < Pow2[p.th] - 1
  PROVE  LET t == Tau(p, x)
             kept == Keep(p, st, x)
         IN  /\ kept = [s \in 0..((p.th \div 2) - 1) |-> kept[s]]
             /\ \A s \in 0..((p.th \div 2) - 1) :
                  /\ Bit(x, t + 1) = 0 /\ t < p.th - 1 /\ s = t \div 2 => kept[s] = st.auth[t]
                  /\ ~(Bit(x, t + 1) = 0 /\ t < p.th - 1 /\ s = t \div 2) => kept[s] = st.keep[s]
<1> DEFINE t == Tau(p, x)
           D == 0..((p.th \div 2) - 1)
           kept == Keep(p, st, x)
<1>1. st.keep = [s \in D |-> st.keep[s]] BY DEF FullState
<1>2. kept = IF Bit(x, t + 1) = 0 /\ t < p.th - 1
             THEN [st.keep EXCEPT ![t \div 2] = st.auth[t]] ELSE st.keep
  BY DEF Keep
<1> DEFINE c == t \div 2
           w == Bit(x, t + 1) = 0 /\ t < p.th - 1
<1>3. kept = IF w THEN [st.keep EXCEPT ![c] = st.auth[t]] ELSE st.keep BY <1>2
<1> HIDE DEF D, t, kept, c, w
<1>4. kept = [s \in D |-> IF w /\ s = c THEN st.auth[t] ELSE st.keep[s]]
  <2>1. CASE w
    <3>1. kept = [st.keep EXCEPT ![c] = st.auth[t]] BY <2>1, <1>3
    <3> QED BY ONLY <3>1, <2>1, <1>1
  <2>2. CASE ~w
    <3>1. kept = st.keep BY <2>2, <1>3
    <3> QED BY ONLY <3>1, <2>2, <1>1
  <2> QED BY <2>1, <2>2
<1>5. /\ kept = [s \in D |-> kept[s]]
      /\ \A s \in D : /\ w /\ s = c => kept[s] = st.auth[t]
                      /\ ~(w /\ s = c) => kept[s] = st.keep[s]
  BY ONLY <1>4
<1> QED BY <1>5 DEF D, t, kept, c, w

(* The bits and the shifts of the next leaf's number. *)
LEMMA LeafAfter ==
  ASSUME NEW p, TreeParams(p), NEW x \in Nat, x < Pow2[p.th] - 1
  PROVE  LET t == Tau(p, x) IN
         /\ t \in 0..(p.th - 1)
         /\ \A n \in 0..(t - 1) : Bit(x, n) = 1 /\ Bit(x + 1, n) = 0
         /\ \A n \in 0..t : Shr(x + 1, n) = Shr(x, n) + 1
         /\ \A n \in Nat : n > t => Shr(x + 1, n) = Shr(x, n) /\ Bit(x + 1, n) = Bit(x, n)
         /\ Bit(x, t) = 0 /\ Bit(x + 1, t) = 1
         /\ x + 1 \in Nat /\ x + 1 < Pow2[p.th]
         /\ \A h \in 0..p.th : Shr(x + 1, h) \in 0..(Pow2[p.th - h] - 1)
<1> DEFINE t == Tau(p, x)
<1>1. /\ t \in 0..(p.th - 1)
      /\ \A n \in 0..(t - 1) : Bit(x, n) = 1
      /\ Bit(x, t) = 0
  BY TauIs
<1>2. t \in Nat /\ p.th \in Nat BY <1>1 DEF TreeParams
<1> HIDE DEF t
<1>3. \A n \in 0..t : Shr(x + 1, n) = Shr(x, n) + 1 BY <1>1, <1>2, Ones
<1>4. /\ \A n \in Nat : n > t => Shr(x + 1, n) = Shr(x, n) /\ Bit(x + 1, n) = Bit(x, n)
      /\ Bit(x + 1, t) = 1
  BY <1>1, <1>2, Carry
<1>5. \A n \in 0..(t - 1) : Bit(x + 1, n) = 0 BY <1>1, <1>2, OnesClear
<1>6. x + 1 \in Nat /\ x + 1 < Pow2[p.th]
  <2>1. Pow2[p.th] \in Nat BY <1>2, Pow2Recursion
  <2> QED BY <2>1
<1>7. \A h \in 0..p.th : Shr(x + 1, h) \in 0..(Pow2[p.th - h] - 1)
  <2> DEFINE y == x + 1
  <2>1. y \in Nat /\ y < Pow2[p.th] BY <1>6
  <2> HIDE DEF y
  <2>2. \A h \in 0..p.th : Shr(y, h) \in 0..(Pow2[p.th - h] - 1) BY <2>1, <1>2, IndexRange
  <2> QED BY <2>2 DEF y
<1> QED BY <1>1, <1>3, <1>4, <1>5, <1>6, <1>7 DEF t

(* Below tau the next path takes the right nodes, from the instances, which   *)
(* have finished them, or from retain.                                       *)
LEMMA TakenRight ==
  ASSUME NEW p, TreeParams(p), NEW a, NEW st, NEW x \in Nat, x < Pow2[p.th] - 1,
         Ready(p, a, st, x), Path(p, a, st, x), NEW h \in 0..(Tau(p, x) - 1)
  PROVE  /\ h < Instances(p) => st.inst[h].node = Node(a, h, Sibling(Shr(x + 1, h)))
         /\ h >= Instances(p) =>
              st.retain[RetainSlot(p, h, (Shr(x, h) - 1) \div 2)]
                = Node(a, h, Sibling(Shr(x + 1, h)))
<1> DEFINE t == Tau(p, x)
           z == Shr(x, h + 1)
           m == Pow2[p.th - h]
           N == Instances(p)
<1>1. /\ t \in 0..(p.th - 1)
      /\ \A n \in 0..(t - 1) : Bit(x, n) = 1 /\ Bit(x + 1, n) = 0
      /\ \A n \in 0..t : Shr(x + 1, n) = Shr(x, n) + 1
      /\ \A n \in 0..p.th : Shr(x + 1, n) \in 0..(Pow2[p.th - n] - 1)
      /\ x + 1 \in Nat
  BY LeafAfter
<1>2. /\ h \in Nat /\ h + 1 \in Nat /\ h \in 0..t /\ h + 1 \in 0..t /\ h \in 0..(t - 1)
      /\ h \in 0..p.th /\ h \in 0..(p.th - 1) /\ t \in Nat /\ p.th - h \in Nat /\ p.th \in Nat
      /\ h < t /\ N \in Nat
  BY <1>1 DEF TreeParams, Instances
<1>3. m \in Nat BY <1>2, Pow2Recursion
<1>4. z \in Nat BY <1>2, ShrHalves
<1>5. Shr(x, h) = 2 * z + 1
  <2>1. Bit(x, h) = 1 BY <1>1, <1>2
  <2> QED BY <2>1, <1>2, BitValue
<1>6. Shr(x + 1, h) = 2 * (z + 1)
  <2>1. Shr(x + 1, h) = Shr(x, h) + 1 BY <1>1, <1>2
  <2> QED BY <2>1, <1>4, <1>5
<1>7. Shr(x + 1, h) <= m - 1 BY <1>1, <1>2
<1> HIDE DEF z, m, t
<1>8. Sibling(Shr(x + 1, h)) = 2 * z + 3
  <2>1. z + 1 \in Nat BY <1>4
  <2>2. Sibling(2 * (z + 1)) = 2 * (z + 1) + 1 BY ONLY <2>1, SiblingIs
  <2> QED BY <2>2, <1>4, <1>6
<1>9. 2 * z + 3 < m
  <2>1. m % 2 = 0
    <3>1. p.th - h - 1 \in Nat /\ (p.th - h - 1) + 1 = p.th - h BY <1>1, <1>2 DEF t
    <3> DEFINE c == Pow2[p.th - h - 1]
    <3>2. c \in Nat /\ m = 2 * c BY <3>1, Pow2Recursion DEF m
    <3> HIDE DEF c
    <3> QED BY <3>2
  <2>2. 2 * z + 2 <= m - 1 BY <1>4, <1>6, <1>7
  <2> QED BY <2>1, <2>2, <1>3, <1>4
<1>10. 2 * z + 3 \in Right(p, h)
  <2>1. 2 * z + 3 \in Int /\ 2 * z + 3 >= 1 /\ (2 * z + 3) % 2 = 1 BY <1>4
  <2>2. 2 * z + 3 \in 1..(m - 1) BY <2>1, <1>3, <1>9
  <2> QED BY <2>1, <2>2 DEF Right, m
<1>11. ASSUME h < N PROVE st.inst[h].node = Node(a, h, 2 * z + 3)
  <2>1. h \in Insts(p) BY <1>2, <1>11 DEF Insts
  <2>2. \A n \in 0..(t - 1) : Bit(x, n) = 1 BY <1>1
  <2>3. st.inst[h].completed BY <2>1, <2>2, <1>2, ReadyOnTime
  <2> QED BY <2>1, <2>3, <1>9 DEF Path, z, m
<1>12. ASSUME h >= N
       PROVE  st.retain[RetainSlot(p, h, (Shr(x, h) - 1) \div 2)] = Node(a, h, 2 * z + 3)
  <2>1. (Shr(x, h) - 1) \div 2 = ((2 * z + 3) - 3) \div 2
    <3>1. Shr(x, h) - 1 = (2 * z + 3) - 3 BY <1>4, <1>5
    <3> QED BY <3>1
  <2>2. 2 * z + 3 # 1 BY <1>4
  <2>3. st.retain[RetainSlot(p, h, ((2 * z + 3) - 3) \div 2)] = Node(a, h, 2 * z + 3)
    BY <2>2, <1>2, <1>10, <1>12 DEF Path
  <2> QED BY <2>1, <2>3
<1> QED BY <1>8, <1>11, <1>12

(* The next path is the path of the next leaf.                               *)
LEMMA NextPathIs ==
  ASSUME NEW p, TreeParams(p), NEW a, NEW st, NEW x \in Nat, x < Pow2[p.th] - 1,
         Ready(p, a, st, x), Path(p, a, st, x), NEW h \in 0..(p.th - 1)
  PROVE  NextPath(p, a, st, x)[h] = Node(a, h, Sibling(Shr(x + 1, h)))
<1> DEFINE t == Tau(p, x)
<1>1. /\ t \in 0..(p.th - 1)
      /\ \A n \in 0..(t - 1) : Bit(x, n) = 1
      /\ \A n \in 0..t : Shr(x + 1, n) = Shr(x, n) + 1
      /\ \A n \in Nat : n > t => Shr(x + 1, n) = Shr(x, n)
      /\ Bit(x, t) = 0
      /\ x + 1 \in Nat
  BY LeafAfter
<1>2. t \in Nat /\ h \in Nat /\ p.th \in Nat BY <1>1 DEF TreeParams
<1>3. CASE h < t
  <2>1. h \in 0..(t - 1) BY <1>2, <1>3
  <2>2. /\ h < Instances(p) => st.inst[h].node = Node(a, h, Sibling(Shr(x + 1, h)))
        /\ h >= Instances(p) =>
             st.retain[RetainSlot(p, h, (Shr(x, h) - 1) \div 2)]
               = Node(a, h, Sibling(Shr(x + 1, h)))
    BY <2>1, TakenRight
  <2>3. Instances(p) \in Nat BY DEF TreeParams, Instances
  <2>4. NextPath(p, a, st, x)[h]
          = IF h < Instances(p) THEN st.inst[h].node
            ELSE st.retain[RetainSlot(p, h, (Shr(x, h) - 1) \div 2)]
    BY <1>3 DEF NextPath
  <2> QED BY <2>2, <2>3, <2>4, <1>2
<1>4. CASE h = t
  <2> DEFINE z == Shr(x, t + 1)
  <2>1. z \in Nat /\ Shr(x, t) = 2 * z
    <3>1. z \in Nat /\ Shr(x, t) = 2 * z + Bit(x, t)
      <4>1. t + 1 \in Nat BY <1>2
      <4> QED BY <4>1, <1>2, BitValue, ShrHalves
    <3> QED BY <3>1, <1>1
  <2>2. Sibling(Shr(x + 1, t)) = Shr(x, t)
    <3>1. t \in 0..t BY <1>2
    <3>2. Shr(x + 1, t) = 2 * z + 1 BY <3>1, <2>1, <1>1
    <3> HIDE DEF z, t
    <3>3. Sibling(2 * z + 1) = 2 * z BY <2>1, SiblingIs
    <3> QED BY <3>2, <3>3, <2>1
  <2>3. CASE t = 0
    <3>1. NextPath(p, a, st, x)[h] = GenLeaf(a, x) BY <2>3, <1>4 DEF NextPath
    <3>2. Shr(x, t) = x BY <2>3, ShrNone
    <3> QED BY <3>1, <3>2, <2>2, <2>3, <1>4 DEF GenLeaf
  <2>4. CASE t # 0
    <3> DEFINE g == t - 1
               y == Shr(x, t)
    <3>1. g \in Nat /\ g + 1 = t /\ g \in 0..(t - 1) /\ g \in 0..(p.th - 2) /\ g \in 0..(p.th - 1)
      BY <2>4, <1>1, <1>2
    <3>2. Bit(x, g) = 1 /\ Bit(x, g + 1) = 0 BY <3>1, <1>1
    <3>3. y \in Nat BY <1>2, ShrHalves
    <3>4. Shr(x, g) = 2 * y + 1
      <4>1. Shr(x, g) = 2 * Shr(x, g + 1) + Bit(x, g) BY <3>1, BitValue
      <4> QED BY <4>1, <3>1, <3>2
    <3>5. st.keep[g \div 2] = Node(a, g, Shr(x, g)) BY <3>1, <3>2 DEF Path
    <3>6. st.auth[g] = Node(a, g, 2 * y)
      <4>1. st.auth[g] = Node(a, g, Sibling(Shr(x, g))) BY <3>1 DEF Path
      <4> HIDE DEF y
      <4>2. Sibling(2 * y + 1) = 2 * y BY <3>3, SiblingIs
      <4> QED BY <4>1, <4>2, <3>4
    <3>7. NextPath(p, a, st, x)[h]
            = HashPair(a, t - 1, Shr(x, t), st.auth[t - 1], OldKeep(p, st, x))
      BY <2>4, <1>4 DEF NextPath
    <3>8. OldKeep(p, st, x) = st.keep[g \div 2] BY DEF OldKeep
    <3>9. HashPair(a, g, y, Node(a, g, 2 * y), Node(a, g, 2 * y + 1)) = Node(a, g + 1, y)
      BY DEF HashPair
    <3>10. NextPath(p, a, st, x)[h] = Node(a, g + 1, y)
      BY <3>4, <3>5, <3>6, <3>7, <3>8, <3>9
    <3> QED BY <3>1, <3>10, <2>2, <1>4
  <2> QED BY <2>3, <2>4
<1>5. CASE h > t
  <2>1. NextPath(p, a, st, x)[h] = st.auth[h] BY <1>2, <1>5 DEF NextPath
  <2>2. Shr(x + 1, h) = Shr(x, h) BY <1>1, <1>2, <1>5
  <2> QED BY <2>1, <2>2 DEF Path
<1> QED BY <1>2, <1>3, <1>4, <1>5

(* bds_round takes the state from the path of leaf x to that of leaf x + 1.  *)
LEMMA RoundPath ==
  ASSUME NEW p, TreeParams(p), NEW a, NEW st, NEW x \in Nat, x < Pow2[p.th] - 1,
         Ready(p, a, st, x), Path(p, a, st, x)
  PROVE  Path(p, a, BdsRound(p, a, st, x), x + 1)
<1> DEFINE s == BdsRound(p, a, st, x)
           t == Tau(p, x)
           N == Instances(p)
           L == Pow2[p.th]
           start(j) == x + 1 + 3 * Pow2[j]
<1>1. /\ t \in 0..(p.th - 1)
      /\ \A n \in 0..(t - 1) : Bit(x, n) = 1 /\ Bit(x + 1, n) = 0
      /\ \A n \in 0..t : Shr(x + 1, n) = Shr(x, n) + 1
      /\ \A n \in Nat : n > t => Shr(x + 1, n) = Shr(x, n) /\ Bit(x + 1, n) = Bit(x, n)
      /\ Bit(x, t) = 0 /\ Bit(x + 1, t) = 1
      /\ x + 1 \in Nat
  BY LeafAfter
<1>2. t \in Nat /\ p.th \in Nat /\ p.th # 0 /\ N \in Nat /\ N <= p.th /\ L \in Nat
  BY <1>1, Pow2Recursion DEF TreeParams, Instances
<1>3. FullState(p, st) BY DEF Path
<1>4. Rounded(p, a, st, x, s)
  <2>1. IsState(p, st) BY <1>3 DEF FullState
  <2> QED BY <2>1, RoundFields
<1>5. LET kept == Keep(p, st, x)
      IN  /\ kept = [n \in 0..((p.th \div 2) - 1) |-> kept[n]]
          /\ \A n \in 0..((p.th \div 2) - 1) :
               /\ Bit(x, t + 1) = 0 /\ t < p.th - 1 /\ n = t \div 2 => kept[n] = st.auth[t]
               /\ ~(Bit(x, t + 1) = 0 /\ t < p.th - 1 /\ n = t \div 2) => kept[n] = st.keep[n]
  BY <1>3, KeepFields
<1>6. \A h \in 0..(p.th - 1) : NextPath(p, a, st, x)[h] = Node(a, h, Sibling(Shr(x + 1, h)))
  BY NextPathIs
<1>7. /\ IsState(p, s) /\ s.retain = st.retain
      /\ s.keep = Keep(p, st, x) /\ s.auth = NextPath(p, a, st, x)
      /\ \A j \in Insts(p) :
           /\ j < t /\ start(j) < L
                => s.inst[j] = [h |-> j, next |-> start(j), usage |-> 0,
                                completed |-> FALSE, node |-> st.inst[j].node]
           /\ ~(j < t /\ start(j) < L) => s.inst[j] = st.inst[j]
  <2> HIDE DEF s
  <2> QED BY <1>4 DEF Rounded
<1> HIDE DEF s, t, L
<1>8. FullState(p, s)
  <2>1. s.auth = [h \in 0..(p.th - 1) |-> s.auth[h]]
    <3>1. NextPath(p, a, st, x) = [h \in 0..(p.th - 1) |-> NextPath(p, a, st, x)[h]]
      BY DEF NextPath
    <3> QED BY <3>1, <1>7
  <2>2. s.keep = [n \in 0..((p.th \div 2) - 1) |-> s.keep[n]] BY <1>5, <1>7
  <2>3. s.retain = [n \in 0..(Pow2[p.k] - p.k - 2) |-> s.retain[n]]
    BY <1>3, <1>7 DEF FullState
  <2> QED BY <2>1, <2>2, <2>3, <1>7 DEF FullState
<1>9. ASSUME NEW h \in 0..(p.th - 2), Bit(x + 1, h) = 1, Bit(x + 1, h + 1) = 0
      PROVE  s.keep[h \div 2] = Node(a, h, Shr(x + 1, h))
  <2>1. h \in Nat /\ h + 1 \in Nat /\ h \in 0..(p.th - 1) BY <1>2
  <2>2. h \div 2 \in 0..((p.th \div 2) - 1) BY <1>2
  <2>3. ~(h < t)
    <3>1. SUFFICES ASSUME h < t PROVE FALSE OBVIOUS
    <3>2. h \in 0..(t - 1) BY <3>1, <1>2
    <3>3. Bit(x + 1, h) = 0 BY <3>2, <1>1
    <3> QED BY <3>3, <1>9
  <2>4. CASE h = t
    <3>1. Bit(x, t + 1) = 0
      <4>1. t + 1 \in Nat /\ t + 1 > t BY <1>2
      <4> QED BY <4>1, <2>4, <1>1, <1>9
    <3>2. t < p.th - 1 BY <2>4, <1>2
    <3>3. s.keep[h \div 2] = st.auth[t] BY <2>2, <2>4, <3>1, <3>2, <1>5, <1>7
    <3>4. st.auth[t] = Node(a, t, Sibling(Shr(x, t))) BY <2>1, <2>4 DEF Path
    <3> DEFINE z == Shr(x, t + 1)
    <3>5. z \in Nat /\ Shr(x, t) = 2 * z
      <4>1. t + 1 \in Nat BY <1>2
      <4>2. z \in Nat /\ Shr(x, t) = 2 * z + Bit(x, t) BY <4>1, <1>2, BitValue, ShrHalves
      <4> QED BY <4>2, <1>1
    <3>6. Shr(x + 1, t) = 2 * z + 1
      <4>1. t \in 0..t BY <1>2
      <4> QED BY <4>1, <3>5, <1>1
    <3> HIDE DEF z
    <3>7. Sibling(2 * z) = 2 * z + 1 BY <3>5, SiblingIs
    <3> QED BY <3>3, <3>4, <3>5, <3>6, <3>7, <2>4
  <2>5. CASE h > t
    <3>1. Bit(x, h) = 1 /\ Bit(x, h + 1) = 0 /\ Shr(x + 1, h) = Shr(x, h)
      <4>1. h + 1 > t BY <2>1, <2>5, <1>2
      <4> QED BY <4>1, <2>1, <2>5, <1>1, <1>9
    <3>2. ~(Bit(x, t + 1) = 0 /\ h \div 2 = t \div 2)
      <4>1. SUFFICES ASSUME Bit(x, t + 1) = 0, h \div 2 = t \div 2 PROVE FALSE OBVIOUS
      <4>2. h = t + 1 BY <4>1, <2>1, <2>5, <1>2
      <4> QED BY <4>1, <4>2, <3>1
    <3>3. s.keep[h \div 2] = st.keep[h \div 2]
      <4>1. PICK n : n = h \div 2 OBVIOUS
      <4>2. n \in 0..((p.th \div 2) - 1) /\ ~(Bit(x, t + 1) = 0 /\ t < p.th - 1 /\ n = t \div 2)
        BY <4>1, <2>2, <3>2
      <4>3. Keep(p, st, x)[n] = st.keep[n] BY ONLY <4>2, <1>5
      <4> QED BY <4>1, <4>3, <1>7
    <3>4. st.keep[h \div 2] = Node(a, h, Shr(x, h)) BY <3>1 DEF Path
    <3> QED BY <3>1, <3>3, <3>4
  <2> QED BY <2>1, <2>3, <2>4, <2>5, <1>2
<1>10. ASSUME NEW j \in Insts(p), s.inst[j].completed,
              2 * Shr(x + 1, j + 1) + 3 < Pow2[p.th - j]
       PROVE  s.inst[j].node = Node(a, j, 2 * Shr(x + 1, j + 1) + 3)
  <2>1. j \in Nat /\ j + 1 \in Nat /\ p.th - j \in Nat /\ j + (p.th - j) = p.th
    BY <1>2 DEF Insts
  <2>2. ~(j < t /\ start(j) < L)
    <3>1. SUFFICES ASSUME j < t /\ start(j) < L PROVE FALSE OBVIOUS
    <3> HIDE DEF start
    <3>2. PICK u : u = s.inst[j] OBVIOUS
    <3>3. PICK w, nd : w = start(j) /\ nd = st.inst[j].node OBVIOUS
    <3>4. u = [h |-> j, next |-> w, usage |-> 0, completed |-> FALSE, node |-> nd]
      BY <3>1, <3>2, <3>3, <1>7
    <3>5. u.completed = FALSE BY ONLY <3>4
    <3> QED BY <3>2, <3>5, <1>10
  <2>3. s.inst[j] = st.inst[j]
    <3> HIDE DEF start
    <3> QED BY <2>2, <1>7
  <2>4. CASE j < t
    <3> DEFINE y == start(j)
    <3>1. ~(y < L) BY <2>2, <2>4
    <3>2. j \in 0..(t - 1) BY <2>1, <2>4, <1>2
    <3>3. y \in Nat /\ Shr(y, j) = 2 * Shr(x + 1, j + 1) + 3 BY <3>2, <1>1, <1>2, StartIs
    <3> HIDE DEF y
    <3>4. Shr(y, j) \in Nat BY <3>3, <2>1, ShrHalves
    <3>5. Shr(Shr(y, j), p.th - j) = Shr(y, p.th)
      <4>1. Shr(Shr(y, j), p.th - j) = Shr(y, j + (p.th - j)) BY <3>3, <2>1, ShrSum
      <4> QED BY <4>1, <2>1
    <3>6. Shr(Shr(y, j), p.th - j) = 0
      <4>1. Shr(y, j) < Pow2[p.th - j] BY <3>3, <1>10
      <4> QED BY <4>1, <3>4, <2>1, ShrZero
    <3>7. y < L BY <3>3, <3>5, <3>6, <1>2, ShrZero DEF L
    <3> QED BY <3>1, <3>7
  <2>5. CASE ~(j < t)
    <3>1. j + 1 > t BY <2>1, <2>5, <1>2
    <3>2. Shr(x + 1, j + 1) = Shr(x, j + 1) BY <3>1, <2>1, <1>1
    <3> QED BY <3>2, <2>3, <1>10 DEF Path
  <2> QED BY <2>4, <2>5
<1>11. \A h \in 0..(p.th - 1) : \A q \in Right(p, h) :
         h >= Instances(p) /\ q # 1
           => s.retain[RetainSlot(p, h, (q - 3) \div 2)] = Node(a, h, q)
  BY <1>7 DEF Path
<1>12. \A h \in 0..(p.th - 1) : s.auth[h] = Node(a, h, Sibling(Shr(x + 1, h)))
  BY <1>6, <1>7
<1>13. Path(p, a, s, x + 1) BY <1>8, <1>9, <1>10, <1>11, <1>12 DEF Path
<1> QED BY <1>13 DEF s

(* The updates finish nodes and disturb none.                                *)
LEMMA UpdatedPath ==
  ASSUME NEW p, NEW a, NEW st, NEW x, Path(p, a, st, x), NEW t, NEW n,
         Updated(p, a, st, t, x, n), \A j \in Insts(p) : st.inst[j].completed \in BOOLEAN
  PROVE  Path(p, a, t, x)
<1>1. /\ IsState(p, t)
      /\ t.auth = st.auth /\ t.keep = st.keep /\ t.retain = st.retain
      /\ \A j \in Insts(p) :
           /\ st.inst[j].completed => t.inst[j] = st.inst[j]
           /\ ~st.inst[j].completed /\ t.inst[j].completed
                => t.inst[j].node = Node(a, j, 2 * Shr(x, j + 1) + 3)
  BY DEF Updated
<1>2. FullState(p, t) BY <1>1 DEF Path, FullState
<1>3. ASSUME NEW j \in Insts(p), t.inst[j].completed,
             2 * Shr(x, j + 1) + 3 < Pow2[p.th - j]
      PROVE  t.inst[j].node = Node(a, j, 2 * Shr(x, j + 1) + 3)
  <2>1. CASE st.inst[j].completed
    <3>1. t.inst[j] = st.inst[j] BY <2>1, <1>1
    <3> QED BY <3>1, <2>1, <1>3 DEF Path
  <2>2. CASE ~st.inst[j].completed BY <2>2, <1>1, <1>3
  <2> QED BY <2>1, <2>2
<1> QED BY <1>1, <1>2, <1>3 DEF Path

(* One signature of leaf x leaves the path of leaf x + 1.                    *)
LEMMA PathAfterSign ==
  ASSUME NEW p, TreeParams(p), EnoughUpdates(p), NEW a, NEW st,
         NEW x \in Nat, x < Pow2[p.th] - 1, Ready(p, a, st, x), Path(p, a, st, x)
  PROVE  LET s == BdsRound(p, a, st, x)
             t == BdsTreehashUpdate(p, a, s, Instances(p) \div 2).st
         IN  Ready(p, a, t, x + 1) /\ Path(p, a, t, x + 1)
<1> DEFINE s == BdsRound(p, a, st, x)
           t == BdsTreehashUpdate(p, a, s, Instances(p) \div 2).st
<1>1. Ready(p, a, t, x + 1) /\ Updated(p, a, s, t, x + 1, Instances(p) \div 2)
  BY ReadyAfterSign
<1>2. Path(p, a, s, x + 1) BY RoundPath
<1>3. \A j \in Insts(p) : s.inst[j].completed \in BOOLEAN
  <2>1. \E b : Shared(p, a, s, b) BY RoundKeepsOrder
  <2> HIDE DEF s
  <2> QED BY <2>1 DEF Shared
<1> HIDE DEF s, t
<1>4. Path(p, a, t, x + 1) BY <1>1, <1>2, <1>3, UpdatedPath
<1> QED BY <1>1, <1>4 DEF s, t

(* The path in a state is the one the signer without state computes.         *)
LEMMA PathIsTreeAuth ==
  ASSUME NEW p, NEW a, NEW st, NEW x, Path(p, a, st, x)
  PROVE  st.auth = TreeAuth(p.th, a, x)
<1>1. st.auth = [h \in 0..(p.th - 1) |-> st.auth[h]] BY DEF Path, FullState
<1>2. \A h \in 0..(p.th - 1) : st.auth[h] = Node(a, h, Sibling(Shr(x, h))) BY DEF Path
<1> QED BY <1>1, <1>2 DEF TreeAuth

-----------------------------------------------------------------------------
\* The instances of a tree that shares the updates of a call with others.

(* Those that are not finished have no more left to do than half a tree's    *)
(* work each, and there are at most two of them for every update of a call.  *)
LEMMA TotalRange ==
  ASSUME NEW p, TreeParams(p), NEW st, Counted(p, st), NEW x \in Nat
  PROVE  /\ Demanded(p, st, x) \in Nat
         /\ Demanded(p, st, x) <= Contenders(p) * Pow2[p.th - 1]
<1> DEFINE M == Contenders(p)
           h == p.th - 1
           f == Demands(p, st, x, h)
           c == Pow2[h]
<1>1. M \in Nat /\ h \in Nat /\ M <= h
  <2>1. p.th \in Nat \ {0} BY DEF TreeParams
  <2>2. M \in Nat BY ContendersRange
  <2>3. M <= h
    <3>1. Instances(p) \in Nat BY ContendersRange
    <3> QED BY <2>1, <3>1 DEF Contenders
  <2> QED BY <2>1, <2>2, <2>3
<1>2. c \in Nat BY <1>1, Pow2Recursion
<1>3. /\ Demand(p, st, x, h) \in Int
      /\ \A i \in 0..(M - 1) : /\ i \in Insts(p) /\ i \in Nat
                               /\ f[i] = Load(st, h, i) + Again(x, h, i)
                               /\ Load(st, h, i) \in Nat /\ Again(x, h, i) \in Nat
  <2> HIDE DEF h
  <2> QED BY <1>1, DemandInt
<1>4. ASSUME NEW i \in 0..(M - 1) PROVE f[i] \in Nat /\ f[i] <= c
  <2> HIDE DEF M, h, f, c
  <2>1. i \in Insts(p) /\ i \in Nat /\ i < h BY <1>1, <1>3
  <2>2. Load(st, h, i) <= Pow2[i] BY <1>1, <2>1, LoadRange
  <2>3. Again(x, h, i) + Pow2[i] <= Pow2[h] BY <1>1, <2>1, AgainRange
  <2>4. Pow2[i] \in Nat /\ Pow2[h] \in Nat BY <1>1, <2>1, Pow2Recursion
  <2>5. f[i] = Load(st, h, i) + Again(x, h, i)
        /\ Load(st, h, i) \in Nat /\ Again(x, h, i) \in Nat
    BY <1>3
  <2> QED BY <2>2, <2>3, <2>4, <2>5 DEF c
<1>5. SumTo(f, M) <= M * c
  <2> HIDE DEF M, f, c
  <2>1. \A i \in 0..(M - 1) : f[i] \in Int /\ f[i] <= c
    <3> TAKE i \in 0..(M - 1)
    <3> QED BY <1>4
  <2> QED BY <1>1, <1>2, <2>1, SumBound
<1>6. 0 <= SumTo(f, M)
  <2> DEFINE z == [i \in 0..(M - 1) |-> 0]
  <2>1. SumTo(z, M) = 0
    <3> DEFINE S == {m \in Nat : m <= M => SumTo(z, m) = 0}
    <3>1. 0 \in S BY SumRecursion
    <3>2. ASSUME NEW m \in Nat, m \in S PROVE m + 1 \in S
      <4> SUFFICES ASSUME m + 1 <= M PROVE SumTo(z, m + 1) = 0
        OBVIOUS
      <4>1. m \in 0..(M - 1) /\ m <= M BY <1>1
      <4>2. z[m] = 0 BY <4>1
      <4>3. SumTo(z, m) = 0 BY <3>2, <4>1
      <4> HIDE DEF z, M
      <4>4. SumTo(z, m + 1) = SumTo(z, m) + z[m] BY SumRecursion
      <4> QED BY <4>2, <4>3, <4>4
    <3>3. Nat \subseteq S
      <4> HIDE DEF S
      <4> QED BY <3>1, <3>2, SetInduction
    <3> QED BY <1>1, <3>3
  <2>2. \A i \in 0..(M - 1) : z[i] = 0 OBVIOUS
  <2> HIDE DEF z, M, f
  <2>3. \A i \in 0..(M - 1) : z[i] \in Int /\ f[i] \in Int /\ z[i] <= f[i]
    <3> TAKE i \in 0..(M - 1)
    <3>1. z[i] = 0 BY <2>2
    <3>2. f[i] \in Nat BY <1>4
    <3> QED BY <3>1, <3>2
  <2>4. SumTo(z, M) <= SumTo(f, M) BY <1>1, <2>3, SumLeq
  <2> QED BY <2>1, <2>4
<1> HIDE DEF f
<1>7. SumTo(f, M) = Demanded(p, st, x) BY DEF Demanded, Demand, f
<1>8. Demand(p, st, x, h) = Demanded(p, st, x) BY DEF Demanded
<1> HIDE DEF M, h, c
<1>9. Demanded(p, st, x) \in Int BY <1>3, <1>8
<1> QED BY <1>5, <1>6, <1>7, <1>9 DEF c, M, h

(* A call for every leaf gives enough updates for all of it.                 *)
LEMMA TotalFits ==
  ASSUME NEW p, TreeParams(p), EnoughUpdates(p), NEW st, Counted(p, st), NEW x \in Nat
  PROVE  Demanded(p, st, x) <= (Instances(p) \div 2) * Pow2[p.th]
<1> DEFINE M == Contenders(p)
           B == Instances(p) \div 2
           c == Pow2[p.th - 1]
<1>1. p.th - 1 \in Nat /\ (p.th - 1) + 1 = p.th BY DEF TreeParams
<1>2. c \in Nat /\ Pow2[p.th] = 2 * c BY <1>1, Pow2Recursion
<1>3. M \in Nat /\ B \in Nat
  <2>1. Instances(p) \in Nat /\ M \in Nat BY ContendersRange
  <2> HIDE DEF M
  <2> QED BY <2>1
<1>4. M <= 2 * B BY ContendersHalf
<1>5. Demanded(p, st, x) \in Nat /\ Demanded(p, st, x) <= M * c BY TotalRange
<1>6. M * c <= (2 * B) * c
  <2> HIDE DEF M, B, c
  <2>1. PICK k : k = 2 * B - M OBVIOUS
  <2>2. k \in Nat /\ 2 * B = M + k BY <2>1, <1>3, <1>4
  <2>3. (M + k) * c = M * c + k * c /\ k * c \in Nat /\ M * c \in Nat BY ONLY <2>2, <1>2, <1>3
  <2> QED BY <2>2, <2>3
<1>7. (2 * B) * c = B * Pow2[p.th]
  <2> HIDE DEF B, c
  <2>1. (2 * B) * c = B * (2 * c) BY ONLY <1>2, <1>3
  <2> QED BY <2>1, <1>2
<1>8. (2 * B) * c \in Nat /\ M * c \in Nat
  <2> HIDE DEF B, c, M
  <2>1. 2 * B \in Nat BY <1>3
  <2> QED BY ONLY <2>1, <1>2, <1>3, TimesNat
<1> HIDE DEF M, B, c
<1> QED BY <1>5, <1>6, <1>7, <1>8 DEF B

(* The instances between two calls, the next one with leaf x: what was given  *)
(* out in the calls that did not take a leaf of this tree is spent.          *)
Serving(p, a, st, x, spent) ==
  /\ IsState(p, st)
  /\ \E b : Shared(p, a, st, b)
  /\ Work(p, st, x)
  /\ st.peak \in 0..(p.th + 1)
  /\ InBudget(p, st, x, spent)

(* What Serving says of the flags.                                           *)
LEMMA ServingCounted ==
  ASSUME NEW p, NEW a, NEW st, NEW x, NEW s, Serving(p, a, st, x, s)
  PROVE  Counted(p, st)
<1>1. PICK b : Shared(p, a, st, b) BY DEF Serving
<1> QED BY <1>1 DEF Shared, Counted

(* More spent is more than enough.                                           *)
LEMMA SpentLess ==
  ASSUME NEW p, TreeParams(p), NEW a, NEW st, NEW x \in Nat, NEW s \in Int, NEW r \in Int,
         r <= s, Serving(p, a, st, x, s)
  PROVE  Serving(p, a, st, x, r)
<1> SUFFICES ASSUME NEW h \in Insts(p), ~st.inst[h].completed
             PROVE  Demand(p, st, x, h) + r <= (Instances(p) \div 2) * Rem(x, h + 1)
  BY DEF Serving, InBudget
<1>1. Counted(p, st) BY ServingCounted
<1>2. h \in Nat /\ h + 1 \in Nat BY DEF Insts
<1>3. Demand(p, st, x, h) \in Int BY <1>1, <1>2, DemandInt
<1>4. (Instances(p) \div 2) * Rem(x, h + 1) \in Int
  <2>1. Instances(p) \in Nat BY ContendersRange
  <2>2. Instances(p) \div 2 \in Int BY <2>1
  <2>3. Rem(x, h + 1) \in Int BY <1>2, RemRange
  <2> QED BY <2>2, <2>3, TimesSucc
<1>5. Demand(p, st, x, h) + s <= (Instances(p) \div 2) * Rem(x, h + 1)
  BY DEF Serving, InBudget
<1> QED BY <1>3, <1>4, <1>5

(* A whole call's share spent is as ready as after a call for this tree.     *)
LEMMA ServingReady ==
  ASSUME NEW p, TreeParams(p), NEW a, NEW st, NEW x \in Nat, NEW s \in Int,
         Instances(p) \div 2 <= s, Serving(p, a, st, x, s)
  PROVE  Ready(p, a, st, x)
<1>1. Instances(p) \div 2 \in Int
  <2>1. Instances(p) \in Nat BY ContendersRange
  <2> QED BY <2>1
<1> DEFINE B == Instances(p) \div 2
<1>2. Serving(p, a, st, x, B)
  <2> HIDE DEF B
  <2> QED BY <1>1, SpentLess DEF B
<1> QED BY <1>2 DEF Serving, Ready

(* Without unfinished instances the stack is the same for every tree, and     *)
(* nothing is to be spent on them.                                           *)
LEMMA DoneServing ==
  ASSUME NEW p, TreeParams(p), NEW a, NEW st, NEW x, NEW s, Serving(p, a, st, x, s),
         AllDone(p, st), NEW b, NEW y, NEW r
  PROVE  Serving(p, b, st, y, r)
<1>1. PICK base : Shared(p, a, st, base) BY DEF Serving
<1>2. \A j \in Insts(p) : Held(st, j) = 0 BY DEF AllDone, Held
<1>3. ASSUME NEW j \in Insts(p) PROVE Own(base, j) = {}
  <2>1. base[j] = base[j + 1] + Held(st, j) BY <1>1 DEF Shared, Chain
  <2>2. base[j + 1] \in Nat
    <3>1. Instances(p) \in Nat BY ContendersRange
    <3>2. j + 1 \in 0..Instances(p) BY <3>1 DEF Insts
    <3> QED BY <3>2, <1>1 DEF Shared, Chain
  <2>3. base[j] = base[j + 1] BY <2>1, <2>2, <1>2
  <2> QED BY <2>2, <2>3 DEF Own
<1>4. Shared(p, b, st, base)
  <2>1. \A j \in Insts(p) : ~(Held(st, j) > 0)
    <3> TAKE j \in Insts(p)
    <3> QED BY <1>2
  <2>2. \A j \in Insts(p) : \A z : z \notin Own(base, j) BY <1>3
  <2>3. /\ Chain(p, st, base)
        /\ \A z \in 0..(base[Instances(p)] - 1) : st.levels[z] >= Instances(p)
        /\ \A z \in 0..(st.offset - 1) : st.levels[z] \in Nat /\ st.levels[z] + z <= p.th
        /\ \A z, v \in 0..(st.offset - 1) : z < v => st.levels[v] < st.levels[z]
    BY <1>1 DEF Shared
  <2>4. \A j \in Insts(p) : st.inst[j].completed \in BOOLEAN /\ st.inst[j].completed
    BY <1>1 DEF Shared, AllDone
  <2> QED BY <2>1, <2>2, <2>3, <2>4 DEF Shared
<1> QED BY <1>4 DEF Serving, AllDone, Work, InBudget

(* The updates a call gives to the instances of a tree.                      *)
LEMMA UpdatesServe ==
  ASSUME NEW p, TreeParams(p), NEW a, NEW st, NEW x \in Nat, NEW s \in Int,
         Serving(p, a, st, x, s), NEW u \in 0..127
  PROVE  LET r == BdsTreehashUpdate(p, a, st, u) IN
         /\ \E e \in 0..u : r.left = u - e /\ GivenOut(p, st, r.st, x, u, e)
         /\ Updated(p, a, st, r.st, x, u)
         /\ Serving(p, a, r.st, x, s + u)
<1> DEFINE r == BdsTreehashUpdate(p, a, st, u)
           t == r.st
<1>1. PICK base : Shared(p, a, st, base) BY DEF Serving
<1>2. Counted(p, st) BY ServingCounted
<1>3. \A i \in Insts(p) : Demand(p, st, x, i) \in Int
  <2> TAKE i \in Insts(p)
  <2>1. i \in Nat BY DEF Insts
  <2> QED BY <2>1, <1>2, DemandInt
<1>4. u \in Int /\ u \in Nat /\ Available(p, u) = u BY DEF Available
<1>5. IsState(p, st) /\ Work(p, st, x) /\ st.peak \in 0..(p.th + 1) BY DEF Serving
<1>6. /\ Updated(p, a, st, t, x, u)
      /\ \E e \in 0..u : r.left = Char(u - e) /\ GivenOut(p, st, t, x, u, e)
  BY <1>1, <1>3, <1>4, <1>5, UpdatesResult
<1>7. \E e \in 0..u : r.left = u - e /\ GivenOut(p, st, t, x, u, e)
  <2> HIDE DEF r
  <2>1. PICK e \in 0..u : r.left = Char(u - e) /\ GivenOut(p, st, t, x, u, e) BY <1>6
  <2>2. u - e \in 0..127 OBVIOUS
  <2>3. Char(u - e) = u - e
    <3>1. PICK d : d = u - e OBVIOUS
    <3>2. (d + 128) % 256 = d + 128 BY <3>1, <2>2
    <3> QED BY <3>1, <3>2, <2>2 DEF Char
  <2> QED BY <2>1, <2>3
<1> HIDE DEF t, r
<1>8. InBudget(p, t, x, s + u)
  <2> SUFFICES ASSUME NEW h \in Insts(p), ~t.inst[h].completed
               PROVE  Demand(p, t, x, h) + (s + u) <= (Instances(p) \div 2) * Rem(x, h + 1)
    BY DEF InBudget
  <2>1. Demand(p, t, x, h) + u = Demand(p, st, x, h)
    BY <1>6 DEF Updated
  <2>2. ~st.inst[h].completed
    <3>1. SUFFICES ASSUME st.inst[h].completed PROVE FALSE OBVIOUS
    <3>2. t.inst[h] = st.inst[h] BY <3>1, <1>6 DEF Updated
    <3> QED BY <3>1, <3>2
  <2>3. Demand(p, st, x, h) + s <= (Instances(p) \div 2) * Rem(x, h + 1)
    BY <2>2 DEF Serving, InBudget
  <2>4. Demand(p, t, x, h) \in Int
    <3>1. Counted(p, t) BY <1>6 DEF Updated, Shared, Counted
    <3>2. h \in Nat BY DEF Insts
    <3> QED BY <3>1, <3>2, DemandInt
  <2>5. Demand(p, st, x, h) = Demand(p, t, x, h) + u BY <2>1
  <2>6. (Demand(p, t, x, h) + u) + s = Demand(p, t, x, h) + (s + u) BY <2>4
  <2> QED BY <2>3, <2>5, <2>6
<1>9. Serving(p, a, t, x, s + u) BY <1>6, <1>8 DEF Serving, Updated
<1> QED BY <1>6, <1>7, <1>9 DEF t, r

(* More updates than the tree can need: they finish every instance.          *)
LEMMA UpdatesFinish ==
  ASSUME NEW p, TreeParams(p), NEW a, NEW st, NEW x \in Nat, NEW s,
         Serving(p, a, st, x, s)
  PROVE  LET t == BdsTreehashUpdate(p, a, st, -1).st IN
         /\ Updated(p, a, st, t, x, p.th * Pow2[p.th])
         /\ AllDone(p, t)
         /\ \A b, y, r : Serving(p, b, t, y, r)
<1> DEFINE n == p.th * Pow2[p.th]
           r == BdsTreehashUpdate(p, a, st, -1)
           t == r.st
<1>1. PICK base : Shared(p, a, st, base) BY DEF Serving
<1>2. Counted(p, st) BY ServingCounted
<1>3. \A i \in Insts(p) : Demand(p, st, x, i) \in Int
  <2> TAKE i \in Insts(p)
  <2>1. i \in Nat BY DEF Insts
  <2> QED BY <2>1, <1>2, DemandInt
<1>4. p.th \in Nat \ {0} /\ p.th - 1 \in Nat /\ (p.th - 1) + 1 = p.th BY DEF TreeParams
<1>5. n \in Nat
  <2>1. p.th \in Nat /\ Pow2[p.th] \in Nat BY <1>4, Pow2Recursion
  <2> QED BY ONLY <2>1, TimesNat
<1>6. -1 \in Int /\ Available(p, -1) = n BY DEF Available
<1>7. IsState(p, st) /\ Work(p, st, x) /\ st.peak \in 0..(p.th + 1) BY DEF Serving
<1> HIDE DEF n
<1>8. /\ Updated(p, a, st, t, x, n)
      /\ \E e \in 0..n : GivenOut(p, st, t, x, n, e)
  BY <1>1, <1>3, <1>5, <1>6, <1>7, UpdatesResult
<1> HIDE DEF t, r
<1>9. PICK e \in 0..n : GivenOut(p, st, t, x, n, e) BY <1>8
<1>10. Counted(p, t) BY <1>8 DEF Updated, Shared, Counted
<1>11. Demanded(p, t, x) \in Nat BY <1>10, TotalRange
<1>12. Demanded(p, st, x) \in Nat /\ Demanded(p, st, x) <= Contenders(p) * Pow2[p.th - 1]
  BY <1>2, TotalRange
<1>13. Contenders(p) * Pow2[p.th - 1] < n
  <2> DEFINE M == Contenders(p)
             c == Pow2[p.th - 1]
  <2>1. M \in Nat /\ M < p.th
    <3>1. M \in Nat /\ M <= Instances(p) /\ Instances(p) \in Nat BY ContendersRange
    <3> QED BY <3>1, <1>4 DEF Contenders
  <2>2. c \in Nat \ {0} /\ Pow2[p.th] = 2 * c BY <1>4, Pow2Recursion
  <2> HIDE DEF M, c
  <2>3. PICK k : k = p.th - M OBVIOUS
  <2>4. k \in Nat \ {0} /\ p.th = M + k BY <2>1, <2>3, <1>4
  <2>5. (M + k) * (2 * c) = M * c + (M * c + 2 * (k * c))
        /\ M * c \in Nat /\ k * c \in Nat
    BY ONLY <2>1, <2>2, <2>4
  <2>6. k * c > 0
    <3>1. PICK i : i = k - 1 OBVIOUS
    <3>2. i \in Nat /\ k = i + 1 BY <3>1, <2>4
    <3>3. (i + 1) * c = i * c + c /\ i * c \in Nat BY ONLY <3>2, <2>2, TimesSucc, TimesNat
    <3> QED BY <3>2, <3>3, <2>2
  <2>7. n = (M + k) * (2 * c) BY <2>2, <2>4 DEF n
  <2> QED BY <2>5, <2>6, <2>7 DEF M, c
<1>14. Demanded(p, t, x) = Demanded(p, st, x) - e BY <1>9 DEF GivenOut
<1>15. Contenders(p) * Pow2[p.th - 1] \in Int
  <2>1. Contenders(p) \in Nat BY ContendersRange
  <2>2. Pow2[p.th - 1] \in Nat BY <1>4, Pow2Recursion
  <2> QED BY <2>1, <2>2, TimesNat
<1>16. e < n BY <1>5, <1>11, <1>12, <1>13, <1>14, <1>15
<1>17. AllDone(p, t) BY <1>9, <1>16 DEF GivenOut
<1>18. Serving(p, a, t, x, 0) BY <1>8, <1>17 DEF Updated, Serving, InBudget, AllDone
<1>19. \A b, y, v : Serving(p, b, t, y, v) BY <1>17, <1>18, DoneServing
<1> QED BY <1>8, <1>17, <1>19 DEF n, t, r

(* The updates leave the shape of the state.                                 *)
LEMMA UpdatedFull ==
  ASSUME NEW p, NEW a, NEW st, NEW t, NEW x, NEW n, FullState(p, st),
         Updated(p, a, st, t, x, n)
  PROVE  FullState(p, t) /\ t.nextLeaf = st.nextLeaf
BY DEF Updated, FullState

(* So does bds_round.                                                        *)
LEMMA RoundFull ==
  ASSUME NEW p, TreeParams(p), NEW a, NEW st, FullState(p, st), NEW x \in Nat,
         x < Pow2[p.th] - 1
  PROVE  LET s == BdsRound(p, a, st, x) IN FullState(p, s) /\ s.nextLeaf = st.nextLeaf
<1> DEFINE s == BdsRound(p, a, st, x)
<1>1. Rounded(p, a, st, x, s)
  <2>1. IsState(p, st) BY DEF FullState
  <2> QED BY <2>1, RoundFields
<1>2. Keep(p, st, x) = [n \in 0..((p.th \div 2) - 1) |-> Keep(p, st, x)[n]]
  BY KeepFields
<1>3. NextPath(p, a, st, x) = [h \in 0..(p.th - 1) |-> NextPath(p, a, st, x)[h]]
  BY DEF NextPath
<1>4. st.retain = [n \in 0..(Pow2[p.k] - p.k - 2) |-> st.retain[n]] BY DEF FullState
<1> HIDE DEF s
<1>5. /\ IsState(p, s) /\ s.retain = st.retain /\ s.nextLeaf = st.nextLeaf
      /\ s.keep = Keep(p, st, x) /\ s.auth = NextPath(p, a, st, x)
  BY <1>1 DEF Rounded
<1>6. FullState(p, s) BY <1>2, <1>3, <1>4, <1>5 DEF FullState
<1> QED BY <1>5, <1>6 DEF s

(* The budget of the next leaf begins with its round.                        *)
LEMMA RoundServes ==
  ASSUME NEW p, TreeParams(p), EnoughUpdates(p), NEW a, NEW st,
         NEW x \in Nat, x < Pow2[p.th] - 1, Ready(p, a, st, x)
  PROVE  LET s == BdsRound(p, a, st, x) IN
         Serving(p, a, s, x + 1, 0) /\ Demanded(p, s, x + 1) <= Demanded(p, st, x)
<1> DEFINE s == BdsRound(p, a, st, x)
<1>1. /\ IsState(p, s)
      /\ \E b : Shared(p, a, s, b)
      /\ Work(p, s, x + 1)
      /\ s.peak \in 0..(p.th + 1)
      /\ InBudget(p, s, x + 1, 0)
      /\ Demanded(p, s, x + 1) <= Demanded(p, st, x)
  BY RoundKeepsOrder
<1> HIDE DEF s
<1>2. Serving(p, a, s, x + 1, 0) BY <1>1 DEF Serving
<1> QED BY <1>1, <1>2 DEF s

(* For the last two leaves of a tree no instance has anything to do.         *)
LEMMA QuietWork ==
  ASSUME NEW p, TreeParams(p), NEW st, NEW x \in Nat, Pow2[p.th] - 2 <= x, Work(p, st, x)
  PROVE  AllDone(p, st)
<1> SUFFICES ASSUME NEW j \in Insts(p), ~st.inst[j].completed PROVE FALSE
  BY DEF AllDone
<1> DEFINE q == Shr(x, j + 1)
           m == Pow2[j]
           w == Pow2[p.th - (j + 1)]
           y == st.inst[j].next
<1>1. j \in Nat /\ j + 1 \in Nat /\ p.th - (j + 1) \in Nat
      /\ (p.th - (j + 1)) + (j + 1) = p.th /\ p.th \in Nat
  <2>1. p.th \in Nat /\ Instances(p) \in Nat /\ Instances(p) <= p.th
    BY DEF TreeParams, Instances
  <2>2. j \in 0..(Instances(p) - 1) BY DEF Insts
  <2> QED BY <2>1, <2>2
<1>2. m \in Nat \ {0} /\ Pow2[j + 1] = 2 * m /\ w \in Nat \ {0}
  BY <1>1, Pow2Recursion
<1>3. Pow2[p.th] = w * (2 * m)
  <2>1. Pow2[(p.th - (j + 1)) + (j + 1)] = Pow2[p.th - (j + 1)] * Pow2[j + 1] BY <1>1, Pow2Sum
  <2> QED BY <2>1, <1>1, <1>2
<1>4. q \in Nat /\ x < (q + 1) * (2 * m)
  <2>1. x < (Shr(x, j + 1) + 1) * Pow2[j + 1] BY <1>1, RemRange
  <2>2. q \in Nat
    <3>1. PICK d : d = Pow2[j + 1] OBVIOUS
    <3>2. d \in Nat \ {0} BY <3>1, <1>1, Pow2Recursion
    <3>3. x \div d \in Nat BY <3>2
    <3> QED BY <3>1, <3>3 DEF Shr
  <2> QED BY <2>1, <2>2, <1>2
<1>5. y \in Nat /\ y < Pow2[p.th] /\ Shr(y, j) = 2 * q + 3
  <2>1. y \in 0..(Pow2[p.th] - 1) /\ Shr(y, j) = 2 * q + 3 BY DEF Work
  <2>2. Pow2[p.th] \in Nat BY <1>1, Pow2Recursion
  <2> HIDE DEF y, q
  <2> QED BY <2>1, <2>2
<1>6. Shr(y, j) * m <= y BY <1>1, <1>5, RemRange
<1> HIDE DEF q, m, w, y
<1>7. (2 * q + 3) * m <= y BY <1>5, <1>6
<1>8. w <= q + 1
  <2> SUFFICES ASSUME w > q + 1 PROVE FALSE BY <1>2, <1>4
  <2>1. PICK k : k = w - (q + 2) OBVIOUS
  <2>2. k \in Nat /\ w = (q + 1) + (k + 1) BY <2>1, <1>2, <1>4
  <2>3. ((q + 1) + (k + 1)) * (2 * m) = (q + 1) * (2 * m) + (k * (2 * m) + 2 * m)
        /\ k * (2 * m) \in Nat /\ (q + 1) * (2 * m) \in Nat
    BY ONLY <2>2, <1>2, <1>4
  <2>4. Pow2[p.th] = (q + 1) * (2 * m) + (k * (2 * m) + 2 * m) BY <2>2, <2>3, <1>3
  <2>5. PICK u, v : u = (q + 1) * (2 * m) /\ v = k * (2 * m) OBVIOUS
  <2>6. u \in Nat /\ v \in Nat /\ Pow2[p.th] = u + (v + 2 * m) /\ x < u BY <2>3, <2>4, <2>5, <1>4
  <2>7. m >= 1 /\ m \in Nat BY <1>2
  <2> QED BY <2>6, <2>7
<1>9. w * (2 * m) <= (q + 1) * (2 * m) /\ w * (2 * m) \in Nat /\ (q + 1) * (2 * m) \in Nat
  <2>1. PICK k : k = (q + 1) - w OBVIOUS
  <2>2. k \in Nat /\ q + 1 = w + k BY <2>1, <1>2, <1>4, <1>8
  <2>3. (w + k) * (2 * m) = w * (2 * m) + k * (2 * m) /\ k * (2 * m) \in Nat
        /\ w * (2 * m) \in Nat
    BY ONLY <2>2, <1>2
  <2> QED BY <2>2, <2>3
<1>10. (2 * q + 3) * m = (q + 1) * (2 * m) + m BY ONLY <1>2, <1>4
<1> QED BY <1>2, <1>3, <1>5, <1>7, <1>9, <1>10

(* The state of the next tree, when it takes over: every instance is marked  *)
(* as finished.                                                              *)
TakenOver(st) ==
  [st EXCEPT !.inst = [j \in DOMAIN st.inst |-> [st.inst[j] EXCEPT !.completed = TRUE]]]

(* Nothing else in it changes.                                               *)
LEMMA TakenOverFields ==
  ASSUME NEW p, NEW st, FullState(p, st)
  PROVE  LET t == TakenOver(st) IN
         /\ FullState(p, t)
         /\ t.stack = st.stack /\ t.levels = st.levels /\ t.offset = st.offset
         /\ t.auth = st.auth /\ t.retain = st.retain
         /\ t.nextLeaf = st.nextLeaf /\ t.peak = st.peak
         /\ \A j \in Insts(p) : t.inst[j].node = st.inst[j].node
                                /\ t.inst[j].completed = TRUE
<1>1. PICK u : u = TakenOver(st) OBVIOUS
<1> DEFINE inst == [j \in Insts(p) |-> [st.inst[j] EXCEPT !.completed = TRUE]]
<1>2. st = [stack |-> st.stack, levels |-> st.levels, offset |-> st.offset,
            auth |-> st.auth, keep |-> st.keep, inst |-> st.inst,
            retain |-> st.retain, nextLeaf |-> st.nextLeaf, peak |-> st.peak]
      /\ DOMAIN st.inst = Insts(p)
  <2>1. st.inst = [j \in Insts(p) |-> st.inst[j]] BY DEF FullState, IsState
  <2>2. DOMAIN st.inst = Insts(p) BY ONLY <2>1
  <2> QED BY <2>2 DEF FullState, IsState
<1>3. u = [st EXCEPT !.inst = inst] BY <1>1, <1>2, Zenon DEF TakenOver
<1> HIDE DEF inst
<1>4. u = [stack |-> st.stack, levels |-> st.levels, offset |-> st.offset,
           auth |-> st.auth, keep |-> st.keep, inst |-> inst,
           retain |-> st.retain, nextLeaf |-> st.nextLeaf, peak |-> st.peak]
  BY ONLY <1>2, <1>3
<1>5. /\ u.stack = st.stack /\ u.levels = st.levels /\ u.offset = st.offset
      /\ u.auth = st.auth /\ u.keep = st.keep /\ u.inst = inst
      /\ u.retain = st.retain /\ u.nextLeaf = st.nextLeaf /\ u.peak = st.peak
  BY ONLY <1>4
<1>6. u = [stack |-> u.stack, levels |-> u.levels, offset |-> u.offset,
           auth |-> u.auth, keep |-> u.keep, inst |-> u.inst,
           retain |-> u.retain, nextLeaf |-> u.nextLeaf, peak |-> u.peak]
  BY ONLY <1>4
<1>7. inst = [j \in Insts(p) |-> inst[j]] BY DEF inst
<1>8. ASSUME NEW j \in Insts(p)
      PROVE  /\ inst[j].node = st.inst[j].node /\ inst[j].completed = TRUE
             /\ IsInstance(inst[j])
  <2>1. PICK v : v = st.inst[j] OBVIOUS
  <2>2. PICK y : y = inst[j] OBVIOUS
  <2>3. IsInstance(v) BY <2>1 DEF FullState, IsState
  <2>4. y = [v EXCEPT !.completed = TRUE] BY <2>1, <2>2 DEF inst
  <2>5. y = [h |-> v.h, next |-> v.next, usage |-> v.usage, completed |-> TRUE,
             node |-> v.node]
    BY ONLY <2>3, <2>4 DEF IsInstance
  <2>6. y.node = v.node /\ y.completed = TRUE /\ IsInstance(y) BY ONLY <2>5 DEF IsInstance
  <2> QED BY <2>1, <2>2, <2>6
<1>9. FullState(p, u)
  <2>1. IsState(p, u)
    <3>1. u.stack = [s \in Slots(p) |-> u.stack[s]] /\ u.levels = [s \in Slots(p) |-> u.levels[s]]
      BY <1>5 DEF FullState, IsState
    <3>2. u.inst = [j \in Insts(p) |-> u.inst[j]] BY <1>5, <1>7
    <3>3. \A j \in Insts(p) : IsInstance(u.inst[j]) BY <1>5, <1>8
    <3> QED BY <1>6, <3>1, <3>2, <3>3 DEF IsState
  <2> QED BY <1>5, <2>1 DEF FullState
<1> QED BY <1>1, <1>5, <1>8, <1>9

(* A complete tree that takes over is ready for its first leaf.  Its root,   *)
(* which stays on the stack, is in no instance's way.                        *)
LEMMA TakenOverReady ==
  ASSUME NEW p, TreeParams(p), NEW a, NEW st, Built(p, a, st, Pow2[p.th]),
         st.peak \in 0..(p.th + 1)
  PROVE  LET t == TakenOver(st) IN
         /\ FullState(p, t)
         /\ AllDone(p, t)
         /\ Path(p, a, t, 0)
         /\ \A b, y, r : Serving(p, b, t, y, r)
         /\ st.stack[0] = TreeRoot(p.th, a)
<1> DEFINE t == TakenOver(st)
<1>1. FullState(p, st) BY DEF Built
<1>2. /\ FullState(p, t)
      /\ t.stack = st.stack /\ t.levels = st.levels /\ t.offset = st.offset
      /\ t.auth = st.auth /\ t.retain = st.retain
      /\ t.nextLeaf = st.nextLeaf /\ t.peak = st.peak
      /\ \A j \in Insts(p) : t.inst[j].node = st.inst[j].node /\ t.inst[j].completed = TRUE
  BY <1>1, TakenOverFields
<1> HIDE DEF t
<1>3. AllDone(p, t) BY <1>2 DEF AllDone
<1>4. /\ st.stack[0] = TreeRoot(p.th, a)
      /\ \A h \in 0..(p.th - 1) : \A q \in Right(p, h) : Saved(p, a, st, h, q)
  BY AllBuilt
<1>5. ASSUME NEW h \in 0..(p.th - 1), NEW q \in Right(p, h) PROVE Saved(p, a, t, h, q)
  <2>1. Saved(p, a, st, h, q) BY <1>4
  <2>2. h < Instances(p) => h \in Insts(p)
    <3>1. Instances(p) \in Nat BY ContendersRange
    <3> QED BY <3>1 DEF Insts
  <2>3. q = 3 /\ h < Instances(p) => t.inst[h].node = Node(a, h, 3)
    BY <2>1, <2>2, <1>2 DEF Saved
  <2> QED BY <2>1, <2>3, <1>2 DEF Saved
<1>6. Path(p, a, t, 0) BY <1>2, <1>5, FirstPath
<1>7. ASSUME NEW x \in 0..(st.offset - 1)
      PROVE  st.levels[x] \in Nat /\ st.levels[x] + x <= p.th /\ st.levels[x] >= Instances(p)
  <2>1. st.levels[x] \in Nat /\ st.levels[x] + x <= p.th
        /\ Bit(Pow2[p.th], st.levels[x]) = 1
    BY DEF Built
  <2>2. p.th \in Nat /\ Instances(p) \in Nat /\ Instances(p) <= p.th
    BY DEF TreeParams, Instances
  <2>3. PICK l : l = st.levels[x] OBVIOUS
  <2>4. l \in 0..p.th
    <3>1. st.offset \in Nat BY DEF Built
    <3>2. x \in Nat BY <3>1
    <3> QED BY <2>1, <2>2, <2>3, <3>2
  <2>5. l < p.th => Bit(1 * Pow2[p.th], l) = 0 BY <2>2, <2>4, MultipleBelow
  <2>6. 1 * Pow2[p.th] = Pow2[p.th]
    <3>1. Pow2[p.th] \in Nat BY <2>2, Pow2Recursion
    <3> QED BY <3>1
  <2>7. l = p.th BY <2>1, <2>3, <2>4, <2>5, <2>6, <2>2
  <2> QED BY <2>1, <2>2, <2>3, <2>7
<1>8. \E b : Shared(p, a, t, b)
  <2> DEFINE b == [j \in 0..Instances(p) |-> st.offset]
  <2>1. Instances(p) \in Nat BY ContendersRange
  <2>2. st.offset \in Nat BY DEF Built
  <2>3. \A j \in Insts(p) : b[j] = st.offset /\ b[j + 1] = st.offset
    <3> TAKE j \in Insts(p)
    <3>1. j \in 0..Instances(p) /\ j + 1 \in 0..Instances(p) BY <2>1 DEF Insts
    <3> QED BY <3>1
  <2>4. b \in [0..Instances(p) -> Nat] /\ b[0] = st.offset /\ b[Instances(p)] = st.offset
    BY <2>1, <2>2
  <2> HIDE DEF b
  <2>5. \A j \in Insts(p) : Held(t, j) = 0 BY <1>2 DEF Held
  <2>6. Chain(p, t, b)
    <3>1. \A j \in Insts(p) : Held(t, j) \in Nat /\ b[j] = b[j + 1] + Held(t, j)
      <4> TAKE j \in Insts(p)
      <4>1. PICK u : u = Held(t, j) OBVIOUS
      <4>2. u = 0 BY <4>1, <2>5
      <4>3. u \in Nat /\ b[j] = b[j + 1] + u BY <4>2, <2>2, <2>3
      <4> QED BY <4>1, <4>3
    <3> QED BY <3>1, <2>4, <1>2 DEF Chain
  <2>7. \A j \in Insts(p) : \A x : x \notin Own(b, j)
    <3> TAKE j \in Insts(p)
    <3>1. Own(b, j) = {} BY <2>2, <2>3 DEF Own
    <3> QED BY <3>1
  <2>8. \A j \in Insts(p) : ~(Held(t, j) > 0)
    <3> TAKE j \in Insts(p)
    <3> QED BY <2>5
  <2>9. \A x \in 0..(b[Instances(p)] - 1) : t.levels[x] >= Instances(p)
    BY <1>7, <1>2, <2>4
  <2>10. \A x \in 0..(t.offset - 1) : t.levels[x] \in Nat /\ t.levels[x] + x <= p.th
    BY <1>7, <1>2
  <2>11. \A x, y \in 0..(t.offset - 1) : x < y => t.levels[y] < t.levels[x]
    BY <1>2 DEF Built
  <2>12. Shared(p, a, t, b) BY <2>6, <2>7, <2>8, <2>9, <2>10, <2>11, <1>2 DEF Shared
  <2> QED BY <2>12
<1>9. Serving(p, a, t, 0, 0)
  <2>1. IsState(p, t) BY <1>2 DEF FullState
  <2>2. Work(p, t, 0) /\ InBudget(p, t, 0, 0) BY <1>3 DEF AllDone, Work, InBudget
  <2>3. t.peak \in 0..(p.th + 1) BY <1>2
  <2> QED BY <1>8, <2>1, <2>2, <2>3 DEF Serving
<1>10. \A b, y, r : Serving(p, b, t, y, r) BY <1>3, <1>9, DoneServing
<1> QED BY <1>2, <1>3, <1>4, <1>6, <1>10 DEF t

(* The nodes of a tree do not depend on the count of its leaves. *)
Counting(st, n) == [st EXCEPT !.nextLeaf = n]

(* They are all the same.                                                    *)
LEMMA CountingBuilt ==
  ASSUME NEW p, NEW a, NEW st, NEW i, Built(p, a, st, i), NEW n
  PROVE  LET t == Counting(st, n) IN
         Built(p, a, t, i) /\ t.nextLeaf = n /\ t.peak = st.peak
<1>1. PICK u : u = Counting(st, n) OBVIOUS
<1>2. FullState(p, st) /\ st = [stack |-> st.stack, levels |-> st.levels, offset |-> st.offset,
            auth |-> st.auth, keep |-> st.keep, inst |-> st.inst,
            retain |-> st.retain, nextLeaf |-> st.nextLeaf, peak |-> st.peak]
  BY DEF Built, FullState, IsState
<1>3. u = [stack |-> st.stack, levels |-> st.levels, offset |-> st.offset,
           auth |-> st.auth, keep |-> st.keep, inst |-> st.inst,
           retain |-> st.retain, nextLeaf |-> n, peak |-> st.peak]
  BY ONLY <1>1, <1>2 DEF Counting
<1>4. /\ u.stack = st.stack /\ u.levels = st.levels /\ u.offset = st.offset
      /\ u.auth = st.auth /\ u.keep = st.keep /\ u.inst = st.inst
      /\ u.retain = st.retain /\ u.nextLeaf = n /\ u.peak = st.peak
  BY ONLY <1>3
<1>5. u = [stack |-> u.stack, levels |-> u.levels, offset |-> u.offset,
           auth |-> u.auth, keep |-> u.keep, inst |-> u.inst,
           retain |-> u.retain, nextLeaf |-> u.nextLeaf, peak |-> u.peak]
  BY ONLY <1>3
<1>6. FullState(p, u)
  <2>1. IsState(p, u) BY <1>2, <1>4, <1>5 DEF FullState, IsState
  <2> QED BY <2>1, <1>2, <1>4 DEF FullState
<1>7. \A h \in 0..(p.th - 1) : \A q \in Right(p, h) :
        Saved(p, a, st, h, q) => Saved(p, a, u, h, q)
  BY <1>4 DEF Saved
<1>8. Built(p, a, u, i)
  BY <1>4, <1>6, <1>7 DEF Built
<1> QED BY <1>1, <1>4, <1>8

(* bds_state_update: one more leaf of a tree, unless it is complete.         *)
LEMMA LeafGrown ==
  ASSUME NEW p, TreeParams(p), NEW a, NEW st, st.nextLeaf \in 0..Pow2[p.th],
         Built(p, a, st, st.nextLeaf), st.peak \in 0..(p.th + 1)
  PROVE  LET t == BdsStateUpdate(p, a, st) IN
         /\ t.nextLeaf = IF st.nextLeaf = Pow2[p.th] THEN Pow2[p.th] ELSE st.nextLeaf + 1
         /\ Built(p, a, t, t.nextLeaf)
         /\ t.peak \in 0..(p.th + 1)
<1> DEFINE i == st.nextLeaf
<1>1. p.th \in Nat /\ Pow2[p.th] \in Nat BY Pow2Recursion DEF TreeParams
<1>2. CASE i = Pow2[p.th] BY <1>2 DEF BdsStateUpdate
<1>3. CASE i # Pow2[p.th]
  <2>1. i \in 0..(Pow2[p.th] - 1) /\ i \in Nat BY <1>1, <1>3
  <2> DEFINE s == AddLeaf(p, a, i, st)
             t == Counting(s, i + 1)
  <2>2. BdsStateUpdate(p, a, st) = t BY <1>3, Zenon DEF BdsStateUpdate, Counting
  <2>3. Built(p, a, s, i + 1) /\ s.peak = Max({st.peak, st.offset + 1})
    <3> HIDE DEF i
    <3>1. Built(p, a, st, i) BY DEF i
    <3> QED BY <2>1, <3>1, AddLeafResult
  <2>4. s.peak \in 0..(p.th + 1)
    <3>1. st.offset \in 0..p.th
      <4> HIDE DEF i
      <4>1. Built(p, a, st, i) BY DEF i
      <4> QED BY <2>1, <4>1, BuiltRoom
    <3> DEFINE P == {st.peak, st.offset + 1}
    <3>2. P \subseteq 0..(p.th + 1) /\ P # {} BY <3>1, <1>1
    <3>3. \E c \in P : \A d \in P : d <= c
      <4>1. CASE st.peak <= st.offset + 1 BY <4>1, <3>1
      <4>2. CASE ~(st.peak <= st.offset + 1) BY <4>2, <3>1
      <4> QED BY <4>1, <4>2
    <3>4. Max(P) \in P BY <3>3 DEF Max
    <3> QED BY <2>3, <3>2, <3>4
  <2> HIDE DEF s
  <2>5. Built(p, a, t, i + 1) /\ t.nextLeaf = i + 1 /\ t.peak = s.peak
    BY <2>3, CountingBuilt
  <2> HIDE DEF t
  <2> QED BY <2>2, <2>4, <2>5, <1>3
<1> QED BY <1>2, <1>3

(* A state that was never written has the shape of one.                      *)
LEMMA NewStateFull ==
  ASSUME NEW p, TreeParams(p)
  PROVE  /\ FullState(p, NewState(p)) /\ NewState(p).peak = 0 /\ NewState(p).offset = 0
         /\ NewState(p).nextLeaf = 0
<1> DEFINE st == NewState(p)
<1>1. st = [stack    |-> [s \in Slots(p) |-> Junk],
            levels   |-> [s \in Slots(p) |-> UnsetLevel],
            offset   |-> 0,
            auth     |-> [h \in 0..(p.th - 1) |-> Junk],
            keep     |-> [s \in 0..((p.th \div 2) - 1) |-> Junk],
            inst     |-> [h \in 0..(Instances(p) - 1) |-> UnsetInstance],
            retain   |-> [s \in 0..(Pow2[p.k] - p.k - 2) |-> Junk],
            nextLeaf |-> 0,
            peak     |-> 0]
  BY DEF NewState
<1> HIDE DEF st
<1>2. /\ st = [stack |-> st.stack, levels |-> st.levels, offset |-> st.offset,
               auth |-> st.auth, keep |-> st.keep, inst |-> st.inst,
               retain |-> st.retain, nextLeaf |-> st.nextLeaf, peak |-> st.peak]
      /\ st.peak = 0 /\ st.offset = 0 /\ st.nextLeaf = 0
  BY ONLY <1>1
<1>3. /\ st.stack = [s \in Slots(p) |-> Junk]
      /\ st.levels = [s \in Slots(p) |-> UnsetLevel]
      /\ st.inst = [h \in 0..(Instances(p) - 1) |-> UnsetInstance]
  BY ONLY <1>1
<1>4. /\ st.auth = [h \in 0..(p.th - 1) |-> Junk]
      /\ st.keep = [s \in 0..((p.th \div 2) - 1) |-> Junk]
      /\ st.retain = [s \in 0..(Pow2[p.k] - p.k - 2) |-> Junk]
  BY ONLY <1>1
<1>5. IsInstance(UnsetInstance) BY DEF IsInstance, UnsetInstance
<1>6. /\ st.stack = [s \in Slots(p) |-> st.stack[s]]
      /\ st.levels = [s \in Slots(p) |-> st.levels[s]]
      /\ st.inst = [j \in Insts(p) |-> st.inst[j]]
      /\ \A j \in Insts(p) : st.inst[j] = UnsetInstance
  BY <1>3 DEF Insts
<1>7. IsState(p, st) BY <1>2, <1>5, <1>6 DEF IsState
<1>8. FullState(p, st) BY <1>4, <1>7 DEF FullState
<1> QED BY <1>2, <1>8 DEF st

(* Climbing from a leaf of a tree leads to a node of that tree, or to Junk.  *)
LEMMA ClimbInTree ==
  ASSUME NEW th \in Nat \ {0}, NEW a, NEW leafNode, NEW leaf, NEW auth
  PROVE  \/ ComputeRoot(th, a, leafNode, leaf, auth) = Junk
         \/ \E i : ComputeRoot(th, a, leafNode, leaf, auth) = Node(a, th, i)
<1>1. th \in Nat /\ th \in 1..th /\ (th - 1) + 1 = th OBVIOUS
<1>2. PICK up : /\ up[0] = leafNode
                /\ \A h \in 1..th : up[h] = Up(a, leaf, auth, h, up[h - 1])
                /\ ComputeRoot(th, a, leafNode, leaf, auth) = up[th]
  BY <1>1, ComputeRootRecursion
<1>3. up[th] = Up(a, leaf, auth, th, up[th - 1]) BY <1>1, <1>2
<1>4. \E i : Up(a, leaf, auth, th, up[th - 1]) \in {Junk, Node(a, th, i)}
  BY <1>1, Zenon DEF Up, HashPair
<1> QED BY <1>2, <1>3, <1>4

(* A signature whose index has no leaf on the top layer is never accepted,   *)
(* whatever its parts are.                                                   *)
LEMMA OverrunRejected ==
  ASSUME NEW p, p.th \in Nat \ {0}, p.d \in Nat \ {0}, NEW sm, sm.idx \in Nat,
         ~(sm.idx < Capacity(p))
  PROVE  ~SignOpen(p, TreeRoot(p.th, <<p.d - 1, 0>>), sm)
<1> DEFINE r == TreeRoot(p.th, <<p.d - 1, 0>>)
           a == Place(p, sm.idx, p.d - 1)
<1>1. PICK root : Opening(p, sm, root) /\ (SignOpen(p, r, sm) <=> root[p.d] = r)
  <2>1. p.d \in Nat OBVIOUS
  <2> QED BY <2>1, SignOpenRecursion
<1>2. p.d \in 1..p.d OBVIOUS
<1>3. root[p.d] = Open(p, sm, p.d, root[p.d - 1]) BY <1>1, <1>2 DEF Opening
<1>4. \E leafNode, leaf, auth : root[p.d] = ComputeRoot(p.th, a, leafNode, leaf, auth)
  BY <1>3 DEF Open
<1>5. root[p.d] = Junk \/ \E i : root[p.d] = Node(a, p.th, i) BY <1>4, ClimbInTree
<1>6. r # Junk BY NodeIsNotJunk DEF TreeRoot
<1>7. ASSUME NEW i, Node(a, p.th, i) = r PROVE FALSE
  <2>1. Node(a, p.th, i).subtree = a /\ r.subtree = <<p.d - 1, 0>> BY DEF Node, TreeRoot
  <2>2. a = <<p.d - 1, 0>> BY <2>1, <1>7
  <2>3. TreeRoot(p.th, a) = r BY <2>2
  <2>4. p.th \in Nat OBVIOUS
  <2> QED BY <2>3, <2>4, TopTreeOfIndex
<1> QED BY <1>1, <1>5, <1>6, <1>7
=============================================================================
