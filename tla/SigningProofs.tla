---------------------------- MODULE SigningProofs ----------------------------
(***************************************************************************)
(* Proofs about the one-time signatures, for every parameter set of the    *)
(* shape initialize_params gives it, all messages, and any address the     *)
(* caller begins with: a signature leads to the public key for the message *)
(* it was made on and for no other, the digits of the checksum are the     *)
(* whole checksum, and of any other message some chain is shorter.  And    *)
(* about the buffers, for messages of every length and signatures of every *)
(* size: what was signed opens as it was, and nothing else does.  And      *)
(* about the addresses, for trees, chains and words of every size: the     *)
(* same thing is hashed at the same address, and no two things at one.     *)
(*                                                                         *)
(* The digits come first: base_w and ull_to_bytes as digits of numbers,    *)
(* and numbers compared by their digits.  Then what the checksum is for,   *)
(* the calls on a chain, and the invariant of the loops over the chains.   *)
(* For the buffers: what a write leaves, the statements of the two calls,  *)
(* the invariant BufferInv, and one lemma per statement.                   *)
(* For the addresses: what an address determines, the loops over calls of  *)
(* prf, the stack of treehash, the invariant HashesInv, and one lemma per  *)
(* action.                                                                 *)
(***************************************************************************)
EXTENDS MCSigning, TreeProofs, SequenceTheorems

(* The operators of Bits are the same in the three modules.                  *)
LEMMA SameBits ==
  /\ Chains!Pow2 = Pow2
  /\ \A x, n : Chains!Shr(x, n) = Shr(x, n)
  /\ \A f, n : Chains!SumTo(f, n) = SumTo(f, n)
<1>1. Chains!Pow2 = Pow2 BY DEF Chains!Pow2, Pow2
<1>2. \A x, n : Chains!Shr(x, n) = Shr(x, n) BY <1>1 DEF Chains!Shr, Shr
<1> QED BY <1>1, <1>2 DEF Chains!SumTo, SumTo

-----------------------------------------------------------------------------
(* Digit number n of x in base 2^b, from the least significant one up.       *)
Digit(x, b, n) == Shr(x, b * n) % Pow2[b]

(* A number is its last digit and the others shifted.                        *)
LEMMA LastDigit ==
  ASSUME NEW x \in Nat, NEW b \in Nat
  PROVE  /\ Shr(x, b) \in Nat /\ Digit(x, b, 0) \in 0..(Pow2[b] - 1)
         /\ x = Shr(x, b) * Pow2[b] + Digit(x, b, 0)
<1>1. PICK t : t = Pow2[b] OBVIOUS
<1>2. t \in Nat \ {0} BY <1>1, Pow2Recursion
<1>3. b * 0 = 0 OBVIOUS
<1>4. Digit(x, b, 0) = x % t BY <1>1, <1>3, ShrNone DEF Digit
<1>5. Shr(x, b) = x \div t BY <1>1 DEF Shr
<1>6. x \div t \in Nat /\ x % t \in 0..(t - 1) /\ x = (x \div t) * t + (x % t)
  BY <1>2, SplitAt
<1> QED BY <1>1, <1>4, <1>5, <1>6

(* The digits of a number without its last one.                              *)
LEMMA HigherDigits ==
  ASSUME NEW x \in Nat, NEW b \in Nat, NEW n \in Nat
  PROVE  Digit(Shr(x, b), b, n) = Digit(x, b, n + 1)
<1>1. b * n \in Nat BY TimesNat
<1>2. PICK d : d = b * n OBVIOUS
<1>3. b * (n + 1) = b + d BY <1>2
<1>4. Shr(Shr(x, b), d) = Shr(x, b + d) BY <1>1, <1>2, ShrSum
<1> QED BY <1>2, <1>3, <1>4 DEF Digit

(* A number of n + 1 digits without its last one has n.                      *)
LEMMA FewerDigits ==
  ASSUME NEW x \in Nat, NEW b \in Nat, NEW n \in Nat, x < Pow2[b * (n + 1)]
  PROVE  Shr(x, b) < Pow2[b * n]
<1>1. PICK d, y : d = b * n /\ y = Shr(x, b) OBVIOUS
<1>2. d \in Nat BY <1>1, TimesNat
<1>3. b * (n + 1) = b + d BY <1>1
<1>4. Shr(x, b + d) = 0
  <2>1. b + d \in Nat BY <1>2
  <2> QED BY <1>3, <2>1, ShrZero
<1>5. Shr(y, d) = 0 BY <1>1, <1>2, <1>4, ShrSum
<1>6. y \in Nat BY <1>1, LastDigit
<1> QED BY <1>1, <1>2, <1>5, <1>6, ShrZero

(* If every digit is at least as large, so is the number.                    *)
LEMMA DigitsOrder ==
  ASSUME NEW b \in Nat, NEW n \in Nat, NEW x \in Nat, NEW y \in Nat,
         x < Pow2[b * n], y < Pow2[b * n],
         \A k \in 0..(n - 1) : Digit(x, b, k) <= Digit(y, b, k)
  PROVE  x <= y
<1> DEFINE P(m, u, v) == /\ u < Pow2[b * m] /\ v < Pow2[b * m]
                         /\ \A k \in 0..(m - 1) : Digit(u, b, k) <= Digit(v, b, k)
           S == {m \in Nat : \A u, v \in Nat : P(m, u, v) => u <= v}
<1>1. 0 \in S
  <2>1. b * 0 = 0 OBVIOUS
  <2>2. ASSUME NEW u \in Nat, NEW v \in Nat, P(0, u, v) PROVE u <= v
    <3>1. u < Pow2[0] BY <2>1, <2>2
    <3> QED BY <3>1, Pow2Recursion
  <2> QED BY <2>2
<1>2. ASSUME NEW m \in Nat, m \in S PROVE m + 1 \in S
  <2> SUFFICES ASSUME NEW u \in Nat, NEW v \in Nat, P(m + 1, u, v) PROVE u <= v
    OBVIOUS
  <2>1. Shr(u, b) \in Nat /\ Shr(v, b) \in Nat BY LastDigit
  <2>2. P(m, Shr(u, b), Shr(v, b))
    <3>1. u < Pow2[b * (m + 1)] /\ v < Pow2[b * (m + 1)] OBVIOUS
    <3>2. Shr(u, b) < Pow2[b * m] /\ Shr(v, b) < Pow2[b * m] BY <3>1, FewerDigits
    <3>3. ASSUME NEW k \in 0..(m - 1)
          PROVE  Digit(Shr(u, b), b, k) <= Digit(Shr(v, b), b, k)
      <4>1. k \in Nat /\ k + 1 \in 0..((m + 1) - 1) OBVIOUS
      <4>2. Digit(u, b, k + 1) <= Digit(v, b, k + 1) BY <4>1
      <4> QED BY <4>1, <4>2, HigherDigits
    <3> QED BY <3>2, <3>3
  <2>3. Shr(u, b) <= Shr(v, b) BY <1>2, <2>1, <2>2
  <2>4. Digit(u, b, 0) <= Digit(v, b, 0)
    <3>1. 0 \in 0..((m + 1) - 1) OBVIOUS
    <3> QED BY <3>1
  <2>5. PICK t, u1, v1, u0, v0 : /\ t = Pow2[b] /\ u1 = Shr(u, b) /\ v1 = Shr(v, b)
                                 /\ u0 = Digit(u, b, 0) /\ v0 = Digit(v, b, 0)
    OBVIOUS
  <2>6. /\ t \in Nat /\ u1 \in Nat /\ v1 \in Nat /\ u0 \in Nat /\ v0 \in Nat
        /\ u = u1 * t + u0 /\ v = v1 * t + v0 /\ u1 <= v1 /\ u0 <= v0
    <3>1. t \in Nat \ {0} BY <2>5, Pow2Recursion
    <3>2. u0 \in 0..(t - 1) /\ v0 \in 0..(t - 1) BY <2>5, LastDigit
    <3>3. u = Shr(u, b) * Pow2[b] + Digit(u, b, 0) /\ v = Shr(v, b) * Pow2[b] + Digit(v, b, 0)
      BY LastDigit
    <3>4. u = u1 * t + u0 /\ v = v1 * t + v0 BY <2>5, <3>3
    <3>5. u0 \in Nat /\ v0 \in Nat BY <3>1, <3>2
    <3> QED BY <2>1, <2>3, <2>4, <2>5, <3>1, <3>4, <3>5
  <2>7. u1 * t <= v1 * t /\ u1 * t \in Nat /\ v1 * t \in Nat
    <3>1. PICK d : d = v1 - u1 OBVIOUS
    <3>2. d \in Nat /\ v1 = u1 + d BY <2>6, <3>1
    <3>3. d * t \in Nat /\ u1 * t \in Nat BY <2>6, <3>2, TimesNat
    <3>4. v1 * t = u1 * t + d * t BY <2>6, <3>2
    <3> QED BY <3>3, <3>4
  <2>8. PICK a, c : a = u1 * t /\ c = v1 * t OBVIOUS
  <2> QED BY <2>6, <2>7, <2>8
<1>3. n \in S
  <2> HIDE DEF S
  <2> QED BY <1>1, <1>2, SetInduction
<1> QED BY <1>3

(* Hence the digits determine the number.                                    *)
LEMMA DigitsDetermine ==
  ASSUME NEW b \in Nat, NEW n \in Nat, NEW x \in Nat, NEW y \in Nat,
         x < Pow2[b * n], y < Pow2[b * n],
         \A k \in 0..(n - 1) : Digit(x, b, k) = Digit(y, b, k)
  PROVE  x = y
<1>1. ASSUME NEW k \in 0..(n - 1) 
      PROVE  /\ Digit(x, b, k) <= Digit(y, b, k) /\ Digit(y, b, k) <= Digit(x, b, k)
  <2>1. b * k \in Nat BY TimesNat
  <2>2. PICK d, t : d = b * k /\ t = Pow2[b] OBVIOUS
  <2>3. Shr(x, d) \in Nat BY <2>1, <2>2, ShrHalves
  <2>4. t \in Nat \ {0} BY <2>2, Pow2Recursion
  <2>5. Shr(x, d) % t \in Int BY <2>3, <2>4, SplitAt
  <2>6. Digit(x, b, k) \in Int BY <2>2, <2>5 DEF Digit
  <2> QED BY <2>6
<1>2. x <= y BY <1>1, DigitsOrder
<1>3. y <= x BY <1>1, DigitsOrder
<1> QED BY <1>2, <1>3

(* The value of n digits, the most significant one first.                    *)
LEMMA DigitsSum ==
  ASSUME NEW b \in Nat, NEW n \in Nat, NEW x \in Nat, x < Pow2[b * n],
         NEW f, \A k \in 0..(n - 1) : f[k] = Digit(x, b, n - 1 - k) * Pow2[b * (n - 1 - k)]
  PROVE  SumTo(f, n) = x
<1> DEFINE S == {m \in Nat : m <= n => SumTo(f, m) = Shr(x, b * (n - m)) * Pow2[b * (n - m)]}
<1>1. 0 \in S
  <2>1. n - 0 = n /\ b * n \in Nat BY TimesNat
  <2>2. Shr(x, b * n) = 0 BY <2>1, ShrZero
  <2>3. Pow2[b * n] \in Nat BY <2>1, Pow2Recursion
  <2>4. 0 * Pow2[b * n] = 0 BY <2>3
  <2>5. SumTo(f, 0) = 0 BY SumRecursion
  <2> QED BY <2>1, <2>2, <2>4, <2>5
<1>2. ASSUME NEW m \in Nat, m \in S PROVE m + 1 \in S
  <2> SUFFICES ASSUME m + 1 <= n
               PROVE  SumTo(f, m + 1) = Shr(x, b * (n - (m + 1))) * Pow2[b * (n - (m + 1))]
    OBVIOUS
  <2>1. PICK e : e = n - (m + 1) OBVIOUS
  <2>2. e \in Nat /\ n - m = e + 1 /\ n - 1 - m = e /\ m \in 0..(n - 1) BY <2>1
  <2>3. PICK d, t, z : d = b * e /\ t = Pow2[b] /\ z = Pow2[d] OBVIOUS
  <2>4. d \in Nat BY <2>2, <2>3, TimesNat
  <2>5. b * (e + 1) = d + b BY <2>2, <2>3
  <2>6. t \in Nat \ {0} /\ z \in Nat \ {0} BY <2>3, <2>4, Pow2Recursion
  <2>7. PICK y : y = Shr(x, d) OBVIOUS
  <2>8. y \in Nat BY <2>4, <2>7, ShrHalves
  <2>9. Shr(x, d + b) = Shr(y, b) BY <2>4, <2>7, ShrSum
  <2>10. Pow2[d + b] = z * t BY <2>3, <2>4, Pow2Sum
  <2>11. SumTo(f, m) = Shr(y, b) * (z * t) BY <1>2, <2>2, <2>5, <2>9, <2>10
  <2>12. f[m] = Digit(x, b, e) * z BY <2>2, <2>3
  <2>13. Digit(x, b, e) = y % t BY <2>3, <2>7 DEF Digit
  <2>14. PICK u, v : u = Shr(y, b) /\ v = y % t OBVIOUS
  <2>15. u \in Nat /\ v \in Nat /\ y = u * t + v
    <3>1. u = y \div t BY <2>3, <2>14 DEF Shr
    <3>2. /\ y \div t \in Nat /\ y % t \in 0..(t - 1) /\ y = (y \div t) * t + (y % t)
      BY <2>6, <2>8, SplitAt
    <3>3. v \in Nat BY <2>6, <2>14, <3>2
    <3> QED BY <2>14, <3>1, <3>2, <3>3
  <2>16. SumTo(f, m + 1) = SumTo(f, m) + f[m] BY SumRecursion
  <2>17. SumTo(f, m + 1) = u * (z * t) + v * z BY <2>11, <2>12, <2>13, <2>14, <2>16
  <2>18. u * (z * t) + v * z = y * z
    <3>1. (u * t + v) * z = u * (z * t) + v * z BY ONLY <2>6, <2>15
    <3> QED BY <2>15, <3>1
  <2> QED BY <2>1, <2>3, <2>7, <2>17, <2>18
<1>3. n \in S
  <2> HIDE DEF S
  <2> QED BY <1>1, <1>2, SetInduction
<1>4. SumTo(f, n) = Shr(x, b * (n - n)) * Pow2[b * (n - n)] BY <1>3
<1>5. n - n = 0 /\ b * 0 = 0 OBVIOUS
<1>6. SumTo(f, n) = Shr(x, 0) * Pow2[0] BY <1>4, <1>5
<1> QED BY <1>6, ShrNone, Pow2Recursion

-----------------------------------------------------------------------------
(* The bits from m on of a number cut off at e.                              *)
LEMMA LowBits ==
  ASSUME NEW y \in Nat, NEW m \in Nat, NEW c \in Nat, NEW e \in Nat, m + c <= e
  PROVE  Shr(y % Pow2[e], m) % Pow2[c] = Shr(y, m) % Pow2[c]
<1>1. PICK d : d = e - (m + c) OBVIOUS
<1>2. d \in Nat /\ c + d \in Nat /\ e = m + (c + d) BY <1>1
<1>3. PICK E1, M1, C1, D1 : E1 = Pow2[e] /\ M1 = Pow2[m] /\ C1 = Pow2[c] /\ D1 = Pow2[d]
  OBVIOUS
<1>4. E1 \in Nat \ {0} /\ M1 \in Nat \ {0} /\ C1 \in Nat \ {0} /\ D1 \in Nat \ {0}
  BY <1>2, <1>3, Pow2Recursion
<1>5. E1 = M1 * (C1 * D1)
  <2>1. Pow2[c + d] = C1 * D1 BY <1>2, <1>3, Pow2Sum
  <2>2. Pow2[m + (c + d)] = M1 * Pow2[c + d] BY <1>2, <1>3, Pow2Sum
  <2> QED BY <1>2, <1>3, <2>1, <2>2
<1>6. PICK q, r : q = y \div E1 /\ r = y % E1 OBVIOUS
<1>7. q \in Nat /\ r \in Nat /\ y = q * E1 + r
  <2>1. y \div E1 \in Nat /\ y % E1 \in 0..(E1 - 1) /\ y = (y \div E1) * E1 + (y % E1)
    BY <1>4, SplitAt
  <2>2. r \in Nat BY <1>4, <1>6, <2>1
  <2> QED BY <1>6, <2>1, <2>2
<1>8. PICK r1, r0 : r1 = r \div M1 /\ r0 = r % M1 OBVIOUS
<1>9. r1 \in Nat /\ r0 \in 0..(M1 - 1) /\ r = r1 * M1 + r0
  <2>1. r \div M1 \in Nat /\ r % M1 \in 0..(M1 - 1) /\ r = (r \div M1) * M1 + (r % M1)
    BY <1>4, <1>7, SplitAt
  <2> QED BY <1>8, <2>1
<1>10. PICK s1, s0 : s1 = y \div M1 /\ s0 = y % M1 OBVIOUS
<1>11. s1 \in Nat /\ s0 \in 0..(M1 - 1) /\ y = s1 * M1 + s0
  <2>1. y \div M1 \in Nat /\ y % M1 \in 0..(M1 - 1) /\ y = (y \div M1) * M1 + (y % M1)
    BY <1>4, SplitAt
  <2> QED BY <1>10, <2>1
<1>12. PICK a : a = q * D1 OBVIOUS
<1>13. a \in Nat BY <1>4, <1>7, <1>12, TimesNat
<1>14. s1 = a * C1 + r1
  <2>1. q * (M1 * (C1 * D1)) = (a * C1) * M1 BY ONLY <1>4, <1>7, <1>12
  <2>2. (a * C1 + r1) * M1 = (a * C1) * M1 + r1 * M1
    <3>1. a * C1 \in Nat BY <1>4, <1>13, TimesNat
    <3>2. PICK z : z = a * C1 OBVIOUS
    <3>3. (z + r1) * M1 = z * M1 + r1 * M1 BY ONLY <1>4, <1>9, <3>1, <3>2
    <3> QED BY <3>2, <3>3
  <2>3. y = (a * C1 + r1) * M1 + r0
    <3>1. PICK u, v : u = q * E1 /\ v = r1 * M1 OBVIOUS
    <3>2. u \in Nat /\ v \in Nat BY <1>4, <1>7, <1>9, <3>1, TimesNat
    <3>3. y = u + (v + r0) BY <1>7, <1>9, <3>1
    <3>4. (a * C1 + r1) * M1 = u + v BY <1>5, <2>1, <2>2, <3>1
    <3>5. r0 \in Nat BY <1>4, <1>9
    <3> QED BY <3>2, <3>3, <3>4, <3>5
  <2>4. a * C1 + r1 \in Nat
    <3>1. a * C1 \in Nat BY <1>4, <1>13, TimesNat
    <3> QED BY <1>9, <3>1
  <2>5. PICK z : z = a * C1 + r1 OBVIOUS
  <2>6. z \in Nat /\ z * M1 + r0 = s1 * M1 + s0 BY <1>11, <2>3, <2>4, <2>5
  <2> QED BY <1>4, <1>9, <1>11, <2>5, <2>6, SplitUnique
<1>15. PICK r3, r2 : r3 = r1 \div C1 /\ r2 = r1 % C1 OBVIOUS
<1>16. r3 \in Nat /\ r2 \in 0..(C1 - 1) /\ r1 = r3 * C1 + r2
  <2>1. r1 \div C1 \in Nat /\ r1 % C1 \in 0..(C1 - 1) /\ r1 = (r1 \div C1) * C1 + (r1 % C1)
    BY <1>4, <1>9, SplitAt
  <2> QED BY <1>15, <2>1
<1>17. PICK t1, t0 : t1 = s1 \div C1 /\ t0 = s1 % C1 OBVIOUS
<1>18. t1 \in Nat /\ t0 \in 0..(C1 - 1) /\ s1 = t1 * C1 + t0
  <2>1. s1 \div C1 \in Nat /\ s1 % C1 \in 0..(C1 - 1) /\ s1 = (s1 \div C1) * C1 + (s1 % C1)
    BY <1>4, <1>11, SplitAt
  <2> QED BY <1>17, <2>1
<1>19. t0 = r2
  <2>1. (a + r3) * C1 = a * C1 + r3 * C1 BY ONLY <1>4, <1>13, <1>16
  <2>2. a + r3 \in Nat BY <1>13, <1>16
  <2>3. PICK z : z = a + r3 OBVIOUS
  <2>4. z * C1 + r2 = t1 * C1 + t0
    <3>1. PICK u, v : u = a * C1 /\ v = r3 * C1 OBVIOUS
    <3>2. u \in Nat /\ v \in Nat BY <1>4, <1>13, <1>16, <3>1, TimesNat
    <3>3. r2 \in Nat BY <1>4, <1>16
    <3>4. z * C1 = u + v BY <2>1, <2>3, <3>1
    <3>5. s1 = u + (v + r2) BY <1>14, <1>16, <3>1
    <3> QED BY <1>18, <3>2, <3>3, <3>4, <3>5
  <2> QED BY <1>4, <1>16, <1>18, <2>2, <2>3, <2>4, SplitUnique
<1>20. Shr(y % Pow2[e], m) % Pow2[c] = r2 BY <1>3, <1>6, <1>8, <1>15 DEF Shr
<1>21. Shr(y, m) % Pow2[c] = t0 BY <1>3, <1>10, <1>17 DEF Shr
<1> QED BY <1>19, <1>20, <1>21

-----------------------------------------------------------------------------
(* The digits in a byte, and what ParamSetsAssumption says of a set.         *)
PerByte(q) == 8 \div q.logw
RightSet(q) ==
  /\ q.w = Pow2[q.logw] /\ q.logw \in {2, 4}
  /\ q.len1 \in Nat \ {0} /\ (q.len1 * q.logw) % 8 = 0
  /\ q.len2 \in Nat \ {0}
  /\ (q.len2 * q.logw) % 8 # 0 /\ q.len1 * (q.w - 1) < Pow2[q.logw * q.len2]
  /\ q.secrets \in {"ctr", "addr"}
  /\ q.bytes \subseteq 0..255

(* What the assumption says of a parameter set.                              *)
LEMMA SetsRight == ASSUME NEW q \in ParamSets PROVE RightSet(q)
<1>1. q.logw * q.len2 = q.len2 * q.logw
  <2>1. q.logw \in Nat /\ q.len2 \in Nat BY ChainsAssumption DEF Chains!ParamSetsAssumption
  <2> QED BY <2>1
<1> QED BY <1>1, ChainsAssumption, SameBits DEF Chains!ParamSetsAssumption, RightSet

(* base_w: digit k of its output.                                            *)
LEMMA WordDigits ==
  ASSUME NEW q, RightSet(q), NEW in, NEW n \in Nat, NEW k \in 0..(n - 1)
  PROVE  Chains!BaseW(q, in, n)[k]
           = Digit(in[k \div PerByte(q)], q.logw, PerByte(q) - 1 - (k % PerByte(q)))
<1>1. Chains!BaseW(q, in, n)[k]
        = Chains!Shr(in[k \div PerByte(q)], q.logw * (PerByte(q) - 1 - (k % PerByte(q)))) % q.w
  BY DEF Chains!BaseW, PerByte
<1> QED BY <1>1, SameBits DEF Digit, RightSet

(* The place of digit k in its byte.                                         *)
LEMMA BytePlace ==
  ASSUME NEW q, RightSet(q), NEW k \in Nat
  PROVE  /\ PerByte(q) \in Nat \ {0} /\ q.logw \in Nat /\ q.logw * PerByte(q) = 8
         /\ k \div PerByte(q) \in Nat
         /\ PerByte(q) - 1 - (k % PerByte(q)) \in 0..(PerByte(q) - 1)
         /\ 8 * (k \div PerByte(q)) + q.logw * (k % PerByte(q)) = q.logw * k
<1>1. CASE q.logw = 2
  <2>1. PerByte(q) = 4 BY <1>1 DEF PerByte
  <2>2. /\ k \div 4 \in Nat /\ k % 4 \in 0..3 /\ k = 4 * (k \div 4) + (k % 4)
    OBVIOUS
  <2> QED BY <1>1, <2>1, <2>2
<1>2. CASE q.logw = 4
  <2>1. PerByte(q) = 2 BY <1>2 DEF PerByte
  <2>2. /\ k \div 2 \in Nat /\ k % 2 \in 0..1 /\ k = 2 * (k \div 2) + (k % 2)
    OBVIOUS
  <2> QED BY <1>2, <2>1, <2>2
<1> QED BY <1>1, <1>2 DEF RightSet

(* The values of a byte.                                                     *)
LEMMA Pow2Eight == Pow2[8] = 256
<1>1. 0 + 1 = 1 /\ 1 + 1 = 2 /\ 2 + 1 = 3 /\ 3 + 1 = 4 /\ 4 + 1 = 5 /\ 5 + 1 = 6 /\ 6 + 1 = 7 /\ 7 + 1 = 8
  OBVIOUS
<1>2. Pow2[0] = 1 /\ Pow2[1] = 2 BY <1>1, Pow2Recursion
<1>3. Pow2[2] = 2 * Pow2[1] BY <1>1, Pow2Recursion
<1>4. Pow2[3] = 2 * Pow2[2] BY <1>1, Pow2Recursion
<1>5. Pow2[4] = 2 * Pow2[3] BY <1>1, Pow2Recursion
<1>6. Pow2[5] = 2 * Pow2[4] BY <1>1, Pow2Recursion
<1>7. Pow2[6] = 2 * Pow2[5] BY <1>1, Pow2Recursion
<1>8. Pow2[7] = 2 * Pow2[6] BY <1>1, Pow2Recursion
<1>9. Pow2[8] = 2 * Pow2[7] BY <1>1, Pow2Recursion
<1> QED BY <1>2, <1>3, <1>4, <1>5, <1>6, <1>7, <1>8, <1>9

(* wots_checksum: digit k of the checksum comes from the bits expected.      *)
LEMMA ChecksumDigits ==
  ASSUME NEW q, RightSet(q), NEW csum \in Nat, NEW k \in 0..(q.len2 - 1)
  PROVE  Chains!BaseW(q, Chains!CsumBytes(q, csum), q.len2)[k]
           = Digit(csum, q.logw, q.len2 - 1 - k)
<1>1. PICK b, per, j, r : b = q.logw /\ per = PerByte(q) /\ j = k \div per /\ r = k % per
  OBVIOUS
<1>2. PICK z, B, s : z = q.len2 * b /\ B = (z + 7) \div 8 /\ s = 8 - (z % 8) OBVIOUS
<1>3. k \in Nat /\ q.len2 \in Nat BY DEF RightSet
<1>4. /\ per \in Nat \ {0} /\ b \in {2, 4} /\ b * per = 8 /\ j \in Nat /\ per - 1 - r \in 0..(per - 1)
      /\ 8 * j + b * r = b * k
  BY <1>1, <1>3, BytePlace DEF RightSet
<1>5. z \in Nat /\ z % 8 # 0 BY <1>1, <1>2, <1>3, <1>4 DEF RightSet
<1>6. /\ s \in Nat /\ B \in Nat /\ 8 * B = z + s
  BY <1>2, <1>5
<1>7. r \in Nat BY <1>4, <1>1, <1>3
<1>8. PICK N, e, f : N = csum * Pow2[s] /\ e = 8 * (B - 1 - j) /\ f = b * (per - 1 - r) OBVIOUS
<1>9. /\ e \in Nat /\ f \in Nat /\ f + b <= 8 /\ j \in 0..(B - 1)
      /\ e + f = s + b * (q.len2 - 1 - k) /\ b * (q.len2 - 1 - k) \in Nat
  <2>1. z = b * q.len2 /\ k <= q.len2 - 1 BY <1>1, <1>2, <1>3, <1>4
  <2>2. CASE b = 2
    <3>1. per = 4 BY <1>4, <2>2
    <3>2. 8 * j + 2 * r = 2 * k /\ r \in 0..3 BY <1>4, <1>7, <2>2, <3>1
    <3>3. f = 2 * (3 - r) /\ f \in Nat /\ f + 2 <= 8 BY <1>8, <2>2, <3>1, <3>2
    <3>4. j <= B - 1 BY <1>3, <1>4, <1>6, <2>1, <2>2, <3>2
    <3> QED BY <1>3, <1>4, <1>6, <1>8, <2>1, <2>2, <3>2, <3>3, <3>4
  <2>3. CASE b = 4
    <3>1. per = 2 BY <1>4, <2>3
    <3>2. 8 * j + 4 * r = 4 * k /\ r \in 0..1 BY <1>4, <1>7, <2>3, <3>1
    <3>3. f = 4 * (1 - r) /\ f \in Nat /\ f + 4 <= 8 BY <1>8, <2>3, <3>1, <3>2
    <3>4. j <= B - 1 BY <1>3, <1>4, <1>6, <2>1, <2>3, <3>2
    <3> QED BY <1>3, <1>4, <1>6, <1>8, <2>1, <2>3, <3>2, <3>3, <3>4
  <2> QED BY <1>4, <2>2, <2>3
<1>10. N \in Nat /\ Shr(N, s) = csum BY <1>6, <1>8, Multiple
<1>11. PICK bytes : bytes = Chains!CsumBytes(q, csum) OBVIOUS
<1>12. bytes[j] = Shr(N, e) % 256
  <2>1. Chains!CsumShifted(q, csum) = N BY <1>1, <1>2, <1>8, SameBits DEF Chains!CsumShifted
  <2>2. bytes = Chains!ToBytes(N, B) BY <1>1, <1>2, <1>11, <2>1 DEF Chains!CsumBytes
  <2> QED BY <1>8, <1>9, <2>2, SameBits DEF Chains!ToBytes
<1>13. PICK y : y = Shr(N, e) OBVIOUS
<1>14. y \in Nat BY <1>9, <1>10, <1>13, ShrHalves
<1>15. Digit(bytes[j], b, per - 1 - r) = Shr(y % Pow2[8], f) % Pow2[b]
  BY <1>8, <1>12, <1>13, Pow2Eight DEF Digit
<1>16. Shr(y % Pow2[8], f) % Pow2[b] = Shr(y, f) % Pow2[b]
  <2>1. b \in Nat /\ 8 \in Nat BY <1>4
  <2> QED BY <1>9, <1>14, <2>1, LowBits
<1>17. Shr(y, f) = Shr(N, e + f) BY <1>9, <1>10, <1>13, ShrSum
<1>18. PICK g : g = b * (q.len2 - 1 - k) OBVIOUS
<1>19. Shr(N, s + g) = Shr(Shr(N, s), g) BY <1>6, <1>9, <1>10, <1>18, ShrSum
<1>20. Shr(y, f) % Pow2[b] = Digit(csum, b, q.len2 - 1 - k)
  BY <1>9, <1>10, <1>17, <1>18, <1>19 DEF Digit
<1>21. Chains!BaseW(q, bytes, q.len2)[k] = Digit(bytes[j], b, per - 1 - r)
  BY <1>1, <1>3, WordDigits
<1> QED BY <1>1, <1>11, <1>15, <1>16, <1>20, <1>21

-----------------------------------------------------------------------------
(* What is left of the chains after l, and the sum of it.                    *)
LeftOf(q, l) == [k \in 0..(q.len1 - 1) |-> q.w - 1 - l[k]]
Checksum(q, l) == SumTo(LeftOf(q, l), q.len1)

(* A message: bytes of any value.                                            *)
AnyMessage(q) == [Chains!MessageBytes(q) -> 0..255]

(* A digit has the bits of one.                                              *)
LEMMA DigitRange ==
  ASSUME NEW x \in Nat, NEW b \in Nat, NEW n \in Nat
  PROVE  Digit(x, b, n) \in 0..(Pow2[b] - 1)
<1>1. PICK d, t : d = b * n /\ t = Pow2[b] OBVIOUS
<1>2. d \in Nat BY <1>1, TimesNat
<1>3. t \in Nat \ {0} BY <1>1, Pow2Recursion
<1>4. PICK y : y = Shr(x, d) OBVIOUS
<1>5. y \in Nat BY <1>2, <1>4, ShrHalves
<1>6. y % t \in 0..(t - 1) BY <1>3, <1>5, SplitAt
<1>7. Digit(x, b, n) = y % t BY <1>1, <1>4 DEF Digit
<1> QED BY <1>1, <1>6, <1>7

(* The digits of the message bytes are the message's bytes.                  *)
LEMMA MessageSize ==
  ASSUME NEW q, RightSet(q)
  PROVE  /\ q.len1 = PerByte(q) * ((q.len1 * q.logw) \div 8)
         /\ (q.len1 * q.logw) \div 8 \in Nat
         /\ \A k \in 0..(q.len1 - 1) : k \div PerByte(q) \in Chains!MessageBytes(q)
         /\ q.w \in Nat \ {0} /\ Chains!WotsLen(q) = q.len1 + q.len2
<1>1. PICK l, b, per, n : l = q.len1 /\ b = q.logw /\ per = PerByte(q) /\ n = (l * b) \div 8
  OBVIOUS
<1>2. l \in Nat \ {0} /\ (l * b) % 8 = 0 /\ b \in {2, 4} BY <1>1 DEF RightSet
<1>3. per = 8 \div b BY <1>1 DEF PerByte
<1>4. n \in Nat /\ l = per * n /\ \A k \in 0..(l - 1) : k \div per \in 0..(n - 1)
  <2>1. CASE b = 2
    <3>1. per = 4 BY <1>3, <2>1
    <3>2. l = 4 * n /\ n \in Nat BY <1>1, <1>2, <2>1
    <3>3. \A k \in 0..(l - 1) : k \div 4 \in 0..(n - 1) BY <3>2, <1>2
    <3> QED BY <3>1, <3>2, <3>3
  <2>2. CASE b = 4
    <3>1. per = 2 BY <1>3, <2>2
    <3>2. l = 2 * n /\ n \in Nat BY <1>1, <1>2, <2>2
    <3>3. \A k \in 0..(l - 1) : k \div 2 \in 0..(n - 1) BY <3>2, <1>2
    <3> QED BY <3>1, <3>2, <3>3
  <2> QED BY <1>2, <2>1, <2>2
<1>5. Chains!MessageBytes(q) = 0..(n - 1) BY <1>1 DEF Chains!MessageBytes
<1>6. q.w \in Nat \ {0}
  <2>1. q.w = Pow2[b] /\ b \in Nat BY <1>1, <1>2 DEF RightSet
  <2> QED BY <2>1, Pow2Recursion
<1> QED BY <1>1, <1>4, <1>5, <1>6 DEF Chains!WotsLen

(* chain_lengths: the digits of the message.                                 *)
LEMMA MessageDigits ==
  ASSUME NEW q, RightSet(q), NEW m \in AnyMessage(q), NEW k \in 0..(q.len1 - 1)
  PROVE  /\ Chains!BaseW(q, m, q.len1)[k]
              = Digit(m[k \div PerByte(q)], q.logw, PerByte(q) - 1 - (k % PerByte(q)))
         /\ Chains!BaseW(q, m, q.len1)[k] \in 0..(q.w - 1)
<1>1. q.len1 \in Nat /\ q.w = Pow2[q.logw] BY DEF RightSet
<1>2. PICK j, e, b : /\ j = k \div PerByte(q) /\ e = PerByte(q) - 1 - (k % PerByte(q))
                     /\ b = q.logw
  OBVIOUS
<1>3. Chains!BaseW(q, m, q.len1)[k] = Digit(m[j], b, e) BY <1>1, <1>2, WordDigits
<1>4. m[j] \in 0..255
  <2>1. j \in Chains!MessageBytes(q) BY <1>2, MessageSize
  <2> QED BY <2>1 DEF AnyMessage
<1>5. e \in Nat /\ b \in Nat
  <2>1. k \in Nat BY <1>1
  <2>2. PICK per : per = PerByte(q) OBVIOUS
  <2>3. per \in Nat /\ e \in 0..(per - 1) /\ b \in Nat BY <1>2, <2>1, <2>2, BytePlace
  <2> QED BY <2>3
<1>6. m[j] \in Nat BY <1>4
<1>7. Digit(m[j], b, e) \in 0..(Pow2[b] - 1) BY <1>5, <1>6, DigitRange
<1> QED BY <1>1, <1>2, <1>3, <1>7

(* chain_lengths: the message's digits, then those of their checksum.        *)
LEMMA LengthsAre ==
  ASSUME NEW q, RightSet(q), NEW m \in AnyMessage(q), NEW l, l = Chains!ChainLengths(q, m)
  PROVE  /\ DOMAIN l = 0..(Chains!WotsLen(q) - 1)
         /\ \A k \in 0..(q.len1 - 1) : l[k] = Chains!BaseW(q, m, q.len1)[k]
         /\ Checksum(q, l) \in Nat /\ Checksum(q, l) < Pow2[q.logw * q.len2]
         /\ \A k \in 0..(q.len2 - 1) :
              l[q.len1 + k] = Digit(Checksum(q, l), q.logw, q.len2 - 1 - k)
<1> DEFINE ds == Chains!BaseW(q, m, q.len1)
           csum == Chains!Csum(q, ds)
           cs == Chains!BaseW(q, Chains!CsumBytes(q, csum), q.len2)
<1>1. l = [k \in 0..(Chains!WotsLen(q) - 1) |-> IF k < q.len1 THEN ds[k] ELSE cs[k - q.len1]]
  BY DEF Chains!ChainLengths
<1>2. /\ q.len1 \in Nat /\ q.len2 \in Nat \ {0} /\ Chains!WotsLen(q) = q.len1 + q.len2
      /\ q.w \in Nat \ {0} /\ q.w = Pow2[q.logw]
      /\ q.len1 * (q.w - 1) < Pow2[q.logw * q.len2] /\ q.logw \in Nat
  BY MessageSize DEF RightSet
<1> HIDE DEF ds, csum, cs
<1>3. \A k \in 0..(q.len1 - 1) : l[k] = ds[k]
  <2> TAKE k \in 0..(q.len1 - 1)
  <2>1. k \in 0..(Chains!WotsLen(q) - 1) /\ k < q.len1 BY <1>2
  <2> QED BY <1>1, <2>1
<1>4. LeftOf(q, l) = [k \in 0..(q.len1 - 1) |-> q.w - 1 - ds[k]] BY <1>3 DEF LeftOf
<1>5. csum = Checksum(q, l) BY <1>4, SameBits DEF csum, Chains!Csum, Checksum
<1>6. \A k \in 0..(q.len1 - 1) : LeftOf(q, l)[k] \in Nat /\ LeftOf(q, l)[k] <= q.w - 1
  <2> TAKE k \in 0..(q.len1 - 1)
  <2>1. ds[k] \in 0..(q.w - 1) BY MessageDigits DEF ds
  <2>2. LeftOf(q, l)[k] = q.w - 1 - ds[k] BY <1>4
  <2> QED BY <1>2, <2>1, <2>2
<1>7. Checksum(q, l) \in Nat /\ Checksum(q, l) <= q.len1 * (q.w - 1)
  <2>1. PICK n, f, c : n = q.len1 /\ f = LeftOf(q, l) /\ c = q.w - 1 OBVIOUS
  <2>2. n \in Nat /\ c \in Nat /\ \A k \in 0..(n - 1) : f[k] \in Nat /\ f[k] <= c
    BY <1>2, <1>6, <2>1
  <2>3. SumTo(f, n) <= n * c BY <2>2, SumBound
  <2>4. SumTo(f, n) \in Nat
    <3>1. CASE n = 0
      <4>1. SumTo(f, 0) = 0 BY SumRecursion
      <4> QED BY <3>1, <4>1
    <3>2. CASE n # 0
      <4>1. 0 \in 0..(n - 1) BY <2>2, <3>2
      <4>2. PICK z : z = 0 OBVIOUS
      <4>3. f[z] <= SumTo(f, n) BY <2>2, <4>1, <4>2, SumTerm
      <4>4. SumTo(f, n) \in Int BY <2>2, SumInt
      <4>5. f[z] \in Nat BY <2>2, <4>1, <4>2
      <4> QED BY <4>3, <4>4, <4>5
    <3> QED BY <3>1, <3>2
  <2> QED BY <2>1, <2>3, <2>4 DEF Checksum
<1>8. Checksum(q, l) < Pow2[q.logw * q.len2]
  <2>1. PICK x, y, z : x = Checksum(q, l) /\ y = q.len1 * (q.w - 1) /\ z = Pow2[q.logw * q.len2]
    OBVIOUS
  <2>2. x \in Nat /\ x <= y /\ y < z BY <1>2, <1>7, <2>1
  <2>3. y \in Int /\ z \in Int
    <3>1. q.logw * q.len2 \in Nat BY <1>2, TimesNat
    <3>2. q.w - 1 \in Nat BY <1>2
    <3> QED BY <1>2, <2>1, <3>1, <3>2, TimesNat, Pow2Recursion
  <2> QED BY <2>1, <2>2, <2>3
<1>9. \A k \in 0..(q.len2 - 1) : l[q.len1 + k] = Digit(Checksum(q, l), q.logw, q.len2 - 1 - k)
  <2> TAKE k \in 0..(q.len2 - 1)
  <2>1. /\ q.len1 + k \in 0..(Chains!WotsLen(q) - 1) /\ ~(q.len1 + k < q.len1)
        /\ (q.len1 + k) - q.len1 = k
    BY <1>2
  <2>2. l[q.len1 + k] = cs[k] BY <1>1, <2>1
  <2>3. csum \in Nat BY <1>5, <1>7
  <2>4. cs[k] = Digit(csum, q.logw, q.len2 - 1 - k) BY <2>3, ChecksumDigits DEF cs
  <2> QED BY <1>5, <2>2, <2>4
<1> QED BY <1>1, <1>3, <1>7, <1>8, <1>9 DEF ds

(* Every length is a number of steps of a chain.                             *)
LEMMA LengthRange ==
  ASSUME NEW q, RightSet(q), NEW m \in AnyMessage(q),
         NEW k \in 0..(Chains!WotsLen(q) - 1)
  PROVE  Chains!ChainLengths(q, m)[k] \in 0..(q.w - 1)
<1>1. PICK l : l = Chains!ChainLengths(q, m) OBVIOUS
<1>2. /\ q.len1 \in Nat /\ q.len2 \in Nat /\ Chains!WotsLen(q) = q.len1 + q.len2
      /\ q.w = Pow2[q.logw] /\ q.logw \in Nat
  BY MessageSize DEF RightSet
<1>3. CASE k < q.len1
  <2>1. k \in 0..(q.len1 - 1) BY <1>2, <1>3
  <2>2. l[k] = Chains!BaseW(q, m, q.len1)[k] BY <1>1, <2>1, LengthsAre
  <2> QED BY <1>1, <2>1, <2>2, MessageDigits
<1>4. CASE ~(k < q.len1)
  <2>1. PICK j : j = k - q.len1 OBVIOUS
  <2>2. j \in 0..(q.len2 - 1) /\ k = q.len1 + j /\ q.len2 - 1 - j \in Nat BY <1>2, <1>4, <2>1
  <2>3. PICK x, b, e : x = Checksum(q, l) /\ b = q.logw /\ e = q.len2 - 1 - j OBVIOUS
  <2>4. x \in Nat /\ l[q.len1 + j] = Digit(x, b, e) BY <1>1, <2>2, <2>3, LengthsAre
  <2>5. Digit(x, b, e) \in 0..(Pow2[b] - 1) BY <1>2, <2>2, <2>3, <2>4, DigitRange
  <2> QED BY <1>1, <1>2, <2>2, <2>3, <2>4, <2>5
<1> QED BY <1>3, <1>4

-----------------------------------------------------------------------------
(* Messages with the same digits are the same.                               *)
LEMMA DigitsOfMessage ==
  ASSUME NEW q, RightSet(q), NEW m1 \in AnyMessage(q), NEW m2 \in AnyMessage(q),
         \A k \in 0..(q.len1 - 1) :
           Chains!BaseW(q, m1, q.len1)[k] = Chains!BaseW(q, m2, q.len1)[k]
  PROVE  m1 = m2
<1>1. PICK l, b, per, n : l = q.len1 /\ b = q.logw /\ per = PerByte(q) /\ n = (l * b) \div 8
  OBVIOUS
<1>2. l \in Nat /\ l = per * n /\ n \in Nat /\ Chains!MessageBytes(q) = 0..(n - 1)
  BY <1>1, MessageSize DEF RightSet, Chains!MessageBytes
<1>3. per \in Nat \ {0} /\ b \in Nat /\ b * per = 8
  <2>1. PICK z : z = 0 OBVIOUS
  <2>2. z \in Nat BY <2>1
  <2> QED BY <1>1, <2>2, BytePlace
<1>4. ASSUME NEW j \in Chains!MessageBytes(q) PROVE m1[j] = m2[j]
  <2>1. j \in 0..(n - 1) /\ m1[j] \in 0..255 /\ m2[j] \in 0..255 BY <1>2 DEF AnyMessage
  <2>2. ASSUME NEW e \in 0..(per - 1)
        PROVE  Digit(m1[j], b, e) = Digit(m2[j], b, e)
    <3>1. PICK r : r = per - 1 - e OBVIOUS
    <3>2. r \in 0..(per - 1) /\ per - 1 - r = e BY <1>3, <3>1
    <3>3. PICK k : k = per * j + r OBVIOUS
    <3>4. j \in Nat /\ r \in Nat /\ n - 1 - j \in Nat BY <1>2, <2>1, <3>2
    <3>5. per * j \in Nat BY <1>3, <3>4, TimesNat
    <3>6. k \in Nat BY <3>3, <3>4, <3>5
    <3>7. k \div per = j /\ k % per = r
      <4>1. k \div per \in Nat /\ k % per \in 0..(per - 1) /\ k = (k \div per) * per + (k % per)
        BY <1>3, <3>6, SplitAt
      <4>2. PICK u, v : u = k \div per /\ v = k % per OBVIOUS
      <4>3. u * per + v = j * per + r
        <5>1. per * j = j * per BY ONLY <1>3, <3>4
        <5> QED BY <3>3, <4>1, <4>2, <5>1
      <4>4. u \in Nat /\ v \in 0..(per - 1) BY <4>1, <4>2
      <4> QED BY <1>3, <3>2, <3>4, <4>2, <4>3, <4>4, SplitUnique
    <3>8. k \in 0..(l - 1)
      <4>1. PICK d : d = n - 1 - j OBVIOUS
      <4>2. d \in Nat /\ n = j + d + 1 BY <1>2, <3>4, <4>1
      <4>3. per * (j + d + 1) = per * j + per * d + per BY ONLY <1>3, <3>4, <4>2
      <4>4. per * d \in Nat BY <1>3, <4>2, TimesNat
      <4>5. PICK x, y : x = per * j /\ y = per * d OBVIOUS
      <4>6. l = x + y + per /\ k = x + r /\ x \in Nat /\ y \in Nat
        BY <1>2, <3>3, <3>5, <4>2, <4>3, <4>4, <4>5
      <4> QED BY <1>3, <3>2, <4>6
    <3>9. /\ Chains!BaseW(q, m1, q.len1)[k] = Digit(m1[k \div per], b, per - 1 - (k % per))
          /\ Chains!BaseW(q, m2, q.len1)[k] = Digit(m2[k \div per], b, per - 1 - (k % per))
      BY <1>1, <3>8, MessageDigits
    <3>10. Chains!BaseW(q, m1, q.len1)[k] = Chains!BaseW(q, m2, q.len1)[k] BY <1>1, <3>8
    <3> QED BY <3>2, <3>7, <3>9, <3>10
  <2>3. PICK x, y : x = m1[j] /\ y = m2[j] OBVIOUS
  <2>4. x \in Nat /\ y \in Nat /\ x < Pow2[b * per] /\ y < Pow2[b * per]
    BY <1>3, <2>1, <2>3, Pow2Eight
  <2>5. per \in Nat BY <1>3
  <2>6. \A e \in 0..(per - 1) : Digit(x, b, e) = Digit(y, b, e) BY <2>2, <2>3
  <2>7. x = y BY <1>3, <2>4, <2>5, <2>6, DigitsDetermine
  <2> QED BY <2>3, <2>7
<1> QED BY <1>4 DEF AnyMessage

(* The checksum at work: of two messages, each has a chain that is shorter   *)
(* than the other's.                                                         *)
LEMMA SomeShorterChain ==
  ASSUME NEW q, RightSet(q), NEW m1 \in AnyMessage(q), NEW m2 \in AnyMessage(q),
         m1 # m2
  PROVE  \E k \in 0..(Chains!WotsLen(q) - 1) :
           Chains!ChainLengths(q, m2)[k] < Chains!ChainLengths(q, m1)[k]
<1> SUFFICES ASSUME \A k \in 0..(Chains!WotsLen(q) - 1) :
                      ~(Chains!ChainLengths(q, m2)[k] < Chains!ChainLengths(q, m1)[k])
             PROVE  FALSE
  OBVIOUS
<1>1. PICK l1, l2 : l1 = Chains!ChainLengths(q, m1) /\ l2 = Chains!ChainLengths(q, m2)
  OBVIOUS
<1>2. /\ q.len1 \in Nat \ {0} /\ q.len2 \in Nat \ {0} /\ q.logw \in Nat
      /\ Chains!WotsLen(q) = q.len1 + q.len2 /\ q.w \in Nat \ {0}
  BY MessageSize DEF RightSet
<1>3. ASSUME NEW k \in 0..(Chains!WotsLen(q) - 1)
      PROVE  l1[k] \in 0..(q.w - 1) /\ l2[k] \in 0..(q.w - 1) /\ l1[k] <= l2[k]
  <2>1. l1[k] \in 0..(q.w - 1) /\ l2[k] \in 0..(q.w - 1) BY <1>1, LengthRange
  <2>2. ~(l2[k] < l1[k]) BY <1>1
  <2> QED BY <1>2, <2>1, <2>2
<1>4. PICK n, f1, f2, c1, c2, b, t :
        /\ n = q.len1 /\ f1 = LeftOf(q, l1) /\ f2 = LeftOf(q, l2)
        /\ c1 = Checksum(q, l1) /\ c2 = Checksum(q, l2) /\ b = q.logw /\ t = q.len2
  OBVIOUS
<1>5. c1 = SumTo(f1, n) /\ c2 = SumTo(f2, n) BY <1>4 DEF Checksum
<1>6. ASSUME NEW k \in 0..(n - 1)
      PROVE  /\ k \in 0..(Chains!WotsLen(q) - 1)
             /\ f1[k] = q.w - 1 - l1[k] /\ f2[k] = q.w - 1 - l2[k]
             /\ f1[k] \in Int /\ f2[k] \in Int /\ f2[k] <= f1[k]
  <2>1. k \in 0..(Chains!WotsLen(q) - 1) BY <1>2, <1>4
  <2>2. f1[k] = q.w - 1 - l1[k] /\ f2[k] = q.w - 1 - l2[k] BY <1>4 DEF LeftOf
  <2> QED BY <1>2, <1>3, <2>1, <2>2
<1>7. n \in Nat /\ t \in Nat BY <1>2, <1>4
<1>8. c1 \in Nat /\ c2 \in Nat /\ c1 < Pow2[b * t] /\ c2 < Pow2[b * t]
  BY <1>1, <1>4, LengthsAre
<1>9. c2 <= c1
  <2>1. \A k \in 0..(n - 1) : f2[k] \in Int /\ f1[k] \in Int /\ f2[k] <= f1[k] BY <1>6
  <2>2. SumTo(f2, n) <= SumTo(f1, n) BY <1>7, <2>1, SumLeq
  <2> QED BY <1>5, <2>2
<1>10. c1 <= c2
  <2>1. ASSUME NEW e \in 0..(t - 1) PROVE Digit(c1, b, e) <= Digit(c2, b, e)
    <3>1. PICK j : j = t - 1 - e OBVIOUS
    <3>2. j \in 0..(q.len2 - 1) /\ q.len2 - 1 - j = e /\ q.len1 + j \in 0..(Chains!WotsLen(q) - 1)
      BY <1>2, <1>4, <3>1
    <3>3. l1[q.len1 + j] = Digit(c1, b, e) /\ l2[q.len1 + j] = Digit(c2, b, e)
      BY <1>1, <1>4, <3>2, LengthsAre
    <3> QED BY <1>3, <3>2, <3>3
  <2>2. b \in Nat BY <1>2, <1>4
  <2> QED BY <1>7, <1>8, <2>1, <2>2, DigitsOrder
<1>11. c1 = c2 BY <1>8, <1>9, <1>10
<1>12. ASSUME NEW k \in 0..(n - 1) PROVE l1[k] = l2[k]
  <2> SUFFICES ASSUME l1[k] # l2[k] PROVE FALSE OBVIOUS
  <2>1. f2[k] < f1[k]
    <3>1. l1[k] \in 0..(q.w - 1) /\ l2[k] \in 0..(q.w - 1) /\ l1[k] <= l2[k] BY <1>3, <1>6
    <3> QED BY <1>2, <1>6, <3>1
  <2>2. PICK g : g = [j \in 0..(n - 1) |-> IF j = k THEN f2[k] ELSE f1[j]] OBVIOUS
  <2>3. \A j \in 0..(n - 1) : f1[j] \in Int /\ g[j] \in Int BY <1>6, <2>2
  <2>4. \A j \in 0..(n - 1) : j # k => f1[j] = g[j] BY <2>2
  <2>5. SumTo(g, n) = SumTo(f1, n) + (g[k] - f1[k]) BY <1>7, <2>3, <2>4, SumChange
  <2>6. \A j \in 0..(n - 1) : f2[j] \in Int /\ g[j] \in Int /\ f2[j] <= g[j]
    BY <1>6, <2>2
  <2>7. SumTo(f2, n) <= SumTo(g, n) BY <1>7, <2>6, SumLeq
  <2>8. g[k] = f2[k] BY <2>2
  <2>9. f2[k] \in Int /\ f1[k] \in Int BY <1>6
  <2>10. PICK u, v, s1, s2, s3 : /\ u = f1[k] /\ v = f2[k] /\ s1 = SumTo(f1, n)
                                /\ s2 = SumTo(f2, n) /\ s3 = SumTo(g, n)
    OBVIOUS
  <2>11. /\ s1 = s2 /\ s1 \in Nat /\ s3 = s1 + (v - u) /\ s2 <= s3 /\ v < u
         /\ u \in Int /\ v \in Int
    BY <1>5, <1>8, <1>11, <2>1, <2>5, <2>7, <2>8, <2>9, <2>10
  <2> QED BY ONLY <2>11
<1>13. ASSUME NEW k \in 0..(q.len1 - 1)
       PROVE  Chains!BaseW(q, m1, q.len1)[k] = Chains!BaseW(q, m2, q.len1)[k]
  <2>1. l1[k] = l2[k] BY <1>4, <1>12
  <2>2. l1[k] = Chains!BaseW(q, m1, q.len1)[k] BY <1>1, LengthsAre
  <2>3. l2[k] = Chains!BaseW(q, m2, q.len1)[k] BY <1>1, LengthsAre
  <2> QED BY <2>1, <2>2, <2>3
<1> QED BY <1>13, DigitsOfMessage

(* Different messages have different lengths.                                *)
LEMMA LengthsDiffer ==
  ASSUME NEW q, RightSet(q), NEW m1 \in AnyMessage(q), NEW m2 \in AnyMessage(q),
         m1 # m2
  PROVE  \E k \in 0..(Chains!WotsLen(q) - 1) :
           Chains!ChainLengths(q, m2)[k] # Chains!ChainLengths(q, m1)[k]
<1>1. PICK k \in 0..(Chains!WotsLen(q) - 1) :
        Chains!ChainLengths(q, m2)[k] < Chains!ChainLengths(q, m1)[k]
  BY SomeShorterChain
<1>2. Chains!ChainLengths(q, m2)[k] \in 0..(q.w - 1) BY LengthRange
<1>3. Chains!ChainLengths(q, m1)[k] \in 0..(q.w - 1) BY LengthRange
<1>4. q.w \in Nat BY MessageSize
<1> QED BY <1>1, <1>2, <1>3, <1>4

-----------------------------------------------------------------------------
(* ChecksumKept: the last digits, with their weights, add up to the checksum. *)
LEMMA ChecksumDigitsSum ==
  ASSUME NEW q, RightSet(q), NEW m \in AnyMessage(q), NEW l, l = Chains!ChainLengths(q, m)
  PROVE  Chains!SumTo([k \in 0..(q.len2 - 1) |->
                        l[q.len1 + k] * Chains!Pow2[q.logw * (q.len2 - 1 - k)]], q.len2)
           = Chains!SumTo([k \in 0..(q.len1 - 1) |-> q.w - 1 - l[k]], q.len1)
<1>1. PICK f : f = [k \in 0..(q.len2 - 1) |-> l[q.len1 + k] * Pow2[q.logw * (q.len2 - 1 - k)]]
  OBVIOUS
<1>2. PICK b, n, x : b = q.logw /\ n = q.len2 /\ x = Checksum(q, l) OBVIOUS
<1>3. b \in Nat /\ n \in Nat BY <1>2 DEF RightSet
<1>4. x \in Nat /\ x < Pow2[b * n] BY <1>2, LengthsAre
<1>5. ASSUME NEW k \in 0..(n - 1)
      PROVE  f[k] = Digit(x, b, n - 1 - k) * Pow2[b * (n - 1 - k)]
  <2>1. k \in 0..(q.len2 - 1) BY <1>2
  <2>2. f[k] = l[q.len1 + k] * Pow2[q.logw * (q.len2 - 1 - k)] BY <1>1, <2>1
  <2>3. l[q.len1 + k] = Digit(Checksum(q, l), q.logw, q.len2 - 1 - k) BY <2>1, LengthsAre
  <2> QED BY <1>2, <2>2, <2>3
<1>6. SumTo(f, n) = x BY <1>3, <1>4, <1>5, DigitsSum
<1> QED BY <1>1, <1>2, <1>6, SameBits DEF Checksum, LeftOf

-----------------------------------------------------------------------------
(* s lists the values of f from the first to the n-th.                       *)
Listing(s, n, f) == s = [k \in 1..n |-> f[k]]

(* Appending the next value lists one more.                                  *)
LEMMA ListingAppend ==
  ASSUME NEW n \in Nat, NEW f, NEW s, NEW e, Listing(s, n, f), e = f[n + 1]
  PROVE  Listing(Append(s, e), n + 1, f)
<1> DEFINE S == {f[k] : k \in 1..(n + 1)}
<1>1. s \in Seq(S) /\ Len(s) = n
  <2>1. s \in [1..n -> S] BY DEF Listing
  <2>2. s \in Seq(S) BY <2>1
  <2> QED BY <2>1, <2>2
<1>2. e \in S OBVIOUS
<1>3. /\ Append(s, e) \in Seq(S) /\ Len(Append(s, e)) = n + 1
      /\ \A k \in 1..n : Append(s, e)[k] = s[k]
      /\ Append(s, e)[n + 1] = e
  BY <1>1, <1>2
<1>4. \A k \in 1..(n + 1) : Append(s, e)[k] = f[k]
  <2> TAKE k \in 1..(n + 1)
  <2>1. CASE k = n + 1 BY <2>1, <1>3
  <2>2. CASE k # n + 1
    <3>1. k \in 1..n BY <2>2
    <3> QED BY <3>1, <1>3 DEF Listing
  <2> QED BY <2>1, <2>2
<1>5. Append(s, e) = [k \in 1..(n + 1) |-> Append(s, e)[k]]
  <2> HIDE DEF S
  <2> QED BY <1>3
<1> HIDE DEF S
<1> QED BY <1>4, <1>5 DEF Listing

(* An empty list lists none.                                                 *)
LEMMA ListingNone == ASSUME NEW f PROVE Listing(<<>>, 0, f)
BY DEF Listing

-----------------------------------------------------------------------------
(* An address as the chain functions see it.                                 *)
Address == [chain : Nat, hash : Nat]

(* The secret of chain c, the hash calls on it from a step on, the value a   *)
(* number of steps leads to, and what further calls make of it.              *)
SecretOf(q, c) ==
  IF q.secrets = "ctr" THEN <<"ctr", c>> ELSE <<"addr", [chain |-> c, hash |-> 0]>>
Calls(c, from, n) == [k \in 1..n |-> [chain |-> c, hash |-> from + k - 1]]
Value(q, c, n) == <<SecretOf(q, c)>> \o Calls(c, 0, n)
Resumed(q, c, n, from) == Value(q, c, n) \o Calls(c, from, q.w - 1 - from)
Links(q, c) == {SecretOf(q, c)} \cup {[chain |-> c, hash |-> h] : h \in Nat}

(* The calls one by one.                                                     *)
LEMMA CallsList ==
  ASSUME NEW q, NEW c \in Nat, NEW from \in Nat, NEW n \in Nat
  PROVE  /\ Calls(c, from, n) \in Seq(Links(q, c)) /\ Len(Calls(c, from, n)) = n
         /\ \A k \in 1..n : Calls(c, from, n)[k] = [chain |-> c, hash |-> from + k - 1]
<1> DEFINE A == {[chain |-> c, hash |-> h] : h \in Nat}
<1>1. A \subseteq Links(q, c) BY DEF Links
<1>2. \A k \in 1..n : [chain |-> c, hash |-> from + k - 1] \in A
  <2> TAKE k \in 1..n
  <2>1. from + k - 1 \in Nat OBVIOUS
  <2> QED BY <2>1
<1>3. Calls(c, from, n) \in [1..n -> Links(q, c)] BY <1>1, <1>2 DEF Calls
<1>4. \A k \in 1..n : Calls(c, from, n)[k] = [chain |-> c, hash |-> from + k - 1]
  BY DEF Calls
<1> HIDE DEF A
<1> QED BY <1>3, <1>4

(* A chain value link by link.                                               *)
LEMMA ValueList ==
  ASSUME NEW q, NEW c \in Nat, NEW n \in Nat
  PROVE  /\ Value(q, c, n) \in Seq(Links(q, c)) /\ Len(Value(q, c, n)) = n + 1
         /\ Value(q, c, n)[1] = SecretOf(q, c)
         /\ \A k \in 2..(n + 1) : Value(q, c, n)[k] = [chain |-> c, hash |-> k - 2]
<1>1. PICK T, s, u, h : /\ T = Links(q, c) /\ s = <<SecretOf(q, c)>>
                        /\ h = SecretOf(q, c) /\ u = Calls(c, 0, n)
  OBVIOUS
<1>2. s \in Seq(T) /\ Len(s) = 1 /\ s[1] = h BY <1>1 DEF Links
<1>3. PICK z : z = 0 OBVIOUS
<1>4. /\ u \in Seq(T) /\ Len(u) = n
      /\ \A k \in 1..n : u[k] = [chain |-> c, hash |-> z + k - 1]
  BY <1>1, <1>3, CallsList
<1>5. Value(q, c, n) = s \o u BY <1>1 DEF Value
<1>6. /\ s \o u \in Seq(T) /\ Len(s \o u) = n + 1 /\ (s \o u)[1] = h
      /\ \A k \in 2..(n + 1) : (s \o u)[k] = u[k - 1]
  <2>1. /\ s \o u \in Seq(T) /\ Len(s \o u) = Len(s) + Len(u)
        /\ \A k \in 1..(Len(s) + Len(u)) :
             (s \o u)[k] = IF k <= Len(s) THEN s[k] ELSE u[k - Len(s)]
    BY <1>2, <1>4, ConcatProperties
  <2>2. \A k \in 1..(1 + n) : (s \o u)[k] = IF k <= 1 THEN s[k] ELSE u[k - 1]
    BY <1>2, <1>4, <2>1
  <2> QED BY <1>2, <1>4, <2>1, <2>2
<1>7. \A k \in 2..(n + 1) : u[k - 1] = [chain |-> c, hash |-> k - 2]
  <2> TAKE k \in 2..(n + 1)
  <2>1. k - 1 \in 1..n /\ z + (k - 1) - 1 = k - 2 BY <1>3
  <2> QED BY <1>4, <2>1
<1> QED BY <1>1, <1>5, <1>6, <1>7

(* A chain resumed where it stopped ends where it would have; elsewhere it   *)
(* does not.                                                                 *)
LEMMA ResumedRight ==
  ASSUME NEW q, RightSet(q), NEW c \in Nat, NEW n \in 0..(q.w - 1), NEW from \in 0..(q.w - 1)
  PROVE  Resumed(q, c, n, from) = Value(q, c, q.w - 1) <=> from = n
<1>1. q.w \in Nat \ {0} BY MessageSize
<1>2. PICK W1, T, s, u, v, d : /\ W1 = q.w - 1 /\ T = Links(q, c) /\ s = Value(q, c, n)
                               /\ d = W1 - from
                               /\ u = Calls(c, from, d) /\ v = Value(q, c, W1)
  OBVIOUS
<1>3. W1 \in Nat /\ n \in Nat /\ from \in Nat /\ d \in Nat /\ n <= W1 /\ from <= W1
  BY <1>1, <1>2
<1>4. /\ s \in Seq(T) /\ Len(s) = n + 1 /\ s[1] = SecretOf(q, c)
      /\ \A k \in 2..(n + 1) : s[k] = [chain |-> c, hash |-> k - 2]
  <2>1. /\ Value(q, c, n) \in Seq(Links(q, c)) /\ Len(Value(q, c, n)) = n + 1
        /\ Value(q, c, n)[1] = SecretOf(q, c)
        /\ \A k \in 2..(n + 1) : Value(q, c, n)[k] = [chain |-> c, hash |-> k - 2]
    BY <1>3, ValueList
  <2> QED BY <1>2, <2>1
<1>5. /\ u \in Seq(T) /\ Len(u) = d
      /\ \A k \in 1..d : u[k] = [chain |-> c, hash |-> from + k - 1]
  <2>1. /\ Calls(c, from, d) \in Seq(Links(q, c)) /\ Len(Calls(c, from, d)) = d
        /\ \A k \in 1..d : Calls(c, from, d)[k] = [chain |-> c, hash |-> from + k - 1]
    BY <1>3, CallsList
  <2> QED BY <1>2, <2>1
<1>6. /\ v \in Seq(T) /\ Len(v) = W1 + 1 /\ v[1] = SecretOf(q, c)
      /\ \A k \in 2..(W1 + 1) : v[k] = [chain |-> c, hash |-> k - 2]
  <2>1. /\ Value(q, c, W1) \in Seq(Links(q, c)) /\ Len(Value(q, c, W1)) = W1 + 1
        /\ Value(q, c, W1)[1] = SecretOf(q, c)
        /\ \A k \in 2..(W1 + 1) : Value(q, c, W1)[k] = [chain |-> c, hash |-> k - 2]
    BY <1>3, ValueList
  <2> QED BY <1>2, <2>1
<1>7. /\ s \o u \in Seq(T) /\ Len(s \o u) = (n + 1) + d
      /\ \A k \in 1..((n + 1) + d) : (s \o u)[k] = IF k <= n + 1 THEN s[k] ELSE u[k - (n + 1)]
  <2>1. /\ s \o u \in Seq(T) /\ Len(s \o u) = Len(s) + Len(u)
        /\ \A k \in 1..(Len(s) + Len(u)) :
             (s \o u)[k] = IF k <= Len(s) THEN s[k] ELSE u[k - Len(s)]
    BY <1>4, <1>5, ConcatProperties
  <2> QED BY <1>4, <1>5, <2>1
<1>8. ASSUME from = n PROVE s \o u = v
  <2>1. (n + 1) + d = W1 + 1 BY <1>2, <1>3, <1>8
  <2>2. \A k \in 1..(W1 + 1) : (s \o u)[k] = v[k]
    <3> TAKE k \in 1..(W1 + 1)
    <3>1. CASE k = 1
      <4>1. k <= n + 1 BY <1>3, <3>1
      <4> QED BY <1>4, <1>6, <1>7, <2>1, <3>1, <4>1
    <3>2. CASE k # 1 /\ k <= n + 1
      <4>1. k \in 2..(n + 1) /\ k \in 2..(W1 + 1) BY <1>3, <3>2
      <4> QED BY <1>4, <1>6, <1>7, <2>1, <3>2, <4>1
    <3>3. CASE ~(k <= n + 1)
      <4>1. k - (n + 1) \in 1..d /\ k \in 2..(W1 + 1) /\ from + (k - (n + 1)) - 1 = k - 2
        BY <1>2, <1>3, <1>8, <3>3
      <4>2. PICK j : j = k - (n + 1) OBVIOUS
      <4>3. u[j] = [chain |-> c, hash |-> k - 2] BY <1>5, <4>1, <4>2
      <4>4. (s \o u)[k] = u[j] BY <1>7, <2>1, <3>3, <4>2
      <4> QED BY <1>6, <4>1, <4>3, <4>4
    <3> QED BY <3>1, <3>2, <3>3
  <2>3. Len(s \o u) = Len(v) /\ \A k \in 1..Len(s \o u) : (s \o u)[k] = v[k]
    BY <1>6, <1>7, <2>1, <2>2
  <2>4. PICK t : t = s \o u OBVIOUS
  <2> QED BY <1>6, <1>7, <2>3, <2>4, SeqEqual
<1>9. ASSUME s \o u = v PROVE from = n
  <2>1. (n + 1) + d = W1 + 1 BY <1>6, <1>7, <1>9
  <2> QED BY <1>2, <1>3, <2>1
<1>10. Resumed(q, c, n, from) = s \o u BY <1>2 DEF Resumed
<1> QED BY <1>2, <1>8, <1>9, <1>10

-----------------------------------------------------------------------------
(* gen_chain: the calls it makes, and the address it leaves.                 *)
LEMMA ChainWalk ==
  ASSUME NEW q, RightSet(q), NEW s, NEW c \in Nat, NEW h \in Nat,
         s.addr = [chain |-> c, hash |-> h],
         NEW from \in Nat, NEW n \in Nat, from + n <= q.w - 1
  PROVE  /\ Chains!GenChain(q, s, from, n).val = s.val \o Calls(c, from, n)
         /\ Chains!GenChain(q, s, from, n).addr \in Address
<1>1. q.w \in Nat BY MessageSize
<1>2. PICK a : a = s.addr OBVIOUS
<1>3. Chains!HashCalls(q, a, from, n)
        = [k \in 1..((from + n) - from) |-> [a EXCEPT !.hash = from + k - 1]]
  <2>1. from + n < q.w BY <1>1
  <2> QED BY <2>1 DEF Chains!HashCalls
<1>4. Chains!HashCalls(q, a, from, n) = Calls(c, from, n)
  <2>1. (from + n) - from = n OBVIOUS
  <2>2. \A x : [a EXCEPT !.hash = x] = [chain |-> c, hash |-> x] BY <1>2
  <2> QED BY <1>3, <2>1, <2>2 DEF Calls
<1>5. PICK u : u = Calls(c, from, n) OBVIOUS
<1>6. Chains!GenChain(q, s, from, n)
        = [val |-> s.val \o u, addr |-> IF u = <<>> THEN a ELSE Chains!Last(u)]
  BY <1>2, <1>4, <1>5 DEF Chains!GenChain
<1>7. (IF u = <<>> THEN a ELSE Chains!Last(u)) \in Address
  <2>1. CASE u = <<>> BY <1>2, <2>1 DEF Address
  <2>2. CASE u # <<>>
    <3>1. u \in [1..n -> Address]
      <4>1. \A k \in 1..n : [chain |-> c, hash |-> from + k - 1] \in Address
        <5> TAKE k \in 1..n
        <5>1. from + k - 1 \in Nat OBVIOUS
        <5> QED BY <5>1 DEF Address
      <4> QED BY <1>5, <4>1 DEF Calls
    <3>2. u \in Seq(Address) /\ Len(u) = n BY <3>1
    <3>3. n # 0 BY <2>2, <3>2
    <3>4. u[n] \in Address BY <3>1, <3>3
    <3> QED BY <2>2, <3>2, <3>4 DEF Chains!Last
  <2> QED BY <2>1, <2>2
<1> QED BY <1>5, <1>6, <1>7

(* A chain from its secret.                                                  *)
LEMMA ChainFromSecret ==
  ASSUME NEW q, RightSet(q), NEW a \in Address, NEW c \in Nat, NEW n \in 0..(q.w - 1),
         NEW g, g = Chains!GenChain(q, Chains!Start(q, Chains!OnChain(a, c)), 0, n)
  PROVE  g.val = Value(q, c, n) /\ g.addr \in Address
<1>1. q.w \in Nat BY MessageSize
<1>2. PICK s, z, h : /\ s = Chains!Start(q, Chains!OnChain(a, c)) /\ z = 0
                     /\ h = IF q.secrets = "ctr" THEN a.hash ELSE 0
  OBVIOUS
<1>3. PICK ch, ha : ch \in Nat /\ ha \in Nat /\ a = [chain |-> ch, hash |-> ha]
  BY DEF Address
<1>4. Chains!OnChain(a, c) = [chain |-> c, hash |-> ha] BY <1>3 DEF Chains!OnChain
<1>5. s.addr = [chain |-> c, hash |-> h] /\ s.val = <<SecretOf(q, c)>> /\ h \in Nat
  <2>1. CASE q.secrets = "ctr"
    BY <1>2, <1>3, <1>4, <2>1 DEF Chains!Start, Chains!Secret, SecretOf
  <2>2. CASE q.secrets # "ctr"
    <3>1. [Chains!OnChain(a, c) EXCEPT !.hash = 0] = [chain |-> c, hash |-> 0] BY <1>4
    <3> QED BY <1>2, <2>2, <3>1 DEF Chains!Start, Chains!Secret, SecretOf
  <2> QED BY <2>1, <2>2
<1>6. z \in Nat /\ n \in Nat /\ z + n <= q.w - 1 BY <1>1, <1>2
<1>7. /\ Chains!GenChain(q, s, z, n).val = s.val \o Calls(c, z, n)
      /\ Chains!GenChain(q, s, z, n).addr \in Address
  BY <1>5, <1>6, ChainWalk
<1> QED BY <1>2, <1>5, <1>7 DEF Value

(* A chain from a published value.                                           *)
LEMMA ChainFromValue ==
  ASSUME NEW q, RightSet(q), NEW a \in Address, NEW c \in Nat, NEW n \in Nat,
         NEW d \in Nat, n + d <= q.w - 1, NEW s, s.addr = Chains!OnChain(a, c),
         NEW g, g = Chains!GenChain(q, s, n, d)
  PROVE  g.val = s.val \o Calls(c, n, d) /\ g.addr \in Address
<1>1. q.w \in Nat BY MessageSize
<1>2. n + d <= q.w - 1 OBVIOUS
<1>3. PICK ch, ha : ch \in Nat /\ ha \in Nat /\ a = [chain |-> ch, hash |-> ha]
  BY DEF Address
<1>4. Chains!OnChain(a, c) = [chain |-> c, hash |-> ha] BY <1>3 DEF Chains!OnChain
<1>5. s.addr = [chain |-> c, hash |-> ha] BY <1>4
<1>6. RightSet(q) OBVIOUS
<1>7. \A x, y \in Nat : x + y <= q.w - 1 =>
        /\ Chains!GenChain(q, s, x, y).val = s.val \o Calls(c, x, y)
        /\ Chains!GenChain(q, s, x, y).addr \in Address
  BY ONLY <1>3, <1>5, <1>6, c \in Nat, ChainWalk
<1> QED BY <1>2, <1>7

-----------------------------------------------------------------------------
(* The key, the signature on m, and what opening that as one on o gives.     *)
ChainEnds(q) == [k \in 1..Chains!WotsLen(q) |-> Value(q, k - 1, q.w - 1)]
SignatureOn(q, m) ==
  [k \in 1..Chains!WotsLen(q) |-> Value(q, k - 1, Chains!ChainLengths(q, m)[k - 1])]
Reopened(q, m, o) ==
  [k \in 1..Chains!WotsLen(q) |->
     Resumed(q, k - 1, Chains!ChainLengths(q, m)[k - 1], Chains!ChainLengths(q, o)[k - 1])]

(* The inductive invariant: whatever the loops have appended so far is a     *)
(* part of these, at any address the caller began with.                      *)
ChainsInv ==
  /\ p \in ParamSets /\ addr \in Address
  /\ i \in 0..Chains!WotsLen(p)
  /\ pc \in {"pkgen", "sign", "open"}
  /\ pc = "pkgen" =>
       lengths = <<>> /\ sig = <<>> /\ pk2 = <<>> /\ Listing(pk, i, ChainEnds(p))
  /\ pc # "pkgen" => msg \in Chains!Messages(p) /\ pk = ChainEnds(p)
  /\ pc = "sign" =>
       /\ lengths = Chains!ChainLengths(p, msg) /\ pk2 = <<>>
       /\ Listing(sig, i, SignatureOn(p, msg))
  /\ pc = "open" =>
       /\ opened \in {msg} \cup Chains!Tried(p) /\ sig = SignatureOn(p, msg)
       /\ lengths = Chains!ChainLengths(p, opened)
       /\ Listing(pk2, i, Reopened(p, msg, opened))

(* The messages are messages.                                                *)
LEMMA MessagesAre ==
  ASSUME NEW q \in ParamSets
  PROVE  Chains!Messages(q) \subseteq AnyMessage(q) /\ Chains!Tried(q) \subseteq AnyMessage(q)
<1>1. q.bytes \subseteq 0..255 BY SetsRight DEF RightSet
<1>2. OtherBytes \subseteq 0..255 BY ChainsAssumption DEF Chains!ValuesAssumption
<1> QED BY <1>1, <1>2 DEF Chains!Messages, Chains!Tried, AnyMessage

-----------------------------------------------------------------------------
(* The invariant holds initially, at any address.                            *)
LEMMA ChainsInit == Chains!Init => ChainsInv
<1> SUFFICES ASSUME Chains!Init PROVE ChainsInv OBVIOUS
<1>1. /\ p \in ParamSets /\ pc = "pkgen" /\ i = 0 /\ addr \in Addresses
      /\ lengths = <<>> /\ sig = <<>> /\ pk2 = <<>> /\ pk = <<>>
  BY DEF Chains!Init
<1>2. addr \in Address BY <1>1, ChainsAssumption DEF Chains!ValuesAssumption, Address
<1>3. i \in 0..Chains!WotsLen(p)
  <2>1. RightSet(p) BY <1>1, SetsRight
  <2> QED BY <1>1, <2>1 DEF RightSet, Chains!WotsLen
<1>4. Listing(pk, i, ChainEnds(p)) BY <1>1, ListingNone
<1> QED BY <1>1, <1>2, <1>3, <1>4 DEF ChainsInv

(* One iteration of wots_pkgen appends the end of the next chain.            *)
LEMMA PkGenChainKeeps ==
  ASSUME ChainsInv, Chains!PkGenChain PROVE ChainsInv'
<1>1. PICK g : g = Chains!GenChain(p, Chains!Start(p, Chains!OnChain(addr, i)), 0, p.w - 1)
  OBVIOUS
<1>2. /\ pc = "pkgen" /\ i < Chains!WotsLen(p) /\ pk' = Append(pk, g.val) /\ addr' = g.addr
      /\ i' = i + 1 /\ p' = p /\ pc' = pc /\ lengths' = lengths /\ sig' = sig /\ pk2' = pk2
  BY <1>1 DEF Chains!PkGenChain
<1>3. /\ p \in ParamSets /\ addr \in Address /\ i \in 0..Chains!WotsLen(p)
      /\ lengths = <<>> /\ sig = <<>> /\ pk2 = <<>> /\ Listing(pk, i, ChainEnds(p))
  BY <1>2 DEF ChainsInv
<1>4. RightSet(p) BY <1>3, SetsRight
<1>5. Chains!WotsLen(p) \in Nat /\ p.w \in Nat \ {0}
  BY <1>4, MessageSize DEF RightSet
<1>6. i \in Nat /\ i + 1 \in 1..Chains!WotsLen(p) /\ (i + 1) - 1 = i /\ p.w - 1 \in 0..(p.w - 1)
  BY <1>2, <1>3, <1>5
<1>7. g.val = Value(p, i, p.w - 1) /\ g.addr \in Address
  <2>1. PICK n : n = p.w - 1 OBVIOUS
  <2> QED BY <1>1, <1>3, <1>4, <1>6, <2>1, ChainFromSecret
<1>8. ChainEnds(p)[i + 1] = g.val BY <1>6, <1>7 DEF ChainEnds
<1>9. Listing(Append(pk, g.val), i + 1, ChainEnds(p)) BY <1>3, <1>6, <1>8, ListingAppend
<1> QED BY <1>2, <1>3, <1>5, <1>6, <1>7, <1>9 DEF ChainsInv, Chains!WotsLen

(* A complete key is all the ends.                                           *)
LEMMA SignBeginKeeps ==
  ASSUME ChainsInv, NEW m \in Chains!Messages(p), Chains!SignBegin(m) PROVE ChainsInv'
<1>1. /\ pc = "pkgen" /\ i = Chains!WotsLen(p) /\ pc' = "sign" /\ i' = 0 /\ msg' = m
      /\ lengths' = Chains!ChainLengths(p, m) /\ p' = p /\ addr' = addr /\ pk' = pk
      /\ sig' = sig /\ pk2' = pk2
  BY DEF Chains!SignBegin
<1>2. /\ p \in ParamSets /\ addr \in Address /\ i \in 0..Chains!WotsLen(p)
      /\ sig = <<>> /\ pk2 = <<>> /\ Listing(pk, i, ChainEnds(p))
  BY <1>1 DEF ChainsInv
<1>3. i' \in 0..Chains!WotsLen(p)
  <2>1. RightSet(p) BY <1>2, SetsRight
  <2> QED BY <1>1, <2>1 DEF RightSet, Chains!WotsLen
<1>4. pk = ChainEnds(p) BY <1>1, <1>2 DEF Listing, ChainEnds
<1>5. Listing(sig, 0, SignatureOn(p, m)) BY <1>2, ListingNone
<1>6. Chains!Messages(p)' = Chains!Messages(p) /\ Chains!WotsLen(p)' = Chains!WotsLen(p)
  BY <1>1
<1>7. m \in Chains!Messages(p)' BY <1>6
<1> QED BY <1>1, <1>2, <1>3, <1>4, <1>5, <1>6, <1>7 DEF ChainsInv

(* One iteration of wots_sign appends the next published value.              *)
LEMMA SignChainKeeps ==
  ASSUME ChainsInv, Chains!SignChain PROVE ChainsInv'
<1>1. PICK g, n : /\ n = lengths[i]
                  /\ g = Chains!GenChain(p, Chains!Start(p, Chains!OnChain(addr, i)), 0, n)
  OBVIOUS
<1>2. /\ pc = "sign" /\ i < Chains!WotsLen(p) /\ sig' = Append(sig, g.val) /\ addr' = g.addr
      /\ i' = i + 1 /\ p' = p /\ pc' = pc /\ lengths' = lengths /\ pk' = pk /\ pk2' = pk2
      /\ msg' = msg
  BY <1>1 DEF Chains!SignChain
<1>3. /\ p \in ParamSets /\ addr \in Address /\ i \in 0..Chains!WotsLen(p)
      /\ msg \in Chains!Messages(p) /\ pk = ChainEnds(p)
      /\ lengths = Chains!ChainLengths(p, msg) /\ pk2 = <<>>
      /\ Listing(sig, i, SignatureOn(p, msg))
  BY <1>2 DEF ChainsInv
<1>4. RightSet(p) /\ msg \in AnyMessage(p) BY <1>3, SetsRight, MessagesAre
<1>5. Chains!WotsLen(p) \in Nat BY <1>4 DEF RightSet, Chains!WotsLen
<1>6. /\ i \in Nat /\ i + 1 \in 1..Chains!WotsLen(p) /\ (i + 1) - 1 = i
      /\ i \in 0..(Chains!WotsLen(p) - 1)
  BY <1>2, <1>3, <1>5
<1>7. n \in 0..(p.w - 1) BY <1>1, <1>3, <1>4, <1>6, LengthRange
<1>8. g.val = Value(p, i, n) /\ g.addr \in Address
  BY <1>1, <1>3, <1>4, <1>6, <1>7, ChainFromSecret
<1>9. SignatureOn(p, msg)[i + 1] = g.val BY <1>1, <1>3, <1>6, <1>8 DEF SignatureOn
<1>10. Listing(Append(sig, g.val), i + 1, SignatureOn(p, msg))
  BY <1>3, <1>6, <1>9, ListingAppend
<1>11. Chains!Messages(p)' = Chains!Messages(p) /\ Chains!WotsLen(p)' = Chains!WotsLen(p)
  BY <1>2
<1>12. i' \in 0..Chains!WotsLen(p) BY <1>2, <1>5, <1>6
<1> QED BY <1>2, <1>3, <1>8, <1>10, <1>11, <1>12 DEF ChainsInv

(* A complete signature is all the published values.                         *)
LEMMA OpenBeginKeeps ==
  ASSUME ChainsInv, NEW m \in {msg} \cup Chains!Tried(p), Chains!OpenBegin(m) PROVE ChainsInv'
<1>1. /\ pc = "sign" /\ i = Chains!WotsLen(p) /\ pc' = "open" /\ i' = 0 /\ opened' = m
      /\ lengths' = Chains!ChainLengths(p, m) /\ p' = p /\ addr' = addr /\ pk' = pk
      /\ sig' = sig /\ pk2' = pk2 /\ msg' = msg
  BY DEF Chains!OpenBegin
<1>2. /\ p \in ParamSets /\ addr \in Address /\ i \in 0..Chains!WotsLen(p)
      /\ msg \in Chains!Messages(p) /\ pk = ChainEnds(p) /\ pk2 = <<>>
      /\ Listing(sig, i, SignatureOn(p, msg))
  BY <1>1 DEF ChainsInv
<1>3. i' \in 0..Chains!WotsLen(p)
  <2>1. RightSet(p) BY <1>2, SetsRight
  <2> QED BY <1>1, <2>1 DEF RightSet, Chains!WotsLen
<1>4. sig = SignatureOn(p, msg) BY <1>1, <1>2 DEF Listing, SignatureOn
<1>5. Listing(pk2, 0, Reopened(p, msg, m)) BY <1>2, ListingNone
<1>6. /\ Chains!Messages(p)' = Chains!Messages(p) /\ Chains!WotsLen(p)' = Chains!WotsLen(p)
      /\ Chains!Tried(p)' = Chains!Tried(p)
  BY <1>1
<1> QED BY <1>1, <1>2, <1>3, <1>4, <1>5, <1>6 DEF ChainsInv

(* One iteration of wots_pk_from_sig resumes the next chain.                 *)
LEMMA OpenChainKeeps ==
  ASSUME ChainsInv, Chains!OpenChain PROVE ChainsInv'
<1>1. PICK g, n, v, d, s :
        /\ n = lengths[i] /\ v = sig[i + 1] /\ d = p.w - 1 - n
        /\ s = [val |-> v, addr |-> Chains!OnChain(addr, i)]
        /\ g = Chains!GenChain(p, s, n, d)
  OBVIOUS
<1>2. /\ pc = "open" /\ i < Chains!WotsLen(p) /\ pk2' = Append(pk2, g.val) /\ addr' = g.addr
      /\ i' = i + 1 /\ p' = p /\ pc' = pc /\ lengths' = lengths /\ pk' = pk /\ sig' = sig
      /\ msg' = msg /\ opened' = opened
  BY <1>1 DEF Chains!OpenChain
<1>3. /\ p \in ParamSets /\ addr \in Address /\ i \in 0..Chains!WotsLen(p)
      /\ msg \in Chains!Messages(p) /\ pk = ChainEnds(p)
      /\ opened \in {msg} \cup Chains!Tried(p) /\ sig = SignatureOn(p, msg)
      /\ lengths = Chains!ChainLengths(p, opened)
      /\ Listing(pk2, i, Reopened(p, msg, opened))
  BY <1>2 DEF ChainsInv
<1>4. RightSet(p) /\ msg \in AnyMessage(p) /\ opened \in AnyMessage(p)
  BY <1>3, SetsRight, MessagesAre
<1>5. Chains!WotsLen(p) \in Nat BY <1>4 DEF RightSet, Chains!WotsLen
<1>6. /\ i \in Nat /\ i + 1 \in 1..Chains!WotsLen(p) /\ (i + 1) - 1 = i
      /\ i \in 0..(Chains!WotsLen(p) - 1)
  BY <1>2, <1>3, <1>5
<1>7. n \in 0..(p.w - 1) BY <1>1, <1>3, <1>4, <1>6, LengthRange
<1>8. g.val = v \o Calls(i, n, d) /\ g.addr \in Address
  <2>1. s.val = v /\ s.addr = Chains!OnChain(addr, i) BY <1>1
  <2>2. d = p.w - 1 - n /\ g = Chains!GenChain(p, s, n, d) BY <1>1
  <2>3. n \in Nat /\ d \in Nat /\ n + d <= p.w - 1
    <3>1. p.w \in Nat BY <1>4, MessageSize
    <3> QED BY <1>7, <2>2, <3>1
  <2>4. g.val = s.val \o Calls(i, n, d) /\ g.addr \in Address
    <3>1. RightSet(p) /\ addr \in Address /\ i \in Nat BY <1>3, <1>4, <1>6
    <3>2. s.addr = Chains!OnChain(addr, i) /\ g = Chains!GenChain(p, s, n, d) BY <2>1, <2>2
    <3>3. \A x, y \in Nat : x + y <= p.w - 1 =>
            /\ Chains!GenChain(p, s, x, y).val = s.val \o Calls(i, x, y)
            /\ Chains!GenChain(p, s, x, y).addr \in Address
      BY ONLY <3>1, <3>2, ChainFromValue
    <3> QED BY <2>3, <3>2, <3>3
  <2> QED BY <2>1, <2>4
<1>9. v = Value(p, i, Chains!ChainLengths(p, msg)[i])
  BY <1>1, <1>3, <1>6 DEF SignatureOn
<1>10. Reopened(p, msg, opened)[i + 1] = g.val
  <2>1. Reopened(p, msg, opened)[i + 1]
          = Resumed(p, i, Chains!ChainLengths(p, msg)[i], Chains!ChainLengths(p, opened)[i])
    BY <1>6 DEF Reopened
  <2>2. n = Chains!ChainLengths(p, opened)[i] /\ d = p.w - 1 - n BY <1>1, <1>3
  <2> QED BY <1>8, <1>9, <2>1, <2>2 DEF Resumed
<1>11. Listing(Append(pk2, g.val), i + 1, Reopened(p, msg, opened))
  BY <1>3, <1>6, <1>10, ListingAppend
<1>12. /\ Chains!Messages(p)' = Chains!Messages(p) /\ Chains!WotsLen(p)' = Chains!WotsLen(p)
       /\ Chains!Tried(p)' = Chains!Tried(p)
  BY <1>2
<1>13. i' \in 0..Chains!WotsLen(p) BY <1>2, <1>5, <1>6
<1> QED BY <1>2, <1>3, <1>8, <1>11, <1>12, <1>13 DEF ChainsInv

-----------------------------------------------------------------------------
(* Every step keeps the invariant; those of the other parts leave the        *)
(* chains alone.                                                             *)
LEMMA ChainsNextKeeps ==
  ASSUME ChainsInv, [NextParts]_<<part, chainsVars, bufferVars, hashesVars>>
  PROVE  ChainsInv'
<1>1. \/ Chains!PkGenChain
      \/ \E m \in Chains!Messages(p) : Chains!SignBegin(m)
      \/ Chains!SignChain
      \/ \E m \in {msg} \cup Chains!Tried(p) : Chains!OpenBegin(m)
      \/ Chains!OpenChain
      \/ UNCHANGED chainsVars
  BY DEF NextParts, ChainsStep, BufferStep, HashesStep, Only
<1>2. CASE UNCHANGED chainsVars
  <2>1. /\ p' = p /\ pc' = pc /\ i' = i /\ addr' = addr /\ msg' = msg /\ opened' = opened
        /\ lengths' = lengths /\ pk' = pk /\ sig' = sig /\ pk2' = pk2
    BY <1>2 DEF chainsVars
  <2>2. /\ Chains!WotsLen(p)' = Chains!WotsLen(p) /\ Chains!Messages(p)' = Chains!Messages(p)
        /\ Chains!Tried(p)' = Chains!Tried(p)
    BY <2>1
  <2> QED BY <2>1, <2>2 DEF ChainsInv
<1>3. CASE \E m \in Chains!Messages(p) : Chains!SignBegin(m) BY <1>3, SignBeginKeeps
<1>4. CASE \E m \in {msg} \cup Chains!Tried(p) : Chains!OpenBegin(m)
  BY <1>4, OpenBeginKeeps
<1> QED BY <1>1, <1>2, <1>3, <1>4, PkGenChainKeeps, SignChainKeeps, OpenChainKeeps

(* The invariant holds always.                                               *)
LEMMA ChainsInvariant == SpecParts => []ChainsInv
<1>1. InitParts => ChainsInv BY ChainsInit DEF InitParts
<1>2. ChainsInv /\ [NextParts]_<<part, chainsVars, bufferVars, hashesVars>> => ChainsInv'
  BY ChainsNextKeeps
<1> QED BY <1>1, <1>2, PTL DEF SpecParts

-----------------------------------------------------------------------------
(* The lengths of the running call are in range.                             *)
LEMMA LengthsTyped ==
  ASSUME NEW q, RightSet(q), NEW m \in AnyMessage(q)
  PROVE  \A k \in DOMAIN Chains!ChainLengths(q, m) :
           Chains!ChainLengths(q, m)[k] \in 0..(q.w - 1)
<1>1. PICK l : l = Chains!ChainLengths(q, m) OBVIOUS
<1>2. DOMAIN l = 0..(Chains!WotsLen(q) - 1) BY <1>1, LengthsAre
<1> QED BY <1>1, <1>2, LengthRange

(* A listing of chain values has no value longer than a chain.               *)
LEMMA ValuesTyped ==
  ASSUME NEW q, RightSet(q), NEW n \in Nat, n <= Chains!WotsLen(q), NEW s, NEW f,
         NEW l, \A k \in 0..(Chains!WotsLen(q) - 1) : l[k] \in 0..(q.w - 1),
         \A k \in 1..Chains!WotsLen(q) : f[k] = Value(q, k - 1, l[k - 1]),
         Listing(s, n, f)
  PROVE  \A k \in DOMAIN s : Len(s[k]) <= q.w
<1> SUFFICES ASSUME NEW k \in DOMAIN s PROVE Len(s[k]) <= q.w OBVIOUS
<1>1. Chains!WotsLen(q) \in Nat /\ q.w \in Nat BY MessageSize DEF RightSet
<1>2. k \in 1..n /\ s[k] = f[k] BY DEF Listing
<1>3. PICK c : c = k - 1 OBVIOUS
<1>4. k \in 1..Chains!WotsLen(q) /\ c \in Nat /\ c \in 0..(Chains!WotsLen(q) - 1)
  BY <1>1, <1>2, <1>3
<1>5. PICK d : d = l[c] OBVIOUS
<1>6. d \in 0..(q.w - 1) BY <1>4, <1>5
<1>7. s[k] = Value(q, c, d) BY <1>2, <1>3, <1>4, <1>5
<1>8. d \in Nat BY <1>6
<1>9. Len(Value(q, c, d)) = d + 1 BY <1>4, <1>8, ValueList
<1> QED BY <1>1, <1>6, <1>7, <1>8, <1>9

(* Type correctness follows from the invariant.                              *)
LEMMA ChainsTyped == ChainsInv => Chains!TypeOK
<1> SUFFICES ASSUME ChainsInv PROVE Chains!TypeOK OBVIOUS
<1>1. p \in ParamSets /\ i \in 0..Chains!WotsLen(p) /\ pc \in {"pkgen", "sign", "open"}
  BY DEF ChainsInv
<1>2. RightSet(p) BY <1>1, SetsRight
<1>3. Chains!WotsLen(p) \in Nat /\ p.w \in Nat \ {0} /\ i \in Nat /\ i <= Chains!WotsLen(p)
  BY <1>1, <1>2, MessageSize DEF RightSet
<1>4. \A k \in DOMAIN lengths : lengths[k] \in 0..(p.w - 1)
  <2>1. CASE pc = "pkgen" BY <2>1 DEF ChainsInv
  <2>2. CASE pc = "sign"
    <3>1. lengths = Chains!ChainLengths(p, msg) /\ msg \in AnyMessage(p)
      BY <1>1, <2>2, MessagesAre DEF ChainsInv
    <3> QED BY <1>2, <3>1, LengthsTyped
  <2>3. CASE pc = "open"
    <3>1. lengths = Chains!ChainLengths(p, opened) /\ opened \in AnyMessage(p)
      BY <1>1, <2>3, MessagesAre DEF ChainsInv
    <3> QED BY <1>2, <3>1, LengthsTyped
  <2> QED BY <1>1, <2>1, <2>2, <2>3
<1>5. \A k \in DOMAIN pk : Len(pk[k]) <= p.w
  <2>1. PICK n : n \in Nat /\ n <= Chains!WotsLen(p) /\ Listing(pk, n, ChainEnds(p))
    <3>1. CASE pc = "pkgen" BY <1>3, <3>1 DEF ChainsInv
    <3>2. CASE pc # "pkgen"
      <4>1. Listing(pk, Chains!WotsLen(p), ChainEnds(p))
        BY <3>2 DEF ChainsInv, Listing, ChainEnds
      <4> QED BY <1>3, <4>1
    <3> QED BY <3>1, <3>2
  <2>2. PICK l : l = [k \in 0..(Chains!WotsLen(p) - 1) |-> p.w - 1] OBVIOUS
  <2>3. \A k \in 0..(Chains!WotsLen(p) - 1) : l[k] \in 0..(p.w - 1) BY <1>3, <2>2
  <2>4. \A k \in 1..Chains!WotsLen(p) : ChainEnds(p)[k] = Value(p, k - 1, l[k - 1])
    <3> TAKE k \in 1..Chains!WotsLen(p)
    <3>1. k - 1 \in 0..(Chains!WotsLen(p) - 1) BY <1>3
    <3>2. l[k - 1] = p.w - 1 BY <2>2, <3>1
    <3> QED BY <3>2 DEF ChainEnds
  <2> QED BY <1>2, <2>1, <2>3, <2>4, ValuesTyped
<1>6. \A k \in DOMAIN sig : Len(sig[k]) <= p.w
  <2>1. CASE pc = "pkgen" BY <2>1 DEF ChainsInv
  <2>2. CASE pc # "pkgen"
    <3>1. msg \in AnyMessage(p) BY <1>1, <2>2, MessagesAre DEF ChainsInv
    <3>2. PICK n : n \in Nat /\ n <= Chains!WotsLen(p) /\ Listing(sig, n, SignatureOn(p, msg))
      <4>1. CASE pc = "sign" BY <1>3, <4>1 DEF ChainsInv
      <4>2. CASE pc = "open"
        <5>1. Listing(sig, Chains!WotsLen(p), SignatureOn(p, msg))
          BY <4>2 DEF ChainsInv, Listing, SignatureOn
        <5> QED BY <1>3, <5>1
      <4> QED BY <1>1, <2>2, <4>1, <4>2
    <3>3. PICK l : l = Chains!ChainLengths(p, msg) OBVIOUS
    <3>4. \A k \in 0..(Chains!WotsLen(p) - 1) : l[k] \in 0..(p.w - 1)
      BY <1>2, <3>1, <3>3, LengthRange
    <3>5. \A k \in 1..Chains!WotsLen(p) : SignatureOn(p, msg)[k] = Value(p, k - 1, l[k - 1])
      BY <3>3 DEF SignatureOn
    <3> QED BY <1>2, <3>2, <3>4, <3>5, ValuesTyped
  <2> QED BY <2>1, <2>2
<1> QED BY <1>1, <1>4, <1>5, <1>6 DEF Chains!TypeOK

-----------------------------------------------------------------------------
(* The key recomputed is the key exactly for the message signed: a chain     *)
(* resumed at another length ends elsewhere.                                 *)
LEMMA ChainsRecover == ChainsInv => Chains!PkRecovered
<1> SUFFICES ASSUME ChainsInv, pc = "open", i = Chains!WotsLen(p)
             PROVE  pk2 = pk <=> opened = msg
  BY DEF Chains!PkRecovered
<1>1. p \in ParamSets /\ i \in 0..Chains!WotsLen(p) BY DEF ChainsInv
<1>2. RightSet(p) BY <1>1, SetsRight
<1>3. Chains!WotsLen(p) \in Nat /\ p.w \in Nat \ {0} BY <1>2, MessageSize DEF RightSet
<1>4. msg \in AnyMessage(p) /\ opened \in AnyMessage(p)
  BY <1>1, MessagesAre DEF ChainsInv
<1>5. pk = ChainEnds(p) /\ pk2 = Reopened(p, msg, opened)
  BY DEF ChainsInv, Listing, Reopened
<1>6. PICK l, o : l = Chains!ChainLengths(p, msg) /\ o = Chains!ChainLengths(p, opened)
  OBVIOUS
<1>7. ASSUME NEW c \in 0..(Chains!WotsLen(p) - 1)
      PROVE  /\ c + 1 \in 1..Chains!WotsLen(p)
             /\ pk2[c + 1] = Resumed(p, c, l[c], o[c]) /\ pk[c + 1] = Value(p, c, p.w - 1)
             /\ pk2[c + 1] = pk[c + 1] <=> o[c] = l[c]
  <2>1. c \in Nat /\ c + 1 \in 1..Chains!WotsLen(p) /\ (c + 1) - 1 = c BY <1>3
  <2>2. pk2[c + 1] = Resumed(p, c, l[c], o[c]) BY <1>5, <1>6, <2>1 DEF Reopened
  <2>3. pk[c + 1] = Value(p, c, p.w - 1) BY <1>5, <2>1 DEF ChainEnds
  <2>4. l[c] \in 0..(p.w - 1) /\ o[c] \in 0..(p.w - 1) BY <1>2, <1>4, <1>6, LengthRange
  <2>5. Resumed(p, c, l[c], o[c]) = Value(p, c, p.w - 1) <=> o[c] = l[c]
    BY <1>2, <2>1, <2>4, ResumedRight
  <2> QED BY <2>1, <2>2, <2>3, <2>5
<1>8. ASSUME opened = msg PROVE pk2 = pk
  <2>1. l = o BY <1>6, <1>8
  <2>2. ASSUME NEW k \in 1..Chains!WotsLen(p) PROVE pk2[k] = pk[k]
    <3>1. PICK c : c = k - 1 OBVIOUS
    <3>2. c \in 0..(Chains!WotsLen(p) - 1) /\ c + 1 = k BY <1>3, <3>1
    <3> QED BY <1>7, <2>1, <3>2
  <2> QED BY <1>5, <2>2 DEF Reopened, ChainEnds
<1>9. ASSUME opened # msg PROVE pk2 # pk
  <2>1. PICK c \in 0..(Chains!WotsLen(p) - 1) : o[c] # l[c]
    BY <1>2, <1>4, <1>6, <1>9, LengthsDiffer
  <2> QED BY <1>7, <2>1
<1> QED BY <1>8, <1>9

(* The digits of the checksum are all of it.                                 *)
LEMMA ChainsKeepChecksum == ChainsInv => Chains!ChecksumKept
<1> SUFFICES ASSUME ChainsInv, pc = "sign" PROVE Chains!ChecksumKept
  BY DEF Chains!ChecksumKept
<1>1. p \in ParamSets /\ lengths = Chains!ChainLengths(p, msg) BY DEF ChainsInv
<1>2. RightSet(p) /\ msg \in AnyMessage(p) BY <1>1, SetsRight, MessagesAre DEF ChainsInv
<1> QED BY <1>1, <1>2, ChecksumDigitsSum DEF Chains!ChecksumKept

(* A one-time signature leads to the public key for its own message and no   *)
(* other, and carries the whole checksum.                                    *)
THEOREM PkRecoveredHolds == SpecParts => []PkRecovered
<1>1. ChainsInv => PkRecovered
  BY ChainsTyped, ChainsRecover, ChainsKeepChecksum DEF PkRecovered
<1> QED BY <1>1, ChainsInvariant, PTL

(* Of any other message some chain is shorter than the one published.        *)
LEMMA ChainsShorter == ChainsInv => Chains!NoDominance
<1> SUFFICES ASSUME ChainsInv, Chains!Signed, NEW m \in Chains!Messages(p) \ {msg}
             PROVE  \E k \in DOMAIN Chains!ChainLengths(p, m) :
                      Chains!ChainLengths(p, m)[k] < Chains!ChainLengths(p, msg)[k]
  BY DEF Chains!NoDominance
<1>1. p \in ParamSets /\ msg \in Chains!Messages(p) BY DEF ChainsInv, Chains!Signed
<1>2. RightSet(p) /\ msg \in AnyMessage(p) /\ m \in AnyMessage(p) /\ msg # m
  BY <1>1, SetsRight, MessagesAre
<1>3. \E k \in 0..(Chains!WotsLen(p) - 1) :
        Chains!ChainLengths(p, m)[k] < Chains!ChainLengths(p, msg)[k]
  BY <1>2, SomeShorterChain
<1>4. DOMAIN Chains!ChainLengths(p, m) = 0..(Chains!WotsLen(p) - 1)
  BY <1>2, LengthsAre
<1> QED BY <1>3, <1>4

(* No one-time signature gives away one on another message.                  *)
THEOREM NoDominanceHolds == SpecParts => []NoDominance
<1>1. ChainsInv => NoDominance BY ChainsShorter DEF NoDominance
<1> QED BY <1>1, ChainsInvariant, PTL

-----------------------------------------------------------------------------
(* One sequence after another.                                               *)
JoinedListing(s, m, n, f, g) ==
  s = [k \in 1..(m + n) |-> IF k <= m THEN f[k] ELSE g[k - m]]

(* Two listings, one after the other, list what both list.                   *)
LEMMA ListingConcat ==
  ASSUME NEW m \in Nat, NEW n \in Nat, NEW s, NEW t, NEW f, NEW g,
         Listing(s, m, f), Listing(t, n, g)
  PROVE  JoinedListing(s \o t, m, n, f, g)
<1> DEFINE S == {f[k] : k \in 1..m} \cup {g[k] : k \in 1..n}
<1>1. s \in Seq(S) /\ Len(s) = m
  <2>1. s \in [1..m -> S] BY DEF Listing
  <2>2. s \in Seq(S) BY <2>1
  <2> QED BY <2>1, <2>2
<1>2. t \in Seq(S) /\ Len(t) = n
  <2>1. t \in [1..n -> S] BY DEF Listing
  <2>2. t \in Seq(S) BY <2>1
  <2> QED BY <2>1, <2>2
<1>3. /\ s \o t \in Seq(S) /\ Len(s \o t) = m + n
      /\ \A k \in 1..(m + n) : (s \o t)[k] = IF k <= m THEN s[k] ELSE t[k - m]
  <2> HIDE DEF S
  <2> QED BY <1>1, <1>2, ConcatProperties
<1>4. \A k \in 1..(m + n) : (s \o t)[k] = IF k <= m THEN f[k] ELSE g[k - m]
  <2> TAKE k \in 1..(m + n)
  <2>1. CASE k <= m
    <3>1. k \in 1..m BY <2>1
    <3> QED BY <3>1, <2>1, <1>3 DEF Listing
  <2>2. CASE ~(k <= m)
    <3>1. k - m \in 1..n BY <2>2
    <3> QED BY <3>1, <2>2, <1>3 DEF Listing
  <2> QED BY <2>1, <2>2
<1>5. s \o t = [k \in 1..(m + n) |-> (s \o t)[k]]
  <2>1. PICK c : c = s \o t OBVIOUS
  <2>2. c \in Seq(S) /\ Len(c) = m + n BY <1>3, <2>1
  <2> HIDE DEF S
  <2>3. c = [k \in 1..(m + n) |-> c[k]] BY <2>2
  <2> QED BY <2>1, <2>3
<1> HIDE DEF S
<1> QED BY <1>4, <1>5 DEF JoinedListing

-----------------------------------------------------------------------------
(* What is hashed, and the blocks of the signature and the message, as they  *)
(* are sent and as they arrive.                                              *)
Hashed == Buffer!Prefix(Buffer!ExpectedR, <<"idx">>) \o Buffer!Message
Total == Buffer!SigLen(prog) + mlen
Sent(k) ==
  IF k >= Buffer!SigLen(prog) THEN <<"M", k - Buffer!SigLen(prog)>>
  ELSE IF k >= Buffer!HeadLen(prog) THEN <<"sig", k - Buffer!HeadLen(prog) + 1, Hashed>>
  ELSE IF k = Buffer!ROffset(prog) THEN Buffer!ExpectedR
  ELSE <<"idx">>
Arrived(k) == IF k = altered THEN <<"altered", Sent(k)>> ELSE Sent(k)
Rehashed ==
  Buffer!Prefix(Arrived(Buffer!ROffset(prog)), Arrived(0))
    \o [k \in 1..mlen |-> Arrived(Buffer!SigLen(prog) + k - 1)]

(* The message in a buffer, and the parts of the signed one as sign puts     *)
(* them there.                                                               *)
MessageIn(f, buf, from) == \A k \in 0..(mlen - 1) : f[<<buf, from + k>>] = <<"M", k>>
Moved == MessageIn(mem, "sm", Buffer!SigLen(prog))
Indexed == mem[<<"sm", 0>>] = <<"idx">>
Randomised == mem[<<"sm", Buffer!ROffset(prog)>>] = Buffer!ExpectedR
Digested == digest = Hashed
Complete == \A k \in 0..(Total - 1) : mem[<<"sm", k>>] = Sent(k)

(* The statements of the running call after the first n.                     *)
Statements == IF phase = "sign" THEN Buffer!SignStatements(prog)
                                ELSE Buffer!OpenStatements(prog)
Left(s, n) == SubSeq(s, n + 1, Len(s))
Passed(n) == todo = Left(Statements, n)

CoreSigning ==
  \/ Passed(0)
  \/ Passed(1) /\ Moved
  \/ Passed(2) /\ Moved /\ Indexed
  \/ Passed(3) /\ Moved /\ Indexed /\ Randomised
  \/ Passed(4) /\ Moved /\ Indexed /\ Randomised /\ Digested
  \/ Passed(5) /\ Complete

FastSigning ==
  \/ Passed(0)
  \/ Passed(1) /\ Moved
  \/ Passed(2) /\ Moved /\ Digested
  \/ Passed(3) /\ Moved /\ Digested /\ Indexed
  \/ Passed(4) /\ Moved /\ Digested /\ Indexed /\ Randomised
  \/ Passed(5) /\ Complete
  \/ Passed(6) /\ Complete

SphincsSigning ==
  \/ Passed(0) /\ MessageIn(mem, mIn, 0)
  \/ Passed(1) /\ Moved
  \/ Passed(2) /\ Moved /\ Randomised
  \/ Passed(3) /\ Moved /\ Randomised /\ Digested
  \/ Passed(4) /\ Complete

(* The signed message as it arrived, and what sign_open has made of it.      *)
Unread == \A k \in 0..(Total - 1) : mem[<<"sm", k>>] = Arrived(k)
MovedOut ==
  \A k \in 0..(mlen - 1) :
    mem[<<mOut, Buffer!SigLen(prog) + k>>] = Arrived(Buffer!SigLen(prog) + k)
Copied == sigCopy = [k \in 1..Buffer!SigLen(prog) |-> Arrived(k - 1)]

MineOpening ==
  \/ Passed(0)
  \/ Passed(1) /\ MovedOut
  \/ Passed(2) /\ MovedOut /\ digest = Rehashed

SphincsOpening ==
  \/ Passed(0) /\ Unread
  \/ Passed(1) /\ Unread /\ MovedOut
  \/ Passed(2) /\ MovedOut /\ Copied
  \/ Passed(3) /\ MovedOut /\ Copied /\ digest = Rehashed

(* What every step of the two calls finds: the bounds, the caller's message, *)
(* and nothing written outside of the signed message's length.               *)
Memory(f) ==
  /\ f = [c \in Buffer!Buffers \X Buffer!Offsets(prog) |-> f[c]]
  /\ mIn = "m" => MessageIn(f, "m", 0)
  /\ \A b \in Buffer!Buffers, k \in Buffer!Offsets(prog) \ 0..(Total - 1) :
       f[<<b, k>>] = Buffer!Free
Places ==
  /\ prog \in Programs /\ mlen \in 0..MaxMlen
  /\ mIn \in {"m", "sm"} /\ mOut \in {"mout", "sm"}
  /\ prog # "sphincs" => mIn = "m" /\ mOut = "mout" /\ rand = <<"R">>

SignCall ==
  /\ ret = 0 /\ outLen = 0
  /\ prog = "core" => CoreSigning
  /\ prog = "fast" => FastSigning
  /\ prog = "sphincs" => SphincsSigning

OpenCall ==
  /\ altered \in -1..(Total - 1)
  /\ ret = 0 /\ outLen \in {0, mlen} /\ (~Passed(0) => outLen = mlen)
  /\ mOut # "sm" => Unread
  /\ prog # "sphincs" => MineOpening
  /\ prog = "sphincs" => SphincsOpening

Opened ==
  /\ altered \in -1..(Total - 1)
  /\ mOut # "sm" => Unread
  /\ altered = -1 => ret = 0 /\ outLen = mlen /\ MessageIn(mem, mOut, 0)
  /\ altered # -1 =>
       ret = -1 /\ outLen = 0 /\ \A k \in 0..(mlen - 1) : mem[<<mOut, k>>] = <<"zero">>

BufferInv ==
  /\ Places /\ Memory(mem)
  /\ phase \in {"sign", "signed", "open", "opened"}
  /\ phase = "sign" => SignCall
  /\ phase = "open" => OpenCall
  /\ phase = "signed" => todo = <<>> /\ ret = 0 /\ outLen = 0 /\ Complete
  /\ phase = "opened" => todo = <<>> /\ Opened
-----------------------------------------------------------------------------
(* What a write leaves in each cell.                                         *)
Written(f, buf, from, blocks, n, b, k) ==
  IF b = buf /\ k \in from..(from + n - 1) THEN blocks[k - from + 1] ELSE f[<<b, k>>]

(* Words that are no others. *)
LEMMA WordsDiffer ==
  /\ \A x, y : <<"altered", x>> # <<"M", y>>
  /\ \A x, y : <<"altered", x>> # <<"R", y>>
  /\ \A x : <<"altered", x>> # <<"R">> /\ <<"altered", x>> # <<"idx">>
  /\ \A x, y, z : <<"altered", x>> # <<"sig", y, z>>
  /\ \A k, x, y : <<"sig", k, x>> = <<"sig", k, y>> => x = y
OBVIOUS

-----------------------------------------------------------------------------
(* The lengths and offsets of the program in hand.                           *)
LEMMA Layout ==
  ASSUME Places
  PROVE  /\ mlen \in Nat /\ Buffer!SigLen(prog) \in Nat /\ Total \in Nat
         /\ Total = Buffer!SigLen(prog) + mlen
         /\ prog = "sphincs" => /\ Buffer!HeadLen(prog) = 1 /\ Buffer!ROffset(prog) = 0
                                /\ Buffer!SigLen(prog) >= 5
         /\ prog # "sphincs" => /\ Buffer!HeadLen(prog) = 2 /\ Buffer!ROffset(prog) = 1
                                /\ Buffer!SigLen(prog) >= 6
         /\ Buffer!SigLen(prog) = Buffer!HeadLen(prog) + BodyLen /\ BodyLen \in Nat
         /\ prog \in {"core", "fast", "sphincs"}
         /\ -1..Total \subseteq Buffer!Offsets(prog) /\ Buffer!Offsets(prog) \subseteq Int
<1>1. /\ Programs \subseteq {"core", "fast", "sphincs"} /\ BodyLen \in Nat /\ BodyLen >= 4
      /\ MaxMlen \in Nat
  BY BufferAssumption DEF Buffer!BoundsAssumption
<1>2. prog \in Programs /\ mlen \in 0..MaxMlen BY DEF Places
<1> QED
  BY <1>1, <1>2 DEF Buffer!HeadLen, Buffer!SigLen, Buffer!ROffset, Buffer!Offsets, Total

(* One write into the memory f leaves g.                                     *)
Put(g, f, buf, from, blocks, n) ==
  /\ g = [c \in DOMAIN f |-> g[c]]
  /\ \A b \in Buffer!Buffers, k \in Buffer!Offsets(prog) :
       g[<<b, k>>] = Written(f, buf, from, blocks, n, b, k)

(* A write of the model is such a write, cell by cell.                       *)
LEMMA WritePuts ==
  ASSUME Places, NEW f, DOMAIN f = Buffer!Buffers \X Buffer!Offsets(prog),
         NEW buf, NEW from \in Int, NEW n \in Nat, NEW blocks, DOMAIN blocks = 1..n,
         NEW g, g = Buffer!Write(f, buf, from, blocks)
  PROVE  Put(g, f, buf, from, blocks, n)
<1>1. g = [c \in DOMAIN f |->
             IF c[1] = buf /\ c[2] - from + 1 \in DOMAIN blocks
             THEN blocks[c[2] - from + 1] ELSE f[c]]
  BY DEF Buffer!Write
<1>2. ASSUME NEW b \in Buffer!Buffers, NEW k \in Buffer!Offsets(prog)
      PROVE  g[<<b, k>>] = Written(f, buf, from, blocks, n, b, k)
  <2>1. k \in Int BY Layout
  <2>2. g[<<b, k>>] = IF b = buf /\ k - from + 1 \in 1..n THEN blocks[k - from + 1]
                                                        ELSE f[<<b, k>>]
    BY <1>1
  <2>3. k - from + 1 \in 1..n <=> k \in from..(from + n - 1) BY <2>1
  <2> QED BY <2>2, <2>3 DEF Written
<1>3. g = [c \in DOMAIN f |-> g[c]] BY <1>1
<1> QED BY <1>2, <1>3 DEF Put

(* A write within the signed message keeps everything around it.             *)
LEMMA PutKeeps ==
  ASSUME Places, NEW f, Memory(f), NEW g, NEW buf \in {"sm", "mout"}, NEW from \in Nat,
         NEW n \in Nat, from + n <= Total, NEW blocks, Put(g, f, buf, from, blocks, n)
  PROVE  Memory(g)
<1>1. /\ mlen \in Nat /\ Total \in Nat /\ -1..Total \subseteq Buffer!Offsets(prog)
      /\ Buffer!Offsets(prog) \subseteq Int /\ mlen <= Total
  BY Layout
<1>2. g = [c \in Buffer!Buffers \X Buffer!Offsets(prog) |-> g[c]]
  <2>1. DOMAIN f = Buffer!Buffers \X Buffer!Offsets(prog) BY DEF Memory
  <2> QED BY <2>1 DEF Put
<1>3. ASSUME mIn = "m" PROVE MessageIn(g, "m", 0)
  <2>1. ASSUME NEW k \in 0..(mlen - 1) PROVE g[<<"m", 0 + k>>] = <<"M", k>>
    <3>1. 0 + k \in Buffer!Offsets(prog) /\ "m" \in Buffer!Buffers
      BY <1>1 DEF Buffer!Buffers
    <3>2. g[<<"m", 0 + k>>] = Written(f, buf, from, blocks, n, "m", 0 + k)
      BY <3>1 DEF Put
    <3>3. g[<<"m", 0 + k>>] = f[<<"m", 0 + k>>] BY <3>2 DEF Written
    <3> QED BY <1>3, <3>3 DEF Memory, MessageIn
  <2> QED BY <2>1 DEF MessageIn
<1>4. ASSUME NEW b \in Buffer!Buffers, NEW k \in Buffer!Offsets(prog) \ 0..(Total - 1)
      PROVE  g[<<b, k>>] = Buffer!Free
  <2>1. k \notin from..(from + n - 1) BY <1>1
  <2>2. g[<<b, k>>] = f[<<b, k>>] BY <2>1 DEF Put, Written
  <2> QED BY <2>2 DEF Memory
<1> QED BY <1>2, <1>3, <1>4 DEF Memory

-----------------------------------------------------------------------------
(* The message copied block by block from the end, after n blocks.           *)
CopyTurn(k, f) ==
  Buffer!Write(f, "sm", Buffer!SigLen(prog) + Buffer!CopyOrder(k),
               Buffer!Read(f, mIn, Buffer!CopyOrder(k), 1))
AfterCopies(n) ==
  [c \in DOMAIN mem |-> IF c[1] = "sm" /\ c[2] \in (Total - n)..(Total - 1)
                        THEN mem[<<mIn, c[2] - Buffer!SigLen(prog)>>] ELSE mem[c]]

(* A block is read before the copies reach it.                               *)
LEMMA CopyTurns ==
  ASSUME Places, Memory(mem), NEW n \in 0..(mlen - 1)
  PROVE  CopyTurn(n, AfterCopies(n)) = AfterCopies(n + 1)
<1>1. PICK L, T : L = Buffer!SigLen(prog) /\ T = Total OBVIOUS
<1>2. /\ mlen \in Nat /\ L \in Nat /\ T = L + mlen /\ L >= 5 /\ T \in Nat /\ n \in Nat
      /\ -1..T \subseteq Buffer!Offsets(prog) /\ Buffer!Offsets(prog) \subseteq Int
  BY <1>1, Layout
<1>3. DOMAIN mem = Buffer!Buffers \X Buffer!Offsets(prog) BY DEF Memory
<1>4. PICK f, g : f = AfterCopies(n) /\ g = AfterCopies(n + 1) OBVIOUS
<1>5. DOMAIN f = DOMAIN mem /\ DOMAIN g = DOMAIN mem BY <1>4 DEF AfterCopies
<1>6. ASSUME NEW b \in Buffer!Buffers, NEW k \in Buffer!Offsets(prog)
      PROVE  /\ f[<<b, k>>] = IF b = "sm" /\ k \in (T - n)..(T - 1)
                              THEN mem[<<mIn, k - L>>] ELSE mem[<<b, k>>]
             /\ g[<<b, k>>] = IF b = "sm" /\ k \in (T - (n + 1))..(T - 1)
                              THEN mem[<<mIn, k - L>>] ELSE mem[<<b, k>>]
  BY <1>1, <1>3, <1>4 DEF AfterCopies
<1>7. PICK o : o = mlen - 1 - n OBVIOUS
<1>8. o \in 0..(mlen - 1) /\ o \in Int /\ L + o = T - (n + 1) BY <1>2, <1>7
<1>9. PICK r : r = Buffer!Read(f, mIn, o, 1) OBVIOUS
<1>10. DOMAIN r = 1..1 /\ r[1] = mem[<<mIn, o>>]
  <2>1. DOMAIN r = 1..1 /\ r[1] = f[<<mIn, o>>] BY <1>8, <1>9 DEF Buffer!Read
  <2>2. mIn \in Buffer!Buffers /\ o \in Buffer!Offsets(prog)
    BY <1>2, <1>8 DEF Places, Buffer!Buffers
  <2>3. o \notin (T - n)..(T - 1) BY <1>2, <1>8
  <2> QED BY <1>6, <2>1, <2>2, <2>3
<1>11. PICK h : h = Buffer!Write(f, "sm", L + o, r) OBVIOUS
<1>12. h = CopyTurn(n, f)
  BY <1>1, <1>7, <1>9, <1>11 DEF CopyTurn, Buffer!CopyOrder
<1>13. h = [c \in DOMAIN f |-> h[c]] /\ Put(h, f, "sm", L + o, r, 1)
  <2>1. L + o \in Int /\ 1 \in Nat BY <1>2, <1>8
  <2>2. DOMAIN f = Buffer!Buffers \X Buffer!Offsets(prog) BY <1>3, <1>5
  <2>3. Put(h, f, "sm", L + o, r, 1) BY <1>10, <1>11, <2>1, <2>2, WritePuts
  <2> QED BY <2>3 DEF Put
<1>14. ASSUME NEW b \in Buffer!Buffers, NEW k \in Buffer!Offsets(prog)
       PROVE  h[<<b, k>>] = g[<<b, k>>]
  <2>1. h[<<b, k>>] = Written(f, "sm", L + o, r, 1, b, k) BY <1>13 DEF Put
  <2>2. k \in Int BY <1>2
  <2>3. k \in (L + o)..(L + o + 1 - 1) <=> k = L + o BY <1>2, <1>8, <2>2
  <2>4. CASE b = "sm" /\ k = L + o
    <3>1. h[<<b, k>>] = r[k - (L + o) + 1] BY <2>1, <2>3, <2>4 DEF Written
    <3>2. k - (L + o) + 1 = 1 BY <1>2, <1>8, <2>4
    <3>3. h[<<b, k>>] = mem[<<mIn, o>>] BY <1>10, <3>1, <3>2
    <3>4. k \in (T - (n + 1))..(T - 1) /\ k - L = o BY <1>2, <1>8, <2>4
    <3> QED BY <1>6, <2>4, <3>3, <3>4
  <2>5. CASE ~(b = "sm" /\ k = L + o)
    <3>1. h[<<b, k>>] = f[<<b, k>>] BY <2>1, <2>3, <2>5 DEF Written
    <3>2. b = "sm" => (k \in (T - (n + 1))..(T - 1) <=> k \in (T - n)..(T - 1))
      BY <1>2, <1>8, <2>2, <2>5
    <3> QED BY <1>6, <3>1, <3>2
  <2> QED BY <2>4, <2>5
<1>15. h = g
  <2>1. \A c \in DOMAIN f : h[c] = g[c]
    <3> TAKE c \in DOMAIN f
    <3>1. PICK b \in Buffer!Buffers, k \in Buffer!Offsets(prog) : c = <<b, k>>
      BY <1>3, <1>5
    <3> QED BY <1>14, <3>1
  <2>2. g = [c \in DOMAIN mem |-> g[c]] BY <1>4 DEF AfterCopies
  <2> QED BY <1>5, <1>13, <2>1, <2>2
<1> QED BY <1>4, <1>12, <1>15

(* The loop that moves the message, turn by turn.                            *)
Copying(n, g) ==
  g = [k \in 0..n |-> IF k = 0 THEN mem ELSE CopyTurn(k - 1, g[k - 1])]

CopyLoop ==
  CHOOSE f : f = [k \in 0..mlen |->
                    IF k = 0 THEN mem
                    ELSE CHOOSE y \in {CopyTurn(k - 1, z) : z \in {f[k - 1]}} : TRUE]

(* The loop of the model is the one that copies.                             *)
LEMMA CopyLoopIs == CopyLoop = CHOOSE f : Copying(mlen, f)
<1>1. \A k, x : (CHOOSE y \in {CopyTurn(k, z) : z \in {x}} : TRUE) = CopyTurn(k, x)
  <2> TAKE k, x
  <2>1. {CopyTurn(k, z) : z \in {x}} = {CopyTurn(k, x)} OBVIOUS
  <2> QED BY <2>1
<1> QED BY <1>1 DEF CopyLoop, Copying

(* The loop exists, and ends with every block copied.                        *)
LEMMA CopyingEnds ==
  ASSUME Places, Memory(mem)
  PROVE  /\ \E g : Copying(mlen, g)
         /\ \A g : Copying(mlen, g) => g[mlen] = AfterCopies(mlen)
<1>1. mlen \in Nat /\ Total \in Nat BY Layout
<1>2. AfterCopies(0) = mem
  <2>1. \A k : k \notin (Total - 0)..(Total - 1) BY <1>1
  <2>2. mem = [c \in DOMAIN mem |-> mem[c]]
    <3>1. DOMAIN mem = Buffer!Buffers \X Buffer!Offsets(prog) BY DEF Memory
    <3> QED BY <3>1 DEF Memory
  <2> QED BY <2>1, <2>2 DEF AfterCopies
<1>3. ASSUME NEW k \in 1..mlen PROVE AfterCopies(k) = CopyTurn(k - 1, AfterCopies(k - 1))
  <2>1. PICK n : n = k - 1 OBVIOUS
  <2>2. n \in 0..(mlen - 1) /\ k = n + 1 BY <1>1, <2>1
  <2> QED BY <2>1, <2>2, CopyTurns
<1>4. \E g : Copying(mlen, g)
  <2> DEFINE g == [k \in 0..mlen |-> AfterCopies(k)]
  <2>1. ASSUME NEW k \in 0..mlen
        PROVE  g[k] = IF k = 0 THEN mem ELSE CopyTurn(k - 1, g[k - 1])
    <3>1. CASE k = 0 BY <1>2, <3>1
    <3>2. CASE k # 0
      <4>1. k \in 1..mlen /\ k - 1 \in 0..mlen BY <1>1, <3>2
      <4> QED BY <1>3, <3>2, <4>1
    <3> QED BY <3>1, <3>2
  <2>2. g = [k \in 0..mlen |-> g[k]] OBVIOUS
  <2>3. Copying(mlen, g)
    <3> HIDE DEF g
    <3> QED BY <2>1, <2>2 DEF Copying
  <2> QED BY <2>3
<1>5. ASSUME NEW g, Copying(mlen, g) PROVE g[mlen] = AfterCopies(mlen)
  <2> DEFINE S == {n \in Nat : n <= mlen => g[n] = AfterCopies(n)}
  <2>1. 0 \in S
    <3>1. g[0] = mem BY <1>1, <1>5 DEF Copying
    <3> QED BY <1>2, <3>1
  <2>2. ASSUME NEW n \in Nat, n \in S PROVE n + 1 \in S
    <3> SUFFICES ASSUME n + 1 <= mlen PROVE g[n + 1] = AfterCopies(n + 1) OBVIOUS
    <3>1. n + 1 \in 0..mlen /\ n + 1 # 0 /\ (n + 1) - 1 = n /\ n + 1 \in 1..mlen
      BY <1>1
    <3>2. g[n + 1] = CopyTurn(n, g[n]) BY <1>5, <3>1 DEF Copying
    <3>3. g[n] = AfterCopies(n) BY <1>1, <2>2
    <3> QED BY <1>3, <3>1, <3>2, <3>3
  <2>3. Nat \subseteq S
    <3> HIDE DEF S
    <3> QED BY <2>1, <2>2, SetInduction
  <2> QED BY <1>1, <2>3
<1> QED BY <1>4, <1>5

(* Moving the message is one write of what was read before, also where the   *)
(* two places overlap.                                                       *)
LEMMA MoveInPuts ==
  ASSUME Places, Memory(mem), Buffer!MoveIn
  PROVE  Put(mem', mem, "sm", Buffer!SigLen(prog), Buffer!Read(mem, mIn, 0, mlen), mlen)
<1>1. PICK L, r : L = Buffer!SigLen(prog) /\ r = Buffer!Read(mem, mIn, 0, mlen) OBVIOUS
<1>2. /\ mlen \in Nat /\ L \in Nat /\ Total = L + mlen /\ Buffer!Offsets(prog) \subseteq Int
  BY <1>1, Layout
<1>3. DOMAIN r = 1..mlen /\ \A k \in 1..mlen : r[k] = mem[<<mIn, 0 + k - 1>>]
  BY <1>1 DEF Buffer!Read
<1>4. DOMAIN mem = Buffer!Buffers \X Buffer!Offsets(prog) BY DEF Memory
<1>5. CASE prog # "sphincs"
  <2>1. mem' = Buffer!Write(mem, "sm", L, r) BY <1>1, <1>5 DEF Buffer!MoveIn
  <2>2. PICK g : g = mem' OBVIOUS
  <2>3. g = Buffer!Write(mem, "sm", L, r) /\ L \in Int BY <1>2, <2>1, <2>2
  <2>4. Put(g, mem, "sm", L, r, mlen) BY <1>2, <1>3, <1>4, <2>3, WritePuts
  <2> QED BY <1>1, <2>2, <2>4
<1>6. CASE prog = "sphincs"
  <2>1. mem' = AfterCopies(mlen)
    <3> DEFINE w == CHOOSE f : f = [k \in 0..mlen |->
                      IF k = 0 THEN mem
                      ELSE CHOOSE y \in {Buffer!Write(z, "sm", Buffer!SigLen(prog) + Buffer!CopyOrder(k - 1),
                             Buffer!Read(z, mIn, Buffer!CopyOrder(k - 1), 1)) : z \in {f[k - 1]}} : TRUE]
    <3>1. mem' = w[mlen] BY <1>6, Zenon DEF Buffer!MoveIn, Buffer!Loop
    <3>2. w = CopyLoop BY DEF CopyLoop, CopyTurn
    <3>3. CopyLoop = CHOOSE f : Copying(mlen, f) BY CopyLoopIs
    <3>5. Copying(mlen, w) /\ w[mlen] = AfterCopies(mlen)
      <4> HIDE DEF w
      <4>1. Copying(mlen, w) BY <3>2, <3>3, CopyingEnds
      <4> QED BY <4>1, CopyingEnds
    <3> HIDE DEF w
    <3> QED BY <3>1, <3>5
  <2>2. ASSUME NEW b \in Buffer!Buffers, NEW k \in Buffer!Offsets(prog)
        PROVE  mem'[<<b, k>>] = Written(mem, "sm", L, r, mlen, b, k)
    <3>1. mem'[<<b, k>>] = IF b = "sm" /\ k \in (Total - mlen)..(Total - 1)
                           THEN mem[<<mIn, k - L>>] ELSE mem[<<b, k>>]
      BY <1>1, <1>4, <2>1 DEF AfterCopies
    <3>2. k \in Int /\ (Total - mlen)..(Total - 1) = L..(L + mlen - 1) BY <1>2
    <3>3. k \in L..(L + mlen - 1) => r[k - L + 1] = mem[<<mIn, k - L>>]
      <4> SUFFICES ASSUME k \in L..(L + mlen - 1)
                   PROVE  r[k - L + 1] = mem[<<mIn, k - L>>]
        OBVIOUS
      <4>1. k - L + 1 \in 1..mlen /\ 0 + (k - L + 1) - 1 = k - L BY <1>2, <3>2
      <4> QED BY <1>3, <4>1
    <3> QED BY <3>1, <3>2, <3>3 DEF Written
  <2>3. mem' = [c \in DOMAIN mem |-> mem'[c]] BY <2>1 DEF AfterCopies
  <2> QED BY <1>1, <2>2, <2>3 DEF Put
<1> QED BY <1>5, <1>6

-----------------------------------------------------------------------------
(* What is left of a sequence after its first n elements.                    *)
Words ==
  {"moveIn", "putIndex", "putR", "random", "hash", "putBody", "moveOut", "copySig", "check"}

(* The next statement is the head of what is left.                           *)
LEMMA LeftTurn ==
  ASSUME NEW s \in Seq(Words), NEW n \in Nat, n <= Len(s)
  PROVE  /\ Left(s, n) = <<>> <=> n = Len(s)
         /\ n < Len(s) => Head(Left(s, n)) = s[n + 1] /\ Tail(Left(s, n)) = Left(s, n + 1)
<1>1. PICK l, m, t : l = Len(s) /\ t = Left(s, n) /\ m = Left(s, n + 1) OBVIOUS
<1>2. l \in Nat BY <1>1
<1>3. t \in Seq(Words) /\ Len(t) = l - n /\ \A k \in 1..(l - n) : t[k] = s[n + k]
  BY <1>1, <1>2 DEF Left
<1>4. t = <<>> <=> n = l BY <1>2, <1>3
<1>5. ASSUME n < l PROVE Head(t) = s[n + 1] /\ Tail(t) = m
  <2>1. m \in Seq(Words) /\ Len(m) = l - n - 1 /\ \A k \in 1..(l - n - 1) : m[k] = s[n + 1 + k]
    BY <1>1, <1>2, <1>5 DEF Left
  <2>2. Head(t) = t[1] /\ 1 \in 1..(l - n) BY <1>2, <1>3, <1>5
  <2>3. /\ Tail(t) \in Seq(Words) /\ Len(Tail(t)) = l - n - 1
        /\ \A k \in 1..(l - n - 1) : Tail(t)[k] = t[k + 1]
    BY <1>2, <1>3, <1>4, <1>5
  <2>4. \A k \in 1..(l - n - 1) : Tail(t)[k] = m[k]
    <3> TAKE k \in 1..(l - n - 1)
    <3>1. k + 1 \in 1..(l - n) /\ n + (k + 1) = n + 1 + k BY <1>2, <1>5
    <3> QED BY <1>3, <2>1, <2>3, <3>1
  <2>5. Tail(t) = m BY <2>1, <2>3, <2>4, SeqEqual
  <2> QED BY <1>3, <2>2, <2>5
<1> QED BY <1>1, <1>4, <1>5

(* The programs, statement by statement.                                     *)
LEMMA ProgramsAre ==
  /\ Buffer!SignStatements("core") = <<"moveIn", "putIndex", "putR", "hash", "putBody">>
  /\ Buffer!SignStatements("fast")
       = <<"moveIn", "hash", "putIndex", "putR", "putBody", "moveIn">>
  /\ Buffer!SignStatements("sphincs") = <<"moveIn", "random", "hash", "putBody">>
  /\ \A q \in {"core", "fast"} : Buffer!OpenStatements(q) = <<"moveOut", "hash", "check">>
  /\ Buffer!OpenStatements("sphincs") = <<"moveOut", "copySig", "hash", "check">>
BY DEF Buffer!SignStatements, Buffer!OpenStatements

(* The statements of the running call, as each program has them.             *)
LEMMA CoreSigns ==
  ASSUME phase = "sign", prog = "core"
  PROVE  /\ Statements \in Seq(Words) /\ Len(Statements) = 5
         /\ Statements[1] = "moveIn" /\ Statements[2] = "putIndex"
         /\ Statements[3] = "putR" /\ Statements[4] = "hash"
         /\ Statements[5] = "putBody"
<1>1. Statements = <<"moveIn", "putIndex", "putR", "hash", "putBody">>
  BY ProgramsAre DEF Statements
<1> QED BY <1>1 DEF Words

(* The same, for fast.                                                       *)
LEMMA FastSigns ==
  ASSUME phase = "sign", prog = "fast"
  PROVE  /\ Statements \in Seq(Words) /\ Len(Statements) = 6
         /\ Statements[1] = "moveIn" /\ Statements[2] = "hash"
         /\ Statements[3] = "putIndex" /\ Statements[4] = "putR"
         /\ Statements[5] = "putBody" /\ Statements[6] = "moveIn"
<1>1. Statements = <<"moveIn", "hash", "putIndex", "putR", "putBody", "moveIn">>
  BY ProgramsAre DEF Statements
<1> QED BY <1>1 DEF Words

(* The same, for sphincs.                                                    *)
LEMMA SphincsSigns ==
  ASSUME phase = "sign", prog = "sphincs"
  PROVE  /\ Statements \in Seq(Words) /\ Len(Statements) = 4
         /\ Statements[1] = "moveIn" /\ Statements[2] = "random"
         /\ Statements[3] = "hash" /\ Statements[4] = "putBody"
<1>1. Statements = <<"moveIn", "random", "hash", "putBody">>
  BY ProgramsAre DEF Statements
<1> QED BY <1>1 DEF Words

(* Verification, for core and fast.                                          *)
LEMMA MineOpens ==
  ASSUME phase # "sign", prog \in {"core", "fast"}
  PROVE  /\ Statements \in Seq(Words) /\ Len(Statements) = 3
         /\ Statements[1] = "moveOut" /\ Statements[2] = "hash"
         /\ Statements[3] = "check"
<1>1. Statements = <<"moveOut", "hash", "check">>
  BY ProgramsAre DEF Statements
<1> QED BY <1>1 DEF Words

(* Verification, for sphincs.                                                *)
LEMMA SphincsOpens ==
  ASSUME phase # "sign", prog = "sphincs"
  PROVE  /\ Statements \in Seq(Words) /\ Len(Statements) = 4
         /\ Statements[1] = "moveOut" /\ Statements[2] = "copySig"
         /\ Statements[3] = "hash" /\ Statements[4] = "check"
<1>1. Statements = <<"moveOut", "copySig", "hash", "check">>
  BY ProgramsAre DEF Statements
<1> QED BY <1>1 DEF Words

(* The statement a running call is at, and where it is after it.             *)
LEMMA StatementAt ==
  ASSUME Statements \in Seq(Words), NEW n \in Nat, n <= Len(Statements), Passed(n)
  PROVE  /\ todo = <<>> <=> n = Len(Statements)
         /\ \A x : Buffer!At(x) =>
              n < Len(Statements) /\ Statements[n + 1] = x /\ todo' = Left(Statements, n + 1)
<1>1. PICK s : s = Statements OBVIOUS
<1>2. s \in Seq(Words) BY <1>1
<1>3. todo = Left(s, n) BY <1>1 DEF Passed
<1>4. Len(s) \in Nat /\ n <= Len(s) BY <1>1, <1>2
<1>5. /\ Left(s, n) = <<>> <=> n = Len(s)
      /\ n < Len(s) => Head(Left(s, n)) = s[n + 1] /\ Tail(Left(s, n)) = Left(s, n + 1)
  BY <1>2, <1>4, LeftTurn
<1>6. todo # <<>> => n < Len(s) BY <1>3, <1>4, <1>5
<1> QED BY <1>1, <1>3, <1>5, <1>6 DEF Buffer!At

(* So the number of statements passed tells the next, and what is left.      *)
LEMMA CoreSigningAt ==
  ASSUME phase = "sign", prog = "core", NEW x, Buffer!At(x)
  PROVE  /\ Passed(0) => x = "moveIn" /\ todo' = Left(Statements, 1)
         /\ Passed(1) => x = "putIndex" /\ todo' = Left(Statements, 2)
         /\ Passed(2) => x = "putR" /\ todo' = Left(Statements, 3)
         /\ Passed(3) => x = "hash" /\ todo' = Left(Statements, 4)
         /\ Passed(4) => x = "putBody" /\ todo' = Left(Statements, 5)
         /\ ~Passed(5)
<1>1. /\ Statements \in Seq(Words) /\ Len(Statements) = 5
      /\ Statements[1] = "moveIn" /\ Statements[2] = "putIndex"
      /\ Statements[3] = "putR" /\ Statements[4] = "hash"
      /\ Statements[5] = "putBody"
  BY CoreSigns
<1>2. ASSUME NEW n \in 0..5, Passed(n)
      PROVE  n < 5 /\ Statements[n + 1] = x /\ todo' = Left(Statements, n + 1)
  <2>1. n \in Nat /\ n <= Len(Statements) BY <1>1
  <2> QED BY <1>1, <1>2, <2>1, StatementAt
<1> QED BY <1>1, <1>2

(* The same, for fast.                                                       *)
LEMMA FastSigningAt ==
  ASSUME phase = "sign", prog = "fast", NEW x, Buffer!At(x)
  PROVE  /\ Passed(0) => x = "moveIn" /\ todo' = Left(Statements, 1)
         /\ Passed(1) => x = "hash" /\ todo' = Left(Statements, 2)
         /\ Passed(2) => x = "putIndex" /\ todo' = Left(Statements, 3)
         /\ Passed(3) => x = "putR" /\ todo' = Left(Statements, 4)
         /\ Passed(4) => x = "putBody" /\ todo' = Left(Statements, 5)
         /\ Passed(5) => x = "moveIn" /\ todo' = Left(Statements, 6)
         /\ ~Passed(6)
<1>1. /\ Statements \in Seq(Words) /\ Len(Statements) = 6
      /\ Statements[1] = "moveIn" /\ Statements[2] = "hash"
      /\ Statements[3] = "putIndex" /\ Statements[4] = "putR"
      /\ Statements[5] = "putBody" /\ Statements[6] = "moveIn"
  BY FastSigns
<1>2. ASSUME NEW n \in 0..6, Passed(n)
      PROVE  n < 6 /\ Statements[n + 1] = x /\ todo' = Left(Statements, n + 1)
  <2>1. n \in Nat /\ n <= Len(Statements) BY <1>1
  <2> QED BY <1>1, <1>2, <2>1, StatementAt
<1> QED BY <1>1, <1>2

(* The same, for sphincs.                                                    *)
LEMMA SphincsSigningAt ==
  ASSUME phase = "sign", prog = "sphincs", NEW x, Buffer!At(x)
  PROVE  /\ Passed(0) => x = "moveIn" /\ todo' = Left(Statements, 1)
         /\ Passed(1) => x = "random" /\ todo' = Left(Statements, 2)
         /\ Passed(2) => x = "hash" /\ todo' = Left(Statements, 3)
         /\ Passed(3) => x = "putBody" /\ todo' = Left(Statements, 4)
         /\ ~Passed(4)
<1>1. /\ Statements \in Seq(Words) /\ Len(Statements) = 4
      /\ Statements[1] = "moveIn" /\ Statements[2] = "random"
      /\ Statements[3] = "hash" /\ Statements[4] = "putBody"
  BY SphincsSigns
<1>2. ASSUME NEW n \in 0..4, Passed(n)
      PROVE  n < 4 /\ Statements[n + 1] = x /\ todo' = Left(Statements, n + 1)
  <2>1. n \in Nat /\ n <= Len(Statements) BY <1>1
  <2> QED BY <1>1, <1>2, <2>1, StatementAt
<1> QED BY <1>1, <1>2

(* Verification, for core and fast.                                          *)
LEMMA MineOpeningAt ==
  ASSUME phase # "sign", prog \in {"core", "fast"}, NEW x, Buffer!At(x)
  PROVE  /\ Passed(0) => x = "moveOut" /\ todo' = Left(Statements, 1)
         /\ Passed(1) => x = "hash" /\ todo' = Left(Statements, 2)
         /\ Passed(2) => x = "check" /\ todo' = Left(Statements, 3)
         /\ ~Passed(3)
<1>1. /\ Statements \in Seq(Words) /\ Len(Statements) = 3
      /\ Statements[1] = "moveOut" /\ Statements[2] = "hash"
      /\ Statements[3] = "check"
  BY MineOpens
<1>2. ASSUME NEW n \in 0..3, Passed(n)
      PROVE  n < 3 /\ Statements[n + 1] = x /\ todo' = Left(Statements, n + 1)
  <2>1. n \in Nat /\ n <= Len(Statements) BY <1>1
  <2> QED BY <1>1, <1>2, <2>1, StatementAt
<1> QED BY <1>1, <1>2

(* Verification, for sphincs.                                                *)
LEMMA SphincsOpeningAt ==
  ASSUME phase # "sign", prog = "sphincs", NEW x, Buffer!At(x)
  PROVE  /\ Passed(0) => x = "moveOut" /\ todo' = Left(Statements, 1)
         /\ Passed(1) => x = "copySig" /\ todo' = Left(Statements, 2)
         /\ Passed(2) => x = "hash" /\ todo' = Left(Statements, 3)
         /\ Passed(3) => x = "check" /\ todo' = Left(Statements, 4)
         /\ ~Passed(4)
<1>1. /\ Statements \in Seq(Words) /\ Len(Statements) = 4
      /\ Statements[1] = "moveOut" /\ Statements[2] = "copySig"
      /\ Statements[3] = "hash" /\ Statements[4] = "check"
  BY SphincsOpens
<1>2. ASSUME NEW n \in 0..4, Passed(n)
      PROVE  n < 4 /\ Statements[n + 1] = x /\ todo' = Left(Statements, n + 1)
  <2>1. n \in Nat /\ n <= Len(Statements) BY <1>1
  <2> QED BY <1>1, <1>2, <2>1, StatementAt
<1> QED BY <1>1, <1>2

-----------------------------------------------------------------------------
(* Where each statement stands, and what it finds.                           *)
LEMMA Programme ==
  ASSUME BufferInv
  PROVE  prog \in {"core", "fast", "sphincs"} /\ phase \in {"sign", "signed", "open", "opened"}
BY Layout DEF BufferInv

(* A statement is one of a running call.                                     *)
LEMMA InCalls ==
  ASSUME BufferInv, NEW x, Buffer!At(x)
  PROVE  \/ phase = "sign" /\ SignCall
         \/ phase = "open" /\ OpenCall
BY DEF BufferInv, Buffer!At

(* The message is moved first, and by fast again at the end.                 *)
LEMMA MoveInStage ==
  ASSUME BufferInv, phase = "sign", Buffer!At("moveIn")
  PROVE  \/ todo' = Left(Statements, 1) /\ MessageIn(mem, mIn, 0)
         \/ prog = "fast" /\ todo' = Left(Statements, 6) /\ Complete /\ mIn = "m"
<1>1. prog # "sphincs" => mIn = "m" /\ MessageIn(mem, mIn, 0)
  BY DEF BufferInv, Places, Memory
<1>2. SignCall BY InCalls
<1>3. prog \in {"core", "fast", "sphincs"} BY Programme
<1> QED
  BY <1>1, <1>2, <1>3, CoreSigningAt, FastSigningAt, SphincsSigningAt
  DEF SignCall, CoreSigning, FastSigning, SphincsSigning

(* The index is written once the message is in place.                        *)
LEMMA PutIndexStage ==
  ASSUME BufferInv, Buffer!At("putIndex")
  PROVE  /\ phase = "sign" /\ Moved
         /\ \/ prog = "core" /\ todo' = Left(Statements, 2)
            \/ prog = "fast" /\ todo' = Left(Statements, 3) /\ Digested
<1>1. prog \in {"core", "fast", "sphincs"} BY Programme
<1>2. CASE phase = "sign" /\ SignCall
  BY <1>1, <1>2, CoreSigningAt, FastSigningAt, SphincsSigningAt
  DEF SignCall, CoreSigning, FastSigning, SphincsSigning
<1>3. CASE phase = "open" /\ OpenCall
  BY <1>1, <1>3, MineOpeningAt, SphincsOpeningAt
  DEF OpenCall, MineOpening, SphincsOpening
<1> QED BY <1>2, <1>3, InCalls

(* R is written after the index.                                             *)
LEMMA PutRStage ==
  ASSUME BufferInv, Buffer!At("putR")
  PROVE  /\ phase = "sign" /\ Moved /\ Indexed
         /\ \/ prog = "core" /\ todo' = Left(Statements, 3)
            \/ prog = "fast" /\ todo' = Left(Statements, 4) /\ Digested
<1>1. prog \in {"core", "fast", "sphincs"} BY Programme
<1>2. CASE phase = "sign" /\ SignCall
  BY <1>1, <1>2, CoreSigningAt, FastSigningAt, SphincsSigningAt
  DEF SignCall, CoreSigning, FastSigning, SphincsSigning
<1>3. CASE phase = "open" /\ OpenCall
  BY <1>1, <1>3, MineOpeningAt, SphincsOpeningAt
  DEF OpenCall, MineOpening, SphincsOpening
<1> QED BY <1>2, <1>3, InCalls

(* sphincs derives R when the message is in place.                           *)
LEMMA RandomStage ==
  ASSUME BufferInv, Buffer!At("random")
  PROVE  phase = "sign" /\ prog = "sphincs" /\ Moved /\ todo' = Left(Statements, 2)
<1>1. prog \in {"core", "fast", "sphincs"} BY Programme
<1>2. CASE phase = "sign" /\ SignCall
  BY <1>1, <1>2, CoreSigningAt, FastSigningAt, SphincsSigningAt
  DEF SignCall, CoreSigning, FastSigning, SphincsSigning
<1>3. CASE phase = "open" /\ OpenCall
  BY <1>1, <1>3, MineOpeningAt, SphincsOpeningAt
  DEF OpenCall, MineOpening, SphincsOpening
<1> QED BY <1>2, <1>3, InCalls

(* What is hashed is in place when either call hashes.                       *)
LEMMA HashStage ==
  ASSUME BufferInv, Buffer!At("hash")
  PROVE  \/ /\ phase = "sign" /\ Moved
            /\ \/ prog = "core" /\ todo' = Left(Statements, 4) /\ Indexed /\ Randomised
               \/ prog = "fast" /\ todo' = Left(Statements, 2)
               \/ prog = "sphincs" /\ todo' = Left(Statements, 3) /\ Randomised
         \/ /\ phase = "open" /\ OpenCall /\ ~Passed(0) /\ MovedOut
            /\ prog # "sphincs" => todo' = Left(Statements, 2)
            /\ prog = "sphincs" => todo' = Left(Statements, 3) /\ Copied
<1>1. prog \in {"core", "fast", "sphincs"} BY Programme
<1>2. CASE phase = "sign" /\ SignCall
  BY <1>1, <1>2, CoreSigningAt, FastSigningAt, SphincsSigningAt
  DEF SignCall, CoreSigning, FastSigning, SphincsSigning
<1>3. CASE phase = "open" /\ OpenCall
  BY <1>1, <1>3, MineOpeningAt, SphincsOpeningAt
  DEF OpenCall, MineOpening, SphincsOpening
<1> QED BY <1>2, <1>3, InCalls

(* The body is written when all it depends on is there.                      *)
LEMMA PutBodyStage ==
  ASSUME BufferInv, Buffer!At("putBody")
  PROVE  /\ phase = "sign" /\ Moved /\ Randomised /\ Digested
         /\ prog # "sphincs" => Indexed /\ todo' = Left(Statements, 5)
         /\ prog = "sphincs" => todo' = Left(Statements, 4)
<1>1. prog \in {"core", "fast", "sphincs"} BY Programme
<1>2. CASE phase = "sign" /\ SignCall
  BY <1>1, <1>2, CoreSigningAt, FastSigningAt, SphincsSigningAt
  DEF SignCall, CoreSigning, FastSigning, SphincsSigning
<1>3. CASE phase = "open" /\ OpenCall
  BY <1>1, <1>3, MineOpeningAt, SphincsOpeningAt
  DEF OpenCall, MineOpening, SphincsOpening
<1> QED BY <1>2, <1>3, InCalls

(* Verification moves the message first.                                     *)
LEMMA MoveOutStage ==
  ASSUME BufferInv, Buffer!At("moveOut")
  PROVE  phase = "open" /\ OpenCall /\ Unread /\ todo' = Left(Statements, 1)
<1>1. prog \in {"core", "fast", "sphincs"} BY Programme
<1>2. CASE phase = "sign" /\ SignCall
  BY <1>1, <1>2, CoreSigningAt, FastSigningAt, SphincsSigningAt
  DEF SignCall, CoreSigning, FastSigning, SphincsSigning
<1>3. CASE phase = "open" /\ OpenCall
  <2>1. prog # "sphincs" => mOut # "sm" BY DEF BufferInv, Places
  <2> QED BY <1>1, <1>3, <2>1, MineOpeningAt, SphincsOpeningAt
  DEF OpenCall, MineOpening, SphincsOpening
<1> QED BY <1>2, <1>3, InCalls

(* sphincs copies the signature before it is overwritten.                    *)
LEMMA CopySigStage ==
  ASSUME BufferInv, Buffer!At("copySig")
  PROVE  /\ phase = "open" /\ OpenCall /\ ~Passed(0) /\ prog = "sphincs" /\ Unread /\ MovedOut
         /\ todo' = Left(Statements, 2)
<1>1. prog \in {"core", "fast", "sphincs"} BY Programme
<1>2. CASE phase = "sign" /\ SignCall
  BY <1>1, <1>2, CoreSigningAt, FastSigningAt, SphincsSigningAt
  DEF SignCall, CoreSigning, FastSigning, SphincsSigning
<1>3. CASE phase = "open" /\ OpenCall
  BY <1>1, <1>3, MineOpeningAt, SphincsOpeningAt
  DEF OpenCall, MineOpening, SphincsOpening
<1> QED BY <1>2, <1>3, InCalls

(* The comparison comes last, after the hash.                                *)
LEMMA CheckStage ==
  ASSUME BufferInv, Buffer!At("check")
  PROVE  /\ phase = "open" /\ OpenCall /\ ~Passed(0) /\ MovedOut /\ digest = Rehashed
         /\ todo' = <<>>
         /\ prog = "sphincs" => Copied
<1>1. prog \in {"core", "fast", "sphincs"} BY Programme
<1>2. CASE phase = "sign" /\ SignCall
  BY <1>1, <1>2, CoreSigningAt, FastSigningAt, SphincsSigningAt
  DEF SignCall, CoreSigning, FastSigning, SphincsSigning
<1>3. CASE phase = "open" /\ OpenCall
  <2>1. \A n : Statements \in Seq(Words) /\ n = Len(Statements) => Left(Statements, n) = <<>>
    BY LeftTurn
  <2>2. CASE prog # "sphincs"
    <3>1. Left(Statements, 3) = <<>> BY <1>1, <1>3, <2>1, <2>2, MineOpens
    <3> QED BY <1>1, <1>3, <2>2, <3>1, MineOpeningAt DEF OpenCall, MineOpening
  <2>3. CASE prog = "sphincs"
    <3>1. Left(Statements, 4) = <<>> BY <1>3, <2>1, <2>3, SphincsOpens
    <3> QED BY <1>3, <2>3, <3>1, SphincsOpeningAt DEF OpenCall, SphincsOpening
  <2> QED BY <2>2, <2>3
<1> QED BY <1>2, <1>3, InCalls
-----------------------------------------------------------------------------
(* The cells after a write within the buffers.                               *)
LEMMA PutCells ==
  ASSUME Places, NEW f, NEW g, NEW buf, NEW from, NEW blocks, NEW n,
         Put(g, f, buf, from, blocks, n)
  PROVE  \A b \in {"sm", "m", "mout"}, k \in -1..Total :
           /\ b = buf /\ k \in from..(from + n - 1) => g[<<b, k>>] = blocks[k - from + 1]
           /\ ~(b = buf /\ k \in from..(from + n - 1)) => g[<<b, k>>] = f[<<b, k>>]
<1> TAKE b \in {"sm", "m", "mout"}, k \in -1..Total
<1>1. k \in Buffer!Offsets(prog) BY Layout
<1>2. b \in Buffer!Buffers BY DEF Buffer!Buffers
<1> QED BY <1>1, <1>2 DEF Put, Written

(* What is hashed: the prefix and the message it is written in front of.     *)
PlacedBefore(from, c) == from \in Nat /\ c \in {3, 4} /\ from + c = Buffer!SigLen(prog)

HashedIn(buf) == buf \in {"sm", "mout"}
HashReads(f, g, buf, from, pre, c) ==
  Buffer!Read(g, buf, from, c + mlen) = pre \o Buffer!Read(f, buf, Buffer!SigLen(prog), mlen)

(* The hash reads the prefix just written and the message behind it.         *)
LEMMA DigestIs ==
  ASSUME Places, NEW f, NEW g, NEW buf, HashedIn(buf), NEW c, NEW from, PlacedBefore(from, c),
         NEW pre, Listing(pre, c, pre), Put(g, f, buf, from, pre, c)
  PROVE  HashReads(f, g, buf, from, pre, c)
<1>1. PICK L, t : L = Buffer!SigLen(prog) /\ t = Buffer!Read(f, buf, L, mlen) OBVIOUS
<1>2. L \in Nat /\ L >= 5 /\ mlen \in Nat /\ Total = L + mlen BY <1>1, Layout
<1>3. from \in Nat /\ from + c = L /\ c \in Nat /\ c \in {3, 4} BY <1>1 DEF PlacedBefore
<1>4. t = [k \in 1..mlen |-> f[<<buf, L + k - 1>>]] BY <1>1 DEF Buffer!Read
<1>5. JoinedListing(pre \o t, c, mlen, pre, t)
  <2>1. Listing(pre, c, pre) OBVIOUS
  <2>2. Listing(t, mlen, t) BY <1>4 DEF Listing
  <2> QED BY ONLY <1>2, <1>3, <2>1, <2>2, ListingConcat
<1>. buf \in {"sm", "m", "mout"} BY DEF HashedIn
<1>6. ASSUME NEW k \in 1..(c + mlen)
      PROVE  g[<<buf, from + k - 1>>] = IF k <= c THEN pre[k] ELSE t[k - c]
  <2>1. PICK o : o = from + k - 1 OBVIOUS
  <2>2. k \in 1..(c + mlen) OBVIOUS
  <2>3. o \in -1..Total BY ONLY <1>2, <1>3, <2>1, <2>2
  <2>4. CASE k <= c
    <3>1. o \in from..(from + c - 1) /\ o - from + 1 = k
      BY ONLY <1>2, <1>3, <2>1, <2>2, <2>4
    <3> QED BY <2>1, <2>3, <2>4, <3>1, PutCells
  <2>5. CASE ~(k <= c)
    <3>1. o \notin from..(from + c - 1) /\ k - c \in 1..mlen /\ L + (k - c) - 1 = o
      BY ONLY <1>2, <1>3, <2>1, <2>2, <2>5
    <3>2. g[<<buf, o>>] = f[<<buf, o>>] BY <2>3, <3>1, PutCells
    <3>3. t[k - c] = f[<<buf, o>>] BY <1>4, <3>1
    <3> QED BY <2>1, <2>5, <3>2, <3>3
  <2> QED BY <2>4, <2>5
<1>7. Buffer!Read(g, buf, from, c + mlen) = pre \o t BY <1>5, <1>6 DEF Buffer!Read, JoinedListing
<1> QED BY <1>1, <1>7 DEF HashReads

(* The prefix as a sequence of blocks.                                       *)
PrefixLen == IF prog = "sphincs" THEN 3 ELSE 4

(* The prefix has as many blocks as are reserved for it.                     *)
LEMMA PrefixIs ==
  ASSUME NEW r, NEW x
  PROVE  /\ Buffer!Prefix(r, x) = [k \in 1..PrefixLen |-> Buffer!Prefix(r, x)[k]]
         /\ DOMAIN Buffer!Prefix(r, x) = 1..PrefixLen
<1>1. CASE prog = "sphincs"
  <2>1. Buffer!Prefix(r, x) = <<r, <<"pub_seed">>, <<"root">>>> BY <1>1 DEF Buffer!Prefix
  <2>2. PrefixLen = 3 BY <1>1 DEF PrefixLen
  <2> QED BY <2>1, <2>2
<1>2. CASE prog # "sphincs"
  <2>1. Buffer!Prefix(r, x) = <<<<"pad">>, r, <<"root">>, x>> BY <1>2 DEF Buffer!Prefix
  <2>2. PrefixLen = 4 BY <1>2 DEF PrefixLen
  <2> QED BY <2>1, <2>2
<1> QED BY <1>1, <1>2

-----------------------------------------------------------------------------
(* What depends on the arguments alone stays.                                *)
LEMMA SameSent ==
  ASSUME prog' = prog, mlen' = mlen
  PROVE  /\ Total' = Total /\ Buffer!ExpectedR' = Buffer!ExpectedR /\ Hashed' = Hashed
         /\ \A k : Sent(k)' = Sent(k)
<1>1. Buffer!Message' = Buffer!Message BY DEF Buffer!Message
<1>2. Buffer!ExpectedR' = Buffer!ExpectedR BY <1>1 DEF Buffer!ExpectedR
<1>3. Hashed' = Hashed BY <1>1, <1>2 DEF Hashed, Buffer!Prefix
<1>4. Total' = Total BY DEF Total
<1> QED BY <1>2, <1>3, <1>4 DEF Sent

(* The same, for what arrives.                                               *)
LEMMA SameArrived ==
  ASSUME prog' = prog, mlen' = mlen, altered' = altered
  PROVE  Rehashed' = Rehashed /\ \A k : Arrived(k)' = Arrived(k)
<1>1. \A k : Arrived(k)' = Arrived(k) BY SameSent DEF Arrived
<1> QED BY <1>1 DEF Rehashed, Buffer!Prefix

(* The arguments and the memory around the call stay.                        *)
LEMMA PlacesKept ==
  ASSUME Places, Memory(mem'), UNCHANGED <<prog, mlen, mIn, mOut, rand>>
  PROVE  Places' /\ Memory(mem)'
<1>1. Places' BY DEF Places
<1>2. Memory(mem)' BY SameSent DEF Memory, MessageIn
<1> QED BY <1>1, <1>2

(* A signing call that stays one.                                            *)
LEMMA SigningGoesOn ==
  ASSUME BufferInv, Memory(mem'), phase = "sign",
         UNCHANGED <<prog, mlen, mIn, mOut, rand, phase, ret, outLen>>,
         prog = "core" => CoreSigning', prog = "fast" => FastSigning',
         prog = "sphincs" => SphincsSigning'
  PROVE  BufferInv'
<1>1. Places' /\ Memory(mem)' BY PlacesKept DEF BufferInv
<1>2. SignCall' BY DEF BufferInv, SignCall
<1> QED BY <1>1, <1>2 DEF BufferInv

(* A statement taken is one more passed.                                     *)
LEMMA PassedNext ==
  ASSUME UNCHANGED <<prog, phase>>, NEW n, todo' = Left(Statements, n)
  PROVE  Passed(n)'
BY DEF Passed, Statements

-----------------------------------------------------------------------------
(* The message moves behind the place of the signature.                      *)
LEMMA MoveInKeeps == ASSUME BufferInv, Buffer!MoveIn PROVE BufferInv'
<1>1. Places /\ Memory(mem) BY DEF BufferInv
<1>2. /\ phase = "sign" /\ Buffer!At("moveIn")
      /\ UNCHANGED <<prog, mlen, mIn, mOut, phase, digest, rand, ret, outLen>>
  BY DEF Buffer!MoveIn
<1>3. PICK L, r : L = Buffer!SigLen(prog) /\ r = Buffer!Read(mem, mIn, 0, mlen) OBVIOUS
<1>4. L \in Nat /\ L >= 5 /\ mlen \in Nat /\ Total = L + mlen /\ Total \in Nat
  BY <1>1, <1>3, Layout
<1>5. Put(mem', mem, "sm", L, r, mlen) BY <1>1, <1>3, MoveInPuts
<1>6. Memory(mem')
  <2>1. "sm" \in {"sm", "mout"} /\ L + mlen <= Total BY <1>4
  <2> QED BY <1>1, <1>4, <1>5, <2>1, PutKeeps
<1>7. MessageIn(mem, mIn, 0) /\ \/ todo' = Left(Statements, 1)
                                \/ prog = "fast" /\ todo' = Left(Statements, 6) /\ Complete
  <2>1. mIn = "m" => MessageIn(mem, mIn, 0) BY <1>1 DEF Memory
  <2> QED BY <1>2, <2>1, MoveInStage
<1>8. ASSUME NEW k \in 0..(mlen - 1) PROVE mem'[<<"sm", L + k>>] = <<"M", k>>
  <2>1. PICK o : o = L + k OBVIOUS
  <2>2. o \in -1..Total /\ o \in L..(L + mlen - 1) /\ o - L + 1 = k + 1 BY <1>4, <2>1
  <2>3. mem'[<<"sm", o>>] = r[k + 1] BY <1>1, <1>5, <2>2, PutCells
  <2>4. k + 1 \in 1..mlen /\ 0 + (k + 1) - 1 = 0 + k BY <1>4
  <2>5. r[k + 1] = mem[<<mIn, 0 + k>>] BY <1>3, <2>4 DEF Buffer!Read
  <2> QED BY <1>7, <2>1, <2>3, <2>5 DEF MessageIn
<1>9. Moved' BY <1>2, <1>3, <1>8 DEF Moved, MessageIn
<1>10. Complete => Complete'
  <2> SUFFICES ASSUME Complete, NEW k \in 0..(Total - 1) PROVE mem'[<<"sm", k>>] = Sent(k)
    BY <1>2, SameSent DEF Complete
  <2>1. k \in -1..Total /\ k \in Int BY <1>4
  <2>2. CASE k < L
    <3>1. k \notin L..(L + mlen - 1) BY <1>4, <2>2
    <3>2. mem'[<<"sm", k>>] = mem[<<"sm", k>>] BY <1>1, <1>5, <2>1, <3>1, PutCells
    <3> QED BY <3>2 DEF Complete
  <2>3. CASE ~(k < L)
    <3>1. k - L \in 0..(mlen - 1) /\ L + (k - L) = k BY <1>4, <2>3
    <3>2. mem'[<<"sm", k>>] = <<"M", k - L>> BY <1>8, <3>1
    <3> QED BY <1>3, <1>4, <2>3, <3>2 DEF Sent
  <2> QED BY <2>2, <2>3
<1>11. CASE todo' = Left(Statements, 1)
  <2>1. Passed(1)' BY <1>2, <1>11, PassedNext
  <2> QED BY <1>2, <1>6, <1>9, <2>1, SigningGoesOn
          DEF CoreSigning, FastSigning, SphincsSigning
<1>12. CASE prog = "fast" /\ todo' = Left(Statements, 6) /\ Complete
  <2>1. Passed(6)' BY <1>2, <1>12, PassedNext
  <2>2. FastSigning' BY <1>10, <1>12, <2>1 DEF FastSigning
  <2> QED BY <1>2, <1>6, <1>12, <2>2, SigningGoesOn
<1> QED BY <1>7, <1>11, <1>12

(* A write into the place of the signature leaves the message moved.         *)
LEMMA PutInSignature ==
  ASSUME Places, NEW f, Memory(f), NEW g, NEW from \in Nat, NEW n \in Nat, NEW blocks,
         from + n <= Buffer!SigLen(prog), Put(g, f, "sm", from, blocks, n)
  PROVE  /\ Memory(g)
         /\ MessageIn(f, "sm", Buffer!SigLen(prog)) => MessageIn(g, "sm", Buffer!SigLen(prog))
         /\ \A k \in 0..(Total - 1) :
              /\ k \in from..(from + n - 1) => g[<<"sm", k>>] = blocks[k - from + 1]
              /\ k \notin from..(from + n - 1) => g[<<"sm", k>>] = f[<<"sm", k>>]
<1>1. PICK L : L = Buffer!SigLen(prog) OBVIOUS
<1>2. L \in Nat /\ mlen \in Nat /\ Total = L + mlen /\ Total \in Nat /\ from + n <= L
  BY <1>1, Layout
<1>3. Memory(g)
  <2>1. "sm" \in {"sm", "mout"} /\ from + n <= Total BY <1>2
  <2> QED BY <2>1, PutKeeps
<1>4. ASSUME NEW k \in 0..(Total - 1)
      PROVE  /\ k \in from..(from + n - 1) => g[<<"sm", k>>] = blocks[k - from + 1]
             /\ k \notin from..(from + n - 1) => g[<<"sm", k>>] = f[<<"sm", k>>]
  <2>1. k \in -1..Total BY <1>2
  <2> QED BY <2>1, PutCells
<1>5. ASSUME MessageIn(f, "sm", L), NEW k \in 0..(mlen - 1) PROVE g[<<"sm", L + k>>] = <<"M", k>>
  <2>1. L + k \in 0..(Total - 1) /\ L + k \notin from..(from + n - 1) BY <1>2
  <2> QED BY <1>4, <1>5, <2>1 DEF MessageIn
<1> QED BY <1>1, <1>3, <1>4, <1>5 DEF MessageIn

(* A write of one block.                                                     *)
LEMMA PutOne ==
  ASSUME Places, NEW f, Memory(f), NEW g, NEW o \in Nat, o < Buffer!SigLen(prog), NEW x,
         g = Buffer!Write(f, "sm", o, <<x>>)
  PROVE  /\ Memory(g)
         /\ MessageIn(f, "sm", Buffer!SigLen(prog)) => MessageIn(g, "sm", Buffer!SigLen(prog))
         /\ g[<<"sm", o>>] = x
         /\ \A k \in 0..(Total - 1) : k # o => g[<<"sm", k>>] = f[<<"sm", k>>]
<1>1. DOMAIN <<x>> = 1..1 /\ <<x>>[1] = x OBVIOUS
<1>2. DOMAIN f = Buffer!Buffers \X Buffer!Offsets(prog) BY DEF Memory
<1>3. o \in Int /\ 1 \in Nat OBVIOUS
<1>4. Put(g, f, "sm", o, <<x>>, 1) BY <1>1, <1>2, <1>3, WritePuts
<1>5. PICK L : L = Buffer!SigLen(prog) OBVIOUS
<1>6. L \in Nat /\ mlen \in Nat /\ Total = L + mlen /\ o < L BY <1>5, Layout
<1>7. o + 1 <= L BY <1>6
<1>8. /\ Memory(g)
      /\ MessageIn(f, "sm", L) => MessageIn(g, "sm", L)
      /\ \A k \in 0..(Total - 1) :
           /\ k \in o..(o + 1 - 1) => g[<<"sm", k>>] = <<x>>[k - o + 1]
           /\ k \notin o..(o + 1 - 1) => g[<<"sm", k>>] = f[<<"sm", k>>]
  BY <1>3, <1>4, <1>5, <1>7, PutInSignature
<1>9. o \in 0..(Total - 1) /\ o \in o..(o + 1 - 1) /\ o - o + 1 = 1 BY <1>6
<1>10. g[<<"sm", o>>] = x BY <1>1, <1>8, <1>9
<1>11. \A k \in 0..(Total - 1) : k # o => k \notin o..(o + 1 - 1) OBVIOUS
<1> QED BY <1>5, <1>8, <1>10, <1>11

(* The index at the start of sm.                                             *)
LEMMA PutIndexKeeps == ASSUME BufferInv, Buffer!PutIndex PROVE BufferInv'
<1>1. Places /\ Memory(mem) BY DEF BufferInv
<1>2. /\ Buffer!At("putIndex") /\ mem' = Buffer!Write(mem, "sm", 0, <<<<"idx">>>>)
      /\ UNCHANGED <<prog, mlen, mIn, mOut, phase, digest, rand, ret, outLen>>
  BY DEF Buffer!PutIndex
<1>3. /\ phase = "sign" /\ Moved
      /\ \/ prog = "core" /\ todo' = Left(Statements, 2)
         \/ prog = "fast" /\ todo' = Left(Statements, 3) /\ Digested
  BY <1>2, PutIndexStage
<1>4. 0 \in Nat /\ 0 < Buffer!SigLen(prog) BY <1>1, Layout
<1>5. PICK g : g = mem' OBVIOUS
<1>6. /\ Memory(g) /\ g[<<"sm", 0>>] = <<"idx">>
      /\ MessageIn(mem, "sm", Buffer!SigLen(prog)) => MessageIn(g, "sm", Buffer!SigLen(prog))
  <2>1. g = Buffer!Write(mem, "sm", 0, <<<<"idx">>>>) BY <1>2, <1>5
  <2> QED BY <1>1, <1>4, <2>1, PutOne
<1>7. Moved' BY <1>2, <1>3, <1>5, <1>6 DEF Moved, MessageIn
<1>8. Indexed' BY <1>5, <1>6 DEF Indexed
<1>9. Digested => Digested' BY <1>2, SameSent DEF Digested
<1>10. \A n : todo' = Left(Statements, n) => Passed(n)' BY <1>2, PassedNext
<1>11. prog = "core" => CoreSigning' BY <1>3, <1>7, <1>8, <1>10 DEF CoreSigning
<1>12. prog = "fast" => FastSigning' BY <1>3, <1>7, <1>8, <1>9, <1>10 DEF FastSigning
<1>13. prog # "sphincs" BY <1>3
<1> QED BY <1>2, <1>3, <1>5, <1>6, <1>11, <1>12, <1>13, SigningGoesOn

(* R behind the index.                                                       *)
LEMMA PutRKeeps == ASSUME BufferInv, Buffer!PutR PROVE BufferInv'
<1>1. Places /\ Memory(mem) BY DEF BufferInv
<1>2. PICK o : o = Buffer!ROffset(prog) OBVIOUS
<1>3. /\ Buffer!At("putR") /\ mem' = Buffer!Write(mem, "sm", o, <<rand>>)
      /\ UNCHANGED <<prog, mlen, mIn, mOut, phase, digest, rand, ret, outLen>>
  BY <1>2 DEF Buffer!PutR
<1>4. /\ phase = "sign" /\ Moved /\ Indexed
      /\ \/ prog = "core" /\ todo' = Left(Statements, 3)
         \/ prog = "fast" /\ todo' = Left(Statements, 4) /\ Digested
  BY <1>3, PutRStage
<1>5. o = 1 /\ o \in Nat /\ o < Buffer!SigLen(prog) /\ 0 \in 0..(Total - 1)
  BY <1>1, <1>2, <1>4, Layout
<1>6. PICK g : g = mem' OBVIOUS
<1>7. /\ Memory(g) /\ g[<<"sm", o>>] = rand
      /\ MessageIn(mem, "sm", Buffer!SigLen(prog)) => MessageIn(g, "sm", Buffer!SigLen(prog))
      /\ \A k \in 0..(Total - 1) : k # o => g[<<"sm", k>>] = mem[<<"sm", k>>]
  <2>1. g = Buffer!Write(mem, "sm", o, <<rand>>) BY <1>3, <1>6
  <2> QED BY <1>1, <1>5, <2>1, PutOne
<1>8. Moved' BY <1>3, <1>4, <1>6, <1>7 DEF Moved, MessageIn
<1>9. Indexed' BY <1>4, <1>5, <1>6, <1>7 DEF Indexed
<1>10. Randomised'
  <2>1. prog # "sphincs" /\ rand = <<"R">> BY <1>1, <1>4 DEF Places
  <2>2. Buffer!ExpectedR = <<"R">> BY <2>1 DEF Buffer!ExpectedR
  <2> QED BY <1>2, <1>3, <1>6, <1>7, <2>1, <2>2, SameSent DEF Randomised
<1>11. Digested => Digested' BY <1>3, SameSent DEF Digested
<1>12. \A n : todo' = Left(Statements, n) => Passed(n)' BY <1>3, PassedNext
<1>13. prog = "core" => CoreSigning' BY <1>4, <1>8, <1>9, <1>10, <1>12 DEF CoreSigning
<1>14. prog = "fast" => FastSigning'
  BY <1>4, <1>8, <1>9, <1>10, <1>11, <1>12 DEF FastSigning
<1>15. prog # "sphincs" BY <1>4
<1> QED BY <1>3, <1>4, <1>6, <1>7, <1>13, <1>14, <1>15, SigningGoesOn

(* gen_message_random puts the hash of what it writes in front of the        *)
(* message in the place of R.                                                *)
LEMMA RandomKeeps == ASSUME BufferInv, Buffer!Random PROVE BufferInv'
<1>1. Places /\ Memory(mem) BY DEF BufferInv
<1>2. PICK L, o, f, r, s :
        /\ L = Buffer!SigLen(prog) /\ o = Buffer!ROffset(prog)
        /\ s = <<<<"sk_prf">>, <<"optrand">>>>
        /\ f = Buffer!Write(mem, "sm", L - 2, s)
        /\ r = <<"R", Buffer!Read(f, "sm", L - 2, mlen + 2)>>
  OBVIOUS
<1>3. /\ Buffer!At("random") /\ mem' = Buffer!Write(f, "sm", o, <<r>>)
      /\ UNCHANGED <<prog, mlen, mIn, mOut, phase, digest, rand, ret, outLen>>
  BY <1>2 DEF Buffer!Random
<1>4. phase = "sign" /\ prog = "sphincs" /\ Moved /\ todo' = Left(Statements, 2)
  BY <1>3, RandomStage
<1>5. /\ o = 0 /\ L \in Nat /\ L >= 5 /\ mlen \in Nat /\ Total = L + mlen /\ Total \in Nat
      /\ L - 2 \in Nat
  BY <1>1, <1>2, <1>4, Layout
<1>6. DOMAIN s = 1..2 /\ s[1] = <<"sk_prf">> /\ s[2] = <<"optrand">> BY <1>2
<1>7. /\ Memory(f) /\ MessageIn(f, "sm", L)
      /\ \A k \in 0..(Total - 1) :
           /\ k \in (L - 2)..(L - 2 + 2 - 1) => f[<<"sm", k>>] = s[k - (L - 2) + 1]
           /\ k \notin (L - 2)..(L - 2 + 2 - 1) => f[<<"sm", k>>] = mem[<<"sm", k>>]
  <2>1. DOMAIN mem = Buffer!Buffers \X Buffer!Offsets(prog) BY <1>1 DEF Memory
  <2>2. L - 2 \in Int /\ 2 \in Nat /\ L - 2 + 2 <= L BY <1>5
  <2>3. Put(f, mem, "sm", L - 2, s, 2) BY <1>1, <1>2, <1>6, <2>1, <2>2, WritePuts
  <2>4. MessageIn(mem, "sm", L) BY <1>2, <1>4 DEF Moved
  <2> QED BY <1>1, <1>2, <1>5, <2>2, <2>3, <2>4, PutInSignature
<1>8. Buffer!Read(f, "sm", L - 2, mlen + 2) = <<<<"sk_prf">>, <<"optrand">>>> \o Buffer!Message
  <2>1. PICK t : t = Buffer!Message OBVIOUS
  <2>2. t = [k \in 1..mlen |-> <<"M", k - 1>>] BY <2>1 DEF Buffer!Message, Buffer!M
  <2>3. s \o t = [k \in 1..(2 + mlen) |-> IF k <= 2 THEN s[k] ELSE t[k - 2]]
    <3>1. Listing(s, 2, s) BY <1>2 DEF Listing
    <3>2. Listing(t, mlen, t) BY <2>2 DEF Listing
    <3>3. 2 \in Nat /\ mlen \in Nat BY <1>5
    <3>4. PICK z : z = 2 OBVIOUS
    <3>5. JoinedListing(s \o t, z, mlen, s, t)
      <4>1. z \in Nat /\ Listing(s, z, s) BY <3>1, <3>3, <3>4
      <4> QED BY ONLY <3>2, <3>3, <4>1, ListingConcat
    <3> QED BY <3>4, <3>5 DEF JoinedListing
  <2>4. ASSUME NEW k \in 1..(2 + mlen)
        PROVE  f[<<"sm", L - 2 + k - 1>>] = IF k <= 2 THEN s[k] ELSE t[k - 2]
    <3>1. PICK c : c = L - 2 + k - 1 OBVIOUS
    <3>2. k \in 1..(2 + mlen) OBVIOUS
    <3>3. c \in 0..(Total - 1) BY ONLY <1>5, <3>1, <3>2
    <3>4. CASE k <= 2
      <4>1. c \in (L - 2)..(L - 2 + 2 - 1) /\ c - (L - 2) + 1 = k
        BY ONLY <1>5, <3>1, <3>2, <3>4
      <4> QED BY <1>7, <3>1, <3>3, <3>4, <4>1
    <3>5. CASE ~(k <= 2)
      <4>1. k - 2 \in 1..mlen /\ c = L + (k - 3) /\ k - 3 \in 0..(mlen - 1) /\ (k - 2) - 1 = k - 3
        BY ONLY <1>5, <3>1, <3>2, <3>5
      <4>2. f[<<"sm", c>>] = <<"M", k - 3>> BY <1>7, <4>1 DEF MessageIn
      <4>3. t[k - 2] = <<"M", k - 3>> BY <2>2, <4>1
      <4> QED BY <3>1, <3>5, <4>2, <4>3
    <3> QED BY <3>4, <3>5
  <2>5. mlen + 2 = 2 + mlen BY <1>5
  <2> QED BY <1>2, <2>1, <2>3, <2>4, <2>5 DEF Buffer!Read
<1>9. r = Buffer!ExpectedR BY <1>2, <1>4, <1>8 DEF Buffer!ExpectedR
<1>10. PICK g : g = mem' OBVIOUS
<1>11. Memory(g) /\ g[<<"sm", o>>] = r /\ MessageIn(g, "sm", L)
  <2>1. g = Buffer!Write(f, "sm", o, <<r>>) /\ o \in Nat /\ o < L BY <1>3, <1>5, <1>10
  <2> QED BY <1>1, <1>2, <1>7, <2>1, PutOne
<1>12. Moved' BY <1>2, <1>3, <1>10, <1>11 DEF Moved, MessageIn
<1>13. Randomised' BY <1>2, <1>3, <1>9, <1>10, <1>11, SameSent DEF Randomised
<1>14. Passed(2)' BY <1>3, <1>4, PassedNext
<1>15. SphincsSigning' BY <1>12, <1>13, <1>14 DEF SphincsSigning
<1> QED BY <1>3, <1>4, <1>10, <1>11, <1>15, SigningGoesOn

(* hash_message of a signing call.                                           *)
LEMMA SignHashKeeps ==
  ASSUME BufferInv, Buffer!Hash, phase = "sign" PROVE BufferInv'
<1>1. Places /\ Memory(mem) BY DEF BufferInv
<1>2. PICK L, c, from, r, x :
        /\ L = Buffer!SigLen(prog) /\ c = PrefixLen /\ from = L - c
        /\ r = Buffer!RUsed /\ x = Buffer!IdxUsed
  OBVIOUS
<1>3. PICK pre, g : pre = Buffer!Prefix(r, x) /\ g = mem' OBVIOUS
<1>4. Buffer!At("hash") /\ UNCHANGED <<prog, mlen, mIn, mOut, phase, rand, ret, outLen>>
  BY DEF Buffer!Hash
<1>5. /\ g = Buffer!Write(mem, "sm", from, pre)
      /\ digest' = Buffer!Read(g, "sm", from, L - from + mlen)
  <2>1. from = Buffer!SigLen(prog) - (IF prog = "sphincs" THEN 3 ELSE 4)
    BY <1>2 DEF PrefixLen
  <2>2. Buffer!Buf = "sm" BY DEF Buffer!Buf
  <2> QED BY <1>2, <1>3, <2>1, <2>2 DEF Buffer!Hash
<1>6. /\ Moved
      /\ \/ prog = "core" /\ todo' = Left(Statements, 4) /\ Indexed /\ Randomised
         \/ prog = "fast" /\ todo' = Left(Statements, 2)
         \/ prog = "sphincs" /\ todo' = Left(Statements, 3) /\ Randomised
  BY <1>4, HashStage
<1>7. r = Buffer!ExpectedR /\ (prog # "sphincs" => x = <<"idx">>)
  <2>1. x = <<"idx">> BY <1>2 DEF Buffer!IdxUsed
  <2>2. CASE prog = "fast"
    <3>1. r = rand /\ rand = <<"R">> BY <1>1, <1>2, <2>2 DEF Buffer!RUsed, Places
    <3> QED BY <2>1, <2>2, <3>1 DEF Buffer!ExpectedR
  <2>3. CASE prog # "fast"
    <3>1. r = mem[<<"sm", Buffer!ROffset(prog)>>] BY <1>2, <2>3 DEF Buffer!RUsed
    <3> QED BY <1>6, <2>1, <2>3, <3>1 DEF Randomised
  <2> QED BY <2>2, <2>3
<1>8. /\ L \in Nat /\ L >= 5 /\ mlen \in Nat /\ Total = L + mlen /\ Total \in Nat /\ c \in {3, 4}
      /\ c \in Nat /\ from \in Nat /\ from + c = L /\ from + c <= L
      /\ Buffer!ROffset(prog) < from /\ Buffer!ROffset(prog) \in Nat /\ 0 < from
  BY <1>1, <1>2, Layout DEF PrefixLen
<1>9. pre = [k \in 1..c |-> pre[k]] /\ DOMAIN pre = 1..c BY <1>2, <1>3, PrefixIs
<1>10. DOMAIN mem = Buffer!Buffers \X Buffer!Offsets(prog) BY <1>1 DEF Memory
<1>11. Put(g, mem, "sm", from, pre, c)
  <2>1. from \in Int BY <1>8
  <2> QED BY <1>1, <1>5, <1>8, <1>9, <1>10, <2>1, WritePuts
<1>12. /\ Memory(g)
       /\ MessageIn(mem, "sm", L) => MessageIn(g, "sm", L)
       /\ \A k \in 0..(Total - 1) :
            k \notin from..(from + c - 1) => g[<<"sm", k>>] = mem[<<"sm", k>>]
  BY <1>1, <1>2, <1>8, <1>11, PutInSignature
<1>13. Moved'
  <2>1. MessageIn(g, "sm", L) BY <1>2, <1>6, <1>12 DEF Moved
  <2> QED BY <1>2, <1>3, <1>4, <2>1 DEF Moved, MessageIn
<1>14. /\ 0 \in 0..(Total - 1) /\ 0 \notin from..(from + c - 1)
       /\ Buffer!ROffset(prog) \in 0..(Total - 1)
       /\ Buffer!ROffset(prog) \notin from..(from + c - 1)
  BY <1>8
<1>15. Indexed => Indexed' BY <1>3, <1>12, <1>14 DEF Indexed
<1>16. Randomised => Randomised'
  BY <1>3, <1>4, <1>12, <1>14, SameSent DEF Randomised
<1>17. digest' = Hashed
  <2>1. PICK t : t = Buffer!Read(mem, "sm", L, mlen) OBVIOUS
  <2>2. t = Buffer!Message
    <3>1. ASSUME NEW k \in 1..mlen PROVE mem[<<"sm", L + k - 1>>] = <<"M", k - 1>>
      <4>1. PICK j : j = k - 1 OBVIOUS
      <4>2. j \in 0..(mlen - 1) /\ L + k - 1 = L + j BY <1>8, <4>1
      <4> QED BY <1>2, <1>6, <4>1, <4>2 DEF Moved, MessageIn
    <3> QED BY <2>1, <3>1 DEF Buffer!Read, Buffer!Message, Buffer!M
  <2>3. digest' = pre \o t
    <3>1. PlacedBefore(from, c) /\ L - from + mlen = c + mlen BY <1>2, <1>8 DEF PlacedBefore
    <3>2. HashedIn("sm") /\ Listing(pre, c, pre) BY <1>9 DEF Listing, HashedIn
    <3>3. HashReads(mem, g, "sm", from, pre, c)
      BY ONLY <1>1, <1>11, <3>1, <3>2, DigestIs
    <3> QED BY <1>2, <1>5, <2>1, <3>1, <3>3 DEF HashReads
  <2>4. pre = Buffer!Prefix(Buffer!ExpectedR, <<"idx">>)
    BY <1>3, <1>7 DEF Buffer!Prefix
  <2> QED BY <2>2, <2>3, <2>4 DEF Hashed
<1>18. Digested' BY <1>4, <1>17, SameSent DEF Digested
<1>19. \A n : todo' = Left(Statements, n) => Passed(n)' BY <1>4, PassedNext
<1>20. prog = "core" => CoreSigning'
  BY <1>6, <1>13, <1>15, <1>16, <1>18, <1>19 DEF CoreSigning
<1>21. prog = "fast" => FastSigning' BY <1>6, <1>13, <1>18, <1>19 DEF FastSigning
<1>22. prog = "sphincs" => SphincsSigning'
  BY <1>6, <1>13, <1>16, <1>18, <1>19 DEF SphincsSigning
<1>23. Memory(mem') BY <1>3, <1>12
<1> QED BY <1>4, <1>20, <1>21, <1>22, <1>23, SigningGoesOn

(* The rest of the signature completes what is sent.                         *)
LEMMA PutBodyKeeps == ASSUME BufferInv, Buffer!PutBody PROVE BufferInv'
<1>1. Places /\ Memory(mem) BY DEF BufferInv
<1>2. PICK L, h, g, b :
        /\ L = Buffer!SigLen(prog) /\ h = Buffer!HeadLen(prog) /\ g = mem'
        /\ b = Buffer!Body(digest)
  OBVIOUS
<1>3. /\ Buffer!At("putBody") /\ g = Buffer!Write(mem, "sm", h, b)
      /\ UNCHANGED <<prog, mlen, mIn, mOut, phase, digest, rand, ret, outLen>>
  BY <1>2 DEF Buffer!PutBody
<1>4. /\ phase = "sign" /\ Moved /\ Randomised /\ Digested
      /\ prog # "sphincs" => Indexed /\ todo' = Left(Statements, 5)
      /\ prog = "sphincs" => todo' = Left(Statements, 4)
  BY <1>3, PutBodyStage
<1>5. /\ L \in Nat /\ L >= 5 /\ mlen \in Nat /\ Total = L + mlen /\ Total \in Nat
      /\ h \in {1, 2} /\ Buffer!ROffset(prog) = h - 1 /\ BodyLen \in Nat /\ h + BodyLen = L
      /\ prog = "sphincs" => h = 1
  BY <1>1, <1>2, Layout
<1>6. b = [k \in 1..BodyLen |-> <<"sig", k, Hashed>>]
  BY <1>2, <1>4 DEF Buffer!Body, Digested
<1>7. h \in Nat /\ h \in Int /\ h + BodyLen <= L BY <1>5
<1>8. DOMAIN mem = Buffer!Buffers \X Buffer!Offsets(prog) BY <1>1 DEF Memory
<1>9. Put(g, mem, "sm", h, b, BodyLen) BY <1>1, <1>3, <1>5, <1>6, <1>7, <1>8, WritePuts
<1>10. /\ Memory(g)
       /\ MessageIn(mem, "sm", L) => MessageIn(g, "sm", L)
       /\ \A k \in 0..(Total - 1) :
            /\ k \in h..(h + BodyLen - 1) => g[<<"sm", k>>] = b[k - h + 1]
            /\ k \notin h..(h + BodyLen - 1) => g[<<"sm", k>>] = mem[<<"sm", k>>]
  BY <1>1, <1>2, <1>5, <1>7, <1>9, PutInSignature
<1>11. ASSUME NEW k \in 0..(Total - 1) PROVE g[<<"sm", k>>] = Sent(k)
  <2>1. k \in Nat /\ k < Total BY <1>5
  <2>2. CASE k >= L
    <3>1. k - L \in 0..(mlen - 1) /\ L + (k - L) = k BY <1>5, <2>1, <2>2
    <3>2. MessageIn(g, "sm", L) BY <1>2, <1>4, <1>10 DEF Moved
    <3>3. g[<<"sm", k>>] = <<"M", k - L>> BY <3>1, <3>2 DEF MessageIn
    <3> QED BY <1>2, <2>2, <3>3 DEF Sent
  <2>3. CASE k < L /\ k >= h
    <3>1. k \in h..(h + BodyLen - 1) /\ k - h + 1 \in 1..BodyLen BY <1>5, <2>1, <2>3
    <3>2. g[<<"sm", k>>] = <<"sig", k - h + 1, Hashed>> BY <1>6, <1>10, <3>1
    <3>3. ~(k >= L) BY <1>5, <2>1, <2>3
    <3> QED BY <1>2, <2>3, <3>2, <3>3 DEF Sent
  <2>4. CASE k < h
    <3>1. k \notin h..(h + BodyLen - 1) /\ ~(k >= L) /\ ~(k >= h) BY <1>5, <2>1, <2>4
    <3>2. g[<<"sm", k>>] = mem[<<"sm", k>>] BY <1>10, <3>1
    <3>3. CASE k = Buffer!ROffset(prog)
      BY <1>2, <1>4, <3>1, <3>2, <3>3 DEF Sent, Randomised
    <3>4. CASE k # Buffer!ROffset(prog)
      <4>1. k = 0 /\ prog # "sphincs" BY <1>5, <2>1, <2>4, <3>4
      <4> QED BY <1>2, <1>4, <3>1, <3>2, <3>4, <4>1 DEF Sent, Indexed
    <3> QED BY <3>3, <3>4
  <2> QED BY <1>5, <2>1, <2>2, <2>3, <2>4
<1>12. Complete' BY <1>2, <1>3, <1>11, SameSent DEF Complete
<1>13. \A n : todo' = Left(Statements, n) => Passed(n)' BY <1>3, PassedNext
<1>14. prog = "core" => CoreSigning' BY <1>4, <1>12, <1>13 DEF CoreSigning
<1>15. prog = "fast" => FastSigning' BY <1>4, <1>12, <1>13 DEF FastSigning
<1>16. prog = "sphincs" => SphincsSigning' BY <1>4, <1>12, <1>13 DEF SphincsSigning
<1>17. Memory(mem') BY <1>2, <1>10
<1> QED BY <1>3, <1>4, <1>14, <1>15, <1>16, <1>17, SigningGoesOn

(* A signing call that has nothing left to do has completed the message.     *)
LEMMA SignReturnKeeps == ASSUME BufferInv, Buffer!SignReturn PROVE BufferInv'
<1>1. /\ phase = "sign" /\ todo = <<>> /\ phase' = "signed"
      /\ UNCHANGED <<prog, mlen, mIn, mOut, mem, todo, digest, rand, ret, outLen>>
  BY DEF Buffer!SignReturn
<1>2. Places /\ Memory(mem) /\ SignCall BY <1>1 DEF BufferInv
<1>3. prog \in {"core", "fast", "sphincs"} BY Programme
<1>4. ASSUME NEW n \in Nat, n < Len(Statements), Statements \in Seq(Words) PROVE ~Passed(n)
  BY <1>1, <1>4, LeftTurn DEF Passed
<1>5. Complete
  <2>1. CASE prog = "core"
    <3>1. Statements \in Seq(Words) /\ Len(Statements) = 5 BY <1>1, <2>1, CoreSigns
    <3>2. \A n \in 0..4 : ~Passed(n) BY <1>4, <3>1
    <3> QED BY <1>2, <2>1, <3>2 DEF SignCall, CoreSigning
  <2>2. CASE prog = "fast"
    <3>1. Statements \in Seq(Words) /\ Len(Statements) = 6 BY <1>1, <2>2, FastSigns
    <3>2. \A n \in 0..5 : ~Passed(n) BY <1>4, <3>1
    <3> QED BY <1>2, <2>2, <3>2 DEF SignCall, FastSigning
  <2>3. CASE prog = "sphincs"
    <3>1. Statements \in Seq(Words) /\ Len(Statements) = 4 BY <1>1, <2>3, SphincsSigns
    <3>2. \A n \in 0..3 : ~Passed(n) BY <1>4, <3>1
    <3> QED BY <1>2, <2>3, <3>2 DEF SignCall, SphincsSigning
  <2> QED BY <1>3, <2>1, <2>2, <2>3
<1>6. Complete' BY <1>1, <1>5, SameSent DEF Complete
<1>7. Memory(mem') BY <1>1, <1>2
<1>8. Places' /\ Memory(mem)' BY <1>1, <1>2, <1>7, PlacesKept
<1>9. ret = 0 /\ outLen = 0 BY <1>2 DEF SignCall
<1> QED BY <1>1, <1>6, <1>8, <1>9 DEF BufferInv

-----------------------------------------------------------------------------
(* A write of a verifying call.                                              *)
LEMMA PutOut ==
  ASSUME Places, NEW f, Memory(f), NEW g, NEW from \in Nat, NEW n \in Nat, from + n <= Total,
         NEW blocks, DOMAIN blocks = 1..n, g = Buffer!Write(f, mOut, from, blocks)
  PROVE  /\ Memory(g) /\ Put(g, f, mOut, from, blocks, n)
         /\ mOut # "sm" => \A k \in 0..(Total - 1) : g[<<"sm", k>>] = f[<<"sm", k>>]
         /\ \A k \in 0..(Total - 1) :
              /\ k \in from..(from + n - 1) => g[<<mOut, k>>] = blocks[k - from + 1]
              /\ k \notin from..(from + n - 1) => g[<<mOut, k>>] = f[<<mOut, k>>]
<1>1. mOut \in {"sm", "mout"} /\ mOut \in {"sm", "m", "mout"} BY DEF Places
<1>2. DOMAIN f = Buffer!Buffers \X Buffer!Offsets(prog) BY DEF Memory
<1>3. from \in Int OBVIOUS
<1>4. Put(g, f, mOut, from, blocks, n) BY <1>2, <1>3, WritePuts
<1>5. Memory(g) BY <1>1, <1>4, PutKeeps
<1>6. \A k \in 0..(Total - 1) : k \in -1..Total BY Layout
<1> QED BY <1>1, <1>4, <1>5, <1>6, PutCells

(* A verifying call that stays one.                                          *)
LEMMA OpeningGoesOn ==
  ASSUME BufferInv, Memory(mem'), phase = "open", OpenCall,
         UNCHANGED <<prog, mlen, mIn, mOut, rand, phase, ret, altered>>,
         outLen' = mlen, mOut # "sm" => Unread',
         prog # "sphincs" => MineOpening', prog = "sphincs" => SphincsOpening'
  PROVE  BufferInv'
<1>1. Places' /\ Memory(mem)' BY PlacesKept DEF BufferInv
<1>2. OpenCall' BY SameSent DEF OpenCall
<1> QED BY <1>1, <1>2 DEF BufferInv

(* The message on its way, with a block changed or none.                     *)
LEMMA SignOpenKeeps ==
  ASSUME BufferInv, NEW j \in -1..(Buffer!SigLen(prog) + mlen - 1), Buffer!SignOpen(j)
  PROVE  BufferInv'
<1>1. Places /\ Memory(mem) BY DEF BufferInv
<1>2. PICK x, g : x = <<"altered", mem[<<"sm", j>>]>> /\ g = mem' OBVIOUS
<1>3. /\ phase = "signed" /\ phase' = "open" /\ todo' = Buffer!OpenStatements(prog)
      /\ altered' = j
      /\ g = IF j = -1 THEN mem ELSE Buffer!Write(mem, "sm", j, <<x>>)
      /\ UNCHANGED <<prog, mlen, mIn, mOut, digest, rand, ret, outLen>>
  BY <1>2 DEF Buffer!SignOpen
<1>4. ret = 0 /\ outLen = 0 /\ Complete BY <1>3 DEF BufferInv
<1>5. mlen \in Nat /\ Total \in Nat /\ Total = Buffer!SigLen(prog) + mlen /\ j \in -1..(Total - 1)
  BY <1>1, Layout
<1>6. /\ Memory(g)
      /\ \A k \in 0..(Total - 1) : g[<<"sm", k>>] = IF k = j THEN x ELSE mem[<<"sm", k>>]
  <2>1. CASE j = -1
    <3>1. \A k \in 0..(Total - 1) : k # j BY <2>1
    <3> QED BY <1>1, <1>3, <2>1, <3>1
  <2>2. CASE j # -1
    <3>1. DOMAIN <<x>> = 1..1 /\ <<x>>[1] = x OBVIOUS
    <3>2. j \in Nat /\ j \in Int /\ 1 \in Nat /\ j + 1 <= Total /\ "sm" \in {"sm", "mout"}
      BY <1>5, <2>2
    <3>3. DOMAIN mem = Buffer!Buffers \X Buffer!Offsets(prog) BY <1>1 DEF Memory
    <3>4. Put(g, mem, "sm", j, <<x>>, 1) BY <1>1, <1>3, <2>2, <3>1, <3>2, <3>3, WritePuts
    <3>5. Memory(g) BY <1>1, <3>2, <3>4, PutKeeps
    <3>6. ASSUME NEW k \in 0..(Total - 1)
          PROVE  g[<<"sm", k>>] = IF k = j THEN x ELSE mem[<<"sm", k>>]
      <4>1. k \in -1..Total BY <1>5
      <4>2. k \in j..(j + 1 - 1) <=> k = j BY <3>2
      <4>3. k = j => k - j + 1 = 1 BY <3>2
      <4> QED BY <1>1, <3>1, <3>4, <4>1, <4>2, <4>3, PutCells
    <3> QED BY <3>5, <3>6
  <2> QED BY <2>1, <2>2
<1>7. Unread'
  <2> SUFFICES ASSUME NEW k \in 0..(Total - 1) PROVE g[<<"sm", k>>] = Arrived(k)'
    BY <1>2, <1>3, SameSent DEF Unread
  <2>1. Arrived(k)' = IF k = j THEN <<"altered", Sent(k)>> ELSE Sent(k)
    BY <1>3, SameSent DEF Arrived
  <2>2. mem[<<"sm", k>>] = Sent(k) BY <1>4 DEF Complete
  <2> QED BY <1>2, <1>6, <2>1, <2>2
<1>8. Passed(0)'
  <2>1. PICK s : s = Buffer!OpenStatements(prog) OBVIOUS
  <2>2. s = Statements' BY <1>3, <2>1 DEF Statements
  <2>3. s \in Seq(Words)
    <3>1. Statements = s BY <1>3, <2>1 DEF Statements
    <3>2. prog = "sphincs" \/ prog \in {"core", "fast"} BY Programme
    <3> QED BY <1>3, <3>1, <3>2, MineOpens, SphincsOpens
  <2>4. Left(s, 0) = s BY <2>3 DEF Left
  <2> QED BY <1>3, <2>1, <2>2, <2>4 DEF Passed
<1>9. Places' /\ Memory(mem)' BY <1>1, <1>2, <1>3, <1>6, PlacesKept
<1>10. MineOpening' /\ SphincsOpening' BY <1>7, <1>8 DEF MineOpening, SphincsOpening
<1>11. altered' \in -1..(Total' - 1) BY <1>3, <1>5, SameSent
<1>12. OpenCall' BY <1>3, <1>4, <1>7, <1>8, <1>10, <1>11 DEF OpenCall
<1> QED BY <1>3, <1>9, <1>12 DEF BufferInv

(* The message moves behind the place of the signature in m.                 *)
LEMMA MoveOutKeeps == ASSUME BufferInv, Buffer!MoveOut PROVE BufferInv'
<1>1. Places /\ Memory(mem) BY DEF BufferInv
<1>2. PICK L, r, g :
        L = Buffer!SigLen(prog) /\ r = Buffer!Read(mem, "sm", L, mlen) /\ g = mem'
  OBVIOUS
<1>3. /\ Buffer!At("moveOut") /\ outLen' = mlen /\ g = Buffer!Write(mem, mOut, L, r)
      /\ UNCHANGED <<prog, mlen, mIn, mOut, phase, digest, rand, sigCopy, altered, ret>>
  BY <1>2 DEF Buffer!MoveOut, Buffer!OutLength
<1>4. phase = "open" /\ OpenCall /\ Unread /\ todo' = Left(Statements, 1)
  BY <1>3, MoveOutStage
<1>5. L \in Nat /\ mlen \in Nat /\ Total = L + mlen /\ Total \in Nat /\ L + mlen <= Total
  BY <1>1, <1>2, Layout
<1>6. r = [k \in 1..mlen |-> mem[<<"sm", L + k - 1>>]] BY <1>2 DEF Buffer!Read
<1>7. /\ Memory(g)
      /\ mOut # "sm" => \A k \in 0..(Total - 1) : g[<<"sm", k>>] = mem[<<"sm", k>>]
      /\ \A k \in 0..(Total - 1) :
           /\ k \in L..(L + mlen - 1) => g[<<mOut, k>>] = r[k - L + 1]
           /\ k \notin L..(L + mlen - 1) => g[<<mOut, k>>] = mem[<<mOut, k>>]
  <2>1. DOMAIN r = 1..mlen BY <1>6
  <2> QED BY <1>1, <1>3, <1>5, <2>1, PutOut
<1>8. ASSUME NEW k \in L..(L + mlen - 1) PROVE g[<<mOut, k>>] = mem[<<"sm", k>>]
  <2>1. k \in 0..(Total - 1) /\ k - L + 1 \in 1..mlen /\ L + (k - L + 1) - 1 = k BY <1>5
  <2> QED BY <1>6, <1>7, <2>1
<1>9. MovedOut'
  <2> SUFFICES ASSUME NEW k \in 0..(mlen - 1) PROVE g[<<mOut, L + k>>] = Arrived(L + k)
    BY <1>2, <1>3, SameArrived DEF MovedOut
  <2>1. L + k \in L..(L + mlen - 1) /\ L + k \in 0..(Total - 1) BY <1>5
  <2> QED BY <1>4, <1>8, <2>1 DEF Unread
<1>10. Unread'
  <2> SUFFICES ASSUME NEW k \in 0..(Total - 1) PROVE g[<<"sm", k>>] = mem[<<"sm", k>>]
    BY <1>2, <1>3, <1>4, SameSent, SameArrived DEF Unread
  <2>1. CASE mOut # "sm" BY <1>7, <2>1
  <2>2. CASE mOut = "sm" BY <1>7, <1>8, <2>2
  <2> QED BY <2>1, <2>2
<1>11. Passed(1)' BY <1>3, <1>4, PassedNext
<1>12. MineOpening' /\ SphincsOpening' BY <1>9, <1>10, <1>11 DEF MineOpening, SphincsOpening
<1>13. Memory(mem') BY <1>2, <1>7
<1> QED BY <1>3, <1>4, <1>10, <1>12, <1>13, OpeningGoesOn

(* sphincsp reads the signature from a copy.                                 *)
LEMMA CopySigKeeps == ASSUME BufferInv, Buffer!CopySig PROVE BufferInv'
<1>1. Places /\ Memory(mem) BY DEF BufferInv
<1>2. /\ Buffer!At("copySig") /\ sigCopy' = Buffer!Read(mem, "sm", 0, Buffer!SigLen(prog))
      /\ UNCHANGED <<prog, mlen, mIn, mOut, mem, phase, digest, rand, altered, ret, outLen>>
  BY DEF Buffer!CopySig
<1>3. /\ phase = "open" /\ OpenCall /\ ~Passed(0) /\ prog = "sphincs" /\ Unread /\ MovedOut
      /\ todo' = Left(Statements, 2)
  BY <1>2, CopySigStage
<1>4. PICK L : L = Buffer!SigLen(prog) OBVIOUS
<1>5. L \in Nat /\ mlen \in Nat /\ Total = L + mlen BY <1>1, <1>4, Layout
<1>6. Copied'
  <2>1. ASSUME NEW k \in 1..L PROVE mem[<<"sm", 0 + k - 1>>] = Arrived(k - 1)
    <3>1. k - 1 \in 0..(Total - 1) /\ 0 + k - 1 = k - 1 BY <1>5
    <3> QED BY <1>3, <3>1 DEF Unread
  <2>2. sigCopy' = [k \in 1..L |-> Arrived(k - 1)] BY <1>2, <1>4, <2>1 DEF Buffer!Read
  <2> QED BY <1>2, <1>4, <2>2, SameArrived DEF Copied
<1>7. MovedOut' BY <1>2, <1>3, SameArrived DEF MovedOut
<1>8. Unread' BY <1>2, <1>3, SameSent, SameArrived DEF Unread
<1>9. Passed(2)' BY <1>2, <1>3, PassedNext
<1>10. SphincsOpening' BY <1>6, <1>7, <1>9 DEF SphincsOpening
<1>11. outLen' = mlen BY <1>2, <1>3 DEF OpenCall
<1>12. Memory(mem') BY <1>1, <1>2
<1> QED BY <1>2, <1>3, <1>8, <1>10, <1>11, <1>12, OpeningGoesOn

(* hash_message of a verifying call.                                         *)
LEMMA OpenHashKeeps ==
  ASSUME BufferInv, Buffer!Hash, phase = "open" PROVE BufferInv'
<1>1. Places /\ Memory(mem) BY DEF BufferInv
<1>2. PICK L, c, from, r, x :
        /\ L = Buffer!SigLen(prog) /\ c = PrefixLen /\ from = L - c
        /\ r = Buffer!RUsed /\ x = Buffer!IdxUsed
  OBVIOUS
<1>3. PICK pre, g : pre = Buffer!Prefix(r, x) /\ g = mem' OBVIOUS
<1>4. /\ Buffer!At("hash")
      /\ UNCHANGED <<prog, mlen, mIn, mOut, phase, rand, sigCopy, altered, ret, outLen>>
  BY DEF Buffer!Hash
<1>5. /\ g = Buffer!Write(mem, mOut, from, pre)
      /\ digest' = Buffer!Read(g, mOut, from, L - from + mlen)
  <2>1. from = Buffer!SigLen(prog) - (IF prog = "sphincs" THEN 3 ELSE 4)
    BY <1>2 DEF PrefixLen
  <2>2. Buffer!Buf = mOut BY DEF Buffer!Buf
  <2> QED BY <1>2, <1>3, <2>1, <2>2 DEF Buffer!Hash
<1>6. /\ OpenCall /\ ~Passed(0) /\ MovedOut
      /\ prog # "sphincs" => todo' = Left(Statements, 2)
      /\ prog = "sphincs" => todo' = Left(Statements, 3) /\ Copied
  BY <1>4, HashStage
<1>7. /\ L \in Nat /\ L >= 5 /\ mlen \in Nat /\ Total = L + mlen /\ Total \in Nat /\ c \in {3, 4}
      /\ c \in Nat /\ from \in Nat /\ from + c = L /\ from + c <= Total
      /\ Buffer!ROffset(prog) < L /\ Buffer!ROffset(prog) \in Nat
      /\ prog = "sphincs" => Buffer!ROffset(prog) = 0
  BY <1>1, <1>2, Layout DEF PrefixLen
<1>8. r = Arrived(Buffer!ROffset(prog)) /\ (prog # "sphincs" => x = Arrived(0))
  <2>1. CASE prog = "sphincs"
    <3>1. r = sigCopy[1 + Buffer!ROffset(prog)] BY <1>2, <2>1 DEF Buffer!RUsed
    <3>2. 1 \in 1..L /\ 1 + Buffer!ROffset(prog) = 1 /\ 1 - 1 = 0 BY <1>7, <2>1
    <3>3. sigCopy[1] = Arrived(0)
      <4>1. sigCopy = [k \in 1..Buffer!SigLen(prog) |-> Arrived(k - 1)]
        BY <1>6, <2>1 DEF Copied
      <4>2. 1 \in 1..Buffer!SigLen(prog) BY <1>2, <3>2
      <4> HIDE DEF Arrived
      <4> QED BY <3>2, <4>1, <4>2
    <3> QED BY <1>7, <2>1, <3>1, <3>2, <3>3
  <2>2. CASE prog # "sphincs"
    <3>1. r = mem[<<"sm", Buffer!ROffset(prog)>>] /\ x = mem[<<"sm", 0>>]
      BY <1>2, <2>2 DEF Buffer!RUsed, Buffer!IdxUsed
    <3>2. Unread BY <1>1, <1>6, <2>2 DEF Places, OpenCall
    <3>3. Buffer!ROffset(prog) \in 0..(Total - 1) /\ 0 \in 0..(Total - 1) BY <1>7
    <3> QED BY <3>1, <3>2, <3>3 DEF Unread
  <2> QED BY <2>1, <2>2
<1>9. Listing(pre, c, pre) /\ DOMAIN pre = 1..c BY <1>2, <1>3, PrefixIs DEF Listing
<1>10. /\ Memory(g) /\ Put(g, mem, mOut, from, pre, c)
       /\ mOut # "sm" => \A k \in 0..(Total - 1) : g[<<"sm", k>>] = mem[<<"sm", k>>]
       /\ \A k \in 0..(Total - 1) :
            k \notin from..(from + c - 1) => g[<<mOut, k>>] = mem[<<mOut, k>>]
  <2>1. g = Buffer!Write(mem, mOut, from, pre) BY <1>5
  <2>2. from \in Nat /\ c \in Nat /\ from + c <= Total BY <1>7
  <2> QED BY ONLY <1>1, <1>9, <2>1, <2>2, PutOut
<1>11. MovedOut'
  <2> SUFFICES ASSUME NEW k \in 0..(mlen - 1) PROVE g[<<mOut, L + k>>] = Arrived(L + k)
    BY <1>2, <1>3, <1>4, SameArrived DEF MovedOut
  <2>1. L + k \in 0..(Total - 1) /\ L + k \notin from..(from + c - 1) BY <1>7
  <2> QED BY <1>2, <1>6, <1>10, <2>1 DEF MovedOut
<1>12. ASSUME mOut # "sm" PROVE Unread'
  <2>1. Unread BY <1>6, <1>12 DEF OpenCall
  <2> QED BY <1>3, <1>4, <1>10, <1>12, <2>1, SameSent, SameArrived DEF Unread
<1>13. digest' = Rehashed
  <2>1. PICK t : t = Buffer!Read(mem, mOut, L, mlen) OBVIOUS
  <2>2. t = [k \in 1..mlen |-> Arrived(Buffer!SigLen(prog) + k - 1)]
    <3>1. ASSUME NEW k \in 1..mlen
          PROVE  mem[<<mOut, L + k - 1>>] = Arrived(Buffer!SigLen(prog) + k - 1)
      <4>1. PICK j : j = k - 1 OBVIOUS
      <4>2. j \in 0..(mlen - 1) /\ L + k - 1 = L + j BY <1>7, <4>1
      <4> QED BY <1>2, <1>6, <4>2 DEF MovedOut
    <3> QED BY <2>1, <3>1 DEF Buffer!Read
  <2>3. digest' = pre \o t
    <3>1. PlacedBefore(from, c) /\ L - from + mlen = c + mlen BY <1>2, <1>7 DEF PlacedBefore
    <3>2. mOut \in {"sm", "mout"} BY <1>1 DEF Places
    <3>3. HashReads(mem, g, mOut, from, pre, c)
      <4>1. PICK b : b = mOut OBVIOUS
      <4>2. Put(g, mem, b, from, pre, c) BY <1>10, <4>1
      <4>3. HashedIn(b) BY <3>2, <4>1 DEF HashedIn
      <4>4. Places BY <1>1
      <4>5. Listing(pre, c, pre) BY <1>9
      <4>6. PlacedBefore(from, c) BY <3>1
      <4>7. HashReads(mem, g, b, from, pre, c)
        BY ONLY <4>2, <4>3, <4>4, <4>5, <4>6, DigestIs
      <4> QED BY <4>1, <4>7
    <3> QED BY <1>2, <1>5, <2>1, <3>1, <3>3 DEF HashReads
  <2>4. pre = Buffer!Prefix(Arrived(Buffer!ROffset(prog)), Arrived(0))
    BY <1>3, <1>8 DEF Buffer!Prefix
  <2> QED BY <2>2, <2>3, <2>4 DEF Rehashed
<1>14. digest' = Rehashed' BY <1>4, <1>13, SameArrived
<1>15. Copied => Copied' BY <1>4, SameArrived DEF Copied
<1>16. \A n : todo' = Left(Statements, n) => Passed(n)' BY <1>4, PassedNext
<1>17. prog # "sphincs" => MineOpening' BY <1>6, <1>11, <1>14, <1>16 DEF MineOpening
<1>18. prog = "sphincs" => SphincsOpening'
  BY <1>6, <1>11, <1>14, <1>15, <1>16 DEF SphincsOpening
<1>19. outLen' = mlen BY <1>4, <1>6 DEF OpenCall
<1>20. Memory(mem') BY <1>3, <1>10
<1> QED BY <1>4, <1>6, <1>12, <1>17, <1>18, <1>19, <1>20, OpeningGoesOn

-----------------------------------------------------------------------------
(* The blocks of what is hashed, by signing and by verification.             *)
DigestBlock(r, x, m, k) ==
  IF k <= PrefixLen THEN Buffer!Prefix(r, x)[k] ELSE m[k - PrefixLen]

(* Block by block, a prefix and what follows it.                             *)
LEMMA DigestBlocks ==
  ASSUME Places, NEW r, NEW x, NEW m, Listing(m, mlen, m), NEW k \in 1..(PrefixLen + mlen)
  PROVE  (Buffer!Prefix(r, x) \o m)[k] = DigestBlock(r, x, m, k)
<1>1. PICK c, pre : c = PrefixLen /\ pre = Buffer!Prefix(r, x) OBVIOUS
<1>2. c \in Nat /\ mlen \in Nat BY <1>1, Layout DEF PrefixLen
<1>3. Listing(pre, c, pre) BY <1>1, PrefixIs DEF Listing
<1>4. Listing(m, mlen, m) OBVIOUS
<1>5. JoinedListing(pre \o m, c, mlen, pre, m)
  BY ONLY <1>2, <1>3, <1>4, ListingConcat
<1> QED BY <1>1, <1>5 DEF DigestBlock, JoinedListing

(* A block changed is another block.                                         *)
LEMMA AlteredDiffers ==
  ASSUME Places, NEW k \in 0..(Total - 1) PROVE <<"altered", Sent(k)>> # Sent(k)
<1>1. PICK s : s = Sent(k) OBVIOUS
<1>2. \/ s = <<"M", k - Buffer!SigLen(prog)>>
      \/ s = <<"sig", k - Buffer!HeadLen(prog) + 1, Hashed>>
      \/ s = <<"R">> \/ s = <<"idx">>
      \/ s = <<"R", <<<<"sk_prf">>, <<"optrand">>>> \o Buffer!Message>>
  BY <1>1, Zenon DEF Sent, Buffer!ExpectedR
<1> QED BY <1>1, <1>2, WordsDiffer

(* What verification hashes is what was hashed exactly if nothing it reads   *)
(* is changed.                                                               *)
LEMMA RehashedIs ==
  ASSUME Places, altered \in -1..(Total - 1)
  PROVE  Rehashed = Hashed <=>
           altered \in {-1} \cup Buffer!HeadLen(prog)..(Buffer!SigLen(prog) - 1)
<1>1. PICK L, H, o, c :
        /\ L = Buffer!SigLen(prog) /\ H = Buffer!HeadLen(prog)
        /\ o = Buffer!ROffset(prog) /\ c = PrefixLen
  OBVIOUS
<1>2. /\ L \in Nat /\ L >= 5 /\ mlen \in Nat /\ Total = L + mlen /\ Total \in Nat
      /\ prog = "sphincs" => H = 1 /\ o = 0 /\ c = 3
      /\ prog # "sphincs" => H = 2 /\ o = 1 /\ c = 4
      /\ altered \in -1..(Total - 1)
  BY <1>1, Layout DEF PrefixLen
<1>3. PICK r, x, s, t :
        /\ r = Arrived(o) /\ x = Arrived(0) /\ s = Buffer!Message
        /\ t = [k \in 1..mlen |-> Arrived(L + k - 1)]
  OBVIOUS
<1>4. Rehashed = Buffer!Prefix(r, x) \o t
  BY <1>1, <1>3 DEF Rehashed
<1>5. Hashed = Buffer!Prefix(Buffer!ExpectedR, <<"idx">>) \o s BY <1>3 DEF Hashed
<1>6. Listing(s, mlen, s) /\ Listing(t, mlen, t)
  BY <1>3 DEF Listing, Buffer!Message
<1>7. ASSUME NEW k \in 1..mlen PROVE L + k - 1 \in L..(Total - 1) /\ s[k] = Sent(L + k - 1)
  <2>1. L + k - 1 \in L..(Total - 1) /\ (L + k - 1) - L = k - 1 /\ L + k - 1 >= L BY <1>2
  <2> QED BY <1>1, <1>3, <2>1 DEF Sent, Buffer!Message, Buffer!M
<1>8. /\ Sent(o) = Buffer!ExpectedR
      /\ prog # "sphincs" => Sent(0) = <<"idx">>
      /\ o \in 0..(Total - 1) /\ 0 \in 0..(Total - 1)
  <2>1. ~(o >= L) /\ ~(o >= H) /\ (prog # "sphincs" => ~(0 >= L) /\ ~(0 >= H) /\ 0 # o)
    BY <1>2
  <2>2. o \in 0..(Total - 1) /\ 0 \in 0..(Total - 1) BY <1>2
  <2> QED BY <1>1, <2>1, <2>2 DEF Sent
<1>9. ASSUME altered \in {-1} \cup H..(L - 1) PROVE Rehashed = Hashed
  <2>1. o # altered /\ (prog # "sphincs" => 0 # altered) BY <1>2, <1>9
  <2>2. r = Buffer!ExpectedR /\ (prog # "sphincs" => x = <<"idx">>)
    BY <1>3, <1>8, <2>1 DEF Arrived
  <2>3. Buffer!Prefix(r, x) = Buffer!Prefix(Buffer!ExpectedR, <<"idx">>)
    BY <2>2 DEF Buffer!Prefix
  <2>4. t = s
    <3>1. ASSUME NEW k \in 1..mlen PROVE t[k] = s[k]
      <4>1. L + k - 1 # altered BY <1>2, <1>7, <1>9
      <4> QED BY <1>3, <1>7, <4>1 DEF Arrived
    <3> QED BY <1>6, <3>1 DEF Listing
  <2> QED BY <1>4, <1>5, <2>3, <2>4
<1>10. ASSUME altered \notin {-1} \cup H..(L - 1) PROVE Rehashed # Hashed
  <2>1. PICK e : e = Buffer!ExpectedR OBVIOUS
  <2>2. \A k \in 1..(c + mlen) :
          /\ Rehashed[k] = DigestBlock(r, x, t, k)
          /\ Hashed[k] = DigestBlock(e, <<"idx">>, s, k)
    BY <1>1, <1>4, <1>5, <1>6, <2>1, DigestBlocks
  <2>3. <<"altered", Sent(altered)>> # Sent(altered)
    <3>1. altered \in 0..(Total - 1) BY <1>2, <1>10
    <3> QED BY <3>1, AlteredDiffers
  <2>4. CASE altered = o
    <3>1. PICK k : k = IF prog = "sphincs" THEN 1 ELSE 2 OBVIOUS
    <3>2. k \in 1..(c + mlen) /\ k <= c BY <1>2, <3>1
    <3>3. Rehashed[k] = r /\ Hashed[k] = e
      <4>1. Rehashed[k] = Buffer!Prefix(r, x)[k] /\ Hashed[k] = Buffer!Prefix(e, <<"idx">>)[k]
        BY <1>1, <2>2, <3>2 DEF DigestBlock
      <4>2. \A u, v : Buffer!Prefix(u, v)[k] = u BY <3>1 DEF Buffer!Prefix
      <4> QED BY <4>1, <4>2
    <3>4. r = <<"altered", Sent(altered)>> /\ e = Sent(altered)
      BY <1>3, <1>8, <2>1, <2>4 DEF Arrived
    <3> QED BY <2>3, <3>3, <3>4
  <2>5. CASE altered = 0 /\ altered # o
    <3>1. prog # "sphincs" /\ c = 4 BY <1>2, <2>5
    <3>2. PICK k : k = 4 OBVIOUS
    <3>3. k \in 1..(c + mlen) /\ k <= c BY <1>2, <3>1, <3>2
    <3>4. Rehashed[k] = x /\ Hashed[k] = <<"idx">>
      <4>1. Rehashed[k] = Buffer!Prefix(r, x)[k] /\ Hashed[k] = Buffer!Prefix(e, <<"idx">>)[k]
        BY <1>1, <2>2, <3>3 DEF DigestBlock
      <4>2. \A u, v : Buffer!Prefix(u, v)[k] = v BY <3>1, <3>2 DEF Buffer!Prefix
      <4> QED BY <4>1, <4>2
    <3>5. x = <<"altered", Sent(altered)>> /\ Sent(altered) = <<"idx">>
      BY <1>3, <1>8, <2>5, <3>1 DEF Arrived
    <3> QED BY <2>3, <3>4, <3>5
  <2>6. CASE altered >= L
    <3>1. PICK j, k : j = altered - L + 1 /\ k = c + j OBVIOUS
    <3>2. /\ j \in 1..mlen /\ L + j - 1 = altered /\ k \in 1..(c + mlen) /\ ~(k <= c)
          /\ k - c = j
      BY <1>2, <2>6, <3>1
    <3>3. Rehashed[k] = t[j] /\ Hashed[k] = s[j] BY <1>1, <2>2, <3>2 DEF DigestBlock
    <3>4. t[j] = <<"altered", Sent(altered)>> BY <1>3, <3>2 DEF Arrived
    <3>5. s[j] = Sent(altered) BY <1>7, <3>2
    <3> QED BY <2>3, <3>3, <3>4, <3>5
  <2> QED BY <1>2, <1>10, <2>4, <2>5, <2>6
<1> QED BY <1>1, <1>9, <1>10

(* The body that arrives is that of a signature on what verification hashes  *)
(* exactly if nothing is changed.                                            *)
ArrivedBody == [k \in 1..BodyLen |-> Arrived(Buffer!HeadLen(prog) + k - 1)]

(* So the comparison succeeds for what was sent and nothing else.            *)
LEMMA BodyIs ==
  ASSUME Places, altered \in -1..(Total - 1)
  PROVE  ArrivedBody = Buffer!Body(Rehashed) <=> altered = -1
<1>1. PICK L, H : L = Buffer!SigLen(prog) /\ H = Buffer!HeadLen(prog) OBVIOUS
<1>2. /\ L \in Nat /\ mlen \in Nat /\ Total = L + mlen /\ Total \in Nat /\ H \in {1, 2}
      /\ BodyLen \in Nat /\ H + BodyLen = L /\ BodyLen >= 1
  BY <1>1, Layout
<1>3. ASSUME NEW k \in 1..BodyLen
      PROVE  /\ H + k - 1 \in H..(L - 1)
             /\ Sent(H + k - 1) = <<"sig", k, Hashed>>
             /\ ArrivedBody[k] = IF H + k - 1 = altered THEN <<"altered", Sent(H + k - 1)>>
                                                        ELSE <<"sig", k, Hashed>>
             /\ Buffer!Body(Rehashed)[k] = <<"sig", k, Rehashed>>
  <2>1. /\ H + k - 1 \in H..(L - 1) /\ ~(H + k - 1 >= L) /\ H + k - 1 >= H
        /\ (H + k - 1) - H + 1 = k
    BY <1>2
  <2>2. Sent(H + k - 1) = <<"sig", k, Hashed>> BY <1>1, <2>1 DEF Sent
  <2>3. ArrivedBody[k] = Arrived(H + k - 1) BY <1>1 DEF ArrivedBody
  <2>4. Buffer!Body(Rehashed)[k] = <<"sig", k, Rehashed>> BY DEF Buffer!Body
  <2> QED BY <2>1, <2>2, <2>3, <2>4 DEF Arrived
<1>4. ASSUME altered = -1 PROVE ArrivedBody = Buffer!Body(Rehashed)
  <2>1. Rehashed = Hashed BY <1>4, RehashedIs
  <2>2. ASSUME NEW k \in 1..BodyLen PROVE ArrivedBody[k] = Buffer!Body(Rehashed)[k]
    <3>1. H + k - 1 # altered BY <1>2, <1>4
    <3> QED BY <1>3, <2>1, <3>1
  <2> QED BY <2>2 DEF ArrivedBody, Buffer!Body
<1>5. ASSUME altered # -1 PROVE ArrivedBody # Buffer!Body(Rehashed)
  <2>1. CASE altered \in H..(L - 1)
    <3>1. PICK k : k = altered - H + 1 OBVIOUS
    <3>2. k \in 1..BodyLen /\ H + k - 1 = altered BY <1>2, <2>1, <3>1
    <3>3. ArrivedBody[k] = <<"altered", Sent(altered)>> /\ Sent(altered) = <<"sig", k, Hashed>>
      BY <1>3, <3>2
    <3>4. Buffer!Body(Rehashed)[k] = <<"sig", k, Rehashed>> BY <1>3, <3>2
    <3>5. PICK u, y : u = Sent(altered) /\ y = Rehashed OBVIOUS
    <3>6. <<"altered", u>> # <<"sig", k, y>> BY ONLY WordsDiffer
    <3>7. ArrivedBody[k] # Buffer!Body(Rehashed)[k] BY ONLY <3>3, <3>4, <3>5, <3>6
    <3>8. PICK v, w : v = ArrivedBody /\ w = Buffer!Body(Rehashed) OBVIOUS
    <3>9. v[k] # w[k] BY ONLY <3>7, <3>8
    <3>10. v # w BY ONLY <3>9
    <3> QED BY ONLY <3>8, <3>10
  <2>2. CASE altered \notin H..(L - 1)
    <3>1. Rehashed # Hashed BY <1>1, <1>5, <2>2, RehashedIs
    <3>2. PICK k : k = 1 OBVIOUS
    <3>3. k \in 1..BodyLen BY <1>2, <3>2
    <3>4. H + k - 1 # altered BY <1>3, <2>2, <3>3
    <3>5. ArrivedBody[k] = <<"sig", k, Hashed>> BY <1>3, <3>3, <3>4
    <3>6. Buffer!Body(Rehashed)[k] = <<"sig", k, Rehashed>> BY <1>3, <3>3
    <3>7. PICK u, y : u = Hashed /\ y = Rehashed OBVIOUS
    <3>8. <<"sig", k, u>> # <<"sig", k, y>>
      <4>1. u # y BY ONLY <3>1, <3>7
      <4> QED BY ONLY <4>1, WordsDiffer
    <3>9. ArrivedBody[k] # Buffer!Body(Rehashed)[k] BY ONLY <3>5, <3>6, <3>7, <3>8
    <3>10. PICK v, w : v = ArrivedBody /\ w = Buffer!Body(Rehashed) OBVIOUS
    <3>11. v[k] # w[k] BY ONLY <3>9, <3>10
    <3>12. v # w BY ONLY <3>11
    <3> QED BY ONLY <3>10, <3>12
  <2> QED BY <2>1, <2>2
<1> QED BY <1>4, <1>5

-----------------------------------------------------------------------------
(* The body verification compares: that of the copy, or that in sm.          *)
CheckedBody ==
  IF prog = "sphincs"
  THEN SubSeq(sigCopy, Buffer!HeadLen(prog) + 1, Buffer!SigLen(prog))
  ELSE Buffer!Read(mem, "sm", Buffer!HeadLen(prog), BodyLen)

(* It is the body that arrived.                                              *)
LEMMA CheckedIs ==
  ASSUME Places, prog = "sphincs" => Copied, prog # "sphincs" => Unread
  PROVE  CheckedBody = ArrivedBody
<1>1. PICK L, H : L = Buffer!SigLen(prog) /\ H = Buffer!HeadLen(prog) OBVIOUS
<1>2. /\ L \in Nat /\ mlen \in Nat /\ Total = L + mlen /\ Total \in Nat /\ H \in {1, 2}
      /\ BodyLen \in Nat /\ H + BodyLen = L
  BY <1>1, Layout
<1>3. CASE prog = "sphincs"
  <2>1. PICK s : s = sigCopy OBVIOUS
  <2>2. s = [k \in 1..L |-> Arrived(k - 1)] BY <1>1, <1>3, <2>1 DEF Copied
  <2>3. PICK S : S = {Arrived(k - 1) : k \in 1..L} OBVIOUS
  <2>4. s \in Seq(S) /\ Len(s) = L
    <3> HIDE DEF Arrived
    <3>1. s \in [1..L -> S] BY <2>2, <2>3
    <3>2. s \in Seq(S) BY ONLY <1>2, <3>1
    <3> QED BY ONLY <1>2, <3>1, <3>2
  <2>5. PICK u : u = SubSeq(s, H + 1, L) OBVIOUS
  <2>6. u = [k \in 1..(L - (H + 1) + 1) |-> s[(H + 1) + k - 1]]
    BY ONLY <1>2, <2>4, <2>5
  <2>7. L - (H + 1) + 1 = BodyLen BY <1>2
  <2>8. ASSUME NEW k \in 1..BodyLen PROVE s[(H + 1) + k - 1] = Arrived(H + k - 1)
    <3>1. (H + 1) + k - 1 \in 1..L /\ ((H + 1) + k - 1) - 1 = H + k - 1 BY <1>2
    <3> HIDE DEF Arrived
    <3> QED BY <2>2, <3>1
  <2>9. u = [k \in 1..BodyLen |-> Arrived(H + k - 1)]
    <3> HIDE DEF Arrived
    <3> QED BY <2>6, <2>7, <2>8
  <2> QED BY <1>1, <1>3, <2>1, <2>5, <2>9 DEF CheckedBody, ArrivedBody
<1>4. CASE prog # "sphincs"
  <2>1. ASSUME NEW k \in 1..BodyLen PROVE mem[<<"sm", H + k - 1>>] = Arrived(H + k - 1)
    <3>1. H + k - 1 \in 0..(Total - 1) BY <1>2
    <3> QED BY <1>4, <3>1 DEF Unread
  <2> QED BY <1>1, <1>4, <2>1 DEF CheckedBody, ArrivedBody, Buffer!Read
<1> QED BY <1>3, <1>4

(* A verifying call that has ended.                                          *)
LEMMA OpeningEnds ==
  ASSUME BufferInv, Memory(mem'), UNCHANGED <<prog, mlen, mIn, mOut, rand>>,
         phase' = "opened", todo' = <<>>, Opened'
  PROVE  BufferInv'
<1>1. Places' /\ Memory(mem)' BY PlacesKept DEF BufferInv
<1> QED BY <1>1 DEF BufferInv

(* The comparison, and the message or zeros at the start of m.               *)
LEMMA CheckKeeps == ASSUME BufferInv, Buffer!Check PROVE BufferInv'
<1>1. Places /\ Memory(mem) BY DEF BufferInv
<1>2. Buffer!At("check") BY DEF Buffer!Check
<1>3. /\ phase = "open" /\ OpenCall /\ ~Passed(0) /\ MovedOut /\ digest = Rehashed
      /\ todo' = <<>> /\ (prog = "sphincs" => Copied)
  BY <1>2, CheckStage
<1>4. PICK L : L = Buffer!SigLen(prog) OBVIOUS
<1>5. /\ L \in Nat /\ L >= 5 /\ mlen \in Nat /\ Total = L + mlen /\ Total \in Nat
      /\ 0 \in Nat /\ 0 + mlen <= Total
  BY <1>1, <1>4, Layout
<1>6. PICK src, z, g :
        /\ src = IF prog = "sphincs" THEN mOut ELSE "sm"
        /\ z = Buffer!Read(mem, src, L, mlen) /\ g = mem'
  OBVIOUS
<1>7. /\ phase' = "opened"
      /\ IF CheckedBody = Buffer!Body(digest)
           THEN g = Buffer!Write(mem, mOut, 0, z) /\ ret' = 0 /\ outLen' = outLen
           ELSE g = Buffer!Write(mem, mOut, 0, Buffer!FailureBlocks) /\ ret' = -1 /\ outLen' = 0
      /\ UNCHANGED <<prog, mlen, mIn, mOut, digest, rand, sigCopy, altered>>
  BY <1>4, <1>6 DEF Buffer!Check, CheckedBody
<1>8. prog # "sphincs" => mOut # "sm" /\ Unread BY <1>1, <1>3 DEF Places, OpenCall
<1>9. altered \in -1..(Total - 1) BY <1>3 DEF OpenCall
<1>10. CheckedBody = Buffer!Body(digest) <=> altered = -1
  <2>1. CheckedBody = ArrivedBody BY <1>1, <1>3, <1>8, CheckedIs
  <2> QED BY <1>1, <1>3, <1>9, <2>1, BodyIs
<1>11. PICK blocks : blocks = IF altered = -1 THEN z ELSE Buffer!FailureBlocks OBVIOUS
<1>12. DOMAIN blocks = 1..mlen BY <1>6, <1>11 DEF Buffer!Read, Buffer!FailureBlocks
<1>13. g = Buffer!Write(mem, mOut, 0, blocks) BY <1>7, <1>10, <1>11
<1>14. /\ Memory(g)
       /\ mOut # "sm" => \A k \in 0..(Total - 1) : g[<<"sm", k>>] = mem[<<"sm", k>>]
       /\ \A k \in 0..(Total - 1) : k \in 0..(0 + mlen - 1) => g[<<mOut, k>>] = blocks[k - 0 + 1]
  BY <1>1, <1>5, <1>12, <1>13, PutOut
<1>15. ASSUME NEW k \in 0..(mlen - 1) PROVE g[<<mOut, k>>] = blocks[k + 1]
  <2>1. k \in 0..(Total - 1) /\ k \in 0..(0 + mlen - 1) /\ k - 0 + 1 = k + 1 BY <1>5
  <2> QED BY <1>14, <2>1
<1>16. ASSUME altered = -1, NEW k \in 0..(mlen - 1) PROVE g[<<mOut, k>>] = <<"M", k>>
  <2>1. k + 1 \in 1..mlen /\ L + (k + 1) - 1 = L + k BY <1>5
  <2>2. blocks[k + 1] = mem[<<src, L + k>>] BY <1>6, <1>11, <1>16, <2>1 DEF Buffer!Read
  <2>3. mem[<<src, L + k>>] = Arrived(L + k)
    <3>1. CASE prog = "sphincs" BY <1>3, <1>4, <1>6, <3>1 DEF MovedOut
    <3>2. CASE prog # "sphincs"
      <4>1. L + k \in 0..(Total - 1) BY <1>5
      <4> QED BY <1>6, <1>8, <3>2, <4>1 DEF Unread
    <3> QED BY <3>1, <3>2
  <2>4. Arrived(L + k) = <<"M", k>>
    <3>1. L + k # altered /\ L + k >= L /\ (L + k) - L = k BY <1>5, <1>16
    <3> QED BY <1>4, <3>1 DEF Arrived, Sent
  <2> QED BY <1>15, <2>2, <2>3, <2>4
<1>17. ASSUME altered # -1, NEW k \in 0..(mlen - 1) PROVE g[<<mOut, k>>] = <<"zero">>
  <2>1. k + 1 \in 1..mlen BY <1>5
  <2>2. blocks[k + 1] = <<"zero">> BY <1>11, <1>17, <2>1 DEF Buffer!FailureBlocks
  <2> QED BY <1>15, <2>2
<1>18. mOut # "sm" => Unread'
  <2> SUFFICES ASSUME mOut # "sm" PROVE Unread' OBVIOUS
  <2>1. Unread BY <1>3 DEF OpenCall
  <2> QED BY <1>6, <1>7, <1>14, <2>1, SameSent, SameArrived DEF Unread
<1>19. Opened'
  <2>1. altered' = altered /\ mOut' = mOut /\ mlen' = mlen BY <1>7
  <2>2. altered' \in -1..(Total' - 1) BY <1>7, <1>9, SameSent
  <2>3. outLen = mlen BY <1>3 DEF OpenCall
  <2>4. ASSUME altered = -1 PROVE ret' = 0 /\ outLen' = mlen /\ MessageIn(mem, mOut, 0)'
    <3>1. \A k \in 0..(mlen - 1) : mem'[<<mOut, 0 + k>>] = <<"M", k>>
      BY <1>5, <1>6, <1>16, <2>4
    <3>2. MessageIn(mem, mOut, 0)' BY <2>1, <3>1 DEF MessageIn
    <3> QED BY <1>7, <1>10, <2>3, <2>4, <3>2
  <2>5. ASSUME altered # -1
        PROVE  /\ ret' = -1 /\ outLen' = 0
               /\ \A k \in 0..(mlen - 1) : mem'[<<mOut, k>>] = <<"zero">>
    BY <1>6, <1>7, <1>10, <1>17, <2>5
  <2> QED BY <1>18, <2>1, <2>2, <2>4, <2>5 DEF Opened
<1>20. Memory(mem') BY <1>6, <1>14
<1> QED BY <1>3, <1>7, <1>19, <1>20, OpeningEnds

-----------------------------------------------------------------------------
(* A call of sign begins with the message in its buffer.                     *)
LEMMA BufferInit == ASSUME Buffer!Init PROVE BufferInv
<1>1. /\ prog \in Programs /\ mlen \in 0..MaxMlen
      /\ mIn \in IF prog = "sphincs" THEN {"m", "sm"} ELSE {"m"}
      /\ mOut \in IF prog = "sphincs" THEN {"mout", "sm"} ELSE {"mout"}
      /\ todo = Buffer!SignStatements(prog) /\ phase = "sign"
      /\ rand = IF prog = "sphincs" THEN Buffer!Free ELSE <<"R">>
      /\ ret = 0 /\ outLen = 0
  BY DEF Buffer!Init
<1>2. Places BY <1>1 DEF Places
<1>3. PICK f, g : /\ f = [c \in Buffer!Buffers \X Buffer!Offsets(prog) |-> Buffer!Free]
                  /\ g = mem
  OBVIOUS
<1>4. g = Buffer!Write(f, mIn, 0, Buffer!Message) BY <1>3 DEF Buffer!Init
<1>5. /\ mlen \in Nat /\ Total \in Nat /\ -1..Total \subseteq Buffer!Offsets(prog)
      /\ Buffer!Offsets(prog) \subseteq Int /\ mlen <= Total /\ 0 \in Int
  BY <1>2, Layout
<1>6. DOMAIN f = Buffer!Buffers \X Buffer!Offsets(prog) BY <1>3
<1>7. DOMAIN Buffer!Message = 1..mlen BY DEF Buffer!Message
<1>8. Put(g, f, mIn, 0, Buffer!Message, mlen) BY <1>2, <1>4, <1>5, <1>6, <1>7, WritePuts
<1>9. MessageIn(g, mIn, 0)
  <2>1. ASSUME NEW k \in 0..(mlen - 1) PROVE g[<<mIn, 0 + k>>] = <<"M", k>>
    <3>1. /\ 0 + k \in Buffer!Offsets(prog) /\ 0 + k \in 0..(0 + mlen - 1)
          /\ 0 + k - 0 + 1 = k + 1 /\ k + 1 \in 1..mlen /\ (k + 1) - 1 = k
      BY <1>5
    <3>2. mIn \in Buffer!Buffers BY <1>2 DEF Places, Buffer!Buffers
    <3>3. g[<<mIn, 0 + k>>] = Written(f, mIn, 0, Buffer!Message, mlen, mIn, 0 + k)
      BY <1>8, <3>1, <3>2 DEF Put
    <3>4. PICK s : s = Buffer!Message OBVIOUS
    <3>5. g[<<mIn, 0 + k>>] = s[k + 1]
      <4>1. g[<<mIn, 0 + k>>] = Written(f, mIn, 0, s, mlen, mIn, 0 + k) BY ONLY <3>3, <3>4
      <4> QED BY ONLY <3>1, <4>1 DEF Written
    <3>6. s[k + 1] = <<"M", k>> BY <3>1, <3>4 DEF Buffer!Message, Buffer!M
    <3> QED BY <3>5, <3>6
  <2> QED BY <2>1 DEF MessageIn
<1>10. Memory(g)
  <2>1. g = [c \in Buffer!Buffers \X Buffer!Offsets(prog) |-> g[c]] BY <1>6, <1>8 DEF Put
  <2>2. ASSUME NEW b \in Buffer!Buffers, NEW k \in Buffer!Offsets(prog) \ 0..(Total - 1)
        PROVE  g[<<b, k>>] = Buffer!Free
    <3>1. k \notin 0..(0 + mlen - 1) BY <1>5
    <3>2. g[<<b, k>>] = f[<<b, k>>] BY <1>8, <3>1 DEF Put, Written
    <3> QED BY <1>3, <3>2
  <2> QED BY <1>9, <2>1, <2>2 DEF Memory
<1>11. MessageIn(mem, mIn, 0) /\ Memory(mem) BY <1>3, <1>9, <1>10
<1>12. Passed(0)
  <2>1. PICK s : s = Statements OBVIOUS
  <2>2. s \in Seq(Words)
    <3>1. prog \in {"core", "fast", "sphincs"} BY <1>2, Layout
    <3> QED BY <1>1, <2>1, <3>1, CoreSigns, FastSigns, SphincsSigns
  <2>3. Left(s, 0) = s BY <2>2 DEF Left
  <2>4. todo = s BY <1>1, <2>1 DEF Statements
  <2> QED BY <2>1, <2>3, <2>4 DEF Passed
<1>13. SignCall
  BY <1>1, <1>11, <1>12 DEF SignCall, CoreSigning, FastSigning, SphincsSigning
<1> QED BY <1>1, <1>2, <1>11, <1>13 DEF BufferInv

(* Nothing the buffers do not hold changes it.                               *)
LEMMA BufferStutters == ASSUME BufferInv, UNCHANGED bufferVars PROVE BufferInv'
<1>1. /\ UNCHANGED <<prog, mlen, mIn, mOut, rand, phase, ret, outLen, altered>>
      /\ mem' = mem /\ todo' = todo /\ digest' = digest /\ sigCopy' = sigCopy
  BY DEF bufferVars
<1>2. Places /\ Memory(mem') BY <1>1 DEF BufferInv
<1>3. Places' /\ Memory(mem)' BY <1>1, <1>2, PlacesKept
<1>4. \A n : Passed(n)' = Passed(n) BY <1>1 DEF Passed, Statements
<1>5. /\ \A b, k : MessageIn(mem, b, k)' = MessageIn(mem, b, k)
      /\ Moved' = Moved /\ Indexed' = Indexed
  BY <1>1 DEF MessageIn, Moved, Indexed
<1>6. Randomised' = Randomised /\ Digested' = Digested /\ Complete' = Complete
  BY <1>1, SameSent DEF Randomised, Digested, Complete
<1>7. Unread' = Unread /\ MovedOut' = MovedOut /\ Copied' = Copied
  BY <1>1, SameSent, SameArrived DEF Unread, MovedOut, Copied
<1>8. (digest = Rehashed)' = (digest = Rehashed) BY <1>1, SameArrived
<1>9. SignCall' = SignCall
  BY <1>1, <1>4, <1>5, <1>6 DEF SignCall, CoreSigning, FastSigning, SphincsSigning
<1>10. OpenCall => OpenCall'
  BY <1>1, <1>4, <1>7, <1>8, SameSent DEF OpenCall, MineOpening, SphincsOpening
<1>11. Opened => Opened' BY <1>1, <1>5, <1>7, SameSent DEF Opened
<1> QED BY <1>1, <1>3, <1>6, <1>9, <1>10, <1>11 DEF BufferInv

(* A step of the system is one of the two calls, or leaves the buffers.      *)
LEMMA BufferNextKeeps ==
  ASSUME BufferInv, [NextParts]_<<part, chainsVars, bufferVars, hashesVars>>
  PROVE  BufferInv'
<1>1. \/ Buffer!MoveIn \/ Buffer!PutIndex \/ Buffer!PutR \/ Buffer!Random \/ Buffer!Hash
      \/ Buffer!PutBody \/ Buffer!SignReturn
      \/ \E k \in -1..(Buffer!SigLen(prog) + mlen - 1) : Buffer!SignOpen(k)
      \/ Buffer!MoveOut \/ Buffer!CopySig \/ Buffer!Check
      \/ UNCHANGED bufferVars
  BY DEF NextParts, ChainsStep, BufferStep, HashesStep, Only
<1>2. CASE Buffer!Hash
  <2>1. phase = "sign" \/ phase = "open"
    <3>1. Buffer!At("hash") BY <1>2 DEF Buffer!Hash
    <3> QED BY <3>1, InCalls
  <2> QED BY <1>2, <2>1, SignHashKeeps, OpenHashKeeps
<1>3. CASE \E k \in -1..(Buffer!SigLen(prog) + mlen - 1) : Buffer!SignOpen(k)
  BY <1>3, SignOpenKeeps
<1> QED BY <1>1, <1>2, <1>3, MoveInKeeps, PutIndexKeeps, PutRKeeps, RandomKeeps,
           PutBodyKeeps, SignReturnKeeps, MoveOutKeeps, CopySigKeeps, CheckKeeps,
           BufferStutters

(* The invariant holds always.                                               *)
LEMMA BufferInvariant == SpecParts => []BufferInv
<1>1. InitParts => BufferInv BY BufferInit DEF InitParts
<1>2. BufferInv /\ [NextParts]_<<part, chainsVars, bufferVars, hashesVars>> => BufferInv'
  BY BufferNextKeeps
<1> QED BY <1>1, <1>2, PTL DEF SpecParts

-----------------------------------------------------------------------------
(* What is sent is the signature and the message.                            *)
LEMMA SentIs ==
  ASSUME Places
  PROVE  Buffer!ExpectedSm = [k \in 1..Total |-> Sent(k - 1)]
<1>1. PICK L, H, e, x, b, m :
        /\ L = Buffer!SigLen(prog) /\ H = Buffer!HeadLen(prog) /\ e = Buffer!ExpectedR
        /\ x = IF prog = "sphincs" THEN <<>> ELSE <<<<"idx">>>>
        /\ b = Buffer!Body(Hashed) /\ m = Buffer!Message
  OBVIOUS
<1>2. /\ L \in Nat /\ mlen \in Nat /\ Total = L + mlen /\ Total \in Nat /\ H \in {1, 2}
      /\ H \in Nat /\ H - 1 \in Nat /\ (H - 1) + 1 = H
      /\ BodyLen \in Nat /\ H + BodyLen = L /\ Buffer!ROffset(prog) = H - 1
      /\ prog = "sphincs" => H = 1
      /\ prog # "sphincs" => H = 2
  BY <1>1, Layout
<1>3. Buffer!ExpectedSm = ((x \o <<e>>) \o b) \o m
  BY <1>1 DEF Buffer!ExpectedSm, Hashed
<1>4. PICK f1, f2, f3, f4 :
        /\ f1 = [k \in 1..(H - 1) |-> <<"idx">>] /\ f2 = [k \in 1..1 |-> e]
        /\ f3 = [k \in 1..BodyLen |-> <<"sig", k, Hashed>>]
        /\ f4 = [k \in 1..mlen |-> <<"M", k - 1>>]
  OBVIOUS
<1>5. Listing(x, H - 1, f1)
  <2>1. CASE prog = "sphincs"
    <3>1. x = <<>> /\ 1..(H - 1) = {} BY <1>1, <1>2, <2>1
    <3> QED BY <3>1 DEF Listing
  <2>2. CASE prog # "sphincs"
    <3>1. x = <<<<"idx">>>> /\ H - 1 = 1 BY <1>1, <1>2, <2>2
    <3> QED BY <1>4, <3>1 DEF Listing
  <2> QED BY <2>1, <2>2
<1>6. Listing(<<e>>, 1, f2) BY <1>4 DEF Listing
<1>7. Listing(b, BodyLen, f3) BY <1>1, <1>4 DEF Listing, Buffer!Body
<1>8. Listing(m, mlen, f4) BY <1>1, <1>4 DEF Listing, Buffer!Message, Buffer!M
<1>9. PICK u, v, w : u = x \o <<e>> /\ v = u \o b /\ w = v \o m OBVIOUS
<1>10. u = [k \in 1..H |-> IF k <= H - 1 THEN f1[k] ELSE f2[k - (H - 1)]]
  <2>1. H - 1 \in Nat /\ 1 \in Nat BY <1>2
  <2>2. PICK h, y, o : h = H - 1 /\ y = <<e>> /\ o = 1 OBVIOUS
  <2>3. h \in Nat BY <2>1, <2>2
  <2>7. o \in Nat BY <2>2
  <2>4. Listing(x, h, f1) BY <1>5, <2>2
  <2>5. Listing(y, o, f2) BY <1>6, <2>2
  <2>8. JoinedListing(x \o y, h, o, f1, f2)
    BY ONLY <2>3, <2>7, <2>4, <2>5, ListingConcat
  <2> QED BY <1>2, <1>9, <2>2, <2>8 DEF JoinedListing
<1>11. Listing(u, H, u) BY <1>10 DEF Listing
<1>12. v = [k \in 1..(H + BodyLen) |-> IF k <= H THEN u[k] ELSE f3[k - H]]
  <2>1. H \in Nat /\ BodyLen \in Nat BY <1>2
  <2>2. JoinedListing(u \o b, H, BodyLen, u, f3)
    BY ONLY <2>1, <1>11, <1>7, ListingConcat
  <2> QED BY <1>9, <2>2 DEF JoinedListing
<1>13. Listing(v, L, v) BY <1>2, <1>12 DEF Listing
<1>14. w = [k \in 1..(L + mlen) |-> IF k <= L THEN v[k] ELSE f4[k - L]]
  <2>1. L \in Nat /\ mlen \in Nat BY <1>2
  <2>2. JoinedListing(v \o m, L, mlen, v, f4)
    BY ONLY <2>1, <1>13, <1>8, ListingConcat
  <2> QED BY <1>9, <2>2 DEF JoinedListing
<1>15. ASSUME NEW k \in 1..Total PROVE w[k] = Sent(k - 1)
  <2>1. PICK n : n = k - 1 OBVIOUS
  <2>2. k \in 1..(L + mlen) /\ k \in Nat /\ n \in Nat /\ k = n + 1 BY <1>2, <2>1
  <2>3. CASE n >= L
    <3>1. ~(k <= L) /\ k - L \in 1..mlen /\ (k - L) - 1 = n - L BY <1>2, <2>2, <2>3
    <3>2. w[k] = <<"M", n - L>> BY <1>4, <1>14, <2>2, <3>1
    <3> QED BY <1>1, <2>1, <2>3, <3>2 DEF Sent
  <2>4. CASE ~(n >= L) /\ n >= H
    <3>1. /\ k <= L /\ k \in 1..(H + BodyLen) /\ ~(k <= H) /\ k - H \in 1..BodyLen
          /\ k - H = n - H + 1
      BY <1>2, <2>2, <2>4
    <3>2. w[k] = <<"sig", n - H + 1, Hashed>> BY <1>4, <1>12, <1>14, <2>2, <3>1
    <3> QED BY <1>1, <2>1, <2>4, <3>2 DEF Sent
  <2>5. CASE ~(n >= L) /\ ~(n >= H)
    <3>1. k <= L /\ k \in 1..(H + BodyLen) /\ k <= H /\ k \in 1..H BY <1>2, <2>2, <2>5
    <3>2. w[k] = u[k] BY <1>12, <1>14, <2>2, <3>1
    <3>3. CASE n = H - 1
      <4>1. ~(k <= H - 1) /\ k - (H - 1) = 1 /\ 1 \in 1..1 BY <1>2, <2>2, <3>3
      <4>2. u[k] = f2[1] BY <1>10, <3>1, <4>1
      <4>3. f2[1] = e BY <1>4, <4>1
      <4> QED BY <1>1, <1>2, <2>1, <2>5, <3>2, <3>3, <4>2, <4>3 DEF Sent
    <3>4. CASE n # H - 1
      <4>1. k <= H - 1 /\ k \in 1..(H - 1) BY <1>2, <2>2, <2>5, <3>4
      <4>2. u[k] = f1[k] BY <1>10, <3>1, <4>1
      <4>3. f1[k] = <<"idx">> BY <1>4, <4>1
      <4> QED BY <1>1, <1>2, <2>1, <2>5, <3>2, <3>4, <4>2, <4>3 DEF Sent
    <3> QED BY <3>3, <3>4
  <2> QED BY <2>3, <2>4, <2>5
<1>16. w = [k \in 1..Total |-> Sent(k - 1)]
  <2> HIDE DEF Sent
  <2>1. w = [k \in 1..Total |-> w[k]] BY <1>2, <1>14
  <2> QED BY <1>15, <2>1
<1> QED BY <1>3, <1>9, <1>16

(* A buffer that holds every block sent holds the signed message.            *)
LEMMA CompleteIsExpected ==
  ASSUME Places, Complete PROVE Buffer!Read(mem, "sm", 0, Total) = Buffer!ExpectedSm
<1>1. Total \in Nat BY Layout
<1>2. ASSUME NEW k \in 1..Total PROVE mem[<<"sm", 0 + k - 1>>] = Sent(k - 1)
  <2>1. k - 1 \in 0..(Total - 1) /\ 0 + k - 1 = k - 1 BY <1>1
  <2> QED BY <2>1 DEF Complete
<1>3. Buffer!Read(mem, "sm", 0, Total) = [k \in 1..Total |-> Sent(k - 1)]
  BY <1>2 DEF Buffer!Read
<1> QED BY <1>3, SentIs

(* A buffer that begins with the message reads as the message.               *)
LEMMA MessageRead ==
  ASSUME Places, NEW buf, MessageIn(mem, buf, 0)
  PROVE  Buffer!Read(mem, buf, 0, mlen) = Buffer!Message
<1>1. mlen \in Nat BY Layout
<1>2. ASSUME NEW k \in 1..mlen PROVE mem[<<buf, 0 + k - 1>>] = <<"M", k - 1>>
  <2>1. PICK j : j = k - 1 OBVIOUS
  <2>2. j \in 0..(mlen - 1) /\ 0 + k - 1 = 0 + j BY <1>1, <2>1
  <2> QED BY <2>1, <2>2 DEF MessageIn
<1> QED BY <1>2 DEF Buffer!Read, Buffer!Message, Buffer!M

(* For messages of every length and signatures of every size, sign leaves    *)
(* the signature and the message, and sign_open gives the message back       *)
(* (xmss_core.c:161-235, xmss_core_fast.c:577-700, xmss_commons.c:173-236,   *)
(* sphincsp/sign.c:70-240).                                                  *)
THEOREM OpensAsSignedHolds == SpecParts => []OpensAsSigned
<1>1. BufferInv => OpensAsSigned
  <2> SUFFICES ASSUME BufferInv PROVE OpensAsSigned OBVIOUS
  <2>1. Places /\ Memory(mem) /\ phase \in {"sign", "signed", "open", "opened"}
    BY DEF BufferInv
  <2>2. /\ Total = Buffer!SigLen(prog) + mlen /\ Total \in Nat
        /\ Buffer!SigLen(prog) \in Nat /\ mlen \in Nat
    BY <2>1, Layout
  <2>3. ret \in {0, -1} /\ outLen \in {0, mlen}
    <3>1. CASE phase = "sign" BY <3>1 DEF BufferInv, SignCall
    <3>2. CASE phase = "signed" BY <3>2 DEF BufferInv
    <3>3. CASE phase = "open" BY <3>3 DEF BufferInv, OpenCall
    <3>4. CASE phase = "opened" BY <3>4 DEF BufferInv, Opened
    <3> QED BY <2>1, <3>1, <3>2, <3>3, <3>4
  <2>4. Buffer!TypeOK BY <2>1, <2>3 DEF Buffer!TypeOK, Places, Memory
  <2>5. Buffer!SignedMessageComplete
    BY <2>1, <2>2, CompleteIsExpected DEF BufferInv, Buffer!SignedMessageComplete
  <2>6. Buffer!OpensAsSigned
    BY <2>1, MessageRead DEF BufferInv, Opened, Buffer!OpensAsSigned
  <2>7. Buffer!ArgumentsKept
    <3>1. mIn = "m" => Buffer!Read(mem, "m", 0, mlen) = Buffer!Message
      BY <2>1, MessageRead DEF Memory
    <3>2. ASSUME phase = "opened", mOut # "sm", altered = -1
          PROVE  Buffer!Read(mem, "sm", 0, Total) = Buffer!ExpectedSm
      <4>1. Unread BY <3>2 DEF BufferInv, Opened
      <4>2. Total \in Nat BY <2>1, Layout
      <4>3. Complete
        <5> SUFFICES ASSUME NEW k \in 0..(Total - 1) PROVE mem[<<"sm", k>>] = Sent(k)
          BY DEF Complete
        <5>1. k # altered BY <3>2, <4>2
        <5> QED BY <4>1, <5>1 DEF Unread, Arrived
      <4> QED BY <2>1, <4>3, CompleteIsExpected
    <3>3. \A b \in Buffer!Buffers,
             k \in Buffer!Offsets(prog) \ 0..(Buffer!SigLen(prog) + mlen - 1) :
            mem[<<b, k>>] = Buffer!Free
      <4> SUFFICES ASSUME NEW b \in Buffer!Buffers, NEW k \in Buffer!Offsets(prog),
                          k \notin 0..(Buffer!SigLen(prog) + mlen - 1)
                   PROVE  mem[<<b, k>>] = Buffer!Free
        OBVIOUS
      <4>1. k \notin 0..(Total - 1) BY <2>2
      <4> QED BY <2>1, <4>1 DEF Memory
    <3>4. ASSUME phase = "opened", mOut # "sm", altered = -1
          PROVE  Buffer!Read(mem, "sm", 0, Buffer!SigLen(prog) + mlen) = Buffer!ExpectedSm
      BY <2>2, <3>2, <3>4
    <3> QED BY <3>1, <3>3, <3>4, Zenon DEF Buffer!ArgumentsKept
  <2> QED BY <2>4, <2>5, <2>6, <2>7 DEF OpensAsSigned
<1> QED BY <1>1, BufferInvariant, PTL

(* For messages of every length, a change of any block is noticed, and the   *)
(* caller gets zeros and a length of 0 (xmss_commons.c:224-231,              *)
(* sphincsp/sign.c:228-234).                                                 *)
THEOREM AlteredGivesNothingHolds == SpecParts => []AlteredGivesNothing
<1>1. BufferInv => AlteredGivesNothing
  BY DEF BufferInv, Opened, AlteredGivesNothing, Buffer!AlteredGivesNothing
<1> QED BY <1>1, BufferInvariant, PTL

-----------------------------------------------------------------------------
\* The addresses of the hash calls.

(* The operators of Bits are the same in HashAddress.                        *)
LEMMA HashBits ==
  /\ Hashes!Pow2 = Pow2
  /\ \A x, n : Hashes!Shr(x, n) = Shr(x, n)
<1>1. Hashes!Pow2 = Pow2 BY DEF Hashes!Pow2, Pow2
<1> QED BY <1>1 DEF Hashes!Shr, Shr

(* What a word holds, and an address.                                        *)
Word == 0..(Pow2[WordBits] - 1)
HashAddr == [0..7 -> Word]

(* The address of a hash: of the key pair, or the tree, pl.                  *)
WordsOf(pl, t, o, f, g, k) ==
  [w \in 0..7 |-> <<pl[1], Shr(pl[2], WordBits), pl[2] % Pow2[WordBits], t, o, f, g, k>>[w + 1]]

(* A key pair: its layer, tree and leaf. *)
KeyPairs == Nat \X Nat \X Nat

(* The three kinds of hashes, each with what it is for and where it is made.  *)
ChainHash(kp, c, s, k) ==
  [for |-> <<"chain", kp, c, s, k>>, at |-> WordsOf(kp, 0, kp[3], c, s, k)]
LTreeHash(kp, h, j, k) ==
  [for |-> <<"ltree", kp, h, j, k>>, at |-> WordsOf(kp, 1, kp[3], h, j, k)]
TreeHash(pl, h, j, k) ==
  [for |-> <<"tree", pl, h + 1, j, k>>, at |-> WordsOf(pl, 2, 0, h, j, k)]

(* A call of prf that is made where its kind of hash belongs. *)
Lawful(r) ==
  \/ \E kp \in KeyPairs, c, s, k \in Nat : r = ChainHash(kp, c, s, k)
  \/ \E kp \in KeyPairs, h, j, k \in Nat : r = LTreeHash(kp, h, j, k)
  \/ \E pl \in Nat \X Nat, h, j, k \in Nat : r = TreeHash(pl, h, j, k)

(* The seed of a key pair. *)
SeedOf(kp) == [for |-> kp, at |-> WordsOf(kp, 0, kp[3], 0, 0, 0)]

(* The words of an address.                                                  *)
LEMMA WordsAre ==
  ASSUME NEW pl, NEW t, NEW o, NEW f, NEW g, NEW k
  PROVE  LET a == WordsOf(pl, t, o, f, g, k) IN
         /\ a = [w \in 0..7 |-> a[w]]
         /\ a[0] = pl[1] /\ a[1] = Shr(pl[2], WordBits) /\ a[2] = pl[2] % Pow2[WordBits]
         /\ a[3] = t /\ a[4] = o /\ a[5] = f /\ a[6] = g /\ a[7] = k
BY DEF WordsOf

(* An address with these words is that one.                                  *)
LEMMA IsWords ==
  ASSUME NEW a, a = [w \in 0..7 |-> a[w]],
         NEW pl, NEW t, NEW o, NEW f, NEW g, NEW k,
         a[0] = pl[1], a[1] = Shr(pl[2], WordBits), a[2] = pl[2] % Pow2[WordBits],
         a[3] = t, a[4] = o, a[5] = f, a[6] = g, a[7] = k
  PROVE  a = WordsOf(pl, t, o, f, g, k)
<1> DEFINE b == WordsOf(pl, t, o, f, g, k)
<1>1. /\ b = [w \in 0..7 |-> b[w]]
      /\ b[0] = pl[1] /\ b[1] = Shr(pl[2], WordBits) /\ b[2] = pl[2] % Pow2[WordBits]
      /\ b[3] = t /\ b[4] = o /\ b[5] = f /\ b[6] = g /\ b[7] = k
  BY WordsAre
<1> HIDE DEF b
<1>2. \A w \in 0..7 : w \in {0, 1, 2, 3, 4, 5, 6, 7} OBVIOUS
<1>3. \A w \in 0..7 : a[w] = b[w] BY <1>1, <1>2
<1> QED BY <1>1, <1>3 DEF b

(* A number is its two halves.                                               *)
LEMMA HalvesDetermine ==
  ASSUME NEW x \in Nat, NEW y \in Nat, WordBits \in Nat,
         Shr(x, WordBits) = Shr(y, WordBits), x % Pow2[WordBits] = y % Pow2[WordBits]
  PROVE  x = y
<1>1. PICK t : t = Pow2[WordBits] OBVIOUS
<1>2. t \in Nat \ {0} BY <1>1, Pow2Recursion
<1>3. x = (x \div t) * t + (x % t) /\ y = (y \div t) * t + (y % t) BY <1>2, SplitAt
<1> QED BY <1>1, <1>3 DEF Shr

(* A hash is determined by what it is for, and by where it is made.          *)
LEMMA HashDetermined ==
  ASSUME WordBits \in Nat, NEW r, NEW q, Lawful(r), Lawful(q)
  PROVE  /\ r.for = q.for => r = q
         /\ r.at = q.at => r = q
<1>1. ASSUME NEW a \in KeyPairs, NEW b \in KeyPairs,
             a[1] = b[1], a[3] = b[3], Shr(a[2], WordBits) = Shr(b[2], WordBits),
             a[2] % Pow2[WordBits] = b[2] % Pow2[WordBits]
      PROVE  a = b
  <2>1. a[2] \in Nat /\ b[2] \in Nat BY DEF KeyPairs
  <2>2. a[2] = b[2] BY <1>1, <2>1, HalvesDetermine
  <2> QED BY <1>1, <2>2 DEF KeyPairs
<1>2. ASSUME NEW a \in Nat \X Nat, NEW b \in Nat \X Nat,
             a[1] = b[1], Shr(a[2], WordBits) = Shr(b[2], WordBits),
             a[2] % Pow2[WordBits] = b[2] % Pow2[WordBits]
      PROVE  a = b
  <2>1. a[2] = b[2] BY <1>2, HalvesDetermine
  <2> QED BY <1>2, <2>1
<1>3. CASE \E kp \in KeyPairs, c, s, k \in Nat : r = ChainHash(kp, c, s, k)
  <2>1. PICK kp \in KeyPairs, c \in Nat, s \in Nat, k \in Nat : r = ChainHash(kp, c, s, k)
    BY <1>3
  <2>2. r.for = <<"chain", kp, c, s, k>> /\ r.at = WordsOf(kp, 0, kp[3], c, s, k)
    BY <2>1 DEF ChainHash
  <2>3. ASSUME NEW lp \in KeyPairs, NEW d \in Nat, NEW u \in Nat, NEW l \in Nat,
               q = ChainHash(lp, d, u, l)
        PROVE  (r.for = q.for => r = q) /\ (r.at = q.at => r = q)
    <3>1. q.for = <<"chain", lp, d, u, l>> /\ q.at = WordsOf(lp, 0, lp[3], d, u, l)
      BY <2>3 DEF ChainHash
    <3>2. r.for = q.for => kp = lp /\ c = d /\ s = u /\ k = l BY <2>2, <3>1
    <3>3. r.at = q.at => kp = lp /\ c = d /\ s = u /\ k = l
      <4> HAVE r.at = q.at
      <4>2. /\ r.at[0] = kp[1] /\ r.at[1] = Shr(kp[2], WordBits)
            /\ r.at[2] = kp[2] % Pow2[WordBits]
            /\ r.at[4] = kp[3] /\ r.at[5] = c /\ r.at[6] = s /\ r.at[7] = k
        BY ONLY <2>2, WordsAre
      <4>3. /\ q.at[0] = lp[1] /\ q.at[1] = Shr(lp[2], WordBits)
            /\ q.at[2] = lp[2] % Pow2[WordBits]
            /\ q.at[4] = lp[3] /\ q.at[5] = d /\ q.at[6] = u /\ q.at[7] = l
        BY ONLY <3>1, WordsAre
      <4>4. r.at = q.at OBVIOUS
      <4>1. /\ kp[1] = lp[1] /\ Shr(kp[2], WordBits) = Shr(lp[2], WordBits)
            /\ kp[2] % Pow2[WordBits] = lp[2] % Pow2[WordBits]
            /\ kp[3] = lp[3] /\ c = d /\ s = u /\ k = l
        BY ONLY <4>2, <4>3, <4>4
      <4> QED BY <4>1, <1>1
    <3> QED BY <2>1, <2>3, <3>2, <3>3
  <2>4. ASSUME NEW lp, NEW d, NEW u, NEW l,
               q = LTreeHash(lp, d, u, l) \/ q = TreeHash(lp, d, u, l)
        PROVE  r.for # q.for /\ r.at # q.at
    <3>1. r.for[1] = "chain" /\ r.at[3] = 0 BY <2>2, WordsAre
    <3>2. q.for[1] \in {"ltree", "tree"} /\ q.at[3] \in {1, 2}
      BY <2>4, WordsAre DEF LTreeHash, TreeHash
    <3> QED BY <3>1, <3>2
  <2> QED BY <2>3, <2>4 DEF Lawful
<1>4. CASE \E kp \in KeyPairs, h, j, k \in Nat : r = LTreeHash(kp, h, j, k)
  <2>1. PICK kp \in KeyPairs, c \in Nat, s \in Nat, k \in Nat : r = LTreeHash(kp, c, s, k)
    BY <1>4
  <2>2. r.for = <<"ltree", kp, c, s, k>> /\ r.at = WordsOf(kp, 1, kp[3], c, s, k)
    BY <2>1 DEF LTreeHash
  <2>3. ASSUME NEW lp \in KeyPairs, NEW d \in Nat, NEW u \in Nat, NEW l \in Nat,
               q = LTreeHash(lp, d, u, l)
        PROVE  (r.for = q.for => r = q) /\ (r.at = q.at => r = q)
    <3>1. q.for = <<"ltree", lp, d, u, l>> /\ q.at = WordsOf(lp, 1, lp[3], d, u, l)
      BY <2>3 DEF LTreeHash
    <3>2. r.for = q.for => kp = lp /\ c = d /\ s = u /\ k = l BY <2>2, <3>1
    <3>3. r.at = q.at => kp = lp /\ c = d /\ s = u /\ k = l
      <4> HAVE r.at = q.at
      <4>2. /\ r.at[0] = kp[1] /\ r.at[1] = Shr(kp[2], WordBits)
            /\ r.at[2] = kp[2] % Pow2[WordBits]
            /\ r.at[4] = kp[3] /\ r.at[5] = c /\ r.at[6] = s /\ r.at[7] = k
        BY ONLY <2>2, WordsAre
      <4>3. /\ q.at[0] = lp[1] /\ q.at[1] = Shr(lp[2], WordBits)
            /\ q.at[2] = lp[2] % Pow2[WordBits]
            /\ q.at[4] = lp[3] /\ q.at[5] = d /\ q.at[6] = u /\ q.at[7] = l
        BY ONLY <3>1, WordsAre
      <4>4. r.at = q.at OBVIOUS
      <4>1. /\ kp[1] = lp[1] /\ Shr(kp[2], WordBits) = Shr(lp[2], WordBits)
            /\ kp[2] % Pow2[WordBits] = lp[2] % Pow2[WordBits]
            /\ kp[3] = lp[3] /\ c = d /\ s = u /\ k = l
        BY ONLY <4>2, <4>3, <4>4
      <4> QED BY <4>1, <1>1
    <3> QED BY <2>1, <2>3, <3>2, <3>3
  <2>4. ASSUME NEW lp, NEW d, NEW u, NEW l,
               q = ChainHash(lp, d, u, l) \/ q = TreeHash(lp, d, u, l)
        PROVE  r.for # q.for /\ r.at # q.at
    <3>1. r.for[1] = "ltree" /\ r.at[3] = 1 BY <2>2, WordsAre
    <3>2. q.for[1] \in {"chain", "tree"} /\ q.at[3] \in {0, 2}
      BY <2>4, WordsAre DEF ChainHash, TreeHash
    <3> QED BY <3>1, <3>2
  <2> QED BY <2>3, <2>4 DEF Lawful
<1>5. CASE \E pl \in Nat \X Nat, h, j, k \in Nat : r = TreeHash(pl, h, j, k)
  <2>1. PICK kp \in Nat \X Nat, c \in Nat, s \in Nat, k \in Nat : r = TreeHash(kp, c, s, k)
    BY <1>5
  <2>2. r.for = <<"tree", kp, c + 1, s, k>> /\ r.at = WordsOf(kp, 2, 0, c, s, k)
    BY <2>1 DEF TreeHash
  <2>3. ASSUME NEW lp \in Nat \X Nat, NEW d \in Nat, NEW u \in Nat, NEW l \in Nat,
               q = TreeHash(lp, d, u, l)
        PROVE  (r.for = q.for => r = q) /\ (r.at = q.at => r = q)
    <3>1. q.for = <<"tree", lp, d + 1, u, l>> /\ q.at = WordsOf(lp, 2, 0, d, u, l)
      BY <2>3 DEF TreeHash
    <3>2. r.for = q.for => kp = lp /\ c = d /\ s = u /\ k = l
      <4>1. r.for = q.for => kp = lp /\ c + 1 = d + 1 /\ s = u /\ k = l BY <2>2, <3>1
      <4> QED BY <4>1
    <3>3. r.at = q.at => kp = lp /\ c = d /\ s = u /\ k = l
      <4> HAVE r.at = q.at
      <4>2. /\ r.at[0] = kp[1] /\ r.at[1] = Shr(kp[2], WordBits)
            /\ r.at[2] = kp[2] % Pow2[WordBits]
            /\ r.at[4] = 0 /\ r.at[5] = c /\ r.at[6] = s /\ r.at[7] = k
        BY ONLY <2>2, WordsAre
      <4>3. /\ q.at[0] = lp[1] /\ q.at[1] = Shr(lp[2], WordBits)
            /\ q.at[2] = lp[2] % Pow2[WordBits]
            /\ q.at[4] = 0 /\ q.at[5] = d /\ q.at[6] = u /\ q.at[7] = l
        BY ONLY <3>1, WordsAre
      <4>4. r.at = q.at OBVIOUS
      <4>1. /\ kp[1] = lp[1] /\ Shr(kp[2], WordBits) = Shr(lp[2], WordBits)
            /\ kp[2] % Pow2[WordBits] = lp[2] % Pow2[WordBits]
            /\ c = d /\ s = u /\ k = l
        BY ONLY <4>2, <4>3, <4>4
      <4> QED BY <4>1, <1>2
    <3> QED BY <2>1, <2>3, <3>2, <3>3
  <2>4. ASSUME NEW lp, NEW d, NEW u, NEW l,
               q = ChainHash(lp, d, u, l) \/ q = LTreeHash(lp, d, u, l)
        PROVE  r.for # q.for /\ r.at # q.at
    <3>1. r.for[1] = "tree" /\ r.at[3] = 2 BY <2>2, WordsAre
    <3>2. q.for[1] \in {"chain", "ltree"} /\ q.at[3] \in {0, 1}
      BY <2>4, WordsAre DEF ChainHash, LTreeHash
    <3> QED BY <3>1, <3>2
  <2> QED BY <2>3, <2>4 DEF Lawful
<1> QED BY <1>3, <1>4, <1>5 DEF Lawful

-----------------------------------------------------------------------------
\* The loops over calls of prf.

(* a is an address of type t in the tree, or of the key pair, pl, with o in   *)
(* its fifth word.                                                           *)
InPlace(a, t, pl, o) ==
  /\ a \in HashAddr
  /\ a[0] = pl[1] /\ a[1] = Shr(pl[2], WordBits) /\ a[2] = pl[2] % Pow2[WordBits]
  /\ a[3] = t /\ a[4] = o

(* A history of calls of prf. *)
History(s) == IsFiniteSet(s) /\ \A r \in s : Lawful(r)

(* What a routine is given and returns: such an address and such a history.   *)
Good(s, t, pl, o) ==
  /\ s = [addr |-> s.addr, prfs |-> s.prfs]
  /\ InPlace(s.addr, t, pl, o)
  /\ History(s.prfs)

(* The calls of prf that thash makes with the address of s are lawful.        *)
InOrder(s, what, masks) ==
  \A k \in 0..masks : Lawful([for |-> Append(what, k), at |-> [s.addr EXCEPT ![7] = k]])

(* thash, in a place where its calls are lawful.                             *)
LEMMA ThashGood ==
  ASSUME NEW s, NEW t, NEW pl, NEW o, Good(s, t, pl, o), NEW what, NEW masks \in 0..2,
         WordBits \in Nat, WordBits >= 2, InOrder(s, what, masks)
  PROVE  LET n == Hashes!Thash(s, what, masks) IN
         Good(n, t, pl, o) /\ n.addr[5] = s.addr[5] /\ n.addr[6] = s.addr[6]
<1> DEFINE n == Hashes!Thash(s, what, masks)
           a == [s.addr EXCEPT ![7] = masks]
           New(k) == [for |-> Append(what, k), at |-> [s.addr EXCEPT ![7] = k]]
           c == {New(k) : k \in 0..masks}
<1>1. n = [addr |-> a, prfs |-> s.prfs \cup c] BY DEF Hashes!Thash, Hashes!KeyAndMask
<1>2. masks \in Word
  <2>1. 4 <= Pow2[WordBits]
    <3>1. Pow2[2] = 4
      <4>1. Pow2[0 + 1] = 2 * Pow2[0] /\ Pow2[1 + 1] = 2 * Pow2[1] /\ Pow2[0] = 1
        BY Pow2Recursion
      <4> QED BY <4>1
    <3>2. 2 \in Nat /\ Pow2[2] <= Pow2[WordBits] BY Pow2Monotone
    <3> QED BY <3>1, <3>2
  <2>2. Pow2[WordBits] \in Nat BY Pow2Recursion
  <2> QED BY <2>1, <2>2 DEF Word
<1>3. a \in HashAddr /\ \A w \in 0..6 : a[w] = s.addr[w]
  BY <1>2 DEF Good, InPlace, HashAddr
<1>4. InPlace(a, t, pl, o)
  <2> HIDE DEF a
  <2> QED BY <1>3 DEF Good, InPlace
<1>5. History(s.prfs \cup c)
  <2>1. IsFiniteSet(c)
    <3>1. IsFiniteSet(0..masks) BY FS_Interval
    <3> DEFINE f == [k \in 0..masks |-> New(k)]
    <3> HIDE DEF New
    <3>2. f \in Surjection(0..masks, c) BY DEF Surjection
    <3> QED BY <3>1, <3>2, FS_Surjection
  <2>2. \A r \in c : Lawful(r) BY DEF InOrder
  <2> HIDE DEF c
  <2> QED BY <2>1, <2>2, FS_Union DEF Good, History
<1> HIDE DEF a, c, n
<1>6. n.addr = a /\ n.prfs = s.prfs \cup c /\ n = [addr |-> n.addr, prfs |-> n.prfs]
  BY <1>1
<1> QED BY <1>3, <1>4, <1>5, <1>6 DEF Good, n

(* After n turns every state is in the set of its turn.                      *)
LEMMA TurnByTurn ==
  ASSUME NEW n \in Nat, NEW P, P \subseteq Nat, 0 \in P,
         \A k \in 0..(n - 1) : k \in P => k + 1 \in P
  PROVE  n \in P
<1> DEFINE S == {k \in Nat : k <= n => k \in P}
<1>1. 0 \in S OBVIOUS
<1>2. ASSUME NEW k \in Nat, k \in S PROVE k + 1 \in S
  <2> SUFFICES ASSUME k + 1 <= n PROVE k + 1 \in P OBVIOUS
  <2>1. k \in P /\ k \in 0..(n - 1) BY <1>2
  <2> QED BY <2>1
<1>3. Nat \subseteq S
  <2> HIDE DEF S
  <2> QED BY <1>1, <1>2, SetInduction
<1> QED BY <1>3

(* The turns of the loops, from k = 1 on.  The pairs of a row of l_tree are   *)
(* written out as the function that Loop chooses.                            *)
PairTurn(kp, h, k, x) ==
  Hashes!ThashH([x EXCEPT !.addr[Hashes!IndexWord] = k - 1], <<"ltree", kp, h, k - 1>>)

Pairs(kp, h, x) ==
  LET n == Hashes!RowLen[h] \div 2
      w == CHOOSE f : f = [k \in 0..n |->
             IF k = 0 THEN x
             ELSE CHOOSE y \in {PairTurn(kp, h, k, z) : z \in {f[k - 1]}} : TRUE]
  IN  w[n]

RowTurn(kp, k, x) == [Pairs(kp, k - 1, x) EXCEPT !.addr = Hashes!SetRow(@, k - 1 + 1)]

StepTurn(kp, c, start, k, x) ==
  Hashes!ThashF([x EXCEPT !.addr[Hashes!HashWord] = start + (k - 1)],
                <<"chain", kp, c, start + (k - 1)>>)

ChainTurn(kp, start, steps, k, x) ==
  Hashes!GenChain([x EXCEPT !.addr[Hashes!ChainWord] = k - 1], kp, k - 1,
                  start[k - 1], steps[k - 1])

ClimbTurn(pl, lf, k, x) ==
  Hashes!ThashH([x EXCEPT !.addr = Hashes!SetTreeNode(@, k - 1, Hashes!Shr(lf, k - 1 + 1))],
                <<"tree", pl, k - 1 + 1, Hashes!Shr(lf, k - 1 + 1)>>)

(* Turn k of the loop that q names.                                          *)
HashTurn(q, k, x) ==
  CASE q.loop = "pairs" -> PairTurn(q.kp, q.h, k, x)
    [] q.loop = "rows" -> RowTurn(q.kp, k, x)
    [] q.loop = "steps" -> StepTurn(q.kp, q.c, q.start, k, x)
    [] q.loop = "chains" -> ChainTurn(q.kp, q.start, q.steps, k, x)
    [] q.loop = "climb" -> ClimbTurn(q.pl, q.lf, k, x)

(* g is what the n turns of loop q make of x.                                *)
Turning(n, g, q, x) == g = [k \in 0..n |-> IF k = 0 THEN x ELSE HashTurn(q, k, g[k - 1])]

(* A loop of any number of turns can be run.                                 *)
LEMMA TurningExists ==
  ASSUME NEW q, NEW x
  PROVE  \A n \in Nat : \E g : Turning(n, g, q, x)
<1> DEFINE R(n, g) == Turning(n, g, q, x)
           S == {n \in Nat : \E g : R(n, g)}
<1>1. 0 \in S
  <2>1. R(0, [h \in 0..0 |-> x]) BY DEF Turning
  <2> QED BY <2>1
<1>2. ASSUME NEW n \in Nat, n \in S PROVE n + 1 \in S
  <2>1. PICK g : R(n, g) BY <1>2
  <2> DEFINE f == [k \in 0..(n + 1) |-> IF k = n + 1 THEN HashTurn(q, n + 1, g[n]) ELSE g[k]]
  <2>2. ASSUME NEW k \in 0..(n + 1)
        PROVE  f[k] = IF k = 0 THEN x ELSE HashTurn(q, k, f[k - 1])
    <3>1. CASE k = n + 1
      <4>1. k # 0 /\ k - 1 = n /\ n \in 0..(n + 1) /\ n # n + 1 BY <3>1
      <4>2. f[k] = HashTurn(q, n + 1, g[n]) BY <3>1
      <4>3. f[n] = g[n] BY <4>1
      <4> QED BY <4>1, <4>2, <4>3, <3>1
    <3>2. CASE k # n + 1
      <4>1. k \in 0..n BY <3>2
      <4>2. f[k] = g[k] BY <3>2
      <4>3. g[k] = IF k = 0 THEN x ELSE HashTurn(q, k, g[k - 1]) BY <2>1, <4>1 DEF Turning
      <4>4. k # 0 => f[k - 1] = g[k - 1] BY <4>1
      <4> QED BY <4>2, <4>3, <4>4
    <3> QED BY <3>1, <3>2
  <2>3. f = [k \in 0..(n + 1) |-> f[k]] OBVIOUS
  <2>4. R(n + 1, f)
    <3> HIDE DEF f
    <3> QED BY <2>2, <2>3 DEF Turning
  <2> QED BY <2>4
<1>3. Nat \subseteq S
  <2> HIDE DEF S
  <2> QED BY <1>1, <1>2, SetInduction
<1> QED BY <1>3

(* The function that the Loop of the model chooses, over such turns.         *)
HashLoop(n, q, x) ==
  CHOOSE f : f = [k \in 0..n |->
                    IF k = 0 THEN x
                    ELSE CHOOSE y \in {HashTurn(q, k, z) : z \in {f[k - 1]}} : TRUE]

(* It begins with x and goes on turn by turn.                                *)
LEMMA HashLoopTurns ==
  ASSUME NEW n \in Nat, NEW q, NEW x
  PROVE  /\ HashLoop(n, q, x)[0] = x
         /\ \A k \in 1..n : HashLoop(n, q, x)[k] = HashTurn(q, k, HashLoop(n, q, x)[k - 1])
<1>1. \A k, z : (CHOOSE y \in {HashTurn(q, k, v) : v \in {z}} : TRUE) = HashTurn(q, k, z)
  <2> TAKE k, z
  <2>1. {HashTurn(q, k, v) : v \in {z}} = {HashTurn(q, k, z)} OBVIOUS
  <2> QED BY <2>1
<1>2. HashLoop(n, q, x) = CHOOSE g : Turning(n, g, q, x) BY <1>1 DEF HashLoop, Turning
<1>3. PICK g : g = HashLoop(n, q, x) OBVIOUS
<1>4. Turning(n, g, q, x) BY <1>2, <1>3, TurningExists
<1>5. g[0] = x BY <1>4 DEF Turning
<1>6. ASSUME NEW k \in 1..n PROVE g[k] = HashTurn(q, k, g[k - 1])
  <2>1. k \in 0..n /\ k # 0 OBVIOUS
  <2> QED BY <2>1, <1>4 DEF Turning
<1> QED BY <1>3, <1>5, <1>6

(* The chains of gen_chain and of the one-time signature as such loops.      *)
LEMMA GenChainLoop ==
  ASSUME NEW s, NEW kp, NEW c, NEW start, NEW steps
  PROVE  Hashes!GenChain(s, kp, c, start, steps)
           = HashLoop(steps, [loop |-> "steps", kp |-> kp, c |-> c, start |-> start], s)[steps]
<1> DEFINE q == [loop |-> "steps", kp |-> kp, c |-> c, start |-> start]
           w == CHOOSE f : f = [k \in 0..steps |->
                  IF k = 0 THEN s
                  ELSE CHOOSE y \in {StepTurn(kp, c, start, k, z) : z \in {f[k - 1]}} : TRUE]
<1>1. Hashes!GenChain(s, kp, c, start, steps) = w[steps]
  BY Zenon DEF Hashes!GenChain, Hashes!Loop, StepTurn
<1>2. \A k, z : HashTurn(q, k, z) = StepTurn(kp, c, start, k, z) BY DEF HashTurn
<1>3. w = HashLoop(steps, q, s)
  <2> HIDE DEF q
  <2> QED BY <1>2 DEF HashLoop
<1> QED BY <1>1, <1>3

LEMMA ChainsLoop ==
  ASSUME NEW s, NEW kp, NEW start, NEW steps
  PROVE  Hashes!Chains(s, kp, start, steps)
           = HashLoop(NumChains, [loop |-> "chains", kp |-> kp, start |-> start,
                                  steps |-> steps], s)[NumChains]
<1> DEFINE q == [loop |-> "chains", kp |-> kp, start |-> start, steps |-> steps]
           w == CHOOSE f : f = [k \in 0..NumChains |->
                  IF k = 0 THEN s
                  ELSE CHOOSE y \in {ChainTurn(kp, start, steps, k, z) : z \in {f[k - 1]}} : TRUE]
<1>1. Hashes!Chains(s, kp, start, steps) = w[NumChains]
  BY Zenon DEF Hashes!Chains, Hashes!Loop, ChainTurn
<1>2. \A k, z : HashTurn(q, k, z) = ChainTurn(kp, start, steps, k, z) BY DEF HashTurn
<1>3. w = HashLoop(NumChains, q, s)
  <2> HIDE DEF q
  <2> QED BY <1>2 DEF HashLoop
<1> QED BY <1>1, <1>3

(* The pairs of a row and the rows of l_tree.                                *)
LEMMA PairsLoop ==
  ASSUME NEW s, NEW kp, NEW h, NEW n, n = Hashes!RowLen[h] \div 2
  PROVE  Pairs(kp, h, s) = HashLoop(n, [loop |-> "pairs", kp |-> kp, h |-> h], s)[n]
<1> DEFINE q == [loop |-> "pairs", kp |-> kp, h |-> h]
           w == CHOOSE f : f = [k \in 0..n |->
                  IF k = 0 THEN s
                  ELSE CHOOSE y \in {PairTurn(kp, h, k, z) : z \in {f[k - 1]}} : TRUE]
<1>1. Pairs(kp, h, s) = w[n] BY Zenon DEF Pairs
<1>2. \A k, z : HashTurn(q, k, z) = PairTurn(kp, h, k, z) BY DEF HashTurn
<1>3. w = HashLoop(n, q, s)
  <2> HIDE DEF q
  <2> QED BY <1>2 DEF HashLoop
<1> QED BY <1>1, <1>3

LEMMA LTreeLoop ==
  ASSUME NEW s, NEW kp
  PROVE  Hashes!LTree(s, kp)
           = HashLoop(Hashes!Rows, [loop |-> "rows", kp |-> kp],
                      [s EXCEPT !.addr = Hashes!SetRow(@, 0)])[Hashes!Rows]
<1> DEFINE q == [loop |-> "rows", kp |-> kp]
           x == [s EXCEPT !.addr = Hashes!SetRow(@, 0)]
           w == CHOOSE f : f = [k \in 0..Hashes!Rows |->
                  IF k = 0 THEN x
                  ELSE CHOOSE y \in {RowTurn(kp, k, z) : z \in {f[k - 1]}} : TRUE]
<1>1. Hashes!LTree(s, kp) = w[Hashes!Rows]
  BY Zenon DEF Hashes!LTree, Hashes!Loop, RowTurn, Pairs, PairTurn
<1>2. \A k, z : HashTurn(q, k, z) = RowTurn(kp, k, z) BY DEF HashTurn
<1>3. w = HashLoop(Hashes!Rows, q, x)
  <2> HIDE DEF q, x
  <2> QED BY <1>2 DEF HashLoop
<1> QED BY <1>1, <1>3

(* The sizes.                                                                *)
LEMMA HashSizes ==
  /\ TreeHeight \in Nat \ {0} /\ D \in Nat \ {0} /\ NumChains \in Nat \ {0}
  /\ W \in Nat \ {0} /\ WordBits \in Nat /\ WordBits >= 2
  /\ Pow2[WordBits] \in Nat /\ Pow2[WordBits] >= 1
  /\ D <= Pow2[WordBits] /\ W <= Pow2[WordBits] /\ NumChains < Pow2[WordBits]
  /\ Pow2[TreeHeight] \in Nat /\ Pow2[TreeHeight] >= 1 /\ Pow2[TreeHeight] <= Pow2[WordBits]
  /\ TreeHeight < Pow2[WordBits]
  /\ TreeHeight * (D - 1) <= 2 * WordBits
  /\ Indices \subseteq 0..(Pow2[TreeHeight * D] - 1)
  /\ Digits \subseteq [0..(NumChains - 1) -> 0..(W - 1)]
<1>1. /\ TreeHeight \in Nat \ {0} /\ D \in Nat \ {0} /\ NumChains \in Nat \ {0}
      /\ W \in Nat \ {0} /\ WordBits \in Nat /\ WordBits >= 2 /\ TreeHeight <= WordBits
      /\ D <= Pow2[WordBits] /\ W <= Pow2[WordBits] /\ NumChains < Pow2[WordBits]
      /\ TreeHeight * (D - 1) <= 2 * WordBits
      /\ Indices \subseteq 0..(Pow2[TreeHeight * D] - 1)
      /\ Digits \subseteq [0..(NumChains - 1) -> 0..(W - 1)]
  BY HashesAssumption, HashBits DEF Hashes!SizesAssumption
<1>2. /\ Pow2[WordBits] \in Nat \ {0} /\ Pow2[TreeHeight] \in Nat \ {0}
  BY <1>1, Pow2Recursion
<1>3. Pow2[TreeHeight] <= Pow2[WordBits] BY <1>1, Pow2Monotone
<1>4. TreeHeight < Pow2[TreeHeight]
  <2> DEFINE S == {n \in Nat : n < Pow2[n]}
  <2>1. 0 \in S BY Pow2Recursion
  <2>2. ASSUME NEW n \in Nat, n \in S PROVE n + 1 \in S
    <3>1. Pow2[n] \in Nat /\ Pow2[n + 1] = 2 * Pow2[n] BY Pow2Recursion
    <3> QED BY <2>2, <3>1
  <2>3. Nat \subseteq S
    <3> HIDE DEF S
    <3> QED BY <2>1, <2>2, SetInduction
  <2> QED BY <2>3, <1>1
<1> QED BY <1>1, <1>2, <1>3, <1>4

(* One of the last three words set in the address of s. *)
SetWord(s, w, v) == [s EXCEPT !.addr[w] = v]

(* The address stays in place.                                               *)
LEMMA WordSet ==
  ASSUME NEW s, NEW t, NEW pl, NEW o, Good(s, t, pl, o), NEW w \in 5..7, NEW v \in Word
  PROVE  LET n == SetWord(s, w, v) IN
         /\ Good(n, t, pl, o) /\ n.addr[w] = v /\ \A u \in 5..7 : u # w => n.addr[u] = s.addr[u]
<1>1. PICK a : a = s.addr OBVIOUS
<1>2. PICK b : b = [a EXCEPT ![w] = v] OBVIOUS
<1>3. SetWord(s, w, v) = [addr |-> b, prfs |-> s.prfs] BY <1>1, <1>2 DEF Good, SetWord
<1>4. a \in HashAddr BY <1>1 DEF Good, InPlace
<1>5. b \in HashAddr /\ b[w] = v /\ \A u \in 0..7 : u # w => b[u] = a[u]
  BY <1>2, <1>4 DEF HashAddr
<1>6. InPlace(b, t, pl, o) BY <1>1, <1>5 DEF Good, InPlace
<1> QED BY <1>1, <1>2, <1>3, <1>5, <1>6 DEF Good

(* A call of prf in place is where its words say.                            *)
LEMMA CallAt ==
  ASSUME NEW s, NEW t, NEW pl, NEW o, Good(s, t, pl, o), NEW k
  PROVE  [s.addr EXCEPT ![7] = k] = WordsOf(pl, t, o, s.addr[5], s.addr[6], k)
<1>1. PICK a : a = [s.addr EXCEPT ![7] = k] OBVIOUS
<1>2. /\ a = [w \in 0..7 |-> a[w]] /\ a[7] = k /\ \A w \in 0..6 : a[w] = s.addr[w]
  BY <1>1 DEF Good, InPlace, HashAddr
<1>3. /\ a[0] = pl[1] /\ a[1] = Shr(pl[2], WordBits) /\ a[2] = pl[2] % Pow2[WordBits]
      /\ a[3] = t /\ a[4] = o /\ a[5] = s.addr[5] /\ a[6] = s.addr[6]
  BY <1>2 DEF Good, InPlace
<1>4. a = WordsOf(pl, t, o, s.addr[5], s.addr[6], k) BY ONLY <1>2, <1>3, IsWords
<1> QED BY <1>1, <1>4

(* A sequence and one more.                                                  *)
LEMMA OneMore ==
  ASSUME NEW S, NEW s \in Seq(S), NEW e \in S
  PROVE  /\ Append(s, e) \in Seq(S) /\ Len(Append(s, e)) = Len(s) + 1
         /\ \A k \in 1..Len(s) : Append(s, e)[k] = s[k]
         /\ Append(s, e)[Len(s) + 1] = e
OBVIOUS

(* What a call is for, with the number of the key or mask. *)
LEMMA WithMask ==
  ASSUME NEW a, NEW b, NEW c, NEW d, NEW e
  PROVE  Append(<<a, b, c, d>>, e) = <<a, b, c, d, e>>
<1>1. PICK s : s = <<a, b, c, d>> OBVIOUS
<1>2. PICK r : r = <<a, b, c, d, e>> OBVIOUS
<1>3. PICK S : S = {a, b, c, d, e} OBVIOUS
<1>4. s \in Seq(S) BY <1>1, <1>3
<1>5. e \in S BY <1>3
<1>6. Len(s) = 4 /\ s[1] = a /\ s[2] = b /\ s[3] = c /\ s[4] = d BY <1>1
<1>7. /\ r \in Seq(S) /\ Len(r) = 5
      /\ r[1] = a /\ r[2] = b /\ r[3] = c /\ r[4] = d /\ r[5] = e
  BY <1>2, <1>3
<1>8. PICK n : n = Append(s, e) OBVIOUS
<1>9. /\ n \in Seq(S) /\ Len(n) = Len(s) + 1 /\ n[Len(s) + 1] = e
      /\ \A k \in 1..Len(s) : n[k] = s[k]
  BY ONLY <1>4, <1>5, <1>8, OneMore
<1>10. Len(n) = 5 /\ n[1] = a /\ n[2] = b /\ n[3] = c /\ n[4] = d /\ n[5] = e
  BY <1>6, <1>9
<1>11. \A k \in 1..5 : k \in {1, 2, 3, 4, 5} OBVIOUS
<1>12. \A k \in 1..Len(n) : n[k] = r[k] BY <1>7, <1>10, <1>11
<1>13. n = r BY ONLY <1>7, <1>9, <1>10, <1>12, SeqEqual
<1> QED BY <1>1, <1>2, <1>8, <1>13

(* gen_chain.                                                                *)
LEMMA GenChainGood ==
  ASSUME NEW kp \in KeyPairs, NEW s, Good(s, 0, kp, kp[3]), NEW c \in Nat, s.addr[5] = c,
         NEW start \in Nat, NEW steps \in Nat, start + steps <= Pow2[WordBits]
  PROVE  Good(Hashes!GenChain(s, kp, c, start, steps), 0, kp, kp[3])
<1> DEFINE q == [loop |-> "steps", kp |-> kp, c |-> c, start |-> start]
<1>1. PICK g : g = HashLoop(steps, q, s) OBVIOUS
<1>2. /\ g[0] = s /\ \A k \in 1..steps : g[k] = HashTurn(q, k, g[k - 1])
      /\ Hashes!GenChain(s, kp, c, start, steps) = g[steps]
  <2> HIDE DEF q
  <2>1. g[0] = s /\ \A k \in 1..steps : g[k] = HashTurn(q, k, g[k - 1])
    BY <1>1, HashLoopTurns
  <2>2. Hashes!GenChain(s, kp, c, start, steps) = g[steps] BY <1>1, GenChainLoop DEF q
  <2> QED BY <2>1, <2>2
<1>3. \A k, z : HashTurn(q, k, z) = StepTurn(kp, c, start, k, z) BY DEF HashTurn
<1> HIDE DEF q
<1> DEFINE P == {k \in Nat : Good(g[k], 0, kp, kp[3]) /\ g[k].addr[5] = c}
<1>4. ASSUME NEW k \in 0..(steps - 1), k \in P PROVE k + 1 \in P
  <2> DEFINE v == start + (k + 1 - 1)
             x == SetWord(g[k], 6, v)
             what == <<"chain", kp, c, v>>
  <2>1. k + 1 \in 1..steps /\ k + 1 - 1 = k /\ v = start + k OBVIOUS
  <2>2. g[k + 1] = Hashes!Thash(x, what, 1)
    <3>1. g[k + 1] = StepTurn(kp, c, start, k + 1, g[k]) BY <1>2, <1>3, <2>1
    <3> QED BY <3>1 DEF StepTurn, Hashes!ThashF, Hashes!HashWord, SetWord
  <2>3. v \in Word
    <3>1. Pow2[WordBits] \in Nat BY HashSizes
    <3> QED BY <3>1, <2>1 DEF Word
  <2>4. /\ Good(x, 0, kp, kp[3]) /\ x.addr[5] = c /\ x.addr[6] = v
    <3>1. Good(g[k], 0, kp, kp[3]) /\ g[k].addr[5] = c BY <1>4
    <3>2. 6 \in 5..7 /\ 5 \in 5..7 /\ 5 # 6 OBVIOUS
    <3> HIDE DEF v
    <3> QED BY <3>1, <3>2, <2>3, WordSet
  <2> HIDE DEF x, v
  <2>5. ASSUME NEW m \in 0..1
        PROVE  Lawful([for |-> Append(what, m), at |-> [x.addr EXCEPT ![7] = m]])
    <3>1. [x.addr EXCEPT ![7] = m] = WordsOf(kp, 0, kp[3], c, v, m) BY <2>4, CallAt
    <3>2. Append(what, m) = <<"chain", kp, c, v, m>> BY WithMask
    <3>3. v \in Nat /\ m \in Nat BY <2>1 DEF v
    <3>4. [for |-> Append(what, m), at |-> [x.addr EXCEPT ![7] = m]] = ChainHash(kp, c, v, m)
      BY ONLY <3>1, <3>2 DEF ChainHash
    <3> HIDE DEF what
    <3> QED BY <3>3, <3>4 DEF Lawful
  <2> HIDE DEF what
  <2>6. Good(g[k + 1], 0, kp, kp[3]) /\ g[k + 1].addr[5] = x.addr[5]
    <3>1. 1 \in 0..2 /\ WordBits \in Nat /\ WordBits >= 2 BY HashSizes
    <3>2. InOrder(x, what, 1) BY <2>5 DEF InOrder
    <3>3. Good(x, 0, kp, kp[3]) BY <2>4
    <3> QED BY ONLY <2>2, <3>1, <3>2, <3>3, ThashGood
  <2> QED BY <2>4, <2>6
<1>5. 0 \in P BY <1>2
<1>6. steps \in P
  <2>1. P \subseteq Nat OBVIOUS
  <2> HIDE DEF P
  <2> QED BY <2>1, <1>4, <1>5, TurnByTurn
<1> QED BY <1>2, <1>6

(* The chains of a one-time signature, each from where it is to where it goes. *)
LEMMA ChainsGood ==
  ASSUME NEW kp \in KeyPairs, NEW s, Good(s, 0, kp, kp[3]), NEW start, NEW steps,
         \A c \in 0..(NumChains - 1) :
           start[c] \in Nat /\ steps[c] \in Nat /\ start[c] + steps[c] <= Pow2[WordBits]
  PROVE  Good(Hashes!Chains(s, kp, start, steps), 0, kp, kp[3])
<1> DEFINE q == [loop |-> "chains", kp |-> kp, start |-> start, steps |-> steps]
<1>1. PICK g : g = HashLoop(NumChains, q, s) OBVIOUS
<1>2. NumChains \in Nat BY HashSizes
<1>3. /\ g[0] = s /\ \A k \in 1..NumChains : g[k] = HashTurn(q, k, g[k - 1])
      /\ Hashes!Chains(s, kp, start, steps) = g[NumChains]
  <2> HIDE DEF q
  <2>1. g[0] = s /\ \A k \in 1..NumChains : g[k] = HashTurn(q, k, g[k - 1])
    BY <1>1, <1>2, HashLoopTurns
  <2>2. Hashes!Chains(s, kp, start, steps) = g[NumChains] BY <1>1, ChainsLoop DEF q
  <2> QED BY <2>1, <2>2
<1>4. \A k, z : HashTurn(q, k, z) = ChainTurn(kp, start, steps, k, z) BY DEF HashTurn
<1> HIDE DEF q
<1> DEFINE P == {k \in Nat : Good(g[k], 0, kp, kp[3])}
<1>5. ASSUME NEW k \in 0..(NumChains - 1), k \in P PROVE k + 1 \in P
  <2> DEFINE x == SetWord(g[k], 5, k)
  <2>1. k + 1 \in 1..NumChains /\ k + 1 - 1 = k BY <1>2
  <2>2. g[k + 1] = Hashes!GenChain(x, kp, k, start[k], steps[k])
    <3>1. g[k + 1] = ChainTurn(kp, start, steps, k + 1, g[k]) BY <1>3, <1>4, <2>1
    <3> QED BY <3>1, <2>1 DEF ChainTurn, Hashes!ChainWord, SetWord
  <2>3. k \in Word
    <3>1. Pow2[WordBits] \in Nat /\ NumChains < Pow2[WordBits] BY HashSizes
    <3> QED BY <3>1, <1>2 DEF Word
  <2>4. Good(x, 0, kp, kp[3]) /\ x.addr[5] = k
    <3>1. Good(g[k], 0, kp, kp[3]) BY <1>5
    <3>2. 5 \in 5..7 OBVIOUS
    <3> QED BY <3>1, <3>2, <2>3, WordSet
  <2> HIDE DEF x
  <2>5. k \in Nat /\ start[k] \in Nat /\ steps[k] \in Nat /\ start[k] + steps[k] <= Pow2[WordBits]
    OBVIOUS
  <2>6. Good(g[k + 1], 0, kp, kp[3]) BY <2>2, <2>4, <2>5, GenChainGood
  <2> QED BY <2>6
<1>6. 0 \in P BY <1>3
<1>7. NumChains \in P
  <2>1. P \subseteq Nat OBVIOUS
  <2> HIDE DEF P
  <2> QED BY <2>1, <1>2, <1>5, <1>6, TurnByTurn
<1> QED BY <1>3, <1>7

-----------------------------------------------------------------------------
\* The rows of l_tree.

(* g holds the lengths of the rows up to n. *)
Shrinking(n, g) == g = [k \in 0..n |-> IF k = 0 THEN NumChains ELSE (g[k - 1] + 1) \div 2]

(* The recursion can be carried out for any number of rows.                  *)
LEMMA ShrinkingExists == \A n \in Nat : \E g : Shrinking(n, g)
<1> DEFINE S == {n \in Nat : \E g : Shrinking(n, g)}
<1>1. 0 \in S
  <2>1. Shrinking(0, [h \in 0..0 |-> NumChains]) BY DEF Shrinking
  <2> QED BY <2>1
<1>2. ASSUME NEW n \in Nat, n \in S PROVE n + 1 \in S
  <2>1. PICK g : Shrinking(n, g) BY <1>2
  <2> DEFINE f == [k \in 0..(n + 1) |-> IF k = n + 1 THEN (g[n] + 1) \div 2 ELSE g[k]]
  <2>2. ASSUME NEW k \in 0..(n + 1)
        PROVE  f[k] = IF k = 0 THEN NumChains ELSE (f[k - 1] + 1) \div 2
    <3>1. CASE k = n + 1
      <4>1. k # 0 /\ k - 1 = n /\ n \in 0..(n + 1) /\ n # n + 1 BY <3>1
      <4>2. f[k] = (g[n] + 1) \div 2 BY <3>1
      <4>3. f[n] = g[n] BY <4>1
      <4> QED BY <4>1, <4>2, <4>3, <3>1
    <3>2. CASE k # n + 1
      <4>1. k \in 0..n BY <3>2
      <4>2. f[k] = g[k] BY <3>2
      <4>3. g[k] = IF k = 0 THEN NumChains ELSE (g[k - 1] + 1) \div 2
        BY <2>1, <4>1 DEF Shrinking
      <4>4. k # 0 => f[k - 1] = g[k - 1] BY <4>1
      <4> QED BY <4>2, <4>3, <4>4
    <3> QED BY <3>1, <3>2
  <2>3. f = [k \in 0..(n + 1) |-> f[k]] OBVIOUS
  <2>4. Shrinking(n + 1, f)
    <3> HIDE DEF f
    <3> QED BY <2>2, <2>3 DEF Shrinking
  <2> QED BY <2>4
<1>3. Nat \subseteq S
  <2> HIDE DEF S
  <2> QED BY <1>1, <1>2, SetInduction
<1> QED BY <1>3

(* It gives the same lengths however far it is carried.                      *)
LEMMA ShrinkingUnique ==
  ASSUME NEW m \in Nat, NEW n \in Nat, m <= n, NEW g, NEW f, Shrinking(m, g), Shrinking(n, f)
  PROVE  g[m] = f[m]
<1> DEFINE S == {k \in Nat : k <= m => g[k] = f[k]}
<1>1. 0 \in S
  <2>1. 0 \in 0..m /\ 0 \in 0..n OBVIOUS
  <2>2. g[0] = NumChains /\ f[0] = NumChains BY <2>1 DEF Shrinking
  <2> QED BY <2>2
<1>2. ASSUME NEW k \in Nat, k \in S PROVE k + 1 \in S
  <2> SUFFICES ASSUME k + 1 <= m PROVE g[k + 1] = f[k + 1] OBVIOUS
  <2>1. k + 1 \in 0..m /\ k + 1 \in 0..n /\ k + 1 # 0 /\ (k + 1) - 1 = k OBVIOUS
  <2>2. g[k + 1] = (g[k] + 1) \div 2 /\ f[k + 1] = (f[k] + 1) \div 2
    BY <2>1 DEF Shrinking
  <2>3. g[k] = f[k] BY <1>2
  <2> QED BY <2>2, <2>3
<1>3. Nat \subseteq S
  <2> HIDE DEF S
  <2> QED BY <1>1, <1>2, SetInduction
<1> QED BY <1>3

(* What the recursive definition of RowLen says.                             *)
LEMMA RowLenRecursion ==
  /\ Hashes!RowLen[0] = NumChains
  /\ \A n \in Nat : Hashes!RowLen[n + 1] = (Hashes!RowLen[n] + 1) \div 2
<1> DEFINE Upto(n) == CHOOSE g : Shrinking(n, g)
           F == [n \in Nat |-> Upto(n)[n]]
<1>1. \A n \in Nat : Shrinking(n, Upto(n)) BY ShrinkingExists
<1>3. F[0] = NumChains
  <2>1. Shrinking(0, Upto(0)) BY <1>1
  <2> HIDE DEF Upto
  <2>2. Upto(0)[0] = NumChains
    <3>1. 0 \in 0..0 OBVIOUS
    <3> QED BY <2>1, <3>1 DEF Shrinking
  <2> QED BY <2>2
<1>4. ASSUME NEW n \in Nat PROVE F[n + 1] = (F[n] + 1) \div 2
  <2>1. Shrinking(n, Upto(n)) /\ Shrinking(n + 1, Upto(n + 1)) BY <1>1
  <2>2. n <= n + 1 OBVIOUS
  <2>3. Upto(n)[n] = Upto(n + 1)[n]
    <3> HIDE DEF Upto
    <3> QED BY <2>1, <2>2, ShrinkingUnique
  <2>4. n + 1 \in 0..(n + 1) /\ n + 1 # 0 /\ (n + 1) - 1 = n OBVIOUS
  <2>5. Upto(n + 1)[n + 1] = (Upto(n + 1)[n] + 1) \div 2
    <3> HIDE DEF Upto
    <3> QED BY <2>1, <2>4 DEF Shrinking
  <2> QED BY <2>3, <2>5
<1>5. F = [n \in Nat |-> IF n = 0 THEN NumChains ELSE (F[n - 1] + 1) \div 2]
  <2>1. ASSUME NEW n \in Nat
        PROVE  F[n] = IF n = 0 THEN NumChains ELSE (F[n - 1] + 1) \div 2
    <3>1. CASE n = 0 BY <3>1, <1>3
    <3>2. CASE n # 0
      <4>1. n - 1 \in Nat /\ (n - 1) + 1 = n BY <3>2
      <4> HIDE DEF F
      <4> QED BY <4>1, <3>2, <1>4
    <3> QED BY <3>1, <3>2
  <2>2. F = [n \in Nat |-> F[n]] OBVIOUS
  <2> HIDE DEF F
  <2> QED BY <2>1, <2>2
<1>6. Hashes!RowLen = [n \in Nat |-> IF n = 0 THEN NumChains
                                     ELSE (Hashes!RowLen[n - 1] + 1) \div 2]
  <2> HIDE DEF F
  <2> QED BY <1>5 DEF Hashes!RowLen
<1>7. \A n \in Nat : Hashes!RowLen[n] = IF n = 0 THEN NumChains
                                        ELSE (Hashes!RowLen[n - 1] + 1) \div 2
  BY ONLY <1>6
<1>8. Hashes!RowLen[0] = NumChains BY ONLY <1>7
<1>9. ASSUME NEW n \in Nat PROVE Hashes!RowLen[n + 1] = (Hashes!RowLen[n] + 1) \div 2
  <2>1. n + 1 \in Nat /\ n + 1 # 0 /\ (n + 1) - 1 = n OBVIOUS
  <2> QED BY ONLY <1>7, <2>1
<1> QED BY <1>8, <1>9

(* No row is longer than the first, and one of the first NumChains is the     *)
(* root.                                                                     *)
LEMMA RowsRange ==
  /\ \A h \in Nat : Hashes!RowLen[h] \in 1..NumChains
  /\ Hashes!Rows \in 0..NumChains
<1>1. NumChains \in Nat \ {0} BY HashSizes
<1> DEFINE r == Hashes!RowLen
           S == {h \in Nat : r[h] \in 1..NumChains}
           T == {h \in Nat : h <= NumChains - 1 => r[h] <= NumChains - h}
<1>2. r[0] = NumChains /\ \A n \in Nat : r[n + 1] = (r[n] + 1) \div 2 BY RowLenRecursion
<1> HIDE DEF r
<1>3. Nat \subseteq S
  <2>1. 0 \in S BY <1>1, <1>2
  <2>2. ASSUME NEW n \in Nat, n \in S PROVE n + 1 \in S
    <3>1. PICK x : x = r[n] OBVIOUS
    <3>2. x \in 1..NumChains BY <3>1, <2>2
    <3>3. (x + 1) \div 2 \in 1..NumChains BY ONLY <3>2, <1>1
    <3> QED BY <3>1, <3>3, <1>2
  <2> HIDE DEF S
  <2> QED BY <2>1, <2>2, SetInduction
<1>4. \A h \in Nat : r[h] \in 1..NumChains BY <1>3
<1>5. Nat \subseteq T
  <2>1. 0 \in T BY <1>1, <1>2
  <2>2. ASSUME NEW n \in Nat, n \in T PROVE n + 1 \in T
    <3> SUFFICES ASSUME n + 1 <= NumChains - 1 PROVE r[n + 1] <= NumChains - (n + 1) OBVIOUS
    <3>1. PICK x : x = r[n] OBVIOUS
    <3>2. x \in 1..NumChains /\ x <= NumChains - n BY <3>1, <2>2, <1>4, <1>1
    <3>3. (x + 1) \div 2 <= NumChains - (n + 1)
      BY ONLY <3>2, <1>1, n + 1 <= NumChains - 1, n \in Nat
    <3> QED BY <3>1, <3>3, <1>2
  <2> HIDE DEF T
  <2> QED BY <2>1, <2>2, SetInduction
<1>6. r[NumChains - 1] = 1
  <2>1. PICK m : m = NumChains - 1 OBVIOUS
  <2>2. m \in Nat /\ m <= NumChains - 1 /\ NumChains - m = 1 BY <2>1, <1>1
  <2>3. r[m] <= 1 BY <2>2, <1>5
  <2> QED BY <2>1, <2>2, <2>3, <1>4
<1> DEFINE Roots == {h \in Nat : r[h] = 1}
<1>7. PICK h \in Roots : \A k \in Roots : h <= k
  <2>1. NumChains - 1 \in Roots BY <1>1, <1>6
  <2>2. Roots \subseteq Nat OBVIOUS
  <2> HIDE DEF Roots
  <2> QED BY <2>1, <2>2, LeastNumber
<1>8. h \in 0..NumChains BY <1>1, <1>6, <1>7
<1>9. \A g \in 0..(h - 1) : r[g] > 1
  <2> TAKE g \in 0..(h - 1)
  <2>1. g \in Nat /\ g < h BY <1>8
  <2>2. g \notin Roots BY <2>1, <1>7, <1>8
  <2> QED BY <2>1, <2>2, <1>4, <1>1
<1>10. \E k \in 0..NumChains : r[k] = 1 /\ \A g \in 0..(k - 1) : r[g] > 1 BY <1>7, <1>8, <1>9
<1>11. Hashes!Rows \in 0..NumChains BY <1>10 DEF Hashes!Rows, r
<1> QED BY <1>4, <1>11 DEF r

(* The pairs of row h, whose number is in the address.                       *)
LEMMA PairsGood ==
  ASSUME NEW kp \in KeyPairs, NEW s, Good(s, 1, kp, kp[3]), NEW h \in Nat, s.addr[5] = h
  PROVE  Good(Pairs(kp, h, s), 1, kp, kp[3])
<1> DEFINE q == [loop |-> "pairs", kp |-> kp, h |-> h]
<1>1. PICK n : n = Hashes!RowLen[h] \div 2 OBVIOUS
<1>2. n \in Nat /\ n <= NumChains
  <2>1. PICK r : r = Hashes!RowLen[h] OBVIOUS
  <2>2. r \in 1..NumChains /\ NumChains \in Nat BY <2>1, RowsRange, HashSizes
  <2> QED BY <1>1, <2>1, <2>2
<1>3. PICK g : g = HashLoop(n, q, s) OBVIOUS
<1>4. /\ g[0] = s /\ \A k \in 1..n : g[k] = HashTurn(q, k, g[k - 1])
      /\ Pairs(kp, h, s) = g[n]
  <2> HIDE DEF q
  <2>1. g[0] = s /\ \A k \in 1..n : g[k] = HashTurn(q, k, g[k - 1])
    BY <1>2, <1>3, HashLoopTurns
  <2>2. Pairs(kp, h, s) = g[n] BY <1>1, <1>3, PairsLoop DEF q
  <2> QED BY <2>1, <2>2
<1>5. \A k, z : HashTurn(q, k, z) = PairTurn(kp, h, k, z) BY DEF HashTurn
<1> HIDE DEF q
<1> DEFINE P == {k \in Nat : Good(g[k], 1, kp, kp[3]) /\ g[k].addr[5] = h}
<1>6. ASSUME NEW k \in 0..(n - 1), k \in P PROVE k + 1 \in P
  <2> DEFINE x == SetWord(g[k], 6, k)
             what == <<"ltree", kp, h, k>>
  <2>1. k + 1 \in 1..n /\ k + 1 - 1 = k BY <1>2
  <2>2. g[k + 1] = Hashes!Thash(x, what, 2)
    <3>1. g[k + 1] = PairTurn(kp, h, k + 1, g[k]) BY <1>4, <1>5, <2>1
    <3> QED BY <3>1, <2>1 DEF PairTurn, Hashes!ThashH, Hashes!IndexWord, SetWord
  <2>3. k \in Word
    <3>1. Pow2[WordBits] \in Nat /\ NumChains < Pow2[WordBits] /\ NumChains \in Nat BY HashSizes
    <3> QED BY <3>1, <1>2 DEF Word
  <2>4. Good(x, 1, kp, kp[3]) /\ x.addr[5] = h /\ x.addr[6] = k
    <3>1. Good(g[k], 1, kp, kp[3]) /\ g[k].addr[5] = h BY <1>6
    <3>2. 6 \in 5..7 /\ 5 \in 5..7 /\ 5 # 6 OBVIOUS
    <3> QED BY <3>1, <3>2, <2>3, WordSet
  <2> HIDE DEF x
  <2>5. ASSUME NEW m \in 0..2
        PROVE  Lawful([for |-> Append(what, m), at |-> [x.addr EXCEPT ![7] = m]])
    <3>1. [x.addr EXCEPT ![7] = m] = WordsOf(kp, 1, kp[3], h, k, m) BY <2>4, CallAt
    <3>2. Append(what, m) = <<"ltree", kp, h, k, m>> BY WithMask
    <3>3. k \in Nat /\ m \in Nat OBVIOUS
    <3>4. [for |-> Append(what, m), at |-> [x.addr EXCEPT ![7] = m]] = LTreeHash(kp, h, k, m)
      BY ONLY <3>1, <3>2 DEF LTreeHash
    <3> HIDE DEF what
    <3> QED BY <3>3, <3>4 DEF Lawful
  <2> HIDE DEF what
  <2>6. Good(g[k + 1], 1, kp, kp[3]) /\ g[k + 1].addr[5] = x.addr[5]
    <3>1. 2 \in 0..2 /\ WordBits \in Nat /\ WordBits >= 2 BY HashSizes
    <3>2. InOrder(x, what, 2) BY <2>5 DEF InOrder
    <3>3. Good(x, 1, kp, kp[3]) BY <2>4
    <3> QED BY ONLY <2>2, <3>1, <3>2, <3>3, ThashGood
  <2> QED BY <2>4, <2>6
<1>7. 0 \in P BY <1>4
<1>8. n \in P
  <2>1. P \subseteq Nat OBVIOUS
  <2> HIDE DEF P
  <2> QED BY <2>1, <1>2, <1>6, <1>7, TurnByTurn
<1> QED BY <1>4, <1>8

(* set_tree_height and set_tree_index.                                       *)
LEMMA NodeSet ==
  ASSUME NEW a, NEW t, NEW pl, NEW o, InPlace(a, t, pl, o), NEW f \in Word, NEW g \in Word
  PROVE  LET b == Hashes!SetTreeNode(a, f, g) IN
         InPlace(b, t, pl, o) /\ b[5] = f /\ b[6] = g
<1>1. PICK b : b = Hashes!SetTreeNode(a, f, g) OBVIOUS
<1>2. b = [[a EXCEPT ![5] = f] EXCEPT ![6] = g]
  BY <1>1 DEF Hashes!SetTreeNode, Hashes!HeightWord, Hashes!IndexWord
<1>3. a \in HashAddr BY DEF InPlace
<1>4. b \in HashAddr /\ b[5] = f /\ b[6] = g /\ \A u \in 0..4 : b[u] = a[u]
  BY <1>2, <1>3 DEF HashAddr
<1>5. InPlace(b, t, pl, o) BY <1>4 DEF InPlace
<1> QED BY <1>1, <1>4, <1>5

(* The same as a step of a loop. *)
SetNode(s, f, g) == [s EXCEPT !.addr = Hashes!SetTreeNode(@, f, g)]

(* Its address is so set.                                                    *)
LEMMA SetNodeGood ==
  ASSUME NEW s, NEW t, NEW pl, NEW o, Good(s, t, pl, o), NEW f \in Word, NEW g \in Word
  PROVE  LET n == SetNode(s, f, g) IN
         Good(n, t, pl, o) /\ n.addr[5] = f /\ n.addr[6] = g
<1>1. PICK b : b = Hashes!SetTreeNode(s.addr, f, g) OBVIOUS
<1>2. InPlace(b, t, pl, o) /\ b[5] = f /\ b[6] = g BY <1>1, NodeSet DEF Good
<1>3. SetNode(s, f, g) = [addr |-> b, prfs |-> s.prfs] BY <1>1 DEF SetNode, Good
<1> QED BY <1>2, <1>3 DEF Good

(* l_tree.                                                                   *)
LEMMA LTreeGood ==
  ASSUME NEW kp \in KeyPairs, NEW s, Good(s, 1, kp, kp[3])
  PROVE  Good(Hashes!LTree(s, kp), 1, kp, kp[3])
<1> DEFINE q == [loop |-> "rows", kp |-> kp]
           RowSet(x, h) == [x EXCEPT !.addr = Hashes!SetRow(@, h)]
<1>1. PICK n : n = Hashes!Rows OBVIOUS
<1>2. n \in 0..NumChains BY <1>1, RowsRange
<1>3. PICK x : x = RowSet(s, 0) OBVIOUS
<1>4. PICK g : g = HashLoop(n, q, x) OBVIOUS
<1>5. /\ g[0] = x /\ \A k \in 1..n : g[k] = HashTurn(q, k, g[k - 1])
      /\ Hashes!LTree(s, kp) = g[n]
  <2>1. g[0] = x /\ \A k \in 1..n : g[k] = HashTurn(q, k, g[k - 1])
    <3> HIDE DEF q
    <3>1. n \in Nat BY <1>2
    <3> QED BY <3>1, <1>4, HashLoopTurns
  <2>2. Hashes!LTree(s, kp) = g[n] BY <1>1, <1>3, <1>4, LTreeLoop
  <2> QED BY <2>1, <2>2
<1>6. \A k, z : HashTurn(q, k, z) = RowTurn(kp, k, z) BY DEF HashTurn
<1> HIDE DEF q
<1>7. ASSUME NEW y, Good(y, 1, kp, kp[3]), NEW h \in 0..NumChains
      PROVE  Good(RowSet(y, h), 1, kp, kp[3]) /\ RowSet(y, h).addr[5] = h
  <2>1. h \in Word
    <3>1. Pow2[WordBits] \in Nat /\ NumChains < Pow2[WordBits] /\ NumChains \in Nat BY HashSizes
    <3> QED BY <3>1 DEF Word
  <2>2. PICK v : v = y.addr[6] OBVIOUS
  <2>3. v \in Word
    <3>1. y.addr \in HashAddr BY <1>7 DEF Good, InPlace
    <3> QED BY <2>2, <3>1 DEF HashAddr
  <2>4. RowSet(y, h) = SetNode(y, h, v)
    BY <2>2 DEF SetNode, Hashes!SetRow, Hashes!IndexWord
  <2> HIDE DEF RowSet
  <2> QED BY <1>7, <2>1, <2>3, <2>4, SetNodeGood
<1> DEFINE P == {k \in Nat : Good(g[k], 1, kp, kp[3]) /\ g[k].addr[5] = k}
<1>8. ASSUME NEW k \in 0..(n - 1), k \in P PROVE k + 1 \in P
  <2>1. k + 1 \in 1..n /\ k + 1 - 1 = k /\ k + 1 \in 0..NumChains /\ k \in Nat
    <3>1. NumChains \in Nat BY HashSizes
    <3> QED BY <3>1, <1>2
  <2>2. g[k + 1] = RowSet(Pairs(kp, k, g[k]), k + 1)
    <3>1. g[k + 1] = RowTurn(kp, k + 1, g[k]) BY <1>5, <1>6, <2>1
    <3> QED BY <3>1, <2>1 DEF RowTurn
  <2>3. Good(g[k], 1, kp, kp[3]) /\ g[k].addr[5] = k BY <1>8
  <2>4. Good(Pairs(kp, k, g[k]), 1, kp, kp[3]) BY <2>1, <2>3, PairsGood
  <2> HIDE DEF RowSet
  <2>5. Good(g[k + 1], 1, kp, kp[3]) /\ g[k + 1].addr[5] = k + 1
    BY <2>1, <2>2, <2>4, <1>7
  <2> QED BY <2>5, <2>1
<1>9. 0 \in P
  <2>1. 0 \in 0..NumChains BY HashSizes
  <2>3. x = RowSet(s, 0) BY <1>3
  <2> HIDE DEF RowSet
  <2>4. Good(RowSet(s, 0), 1, kp, kp[3]) /\ RowSet(s, 0).addr[5] = 0 BY <2>1, <1>7
  <2>2. Good(x, 1, kp, kp[3]) /\ x.addr[5] = 0 BY <2>3, <2>4
  <2> QED BY <2>2, <1>5
<1>10. n \in P
  <2>1. P \subseteq Nat /\ n \in Nat BY <1>2
  <2> HIDE DEF P
  <2> QED BY <2>1, <1>8, <1>9, TurnByTurn
<1> QED BY <1>5, <1>10

(* A node of a tree, hashed under its place.                                 *)
LEMMA NodeHashed ==
  ASSUME NEW pl \in Nat \X Nat, NEW s, Good(s, 2, pl, 0), NEW h \in Nat, NEW j \in Nat,
         s.addr[5] = h, s.addr[6] = j
  PROVE  Good(Hashes!ThashH(s, <<"tree", pl, h + 1, j>>), 2, pl, 0)
<1> DEFINE what == <<"tree", pl, h + 1, j>>
<1>1. ASSUME NEW m \in 0..2
      PROVE  Lawful([for |-> Append(what, m), at |-> [s.addr EXCEPT ![7] = m]])
  <2>1. [s.addr EXCEPT ![7] = m] = WordsOf(pl, 2, 0, h, j, m)
    <3>1. [s.addr EXCEPT ![7] = m] = WordsOf(pl, 2, 0, s.addr[5], s.addr[6], m)
      BY ONLY Good(s, 2, pl, 0), CallAt
    <3> QED BY <3>1
  <2>2. Append(what, m) = <<"tree", pl, h + 1, j, m>> BY WithMask
  <2>3. m \in Nat OBVIOUS
  <2>4. [for |-> Append(what, m), at |-> [s.addr EXCEPT ![7] = m]] = TreeHash(pl, h, j, m)
    BY ONLY <2>1, <2>2 DEF TreeHash
  <2> HIDE DEF what
  <2> QED BY <2>3, <2>4 DEF Lawful
<1> HIDE DEF what
<1>2. 2 \in 0..2 /\ WordBits \in Nat /\ WordBits >= 2 BY HashSizes
<1>3. InOrder(s, what, 2) BY <1>1 DEF InOrder
<1>4. Good(Hashes!Thash(s, what, 2), 2, pl, 0) BY ONLY <1>2, <1>3, Good(s, 2, pl, 0), ThashGood
<1> QED BY <1>4 DEF Hashes!ThashH, what

(* compute_root, as the loop that OpenLayer runs.                            *)
LEMMA ClimbGood ==
  ASSUME NEW pl \in Nat \X Nat, NEW s, Good(s, 2, pl, 0), NEW lf \in 0..(Pow2[TreeHeight] - 1)
  PROVE  Good(HashLoop(TreeHeight, [loop |-> "climb", pl |-> pl, lf |-> lf], s)[TreeHeight],
              2, pl, 0)
<1> DEFINE q == [loop |-> "climb", pl |-> pl, lf |-> lf]
<1>1. PICK g : g = HashLoop(TreeHeight, q, s) OBVIOUS
<1>2. /\ TreeHeight \in Nat /\ TreeHeight < Pow2[WordBits] /\ Pow2[WordBits] \in Nat
      /\ Pow2[TreeHeight] \in Nat /\ Pow2[TreeHeight] <= Pow2[WordBits]
  BY HashSizes
<1>3. g[0] = s /\ \A k \in 1..TreeHeight : g[k] = HashTurn(q, k, g[k - 1])
  <2> HIDE DEF q
  <2> QED BY <1>1, <1>2, HashLoopTurns
<1>4. \A k, z : HashTurn(q, k, z) = ClimbTurn(pl, lf, k, z) BY DEF HashTurn
<1> HIDE DEF q
<1> DEFINE P == {k \in Nat : Good(g[k], 2, pl, 0)}
<1>5. ASSUME NEW k \in 0..(TreeHeight - 1), k \in P PROVE k + 1 \in P
  <2>1. k + 1 \in 1..TreeHeight /\ k + 1 - 1 = k /\ k \in Nat /\ k \in Word
    BY <1>2 DEF Word
  <2>2. PICK j : j = Shr(lf, k + 1) OBVIOUS
  <2>3. j \in Nat /\ j <= lf
    <3>1. lf \in Nat /\ k + 1 \in Nat BY <1>2
    <3>2. j \in Nat BY <2>2, <3>1, ShrHalves
    <3>3. PICK t : t = Pow2[k + 1] OBVIOUS
    <3>4. t \in Nat \ {0} BY <3>1, <3>3, Pow2Recursion
    <3>5. j = lf \div t BY <2>2, <3>3 DEF Shr
    <3>6. lf \div t <= lf BY ONLY <3>1, <3>4
    <3> QED BY <3>2, <3>5, <3>6
  <2>4. j \in Word BY <2>3, <1>2 DEF Word
  <2>5. g[k + 1] = Hashes!ThashH(SetNode(g[k], k, j), <<"tree", pl, k + 1, j>>)
    <3>1. g[k + 1] = ClimbTurn(pl, lf, k + 1, g[k]) BY <1>3, <1>4, <2>1
    <3>2. Hashes!Shr(lf, k + 1) = j BY <2>2, HashBits
    <3> QED BY <3>1, <3>2, <2>1 DEF ClimbTurn, SetNode
  <2>6. PICK x : x = SetNode(g[k], k, j) OBVIOUS
  <2>7. Good(x, 2, pl, 0) /\ x.addr[5] = k /\ x.addr[6] = j
    <3>1. Good(g[k], 2, pl, 0) BY <1>5
    <3> QED BY <3>1, <2>1, <2>4, <2>6, SetNodeGood
  <2>8. Good(g[k + 1], 2, pl, 0) BY <2>1, <2>3, <2>5, <2>6, <2>7, NodeHashed
  <2> QED BY <2>8
<1>6. 0 \in P BY <1>3
<1>7. TreeHeight \in P
  <2>1. P \subseteq Nat OBVIOUS
  <2> HIDE DEF P
  <2> QED BY <2>1, <1>2, <1>5, <1>6, TurnByTurn
<1> QED BY <1>1, <1>7 DEF q

-----------------------------------------------------------------------------
\* The invariant of the calls.

(* Every index that is put into an address. *)
IndexSpace == 0..(Pow2[TreeHeight * D] - 1)

(* The nodes on the stack of treehash adjoin: f says where each begins.  Their *)
(* heights fall, but for the last two.                                       *)
Adjoining(f, stack, n) ==
  /\ f \in [1..(Len(stack) + 1) -> 0..n]
  /\ \A k \in 1..Len(stack) : f[k + 1] = f[k] + Pow2[stack[k]]

Stacked(stack, n) ==
  /\ stack \in Seq(Nat)
  /\ \E f : Adjoining(f, stack, n)
  /\ \A k \in 1..(Len(stack) - 2) : stack[k + 1] < stack[k]
  /\ Len(stack) >= 2 => stack[Len(stack)] <= stack[Len(stack) - 1]

(* treehash may be running. *)
InTreehash == call = "keypair" \/ (call = "sign" /\ layer # -1)

(* The addresses of the running call. *)
CallInPlace ==
  /\ InTreehash => /\ \E o : InPlace(ots, 0, Hashes!TreeOfCall, o)
                   /\ \E o : InPlace(ltree, 1, Hashes!TreeOfCall, o)
                   /\ InPlace(node, 2, Hashes!TreeOfCall, 0)
  /\ ~InTreehash => ~Hashes!Generating
  /\ call = "sign" => signer[3] = 0
  /\ call = "open" => ots[3] = 0 /\ ltree[3] = 1 /\ node[3] = 2 /\ node[4] = 0

(* The seeds made. *)
SeedHistory(s) == IsFiniteSet(s) /\ \A r \in s : \E kp \in KeyPairs : r = SeedOf(kp)

(* The inductive invariant behind AddressesAgree.                            *)
HashesInv ==
  /\ {ots, ltree, node, signer} \subseteq HashAddr
  /\ call \in {"none", "keypair", "sign", "open"}
  /\ layer \in -1..(D - 1) /\ leaf \in 0..Pow2[TreeHeight]
  /\ idx \in IndexSpace /\ signed \in {-1} \cup IndexSpace
  /\ Stacked(heights, leaf)
  /\ CallInPlace
  /\ History(prfs) /\ SeedHistory(seeds)

(* The tree that treehash runs over.                                         *)
LEMMA TreeOfCallIs ==
  ASSUME HashesInv
  PROVE  /\ Hashes!TreeOfCall = IF call = "keypair" THEN <<D - 1, 0>>
                                ELSE <<layer, Shr(idx, TreeHeight)>>
         /\ InTreehash => Hashes!TreeOfCall \in Nat \X Nat
<1>1. Hashes!TreeOfCall = IF call = "keypair" THEN <<D - 1, 0>>
                          ELSE <<layer, Shr(idx, TreeHeight)>>
  BY HashBits DEF Hashes!TreeOfCall, Hashes!Tree
<1>2. D - 1 \in Nat /\ TreeHeight \in Nat BY HashSizes
<1>3. layer # -1 => layer \in Nat BY <1>2 DEF HashesInv
<1>4. idx \in Nat BY DEF HashesInv, IndexSpace
<1>5. Shr(idx, TreeHeight) \in Nat BY <1>2, <1>4, ShrHalves
<1> QED BY <1>1, <1>2, <1>3, <1>5 DEF InTreehash

(* In the tree is at the key pairs of the tree.                              *)
LEMMA SamePlace ==
  ASSUME NEW a, NEW t, NEW pl, NEW o, InPlace(a, t, pl, o), NEW kp, kp[1] = pl[1], kp[2] = pl[2]
  PROVE  InPlace(a, t, kp, o)
BY DEF InPlace

(* set_ots_addr and set_ltree_addr.                                          *)
LEMMA LeafSet ==
  ASSUME NEW a, NEW t, NEW pl, NEW o, InPlace(a, t, pl, o), NEW n \in Word
  PROVE  InPlace([a EXCEPT ![4] = n], t, pl, n)
<1>1. PICK b : b = [a EXCEPT ![4] = n] OBVIOUS
<1>2. a \in HashAddr BY DEF InPlace
<1>3. b \in HashAddr /\ b[4] = n /\ \A u \in 0..3 : b[u] = a[u] BY <1>1, <1>2 DEF HashAddr
<1>4. InPlace(b, t, pl, n) BY <1>3 DEF InPlace
<1> QED BY <1>1, <1>4

(* get_seed.                                                                 *)
LEMMA SeedInPlace ==
  ASSUME NEW kp \in KeyPairs, NEW a, InPlace(a, 0, kp, kp[3])
  PROVE  /\ InPlace(Hashes!SeedAddr(a), 0, kp, kp[3])
         /\ Hashes!SeedAddr(a) = SeedOf(kp).at
<1>1. PICK b : b = Hashes!SeedAddr(a) OBVIOUS
<1>2. b = [[[a EXCEPT ![5] = 0] EXCEPT ![6] = 0] EXCEPT ![7] = 0]
  BY <1>1 DEF Hashes!SeedAddr, Hashes!ChainWord, Hashes!HashWord, Hashes!KeyAndMask
<1>3. a \in HashAddr BY DEF InPlace
<1>4. 0 \in Word BY HashSizes DEF Word
<1>5. b \in HashAddr /\ b[5] = 0 /\ b[6] = 0 /\ b[7] = 0 /\ \A u \in 0..4 : b[u] = a[u]
  BY <1>2, <1>3, <1>4 DEF HashAddr
<1>6. InPlace(b, 0, kp, kp[3]) BY <1>5 DEF InPlace
<1>7. b = [w \in 0..7 |-> b[w]] BY <1>5 DEF HashAddr
<1>8. /\ b[0] = kp[1] /\ b[1] = Shr(kp[2], WordBits) /\ b[2] = kp[2] % Pow2[WordBits]
      /\ b[3] = 0 /\ b[4] = kp[3]
  BY <1>6 DEF InPlace
<1>9. b = WordsOf(kp, 0, kp[3], 0, 0, 0) BY ONLY <1>5, <1>7, <1>8, IsWords
<1> QED BY <1>1, <1>6, <1>9 DEF SeedOf

(* One more seed.                                                            *)
LEMMA SeedAdded ==
  ASSUME NEW s, SeedHistory(s), NEW kp \in KeyPairs
  PROVE  SeedHistory(s \cup {SeedOf(kp)})
<1>1. IsFiniteSet(s \cup {SeedOf(kp)}) BY FS_AddElement DEF SeedHistory
<1> QED BY <1>1 DEF SeedHistory

(* set_tree_addr holds the tree of every index.                              *)
LEMMA TreeWords ==
  ASSUME NEW n \in IndexSpace
  PROVE  /\ Shr(n, TreeHeight) \in Nat /\ Shr(n, TreeHeight) \in IndexSpace
         /\ Shr(Shr(n, TreeHeight), WordBits) \in Word
         /\ Shr(n, TreeHeight) % Pow2[WordBits] \in Word
         /\ n % Pow2[TreeHeight] \in 0..(Pow2[TreeHeight] - 1)
<1>1. /\ TreeHeight \in Nat \ {0} /\ D \in Nat \ {0} /\ WordBits \in Nat
      /\ TreeHeight * (D - 1) <= 2 * WordBits
  BY HashSizes
<1>2. PICK t : t = Shr(n, TreeHeight) OBVIOUS
<1>3. n \in Nat BY DEF IndexSpace
<1>4. t \in Nat BY <1>1, <1>2, <1>3, ShrHalves
<1>5. TreeHeight * D = TreeHeight * (D - 1) + TreeHeight
  <2>1. PICK d : d = D - 1 OBVIOUS
  <2>2. d \in Nat /\ D = d + 1 BY <1>1, <2>1
  <2>3. TreeHeight * (d + 1) = TreeHeight * d + TreeHeight BY <1>1, <2>2
  <2> QED BY <2>1, <2>2, <2>3
<1>6. PICK e : e = TreeHeight * (D - 1) OBVIOUS
<1>7. e \in Nat
  <2>1. D - 1 \in Nat BY <1>1
  <2> QED BY <1>1, <1>6, <2>1, TimesNat
<1>8. Shr(t, e) = 0
  <2>1. Shr(t, e) = Shr(n, TreeHeight + e) BY <1>1, <1>2, <1>3, <1>7, ShrSum
  <2>2. TreeHeight + e = TreeHeight * D BY <1>1, <1>5, <1>6, <1>7
  <2>3. n < Pow2[TreeHeight * D]
    <3>1. TreeHeight * D \in Nat BY <1>1, TimesNat
    <3>2. Pow2[TreeHeight * D] \in Nat BY <3>1, Pow2Recursion
    <3> QED BY <3>2, <1>3 DEF IndexSpace
  <2>4. TreeHeight * D \in Nat BY <1>1, TimesNat
  <2>5. Shr(n, TreeHeight * D) = 0 BY <1>3, <2>3, <2>4, ShrZero
  <2> QED BY <2>1, <2>2, <2>5
<1>9. t < Pow2[e] BY <1>4, <1>7, <1>8, ShrZero
<1>10. Pow2[e] <= Pow2[2 * WordBits]
  <2>1. 2 * WordBits \in Nat /\ e <= 2 * WordBits BY <1>1, <1>6
  <2> QED BY <2>1, <1>7, Pow2Monotone
<1>11. t < Pow2[WordBits + WordBits]
  <2>1. 2 * WordBits = WordBits + WordBits /\ 2 * WordBits \in Nat BY <1>1
  <2>2. Pow2[e] \in Nat /\ Pow2[2 * WordBits] \in Nat BY <2>1, <1>7, Pow2Recursion
  <2> QED BY <1>4, <1>9, <1>10, <2>1, <2>2
<1>12. Shr(t, WordBits) \in Nat /\ Shr(t, WordBits) < Pow2[WordBits]
  <2>1. Shr(t, WordBits) \in Nat BY <1>1, <1>4, ShrHalves
  <2>2. WordBits + WordBits \in Nat BY <1>1
  <2>3. Shr(t, WordBits + WordBits) = 0 BY <1>4, <1>11, <2>2, ShrZero
  <2>4. Shr(Shr(t, WordBits), WordBits) = 0 BY <1>1, <1>4, <2>3, ShrSum
  <2> QED BY <2>1, <2>4, <1>1, ShrZero
<1>13. Pow2[WordBits] \in Nat \ {0} /\ Pow2[TreeHeight] \in Nat \ {0} BY <1>1, Pow2Recursion
<1>14. t % Pow2[WordBits] \in Word
  <2>1. PICK z : z = Pow2[WordBits] OBVIOUS
  <2>2. z \in Nat \ {0} BY <2>1, <1>13
  <2>3. t % z \in 0..(z - 1) BY <1>4, <2>2, SplitAt
  <2> QED BY <2>1, <2>3 DEF Word
<1>15. n % Pow2[TreeHeight] \in 0..(Pow2[TreeHeight] - 1)
  <2>1. PICK z : z = Pow2[TreeHeight] OBVIOUS
  <2>2. z \in Nat \ {0} BY <2>1, <1>13
  <2>3. n % z \in 0..(z - 1) BY <1>3, <2>2, SplitAt
  <2> QED BY <2>1, <2>3
<1>16. t <= n
  <2>1. PICK z : z = Pow2[TreeHeight] OBVIOUS
  <2>2. z \in Nat \ {0} BY <2>1, <1>13
  <2>3. n \div z <= n BY ONLY <1>3, <2>2
  <2> QED BY <1>2, <2>1, <2>3 DEF Shr
<1>17. t \in IndexSpace
  <2>1. TreeHeight * D \in Nat BY <1>1, TimesNat
  <2>2. Pow2[TreeHeight * D] \in Nat BY <2>1, Pow2Recursion
  <2> QED BY <2>2, <1>3, <1>4, <1>16 DEF IndexSpace
<1>18. Shr(t, WordBits) \in Word BY <1>12, <1>13 DEF Word
<1> QED BY <1>2, <1>4, <1>14, <1>15, <1>17, <1>18

-----------------------------------------------------------------------------
\* The stack of treehash.

(* It has room for a node of every height and one more.                      *)
LEMMA StackRoom ==
  ASSUME NEW stack, NEW n \in 0..Pow2[TreeHeight], Stacked(stack, n)
  PROVE  /\ Len(stack) <= TreeHeight + 1
         /\ \A k \in 1..Len(stack) : stack[k] \in 0..TreeHeight
<1>1. /\ stack \in Seq(Nat)
      /\ \A k \in 1..(Len(stack) - 2) : stack[k + 1] < stack[k]
      /\ Len(stack) >= 2 => stack[Len(stack)] <= stack[Len(stack) - 1]
  BY DEF Stacked
<1>2. PICK f : Adjoining(f, stack, n) BY DEF Stacked
<1>3. PICK m : m = Len(stack) OBVIOUS
<1>4. m \in Nat /\ \A k \in 1..m : stack[k] \in Nat BY <1>1, <1>3
<1>5. /\ \A k \in 1..(m + 1) : f[k] \in 0..n
      /\ \A k \in 1..m : f[k + 1] = f[k] + Pow2[stack[k]]
  BY <1>2, <1>3 DEF Adjoining
<1>6. TreeHeight \in Nat /\ Pow2[TreeHeight] \in Nat /\ n \in Nat /\ n <= Pow2[TreeHeight]
  BY HashSizes
<1>7. ASSUME NEW x \in Nat, Pow2[x] <= Pow2[TreeHeight] PROVE x <= TreeHeight
  <2> SUFFICES ASSUME TreeHeight + 1 <= x PROVE FALSE BY <1>6
  <2>1. Pow2[TreeHeight + 1] <= Pow2[x] BY <1>6, Pow2Monotone
  <2>2. Pow2[TreeHeight + 1] = 2 * Pow2[TreeHeight] /\ Pow2[TreeHeight] \in Nat \ {0}
        /\ Pow2[x] \in Nat
    BY <1>6, Pow2Recursion
  <2> QED BY <2>1, <2>2, <1>7
<1>8. ASSUME NEW k \in 1..m PROVE stack[k] \in 0..TreeHeight
  <2>1. k \in 1..(m + 1) /\ k + 1 \in 1..(m + 1) BY <1>4
  <2>2. f[k] \in 0..n /\ f[k + 1] \in 0..n /\ f[k + 1] = f[k] + Pow2[stack[k]]
    BY <2>1, <1>5
  <2>3. stack[k] \in Nat /\ Pow2[stack[k]] \in Nat BY <1>4, Pow2Recursion
  <2>4. Pow2[stack[k]] <= Pow2[TreeHeight] BY <2>2, <2>3, <1>6
  <2> QED BY <2>3, <2>4, <1>6, <1>7
<1>9. m <= TreeHeight + 1
  <2> SUFFICES ASSUME m >= 2 PROVE m <= TreeHeight + 1 BY <1>4, <1>6
  <2>1. 1 \in 1..m /\ 2 \in 1..m /\ 2 \in 1..(m + 1) /\ 3 \in 1..(m + 1) /\ 1 \in 1..(m + 1)
        /\ 1 + 1 = 2 /\ 2 + 1 = 3
    BY <1>4
  <2>2. f[2] = f[1] + Pow2[stack[1]] /\ f[3] = f[2] + Pow2[stack[2]]
    BY <2>1, <1>5
  <2>3. f[1] \in 0..n /\ f[2] \in 0..n /\ f[3] \in 0..n BY <2>1, <1>5
  <2>4. Pow2[stack[1]] \in Nat \ {0} /\ Pow2[stack[2]] \in Nat \ {0}
    BY <2>1, <1>4, Pow2Recursion
  <2>5. Pow2[stack[1]] < Pow2[TreeHeight] BY <2>2, <2>3, <2>4, <1>6
  <2>6. stack[1] < TreeHeight
    <3>1. stack[1] \in 0..TreeHeight BY <2>1, <1>8
    <3>2. stack[1] # TreeHeight BY <2>5, <2>4, <1>6
    <3> QED BY <3>1, <3>2, <1>6
  <2> DEFINE S == {j \in Nat : j <= m - 2 => stack[m - 1 - j] >= j}
  <2>7. 0 \in S
    <3>1. m - 1 - 0 = m - 1 /\ m - 1 \in 1..m BY <1>4
    <3>2. stack[m - 1] \in Nat BY <3>1, <1>4
    <3> QED BY <3>1, <3>2
  <2>8. ASSUME NEW j \in Nat, j \in S PROVE j + 1 \in S
    <3> SUFFICES ASSUME j + 1 <= m - 2 PROVE stack[m - 1 - (j + 1)] >= j + 1 OBVIOUS
    <3>1. PICK k : k = m - 1 - (j + 1) OBVIOUS
    <3>2. k \in 1..(m - 2) /\ k + 1 = m - 1 - j /\ k \in 1..m /\ k + 1 \in 1..m BY <3>1, <1>4
    <3>3. stack[k + 1] < stack[k] BY <3>2, <1>1, <1>3
    <3>4. stack[k + 1] >= j BY <3>2, <2>8, <1>4
    <3>5. stack[k] \in Nat /\ stack[k + 1] \in Nat BY <3>2, <1>4
    <3> QED BY <3>1, <3>3, <3>4, <3>5
  <2>9. Nat \subseteq S
    <3> HIDE DEF S
    <3> QED BY <2>7, <2>8, SetInduction
  <2>10. stack[1] >= m - 2
    <3>1. m - 2 \in Nat /\ m - 1 - (m - 2) = 1 BY <1>4
    <3>2. m - 2 \in S BY <2>9, <3>1
    <3> QED BY <3>1, <3>2
  <2>11. stack[1] \in Nat BY <2>1, <1>4
  <2> QED BY <2>6, <2>10, <2>11, <1>4, <1>6
<1> QED BY <1>3, <1>8, <1>9

(* What makes a stack.                                                       *)
LEMMA IsStacked ==
  ASSUME NEW stack, NEW n, NEW f, Adjoining(f, stack, n), stack \in Seq(Nat),
         NEW m, m = Len(stack),
         \A k \in 1..(m - 2) : stack[k + 1] < stack[k],
         m >= 2 => stack[m] <= stack[m - 1]
  PROVE  Stacked(stack, n)
BY DEF Stacked

(* A leaf on top of nodes whose heights all fall.                            *)
LEMMA StackLeaf ==
  ASSUME NEW stack, NEW n \in Nat, Stacked(stack, n),
         ~(Len(stack) >= 2 /\ stack[Len(stack)] = stack[Len(stack) - 1])
  PROVE  Stacked(Append(stack, 0), n + 1)
<1>1. /\ stack \in Seq(Nat)
      /\ \A k \in 1..(Len(stack) - 2) : stack[k + 1] < stack[k]
      /\ Len(stack) >= 2 => stack[Len(stack)] <= stack[Len(stack) - 1]
  BY DEF Stacked
<1>2. PICK f : Adjoining(f, stack, n) BY DEF Stacked
<1>3. PICK m : m = Len(stack) OBVIOUS
<1>4. m \in Nat /\ \A k \in 1..m : stack[k] \in Nat BY <1>1, <1>3
<1>5. PICK new : new = Append(stack, 0) OBVIOUS
<1>6. stack \in Seq(Nat) BY <1>1
<1>7. 0 \in Nat OBVIOUS
<1>8. /\ new \in Seq(Nat) /\ Len(new) = m + 1 /\ new[m + 1] = 0
      /\ \A k \in 1..m : new[k] = stack[k]
  <2>1. /\ new \in Seq(Nat) /\ Len(new) = Len(stack) + 1 /\ new[Len(stack) + 1] = 0
        /\ \A k \in 1..Len(stack) : new[k] = stack[k]
    BY ONLY <1>5, <1>6, <1>7, OneMore
  <2> QED BY <2>1, <1>3
<1>9. /\ \A k \in 1..(m + 1) : f[k] \in 0..n
      /\ \A k \in 1..m : f[k + 1] = f[k] + Pow2[stack[k]]
  BY <1>2, <1>3 DEF Adjoining
<1> DEFINE g == [k \in 1..(m + 2) |-> IF k = m + 2 THEN f[m + 1] + 1 ELSE f[k]]
<1>10. Adjoining(g, new, n + 1)
  <2>1. ASSUME NEW k \in 1..(m + 2) PROVE g[k] \in 0..(n + 1)
    <3>1. m + 1 \in 1..(m + 1) BY <1>4
    <3>2. f[m + 1] \in 0..n BY <3>1, <1>9
    <3>3. CASE k = m + 2 BY <3>2, <3>3
    <3>4. CASE k # m + 2
      <4>1. k \in 1..(m + 1) BY <3>4, <1>4
      <4>2. f[k] \in 0..n BY <4>1, <1>9
      <4> QED BY <3>4, <4>2
    <3> QED BY <3>3, <3>4
  <2>2. ASSUME NEW k \in 1..(m + 1) PROVE g[k + 1] = g[k] + Pow2[new[k]]
    <3>1. k \in 1..(m + 2) /\ k + 1 \in 1..(m + 2) /\ k # m + 2 BY <1>4
    <3>2. g[k] = f[k] BY <3>1
    <3>3. CASE k = m + 1
      <4>1. k + 1 = m + 2 BY <3>3, <1>4
      <4>2. g[k + 1] = f[m + 1] + 1 BY <3>1, <4>1
      <4>3. Pow2[new[k]] = 1 BY <3>3, <1>8, Pow2Recursion
      <4> QED BY <3>2, <3>3, <4>2, <4>3
    <3>4. CASE k # m + 1
      <4>1. k \in 1..m /\ k + 1 # m + 2 BY <3>4, <1>4
      <4>2. g[k + 1] = f[k + 1] BY <3>1, <4>1
      <4>3. f[k + 1] = f[k] + Pow2[stack[k]] /\ new[k] = stack[k] BY <4>1, <1>8, <1>9
      <4> QED BY <3>2, <4>2, <4>3
    <3> QED BY <3>3, <3>4
  <2>3. (m + 1) + 1 = m + 2 BY <1>4
  <2>4. g \in [1..(m + 2) -> 0..(n + 1)] BY <2>1
  <2> HIDE DEF g
  <2> QED BY <2>2, <2>3, <2>4, <1>8 DEF Adjoining
<1> HIDE DEF g
<1>11. ASSUME NEW k \in 1..(m + 1 - 2) PROVE new[k + 1] < new[k]
  <2>1. k \in 1..m /\ k + 1 \in 1..m /\ k + 1 <= m BY <1>4
  <2>2. new[k] = stack[k] /\ new[k + 1] = stack[k + 1] BY <2>1, <1>8
  <2>3. CASE k \in 1..(m - 2) BY <2>2, <2>3, <1>1, <1>3
  <2>4. CASE k \notin 1..(m - 2)
    <3>1. k = m - 1 /\ m >= 2 /\ k + 1 = m BY <2>4, <1>4
    <3>2. stack[m] <= stack[m - 1] /\ stack[m] # stack[m - 1] BY <3>1, <1>1, <1>3
    <3>3. stack[m] \in Nat /\ stack[m - 1] \in Nat BY <3>1, <2>1, <1>4
    <3> QED BY <2>2, <3>1, <3>2, <3>3
  <2> QED BY <2>3, <2>4
<1>12. ASSUME m + 1 >= 2 PROVE new[m + 1] <= new[m + 1 - 1]
  <2>1. m + 1 - 1 = m /\ m \in 1..m BY <1>4, <1>12
  <2>2. stack[m] \in Nat /\ new[m] = stack[m] BY <2>1, <1>4, <1>8
  <2> QED BY <2>1, <2>2, <1>8
<1>13. Stacked(new, n + 1)
  <2>1. PICK l : l = m + 1 OBVIOUS
  <2>2. l = Len(new) /\ new \in Seq(Nat) BY <2>1, <1>8
  <2>3. \A k \in 1..(l - 2) : new[k + 1] < new[k]
    <3> TAKE k \in 1..(l - 2)
    <3>1. k \in 1..(m + 1 - 2) BY <2>1, <1>4
    <3> QED BY <3>1, <1>11
  <2>4. l >= 2 => new[l] <= new[l - 1]
    <3> HAVE l >= 2
    <3>1. m + 1 >= 2 /\ new[m + 1] = new[l] /\ new[m + 1 - 1] = new[l - 1] BY <2>1, <1>4
    <3> QED BY <3>1, <1>12
  <2> QED BY ONLY <2>2, <2>3, <2>4, <1>10, IsStacked
<1> QED BY <1>5, <1>13

(* The two nodes on top give way to their parent.                            *)
LEMMA StackMerge ==
  ASSUME NEW stack, NEW n \in Nat, Stacked(stack, n),
         Len(stack) >= 2, stack[Len(stack)] = stack[Len(stack) - 1]
  PROVE  Stacked(Append(SubSeq(stack, 1, Len(stack) - 2), stack[Len(stack)] + 1), n)
<1>1. /\ stack \in Seq(Nat)
      /\ \A k \in 1..(Len(stack) - 2) : stack[k + 1] < stack[k]
  BY DEF Stacked
<1>2. PICK f : Adjoining(f, stack, n) BY DEF Stacked
<1>3. PICK m : m = Len(stack) - 2 OBVIOUS
<1>4. /\ m \in Nat /\ Len(stack) = m + 2 /\ m + 2 - 1 = m + 1
      /\ \A k \in 1..(m + 2) : stack[k] \in Nat
  BY <1>1, <1>3
<1>5. PICK low : low = SubSeq(stack, 1, m) OBVIOUS
<1>6. PICK top : top = stack[m + 2] OBVIOUS
<1>7. top \in Nat /\ stack[m + 1] = top
  <2>1. m + 2 \in 1..(m + 2) BY <1>4
  <2> QED BY <2>1, <1>4, <1>6
<1>8. low \in Seq(Nat) /\ Len(low) = m /\ \A k \in 1..m : low[k] = stack[k]
  <2>1. m <= Len(stack) BY <1>4
  <2>2. stack \in Seq(Nat) BY <1>1
  <2>3. m \in Nat BY <1>4
  <2> QED BY ONLY <2>1, <2>2, <2>3, <1>5
<1>9. PICK new : new = Append(low, top + 1) OBVIOUS
<1>10. /\ new \in Seq(Nat) /\ Len(new) = m + 1 /\ new[m + 1] = top + 1
       /\ \A k \in 1..m : new[k] = stack[k]
  <2>1. low \in Seq(Nat) BY <1>8
  <2>2. top + 1 \in Nat BY <1>7
  <2>3. /\ new \in Seq(Nat) /\ Len(new) = Len(low) + 1 /\ new[Len(low) + 1] = top + 1
        /\ \A k \in 1..Len(low) : new[k] = low[k]
    BY ONLY <2>1, <2>2, <1>9, OneMore
  <2> QED BY <2>3, <1>8
<1>11. /\ \A k \in 1..(m + 3) : f[k] \in 0..n
       /\ \A k \in 1..(m + 2) : f[k + 1] = f[k] + Pow2[stack[k]]
  <2>1. (m + 2) + 1 = m + 3 BY <1>4
  <2> QED BY <2>1, <1>2, <1>4 DEF Adjoining
<1> DEFINE g == [k \in 1..(m + 2) |-> IF k = m + 2 THEN f[m + 3] ELSE f[k]]
<1>12. Adjoining(g, new, n)
  <2>1. ASSUME NEW k \in 1..(m + 2) PROVE g[k] \in 0..n
    <3>1. k \in 1..(m + 3) /\ m + 3 \in 1..(m + 3) BY <1>4
    <3> QED BY <3>1, <1>11
  <2>2. ASSUME NEW k \in 1..(m + 1) PROVE g[k + 1] = g[k] + Pow2[new[k]]
    <3>1. k \in 1..(m + 2) /\ k + 1 \in 1..(m + 2) /\ k # m + 2 BY <1>4
    <3>2. g[k] = f[k] BY <3>1
    <3>3. CASE k = m + 1
      <4>1. k + 1 = m + 2 /\ m + 1 \in 1..(m + 2) /\ m + 2 \in 1..(m + 2)
            /\ (m + 1) + 1 = m + 2 /\ (m + 2) + 1 = m + 3
        BY <3>3, <1>4
      <4>2. g[k + 1] = f[m + 3] BY <3>1, <4>1
      <4>3. f[m + 2] = f[m + 1] + Pow2[top] /\ f[m + 3] = f[m + 2] + Pow2[top]
        BY <4>1, <1>6, <1>7, <1>11
      <4>4. Pow2[new[k]] = 2 * Pow2[top] /\ Pow2[top] \in Nat
        BY <3>3, <1>7, <1>10, Pow2Recursion
      <4>5. f[m + 1] \in 0..n
        <5>1. m + 1 \in 1..(m + 3) BY <1>4
        <5> QED BY <5>1, <1>11
      <4> QED BY <3>2, <3>3, <4>2, <4>3, <4>4, <4>5
    <3>4. CASE k # m + 1
      <4>1. k \in 1..m /\ k + 1 # m + 2 BY <3>4, <1>4
      <4>2. g[k + 1] = f[k + 1] BY <3>1, <4>1
      <4>3. f[k + 1] = f[k] + Pow2[stack[k]] /\ new[k] = stack[k] BY <3>1, <4>1, <1>10, <1>11
      <4> QED BY <3>2, <4>2, <4>3
    <3> QED BY <3>3, <3>4
  <2>3. (m + 1) + 1 = m + 2 BY <1>4
  <2>4. g \in [1..(m + 2) -> 0..n] BY <2>1
  <2> HIDE DEF g
  <2> QED BY <2>2, <2>3, <2>4, <1>10 DEF Adjoining
<1> HIDE DEF g
<1>13. ASSUME NEW k \in 1..(m + 1 - 2) PROVE new[k + 1] < new[k]
  <2>1. k \in 1..m /\ k + 1 \in 1..m BY <1>4
  <2>2. new[k] = stack[k] /\ new[k + 1] = stack[k + 1] BY <2>1, <1>10
  <2> QED BY <2>1, <2>2, <1>1, <1>3
<1>14. ASSUME m + 1 >= 2 PROVE new[m + 1] <= new[m + 1 - 1]
  <2>1. m + 1 - 1 = m /\ m \in 1..m BY <1>4, <1>14
  <2>2. new[m] = stack[m] BY <2>1, <1>10
  <2>3. stack[m + 1] < stack[m] BY <2>1, <1>1, <1>3
  <2>4. stack[m] \in Nat BY <2>1, <1>4
  <2> QED BY <2>1, <2>2, <2>3, <2>4, <1>7, <1>10
<1>15. Stacked(new, n)
  <2>1. PICK l : l = m + 1 OBVIOUS
  <2>2. l = Len(new) /\ new \in Seq(Nat) BY <2>1, <1>10
  <2>3. \A k \in 1..(l - 2) : new[k + 1] < new[k]
    <3> TAKE k \in 1..(l - 2)
    <3>1. k \in 1..(m + 1 - 2) BY <2>1, <1>4
    <3> QED BY <3>1, <1>13
  <2>4. l >= 2 => new[l] <= new[l - 1]
    <3> HAVE l >= 2
    <3>1. m + 1 >= 2 /\ new[m + 1] = new[l] /\ new[m + 1 - 1] = new[l - 1] BY <2>1, <1>4
    <3> QED BY <3>1, <1>14
  <2> QED BY ONLY <2>2, <2>3, <2>4, <1>12, IsStacked
<1> QED BY <1>3, <1>4, <1>5, <1>6, <1>9, <1>15

(* Nothing on it. *)
LEMMA StackEmpty ==
  ASSUME NEW n \in Nat
  PROVE  Stacked(<<>>, n)
<1> DEFINE f == [k \in 1..1 |-> 0]
<1>1. PICK s : s = <<>> OBVIOUS
<1>2. s \in Seq(Nat) /\ Len(s) = 0 BY <1>1
<1>3. Adjoining(f, s, n)
  <2>1. f \in [1..1 -> 0..n] OBVIOUS
  <2>2. 1..0 = {} /\ 0 + 1 = 1 OBVIOUS
  <2> HIDE DEF f
  <2> QED BY <2>1, <2>2, <1>2 DEF Adjoining
<1> HIDE DEF f
<1>4. 0 = Len(s) /\ (\A k \in 1..(0 - 2) : s[k + 1] < s[k]) /\ (0 >= 2 => s[0] <= s[0 - 1])
  BY <1>2
<1>5. Stacked(s, n) BY ONLY <1>2, <1>3, <1>4, IsStacked
<1> QED BY <1>1, <1>5

-----------------------------------------------------------------------------
\* The steps of the calls.

(* An address of zeros but for its type and its layer. *)
LEMMA NewAddress ==
  ASSUME NEW t \in 0..2
  PROVE  LET a == Hashes!OfType(t) IN
         /\ a \in HashAddr /\ a[3] = t
         /\ \A u \in 0..7 : u # 3 => a[u] = 0
<1>1. PICK a : a = Hashes!OfType(t) OBVIOUS
<1>2. a = [[w \in 0..7 |-> 0] EXCEPT ![3] = t]
  BY <1>1 DEF Hashes!OfType, Hashes!ZeroAddr, Hashes!Type
<1>3. 0 \in Word /\ t \in Word
  <2>1. Pow2[WordBits] \in Nat /\ 4 <= Pow2[WordBits]
    <3>1. Pow2[2] = 4
      <4>1. Pow2[0 + 1] = 2 * Pow2[0] /\ Pow2[1 + 1] = 2 * Pow2[1] /\ Pow2[0] = 1
        BY Pow2Recursion
      <4> QED BY <4>1
    <3>2. 2 \in Nat /\ 2 <= WordBits /\ WordBits \in Nat BY HashSizes
    <3>3. Pow2[2] <= Pow2[WordBits] BY <3>2, Pow2Monotone
    <3> QED BY <3>1, <3>2, <3>3, Pow2Recursion
  <2> QED BY <2>1 DEF Word
<1>4. a \in HashAddr /\ a[3] = t /\ \A u \in 0..7 : u # 3 => a[u] = 0
  BY <1>2, <1>3 DEF HashAddr
<1> QED BY <1>1, <1>4

(* Before the first call. *)
LEMMA HashesInit == Hashes!Init => HashesInv
<1> SUFFICES ASSUME Hashes!Init PROVE HashesInv OBVIOUS
<1>1. /\ ots = Hashes!ZeroAddr /\ ltree = Hashes!ZeroAddr /\ node = Hashes!ZeroAddr
      /\ signer = Hashes!ZeroAddr
      /\ call = "none" /\ idx = 0 /\ layer = 0
      /\ leaf = Pow2[TreeHeight] /\ heights = <<>> /\ signed = -1 /\ prfs = {} /\ seeds = {}
  BY HashBits DEF Hashes!Init
<1>2. Hashes!ZeroAddr \in HashAddr
  <2>1. 0 \in Word BY HashSizes DEF Word
  <2> QED BY <2>1 DEF Hashes!ZeroAddr, HashAddr
<1>3. /\ D \in Nat \ {0} /\ Pow2[TreeHeight] \in Nat /\ TreeHeight \in Nat BY HashSizes
<1>4. idx \in IndexSpace
  <2>1. TreeHeight * D \in Nat BY <1>3, TimesNat
  <2>2. Pow2[TreeHeight * D] \in Nat \ {0} BY <2>1, Pow2Recursion
  <2> QED BY <2>2, <1>1 DEF IndexSpace
<1>5. Stacked(heights, leaf) BY <1>1, <1>3, StackEmpty
<1>6. ~Hashes!Generating
  <2>1. Len(heights) = 0 BY <1>1
  <2>2. ~(leaf < Hashes!Pow2[TreeHeight]) BY <1>1, <1>3, HashBits
  <2> QED BY <2>1, <2>2 DEF Hashes!Generating, Hashes!TopTied
<1>7. CallInPlace BY <1>1, <1>6 DEF CallInPlace, InTreehash
<1>8. History(prfs) /\ SeedHistory(seeds)
  BY <1>1, FS_EmptySet DEF History, SeedHistory
<1>9. {ots, ltree, node, signer} \subseteq HashAddr BY <1>1, <1>2
<1>10. /\ call \in {"none", "keypair", "sign", "open"}
       /\ layer \in -1..(D - 1) /\ leaf \in 0..Pow2[TreeHeight]
       /\ signed \in {-1} \cup IndexSpace
  BY <1>1, <1>3
<1> QED BY <1>4, <1>5, <1>7, <1>8, <1>9, <1>10 DEF HashesInv

(* treehash begins in the subtree of an address.                             *)
LEMMA BeginInPlace ==
  ASSUME NEW t \in 0..2, NEW pl, NEW a,
         a[0] = pl[1], a[1] = Shr(pl[2], WordBits), a[2] = pl[2] % Pow2[WordBits],
         a[0] \in Word, a[1] \in Word, a[2] \in Word
  PROVE  InPlace(Hashes!CopySubtree(Hashes!OfType(t), a), t, pl, 0)
<1>1. PICK z : z = Hashes!OfType(t) OBVIOUS
<1>2. z \in HashAddr /\ z[3] = t /\ z[4] = 0 BY <1>1, NewAddress
<1>3. PICK b : b = Hashes!CopySubtree(z, a) OBVIOUS
<1>4. b = [[[z EXCEPT ![0] = a[0]] EXCEPT ![1] = a[1]] EXCEPT ![2] = a[2]]
  BY <1>3 DEF Hashes!CopySubtree, Hashes!Layer, Hashes!TreeHigh, Hashes!TreeLow
<1>5. /\ b \in HashAddr /\ b[0] = a[0] /\ b[1] = a[1] /\ b[2] = a[2]
      /\ \A u \in 3..7 : b[u] = z[u]
  BY <1>2, <1>4 DEF HashAddr
<1>6. InPlace(b, t, pl, 0) BY <1>2, <1>5 DEF InPlace
<1> QED BY <1>1, <1>3, <1>6

(* Key generation begins. *)
LEMMA KeypairKeeps == ASSUME HashesInv, Hashes!Keypair PROVE HashesInv'
<1> DEFINE sub == [Hashes!ZeroAddr EXCEPT ![0] = D - 1]
           pl == <<D - 1, 0>>
<1>1. /\ call' = "keypair" /\ leaf' = 0 /\ heights' = <<>>
      /\ ots' = Hashes!CopySubtree(Hashes!OfType(0), sub)
      /\ ltree' = Hashes!CopySubtree(Hashes!OfType(1), sub)
      /\ node' = Hashes!CopySubtree(Hashes!OfType(2), sub)
      /\ UNCHANGED <<signer, idx, layer, signed, signs, prfs, seeds>>
  BY DEF Hashes!Keypair, Hashes!TreehashBegin, Hashes!Layer, Hashes!OTS, Hashes!LTREE,
         Hashes!HASHTREE
<1>2. /\ D \in Nat \ {0} /\ D <= Pow2[WordBits] /\ Pow2[WordBits] \in Nat \ {0}
      /\ Pow2[TreeHeight] \in Nat /\ WordBits \in Nat
  BY HashSizes
<1>3. sub[0] = D - 1 /\ sub[1] = 0 /\ sub[2] = 0 BY DEF Hashes!ZeroAddr
<1>4. Shr(0, WordBits) = 0 /\ 0 % Pow2[WordBits] = 0
  <2>1. 0 < Pow2[WordBits] BY <1>2
  <2>2. Shr(0, WordBits) = 0 BY <2>1, <1>2, ShrZero
  <2>3. PICK z : z = Pow2[WordBits] OBVIOUS
  <2>4. 0 % z = 0
    <3>1. z \in Nat \ {0} BY <2>3, <1>2
    <3> QED BY ONLY <3>1
  <2> QED BY <2>2, <2>3, <2>4
<1>5. D - 1 \in Word /\ 0 \in Word BY <1>2 DEF Word
<1> HIDE DEF sub
<1>6. ASSUME NEW t \in 0..2
      PROVE  InPlace(Hashes!CopySubtree(Hashes!OfType(t), sub), t, pl, 0)
  <2>1. /\ sub[0] = pl[1] /\ sub[1] = Shr(pl[2], WordBits) /\ sub[2] = pl[2] % Pow2[WordBits]
    BY <1>3, <1>4
  <2>2. sub[0] \in Word /\ sub[1] \in Word /\ sub[2] \in Word BY <1>3, <1>5
  <2> HIDE DEF pl
  <2> QED BY <2>1, <2>2, BeginInPlace
<1>7. 0 \in 0..2 /\ 1 \in 0..2 /\ 2 \in 0..2 OBVIOUS
<1> HIDE DEF pl
<1>8. InPlace(ots', 0, pl, 0) /\ InPlace(ltree', 1, pl, 0) /\ InPlace(node', 2, pl, 0)
  BY <1>1, <1>6, <1>7
<1>9. InTreehash' BY <1>1 DEF InTreehash
<1>10. Hashes!TreeOfCall' = pl BY <1>1 DEF Hashes!TreeOfCall, pl
<1>11. CallInPlace' BY <1>1, <1>8, <1>9, <1>10 DEF CallInPlace
<1>12. Stacked(heights', leaf') BY <1>1, StackEmpty
<1>13. {ots', ltree', node', signer'} \subseteq HashAddr
  BY <1>1, <1>8 DEF InPlace, HashesInv
<1> QED BY <1>1, <1>2, <1>11, <1>12, <1>13 DEF HashesInv

(* A tree and the number of a leaf are a key pair.                           *)
LEMMA KeyPairOf ==
  ASSUME NEW a, NEW b, NEW e
  PROVE  Append(<<a, b>>, e) = <<a, b, e>>
<1>1. PICK s : s = <<a, b>> OBVIOUS
<1>2. PICK r : r = <<a, b, e>> OBVIOUS
<1>3. PICK S : S = {a, b, e} OBVIOUS
<1>4. s \in Seq(S) BY <1>1, <1>3
<1>5. e \in S BY <1>3
<1>6. Len(s) = 2 /\ s[1] = a /\ s[2] = b BY <1>1
<1>7. r \in Seq(S) /\ Len(r) = 3 /\ r[1] = a /\ r[2] = b /\ r[3] = e BY <1>2, <1>3
<1>8. PICK n : n = Append(s, e) OBVIOUS
<1>9. /\ n \in Seq(S) /\ Len(n) = Len(s) + 1 /\ n[Len(s) + 1] = e
      /\ \A k \in 1..Len(s) : n[k] = s[k]
  BY ONLY <1>4, <1>5, <1>8, OneMore
<1>10. Len(n) = 3 /\ n[1] = a /\ n[2] = b /\ n[3] = e BY <1>6, <1>9
<1>11. \A k \in 1..3 : k \in {1, 2, 3} OBVIOUS
<1>12. \A k \in 1..Len(n) : n[k] = r[k] BY <1>7, <1>10, <1>11
<1>13. n = r BY ONLY <1>7, <1>9, <1>10, <1>12, SeqEqual
<1> QED BY <1>1, <1>2, <1>8, <1>13

(* A leaf of treehash. *)
LEMMA TreehashLeafKeeps == ASSUME HashesInv, Hashes!TreehashLeaf PROVE HashesInv'
<1>1. PICK pl : pl = Hashes!TreeOfCall OBVIOUS
<1>2. PICK kp : kp = Append(pl, leaf) OBVIOUS
<1>3. PICK a, b : a = [ots EXCEPT ![4] = leaf] /\ b = [ltree EXCEPT ![4] = leaf] OBVIOUS
<1>4. PICK s : s = [addr |-> Hashes!SeedAddr(a), prfs |-> prfs] OBVIOUS
<1>5. PICK w : w = Hashes!Chains(s, kp, Hashes!None, Hashes!Whole) OBVIOUS
<1>6. PICK x : x = [addr |-> b, prfs |-> w.prfs] OBVIOUS
<1>7. PICK l : l = Hashes!LTree(x, kp) OBVIOUS
<1>8. /\ leaf < Pow2[TreeHeight] /\ ~Hashes!TopTied
      /\ seeds' = seeds \cup {[for |-> kp, at |-> Hashes!SeedAddr(a)]}
      /\ ots' = w.addr /\ ltree' = l.addr /\ prfs' = l.prfs
      /\ leaf' = leaf + 1 /\ heights' = Append(heights, 0)
      /\ UNCHANGED <<node, signer, call, idx, layer, signed, signs>>
  BY <1>1, <1>2, <1>3, <1>4, <1>5, <1>6, <1>7, HashBits
     DEF Hashes!TreehashLeaf, Hashes!GetSeed, Hashes!With, Hashes!OtsWord
<1>9. Hashes!Generating BY <1>8, HashBits DEF Hashes!Generating
<1>10. InTreehash BY <1>9 DEF HashesInv, CallInPlace
<1>11. pl \in Nat \X Nat BY <1>1, <1>10, TreeOfCallIs
<1>12. /\ Pow2[TreeHeight] \in Nat /\ Pow2[TreeHeight] <= Pow2[WordBits]
       /\ Pow2[WordBits] \in Nat
  BY HashSizes
<1>13. leaf \in Nat /\ leaf \in Word /\ leaf + 1 \in 0..Pow2[TreeHeight]
  BY <1>8, <1>12 DEF HashesInv, Word
<1>14. kp \in KeyPairs /\ kp[1] = pl[1] /\ kp[2] = pl[2] /\ kp[3] = leaf
  <2>1. PICK u, v : u \in Nat /\ v \in Nat /\ pl = <<u, v>> BY <1>11
  <2>2. Append(<<u, v>>, leaf) = <<u, v, leaf>> BY KeyPairOf
  <2>3. kp = <<u, v, leaf>> BY <1>2, <2>1, <2>2
  <2> QED BY <2>1, <2>3, <1>13 DEF KeyPairs
<1>15. InPlace(a, 0, kp, kp[3])
  <2>1. PICK o : InPlace(ots, 0, pl, o) BY <1>1, <1>10 DEF HashesInv, CallInPlace
  <2>2. InPlace(ots, 0, kp, o) BY <2>1, <1>14, SamePlace
  <2> QED BY <2>2, <1>3, <1>13, <1>14, LeafSet
<1>16. InPlace(b, 1, kp, kp[3])
  <2>1. PICK o : InPlace(ltree, 1, pl, o) BY <1>1, <1>10 DEF HashesInv, CallInPlace
  <2>2. InPlace(ltree, 1, kp, o) BY <2>1, <1>14, SamePlace
  <2> QED BY <2>2, <1>3, <1>13, <1>14, LeafSet
<1>17. InPlace(Hashes!SeedAddr(a), 0, kp, kp[3]) /\ Hashes!SeedAddr(a) = SeedOf(kp).at
  BY <1>14, <1>15, SeedInPlace
<1>18. Good(w, 0, kp, kp[3])
  <2>1. Good(s, 0, kp, kp[3]) BY <1>4, <1>17 DEF Good, HashesInv
  <2>2. ASSUME NEW c \in 0..(NumChains - 1)
        PROVE  /\ Hashes!None[c] \in Nat /\ Hashes!Whole[c] \in Nat
               /\ Hashes!None[c] + Hashes!Whole[c] <= Pow2[WordBits]
    <3>1. W \in Nat \ {0} /\ W <= Pow2[WordBits] BY HashSizes
    <3>2. Hashes!None[c] = 0 /\ Hashes!Whole[c] = W - 1 BY DEF Hashes!None, Hashes!Whole
    <3> QED BY <3>1, <3>2, <1>12
  <2> QED BY <1>5, <1>14, <2>1, <2>2, ChainsGood
<1>19. Good(l, 1, kp, kp[3])
  <2>1. Good(x, 1, kp, kp[3]) BY <1>6, <1>16, <1>18 DEF Good
  <2> QED BY <2>1, <1>7, <1>14, LTreeGood
<1>20. History(prfs') BY <1>8, <1>19 DEF Good
<1>21. SeedHistory(seeds')
  <2>1. seeds' = seeds \cup {SeedOf(kp)} BY <1>8, <1>17 DEF SeedOf
  <2> QED BY <2>1, <1>14, SeedAdded DEF HashesInv
<1>22. InPlace(ots', 0, pl, leaf) /\ InPlace(ltree', 1, pl, leaf)
  <2>1. InPlace(ots', 0, kp, leaf) /\ InPlace(ltree', 1, kp, leaf)
    BY <1>8, <1>14, <1>18, <1>19 DEF Good
  <2> QED BY <2>1, <1>14, SamePlace
<1>23. /\ (InTreehash' <=> InTreehash) /\ Hashes!TreeOfCall' = pl
  BY <1>1, <1>8 DEF InTreehash, Hashes!TreeOfCall, Hashes!Tree
<1>24. CallInPlace'
  <2>1. InPlace(node', 2, pl, 0) BY <1>1, <1>8, <1>10 DEF HashesInv, CallInPlace
  <2>2. call' # "open" BY <1>8, <1>10 DEF InTreehash
  <2>3. call' = "sign" => signer'[3] = 0 BY <1>8 DEF HashesInv, CallInPlace
  <2> QED BY <2>1, <2>2, <2>3, <1>10, <1>22, <1>23 DEF CallInPlace
<1>25. Stacked(heights', leaf')
  BY <1>8, <1>13, StackLeaf DEF HashesInv, Hashes!TopTied
<1>26. {ots', ltree', node', signer'} \subseteq HashAddr
  BY <1>8, <1>22 DEF InPlace, HashesInv
<1> QED BY <1>8, <1>13, <1>20, <1>21, <1>24, <1>25, <1>26 DEF HashesInv

(* Two nodes of treehash are hashed. *)
LEMMA TreehashMergeKeeps == ASSUME HashesInv, Hashes!TreehashMerge PROVE HashesInv'
<1>1. PICK pl, top : pl = Hashes!TreeOfCall /\ top = heights[Len(heights)] OBVIOUS
<1>2. PICK j : j = Shr(leaf - 1, top + 1) OBVIOUS
<1>3. PICK a : a = Hashes!SetTreeNode(node, top, j) OBVIOUS
<1>4. PICK n : n = Hashes!ThashH([addr |-> a, prfs |-> prfs], <<"tree", pl, top + 1, j>>) OBVIOUS
<1>5. /\ Hashes!TopTied
      /\ node' = n.addr /\ prfs' = n.prfs
      /\ heights' = Append(SubSeq(heights, 1, Len(heights) - 2), top + 1)
      /\ UNCHANGED <<ots, ltree, signer, call, idx, layer, leaf, signed, signs, seeds>>
  BY <1>1, <1>2, <1>3, <1>4, HashBits DEF Hashes!TreehashMerge, Hashes!With
<1>6. InTreehash BY <1>5 DEF HashesInv, CallInPlace, Hashes!Generating
<1>7. pl \in Nat \X Nat BY <1>1, <1>6, TreeOfCallIs
<1>8. /\ TreeHeight \in Nat /\ TreeHeight < Pow2[WordBits]
      /\ Pow2[TreeHeight] \in Nat /\ Pow2[TreeHeight] <= Pow2[WordBits]
      /\ Pow2[WordBits] \in Nat
  BY HashSizes
<1>9. /\ Len(heights) >= 2 /\ heights[Len(heights)] = heights[Len(heights) - 1]
  BY <1>5 DEF Hashes!TopTied
<1>10. /\ leaf \in 0..Pow2[TreeHeight] /\ Stacked(heights, leaf) BY DEF HashesInv
<1>11. top \in Nat /\ top \in Word
  <2>1. heights \in Seq(Nat) BY <1>10 DEF Stacked
  <2>2. Len(heights) \in 1..Len(heights) BY <1>9, <2>1
  <2>3. top \in 0..TreeHeight BY <2>2, <1>1, <1>10, StackRoom
  <2> QED BY <2>3, <1>8 DEF Word
<1>12. leaf \in Nat \ {0}
  <2>1. PICK f : Adjoining(f, heights, leaf) BY <1>10 DEF Stacked
  <2>2. heights \in Seq(Nat) BY <1>10 DEF Stacked
  <2>3. 1 \in 1..Len(heights) /\ 1 \in 1..(Len(heights) + 1) /\ 1 + 1 \in 1..(Len(heights) + 1)
    BY <1>9, <2>2
  <2>4. f[1 + 1] = f[1] + Pow2[heights[1]] /\ f[1] \in 0..leaf /\ f[1 + 1] \in 0..leaf
    BY <2>1, <2>3 DEF Adjoining
  <2>5. Pow2[heights[1]] \in Nat \ {0}
    <3>1. heights[1] \in Nat BY <2>2, <2>3
    <3> QED BY <3>1, Pow2Recursion
  <2> QED BY <2>4, <2>5, <1>8, <1>10
<1>13. j \in Nat /\ j \in Word
  <2>1. leaf - 1 \in Nat /\ leaf - 1 < Pow2[TreeHeight] BY <1>8, <1>10, <1>12
  <2>2. j \in Nat BY <1>2, <1>11, <2>1, ShrHalves
  <2>3. PICK z : z = Pow2[top + 1] OBVIOUS
  <2>4. z \in Nat \ {0}
    <3>1. top + 1 \in Nat BY <1>11
    <3> QED BY <3>1, <2>3, Pow2Recursion
  <2>5. PICK y : y = leaf - 1 OBVIOUS
  <2>6. y \in Nat /\ y \div z <= y
    <3>1. y \in Nat BY <2>1, <2>5
    <3> QED BY ONLY <3>1, <2>4
  <2>7. j <= leaf - 1 BY <1>2, <2>3, <2>5, <2>6 DEF Shr
  <2> QED BY <2>1, <2>2, <2>7, <1>8, <1>12 DEF Word
<1>14. InPlace(node, 2, pl, 0) BY <1>1, <1>6 DEF HashesInv, CallInPlace
<1>15. InPlace(a, 2, pl, 0) /\ a[5] = top /\ a[6] = j
  BY <1>3, <1>11, <1>13, <1>14, NodeSet
<1>16. PICK s : s = [addr |-> a, prfs |-> prfs] OBVIOUS
<1>17. Good(s, 2, pl, 0) /\ s.addr[5] = top /\ s.addr[6] = j
  BY <1>15, <1>16 DEF Good, HashesInv
<1>18. Good(n, 2, pl, 0) BY <1>4, <1>7, <1>11, <1>13, <1>16, <1>17, NodeHashed
<1>19. InPlace(node', 2, pl, 0) /\ History(prfs') BY <1>5, <1>18 DEF Good
<1>20. (InTreehash' <=> InTreehash) /\ Hashes!TreeOfCall' = Hashes!TreeOfCall
  BY <1>5 DEF InTreehash, Hashes!TreeOfCall, Hashes!Tree
<1>21. CallInPlace'
  <2>1. \E o : InPlace(ots', 0, pl, o) BY <1>1, <1>5, <1>6 DEF HashesInv, CallInPlace
  <2>2. \E o : InPlace(ltree', 1, pl, o) BY <1>1, <1>5, <1>6 DEF HashesInv, CallInPlace
  <2>3. call' # "open" BY <1>5, <1>6 DEF InTreehash
  <2>4. call' = "sign" => signer'[3] = 0 BY <1>5 DEF HashesInv, CallInPlace
  <2> QED BY <2>1, <2>2, <2>3, <2>4, <1>1, <1>6, <1>19, <1>20 DEF CallInPlace
<1>22. Stacked(heights', leaf')
  <2>1. leaf \in Nat BY <1>12
  <2>2. Stacked(Append(SubSeq(heights, 1, Len(heights) - 2), heights[Len(heights)] + 1), leaf)
    BY ONLY <1>9, <1>10, <2>1, StackMerge
  <2> QED BY <2>2, <1>1, <1>5
<1>23. {ots', ltree', node', signer'} \subseteq HashAddr
  BY <1>5, <1>19 DEF InPlace, HashesInv
<1> QED BY <1>5, <1>19, <1>21, <1>22, <1>23 DEF HashesInv

(* Signing begins, with one address for all layers. *)
LEMMA SigningBegins ==
  ASSUME HashesInv, NEW n \in Indices, Hashes!SignBegin(n) PROVE HashesInv'
<1>1. /\ call = "none" /\ call' = "sign" /\ idx' = n /\ layer' = -1 /\ signed' = n
      /\ signer' = Hashes!OfType(0)
      /\ UNCHANGED <<ots, ltree, node, leaf, heights, prfs, seeds>>
  BY DEF Hashes!SignBegin, Hashes!OTS
<1>2. n \in IndexSpace BY HashSizes DEF IndexSpace
<1>3. 0 \in 0..2 OBVIOUS
<1>4. signer' \in HashAddr /\ signer'[3] = 0 BY <1>1, <1>3, NewAddress
<1>5. ~InTreehash BY <1>1 DEF InTreehash
<1>6. ~Hashes!Generating BY <1>5 DEF HashesInv, CallInPlace
<1>7. ~InTreehash' /\ ~Hashes!Generating'
  BY <1>1, <1>6 DEF InTreehash, Hashes!Generating, Hashes!TopTied
<1>8. CallInPlace' BY <1>1, <1>4, <1>7 DEF CallInPlace
<1>9. -1 \in -1..(D - 1) BY HashSizes
<1> QED BY <1>1, <1>2, <1>4, <1>8, <1>9 DEF HashesInv

(* Opening begins, with three addresses for all layers. *)
LEMMA OpeningBegins == ASSUME HashesInv, Hashes!OpenBegin PROVE HashesInv'
<1>1. /\ call = "none" /\ call' = "open" /\ idx' = signed /\ layer' = -1 /\ signed # -1
      /\ ots' = Hashes!OfType(0) /\ ltree' = Hashes!OfType(1) /\ node' = Hashes!OfType(2)
      /\ UNCHANGED <<signer, leaf, heights, signed, signs, prfs, seeds>>
  BY DEF Hashes!OpenBegin, Hashes!OTS, Hashes!LTREE, Hashes!HASHTREE
<1>2. 0 \in 0..2 /\ 1 \in 0..2 /\ 2 \in 0..2 OBVIOUS
<1>3. /\ ots' \in HashAddr /\ ltree' \in HashAddr /\ node' \in HashAddr
      /\ ots'[3] = 0 /\ ltree'[3] = 1 /\ node'[3] = 2 /\ node'[4] = 0
  BY <1>1, <1>2, NewAddress
<1>4. ~InTreehash BY <1>1 DEF InTreehash
<1>5. ~Hashes!Generating BY <1>4 DEF HashesInv, CallInPlace
<1>6. ~InTreehash' /\ ~Hashes!Generating'
  BY <1>1, <1>5 DEF InTreehash, Hashes!Generating, Hashes!TopTied
<1>7. CallInPlace' BY <1>1, <1>3, <1>6 DEF CallInPlace
<1>8. -1 \in -1..(D - 1) BY HashSizes
<1> QED BY <1>1, <1>3, <1>7, <1>8 DEF HashesInv

(* A call returns. *)
LEMMA ReturnKeeps == ASSUME HashesInv, Hashes!Return PROVE HashesInv'
<1>1. /\ ~Hashes!Generating /\ call' = "none"
      /\ UNCHANGED <<ots, ltree, node, signer, idx, layer, leaf, heights, signed, signs,
                     prfs, seeds>>
  BY DEF Hashes!Return
<1>2. ~InTreehash' /\ ~Hashes!Generating'
  BY <1>1 DEF InTreehash, Hashes!Generating, Hashes!TopTied
<1>3. CallInPlace' BY <1>1, <1>2 DEF CallInPlace
<1> QED BY <1>1, <1>3 DEF HashesInv

(* Layer and tree set in an address. *)
LEMMA TreeSet ==
  ASSUME NEW a \in HashAddr, NEW l \in Word, NEW n \in IndexSpace
  PROVE  LET b == Hashes!SetTree([a EXCEPT ![0] = l], Shr(n, TreeHeight)) IN
         InPlace(b, a[3], <<l, Shr(n, TreeHeight)>>, a[4])
<1>1. PICK t : t = Shr(n, TreeHeight) OBVIOUS
<1>2. PICK h, r : h = Shr(t, WordBits) /\ r = t % Pow2[WordBits] OBVIOUS
<1>3. h \in Word /\ r \in Word BY <1>1, <1>2, TreeWords
<1>4. PICK b : b = Hashes!SetTree([a EXCEPT ![0] = l], t) OBVIOUS
<1>5. b = [[[a EXCEPT ![0] = l] EXCEPT ![1] = h] EXCEPT ![2] = r]
  BY <1>2, <1>4, HashBits DEF Hashes!SetTree, Hashes!TreeHigh, Hashes!TreeLow
<1>6. /\ b \in HashAddr /\ b[0] = l /\ b[1] = h /\ b[2] = r
      /\ \A u \in 3..7 : b[u] = a[u]
  BY <1>3, <1>5 DEF HashAddr
<1>7. InPlace(b, a[3], <<l, t>>, a[4]) BY <1>2, <1>6 DEF InPlace
<1> QED BY <1>1, <1>4, <1>7

(* The index of a layer, shifted once more but on the lowest. *)
NextIndex == IF layer = -1 THEN idx ELSE Shr(idx, TreeHeight)

(* A layer of signing. *)
LEMMA SignLayerKeeps ==
  ASSUME HashesInv, NEW digits \in Digits, Hashes!SignLayer(digits) PROVE HashesInv'
<1>1. PICK n, l : n = NextIndex /\ l = layer + 1 OBVIOUS
<1>2. PICK t, f : t = Shr(n, TreeHeight) /\ f = n % Pow2[TreeHeight] OBVIOUS
<1>3. PICK kp : kp = <<l, t, f>> OBVIOUS
<1>4. PICK b : b = Hashes!SetTree([signer EXCEPT ![0] = l], t) OBVIOUS
<1>5. PICK a : a = [b EXCEPT ![4] = f] OBVIOUS
<1>6. PICK s : s = [addr |-> Hashes!SeedAddr(a), prfs |-> prfs] OBVIOUS
<1>7. PICK w : w = Hashes!Chains(s, kp, Hashes!None, digits) OBVIOUS
<1>8. /\ call = "sign" /\ layer < D - 1
      /\ seeds' = seeds \cup {[for |-> kp, at |-> Hashes!SeedAddr(a)]}
      /\ signer' = w.addr /\ prfs' = w.prfs /\ idx' = n /\ layer' = l
      /\ ots' = Hashes!CopySubtree(Hashes!OfType(0), w.addr)
      /\ ltree' = Hashes!CopySubtree(Hashes!OfType(1), w.addr)
      /\ node' = Hashes!CopySubtree(Hashes!OfType(2), w.addr)
      /\ leaf' = 0 /\ heights' = <<>>
      /\ UNCHANGED <<call, signed, signs>>
  <2>1. kp[2] = t /\ kp[3] = f BY <1>3
  <2> QED BY <2>1, <1>1, <1>2, <1>3, <1>4, <1>5, <1>6, <1>7, HashBits
             DEF Hashes!SignLayer, Hashes!GetSeed, Hashes!With, Hashes!OtsWord, Hashes!Layer,
                 Hashes!TreehashBegin, Hashes!OTS, Hashes!LTREE, Hashes!HASHTREE, NextIndex
<1>9. n \in IndexSpace
  <2>1. idx \in IndexSpace BY DEF HashesInv
  <2> QED BY <2>1, <1>1, TreeWords DEF NextIndex
<1>10. t \in Nat /\ f \in 0..(Pow2[TreeHeight] - 1) BY <1>2, <1>9, TreeWords
<1>11. /\ D \in Nat \ {0} /\ D <= Pow2[WordBits] /\ Pow2[WordBits] \in Nat
       /\ Pow2[TreeHeight] \in Nat /\ Pow2[TreeHeight] <= Pow2[WordBits]
       /\ W \in Nat \ {0} /\ W <= Pow2[WordBits]
       /\ Digits \subseteq [0..(NumChains - 1) -> 0..(W - 1)]
  BY HashSizes
<1>12. l \in Nat /\ l \in 0..(D - 1) /\ l \in Word /\ f \in Nat /\ f \in Word
  BY <1>1, <1>8, <1>10, <1>11 DEF HashesInv, Word
<1>13. kp \in KeyPairs /\ kp[1] = l /\ kp[2] = t /\ kp[3] = f
  BY <1>3, <1>10, <1>12 DEF KeyPairs
<1>14. InPlace(a, 0, kp, kp[3])
  <2>1. signer \in HashAddr /\ signer[3] = 0 BY <1>8 DEF HashesInv, CallInPlace
  <2>2. InPlace(b, signer[3], <<l, t>>, signer[4]) BY <2>1, <1>2, <1>4, <1>9, <1>12, TreeSet
  <2>3. PICK pl : pl = <<l, t>> OBVIOUS
  <2>4. pl[1] = l /\ pl[2] = t BY <2>3
  <2>5. InPlace(b, 0, pl, signer[4]) BY <2>1, <2>2, <2>3
  <2>6. InPlace(b, 0, kp, signer[4]) BY <2>4, <2>5, <1>13, SamePlace
  <2> QED BY <2>6, <1>5, <1>12, <1>13, LeafSet
<1>15. InPlace(Hashes!SeedAddr(a), 0, kp, kp[3]) /\ Hashes!SeedAddr(a) = SeedOf(kp).at
  BY <1>13, <1>14, SeedInPlace
<1>16. Good(w, 0, kp, kp[3])
  <2>1. Good(s, 0, kp, kp[3]) BY <1>6, <1>15 DEF Good, HashesInv
  <2>2. ASSUME NEW c \in 0..(NumChains - 1)
        PROVE  /\ Hashes!None[c] \in Nat /\ digits[c] \in Nat
               /\ Hashes!None[c] + digits[c] <= Pow2[WordBits]
    <3>1. digits[c] \in 0..(W - 1) BY <1>11
    <3>2. Hashes!None[c] = 0 BY DEF Hashes!None
    <3> QED BY <3>1, <3>2, <1>11
  <2> QED BY <1>7, <1>13, <2>1, <2>2, ChainsGood
<1>17. PICK pl : pl = <<l, t>> OBVIOUS
<1>18. pl[1] = l /\ pl[2] = t BY <1>17
<1>19. InPlace(w.addr, 0, pl, f)
  <2>1. InPlace(w.addr, 0, kp, f) BY <1>13, <1>16 DEF Good
  <2> QED BY <2>1, <1>13, <1>18, SamePlace
<1>20. ASSUME NEW k \in 0..2
       PROVE  InPlace(Hashes!CopySubtree(Hashes!OfType(k), w.addr), k, pl, 0)
  <2>1. PICK z : z = w.addr OBVIOUS
  <2>2. /\ z[0] = pl[1] /\ z[1] = Shr(pl[2], WordBits) /\ z[2] = pl[2] % Pow2[WordBits]
        /\ z \in HashAddr
    BY <2>1, <1>19 DEF InPlace
  <2>3. z[0] \in Word /\ z[1] \in Word /\ z[2] \in Word BY <2>2 DEF HashAddr
  <2> QED BY <2>1, <2>2, <2>3, BeginInPlace
<1>21. 0 \in 0..2 /\ 1 \in 0..2 /\ 2 \in 0..2 OBVIOUS
<1>22. InPlace(ots', 0, pl, 0) /\ InPlace(ltree', 1, pl, 0) /\ InPlace(node', 2, pl, 0)
  BY <1>8, <1>20, <1>21
<1>23. InTreehash' BY <1>8, <1>12 DEF InTreehash
<1>24. Hashes!TreeOfCall' = pl
  <2>1. call' # "keypair" BY <1>8
  <2> QED BY <2>1, <1>2, <1>8, <1>17, HashBits DEF Hashes!TreeOfCall, Hashes!Tree
<1>25. CallInPlace'
  <2>1. signer'[3] = 0 BY <1>8, <1>16 DEF Good, InPlace
  <2>2. call' # "open" BY <1>8
  <2> QED BY <2>1, <2>2, <1>22, <1>23, <1>24 DEF CallInPlace
<1>26. History(prfs') BY <1>8, <1>16 DEF Good
<1>27. SeedHistory(seeds')
  <2>1. seeds' = seeds \cup {SeedOf(kp)} BY <1>8, <1>15 DEF SeedOf
  <2> QED BY <2>1, <1>13, SeedAdded DEF HashesInv
<1>28. {ots', ltree', node', signer'} \subseteq HashAddr
  BY <1>8, <1>19, <1>22 DEF InPlace
<1>29. leaf' \in 0..Pow2[TreeHeight] /\ Stacked(heights', leaf')
  BY <1>8, <1>11, StackEmpty
<1>30. layer' \in -1..(D - 1) BY <1>8, <1>11, <1>12
<1> QED BY <1>8, <1>9, <1>25, <1>26, <1>27, <1>28, <1>29, <1>30 DEF HashesInv

(* The loop of compute_root, as the model chooses it. *)
Climbing(pl, f, s) ==
  CHOOSE g : g = [k \in 0..TreeHeight |->
    IF k = 0 THEN s ELSE CHOOSE v \in {ClimbTurn(pl, f, k, u) : u \in {g[k - 1]}} : TRUE]

(* A layer of opening: compute_root is the loop of ClimbGood.               *)
LEMMA OpenLayerKeeps ==
  ASSUME HashesInv, NEW digits \in Digits, Hashes!OpenLayer(digits) PROVE HashesInv'
<1>1. PICK n, l : n = NextIndex /\ l = layer + 1 OBVIOUS
<1>2. PICK t, f : t = Shr(n, TreeHeight) /\ f = n % Pow2[TreeHeight] OBVIOUS
<1>3. PICK kp : kp = <<l, t, f>> OBVIOUS
<1>4. PICK a : a = [Hashes!SetTree([ots EXCEPT ![0] = l], t) EXCEPT ![4] = f] OBVIOUS
<1>5. PICK w : w = Hashes!Chains([addr |-> a, prfs |-> prfs], kp, digits, Hashes!Rest(digits))
  OBVIOUS
<1>6. PICK b : b = [Hashes!SetTree([ltree EXCEPT ![0] = l], t) EXCEPT ![4] = f] OBVIOUS
<1>7. PICK x : x = Hashes!LTree([addr |-> b, prfs |-> w.prfs], kp) OBVIOUS
<1>8. PICK c : c = Hashes!SetTree([node EXCEPT ![0] = l], t) OBVIOUS
<1>9. PICK y : y = HashLoop(TreeHeight, [loop |-> "climb", pl |-> <<l, t>>, lf |-> f],
                            [addr |-> c, prfs |-> x.prfs])[TreeHeight]
  OBVIOUS
<1>10. /\ call = "open" /\ layer < D - 1
       /\ ots' = w.addr /\ ltree' = x.addr /\ node' = y.addr /\ prfs' = y.prfs
       /\ idx' = n /\ layer' = l
       /\ UNCHANGED <<signer, call, leaf, heights, signed, signs, seeds>>
  <2> USE <1>1, <1>2, <1>3, <1>4, <1>5, <1>6, <1>7, <1>8, <1>9
  <2>1. PICK pl, s : pl = <<l, t>> /\ s = [addr |-> c, prfs |-> x.prfs] OBVIOUS
  <2> DEFINE q == [loop |-> "climb", pl |-> pl, lf |-> f]
             z == Climbing(pl, f, s)
  <2>2. \A k, u : HashTurn(q, k, u) = ClimbTurn(pl, f, k, u) BY DEF HashTurn
  <2>3. z = HashLoop(TreeHeight, q, s)
    <3> HIDE DEF q
    <3> QED BY <2>2 DEF HashLoop, Climbing
  <2>4. y = z[TreeHeight] BY <2>1, <2>3
  <2>5. /\ kp[2] = t /\ kp[3] = f BY DEF Hashes!Shr
  <2>6. /\ n = IF layer = -1 THEN idx ELSE Hashes!Shr(idx, TreeHeight)
        /\ t = Hashes!Shr(n, TreeHeight) /\ f = n % Hashes!Pow2[TreeHeight]
    BY HashBits DEF NextIndex
  <2>7. /\ call = "open" /\ layer < D - 1
        /\ ots' = w.addr /\ ltree' = x.addr
        /\ idx' = n /\ layer' = l
        /\ UNCHANGED <<signer, call, leaf, heights, signed, signs, seeds>>
    BY <2>6 DEF Hashes!OpenLayer, Hashes!With, Hashes!OtsWord, Hashes!Layer
  <2>8. node' = z[TreeHeight].addr /\ prfs' = z[TreeHeight].prfs
    <3> DEFINE N == IF layer = -1 THEN idx ELSE Hashes!Shr(idx, TreeHeight)
               T == Hashes!Shr(N, TreeHeight)
               F == N % Hashes!Pow2[TreeHeight]
               K == <<layer + 1, T, F>>
               A == [Hashes!SetTree([ots EXCEPT ![0] = layer + 1], T) EXCEPT ![4] = F]
               C == Hashes!Chains([addr |-> A, prfs |-> prfs], K, digits, Hashes!Rest(digits))
               B == [Hashes!SetTree([ltree EXCEPT ![0] = layer + 1], T) EXCEPT ![4] = F]
               X == Hashes!LTree([addr |-> B, prfs |-> C.prfs], K)
               S == [addr |-> Hashes!SetTree([node EXCEPT ![0] = layer + 1], T), prfs |-> X.prfs]
               Z == Climbing(<<layer + 1, T>>, F, S)
    <3>1. node' = Z[TreeHeight].addr /\ prfs' = Z[TreeHeight].prfs
      BY Zenon DEF Hashes!OpenLayer, Hashes!With, Hashes!OtsWord, Hashes!Layer, Hashes!Loop,
                   Hashes!ClimbHeight, ClimbTurn, Climbing
    <3>2. N = n BY <2>6
    <3>3. T = t BY <3>2, <2>6
    <3>4. F = f BY <3>2, <2>6
    <3> HIDE DEF N, T, F
    <3>5. K = kp BY <3>3, <3>4
    <3>6. A = a BY <3>3, <3>4
    <3>7. B = b BY <3>3, <3>4
    <3> HIDE DEF K, A, B
    <3>8. C = w BY <3>5, <3>6
    <3> HIDE DEF C
    <3>9. X = x BY <3>5, <3>7, <3>8
    <3> HIDE DEF X
    <3>10. S = s BY <2>1, <3>3, <3>9
    <3>11. <<layer + 1, T>> = pl BY <2>1, <3>3
    <3> HIDE DEF S
    <3>12. Z = z BY <3>4, <3>10, <3>11
    <3> QED BY <3>1, <3>12
  <2> QED BY <2>4, <2>7, <2>8
<1>11. n \in IndexSpace
  <2>1. idx \in IndexSpace BY DEF HashesInv
  <2> QED BY <2>1, <1>1, TreeWords DEF NextIndex
<1>12. t \in Nat /\ f \in 0..(Pow2[TreeHeight] - 1) BY <1>2, <1>11, TreeWords
<1>13. /\ D \in Nat \ {0} /\ D <= Pow2[WordBits] /\ Pow2[WordBits] \in Nat
       /\ Pow2[TreeHeight] \in Nat /\ Pow2[TreeHeight] <= Pow2[WordBits]
       /\ W \in Nat \ {0} /\ W <= Pow2[WordBits]
       /\ Digits \subseteq [0..(NumChains - 1) -> 0..(W - 1)]
  BY HashSizes
<1>14. l \in Nat /\ l \in 0..(D - 1) /\ l \in Word /\ f \in Nat /\ f \in Word
  BY <1>1, <1>10, <1>12, <1>13 DEF HashesInv, Word
<1>15. kp \in KeyPairs /\ kp[1] = l /\ kp[2] = t /\ kp[3] = f
  BY <1>3, <1>12, <1>14 DEF KeyPairs
<1>16. PICK pl : pl = <<l, t>> OBVIOUS
<1>17. pl \in Nat \X Nat /\ pl[1] = l /\ pl[2] = t BY <1>12, <1>14, <1>16
<1>18. /\ ots \in HashAddr /\ ltree \in HashAddr /\ node \in HashAddr
       /\ ots[3] = 0 /\ ltree[3] = 1 /\ node[3] = 2 /\ node[4] = 0
       /\ History(prfs)
  BY <1>10 DEF HashesInv, CallInPlace
<1>19. ASSUME NEW d \in HashAddr
       PROVE  InPlace(Hashes!SetTree([d EXCEPT ![0] = l], t), d[3], pl, d[4])
  BY <1>2, <1>11, <1>14, <1>16, TreeSet
<1>20. ASSUME NEW d \in HashAddr
       PROVE  InPlace([Hashes!SetTree([d EXCEPT ![0] = l], t) EXCEPT ![4] = f], d[3], kp, kp[3])
  <2>1. PICK e : e = Hashes!SetTree([d EXCEPT ![0] = l], t) OBVIOUS
  <2>2. InPlace(e, d[3], pl, d[4]) BY <2>1, <1>19
  <2>3. InPlace(e, d[3], kp, d[4]) BY <2>2, <1>15, <1>17, SamePlace
  <2> QED BY <2>1, <2>3, <1>14, <1>15, LeafSet
<1>21. Good(w, 0, kp, kp[3])
  <2>1. PICK s : s = [addr |-> a, prfs |-> prfs] OBVIOUS
  <2>2. InPlace(a, 0, kp, kp[3]) BY <1>4, <1>18, <1>20
  <2>3. Good(s, 0, kp, kp[3]) BY <2>1, <2>2, <1>18 DEF Good
  <2>4. ASSUME NEW k \in 0..(NumChains - 1)
        PROVE  /\ digits[k] \in Nat /\ Hashes!Rest(digits)[k] \in Nat
               /\ digits[k] + Hashes!Rest(digits)[k] <= Pow2[WordBits]
    <3>1. digits[k] \in 0..(W - 1) BY <1>13
    <3>2. Hashes!Rest(digits)[k] = W - 1 - digits[k] BY DEF Hashes!Rest
    <3> QED BY <3>1, <3>2, <1>13
  <2> QED BY <1>5, <1>15, <2>1, <2>3, <2>4, ChainsGood
<1>22. Good(x, 1, kp, kp[3])
  <2>1. PICK s : s = [addr |-> b, prfs |-> w.prfs] OBVIOUS
  <2>2. InPlace(b, 1, kp, kp[3]) BY <1>6, <1>18, <1>20
  <2>3. Good(s, 1, kp, kp[3]) BY <2>1, <2>2, <1>21 DEF Good
  <2> QED BY <1>7, <1>15, <2>1, <2>3, LTreeGood
<1>23. Good(y, 2, pl, 0)
  <2>1. PICK s : s = [addr |-> c, prfs |-> x.prfs] OBVIOUS
  <2>2. InPlace(c, 2, pl, 0) BY <1>8, <1>18, <1>19
  <2>3. Good(s, 2, pl, 0) BY <2>1, <2>2, <1>22 DEF Good
  <2>4. y = HashLoop(TreeHeight, [loop |-> "climb", pl |-> pl, lf |-> f], s)[TreeHeight]
    BY <1>9, <1>16, <2>1
  <2> QED BY <1>12, <1>17, <2>3, <2>4, ClimbGood
<1>24. ~InTreehash BY <1>10 DEF InTreehash
<1>25. ~Hashes!Generating BY <1>24 DEF HashesInv, CallInPlace
<1>26. ~InTreehash' /\ ~Hashes!Generating'
  BY <1>10, <1>25 DEF InTreehash, Hashes!Generating, Hashes!TopTied
<1>27. CallInPlace'
  <2>1. ots'[3] = 0 /\ ltree'[3] = 1 /\ node'[3] = 2 /\ node'[4] = 0
    BY <1>10, <1>21, <1>22, <1>23 DEF Good, InPlace
  <2>2. call' # "sign" BY <1>10
  <2> QED BY <2>1, <2>2, <1>26 DEF CallInPlace
<1>28. History(prfs') BY <1>10, <1>23 DEF Good
<1>29. {ots', ltree', node', signer'} \subseteq HashAddr
  BY <1>10, <1>21, <1>22, <1>23 DEF Good, InPlace, HashesInv
<1>30. layer' \in -1..(D - 1) BY <1>10, <1>13, <1>14
<1> QED BY <1>10, <1>11, <1>27, <1>28, <1>29, <1>30 DEF HashesInv

(* Steps of other parts change nothing here.                                 *)
LEMMA HashesStutters == ASSUME HashesInv, UNCHANGED hashesVars PROVE HashesInv'
<1>1. UNCHANGED <<ots, ltree, node, signer, call, idx, layer, leaf, heights, signed, signs,
                  prfs, seeds>>
  BY DEF hashesVars
<1>2. CallInPlace'
  BY <1>1 DEF HashesInv, CallInPlace, InTreehash, Hashes!Generating, Hashes!TopTied,
              Hashes!TreeOfCall, Hashes!Tree
<1> QED BY <1>1, <1>2 DEF HashesInv

(* Every step keeps the invariant.                                           *)
LEMMA HashesNextKeeps ==
  ASSUME HashesInv, [NextParts]_<<part, chainsVars, bufferVars, hashesVars>>
  PROVE  HashesInv'
<1>1. \/ Hashes!Keypair \/ Hashes!TreehashLeaf \/ Hashes!TreehashMerge
      \/ \E k \in Indices : Hashes!SignBegin(k)
      \/ \E d \in Digits : Hashes!SignLayer(d)
      \/ Hashes!OpenBegin
      \/ \E d \in Digits : Hashes!OpenLayer(d)
      \/ Hashes!Return
      \/ UNCHANGED hashesVars
  BY DEF NextParts, ChainsStep, BufferStep, HashesStep, Only
<1> QED BY <1>1, KeypairKeeps, TreehashLeafKeeps, TreehashMergeKeeps, SigningBegins,
           SignLayerKeeps, OpeningBegins, OpenLayerKeeps, ReturnKeeps, HashesStutters

(* The invariant holds always.                                               *)
LEMMA HashesInvariant == SpecParts => []HashesInv
<1>1. InitParts => HashesInv BY HashesInit DEF InitParts
<1>2. HashesInv /\ [NextParts]_<<part, chainsVars, bufferVars, hashesVars>> => HashesInv'
  BY HashesNextKeeps
<1> QED BY <1>1, <1>2, PTL DEF SpecParts

(* As many of one field as there are records, if it tells them apart.        *)
LEMMA FieldTells ==
  ASSUME NEW S, IsFiniteSet(S), NEW T, NEW f \in [S -> T],
         \A y \in T : \E x \in S : f[x] = y,
         \A x, y \in S : f[x] = f[y] => x = y
  PROVE  Cardinality(T) = Cardinality(S)
<1>1. f \in Surjection(S, T) BY DEF Surjection
<1>2. f \in Injection(S, T) BY DEF Injection, IsInjective
<1> QED BY <1>1, <1>2, FS_Surjection

(* In every key generation, signature and opening, whatever the sizes of the  *)
(* trees, chains and words, the same thing is hashed at the same address, and *)
(* no two things at one (hash_address.c:3-65, hash.c:83-144, xmss_core.c:14-86, *)
(* 212-232, xmss_commons.c:16-136, 195-222).                                 *)
THEOREM AddressesAgreeHolds == SpecParts => []AddressesAgree
<1>1. HashesInv => AddressesAgree
  <2> SUFFICES ASSUME HashesInv PROVE AddressesAgree OBVIOUS
  <2>1. \A S : Hashes!Cardinality(S) = Cardinality(S)
    BY DEF Hashes!Cardinality, Cardinality
  <2>2. Hashes!TypeOK
    <3>1. {ots, ltree, node, signer} \subseteq [0..7 -> 0..(Hashes!Pow2[WordBits] - 1)]
      BY HashBits DEF HashesInv, HashAddr, Word
    <3>2. layer \in -1..(D - 1) /\ leaf \in 0..Hashes!Pow2[TreeHeight]
      BY HashBits DEF HashesInv
    <3>3. Len(heights) <= TreeHeight + 1 BY StackRoom DEF HashesInv
    <3> QED BY <3>1, <3>2, <3>3 DEF Hashes!TypeOK
  <2>3. IsFiniteSet(prfs) /\ \A r \in prfs : Lawful(r) BY DEF HashesInv, History
  <2>4. \A r, q \in prfs : (r.for = q.for => r = q) /\ (r.at = q.at => r = q)
    <3> TAKE r, q \in prfs
    <3>1. WordBits \in Nat BY HashSizes
    <3> QED BY <2>3, <3>1, HashDetermined
  <2>5. Cardinality({r.at : r \in prfs}) = Cardinality(prfs)
    <3> DEFINE T == {r.at : r \in prfs}
               f == [r \in prfs |-> r.at]
    <3>1. f \in [prfs -> T] /\ \A y \in T : \E x \in prfs : f[x] = y OBVIOUS
    <3>2. \A x, y \in prfs : f[x] = f[y] => x = y BY <2>4
    <3> HIDE DEF T, f
    <3>3. Cardinality(T) = Cardinality(prfs) BY <3>1, <3>2, <2>3, FieldTells
    <3> QED BY <3>3 DEF T
  <2>6. Cardinality({r.for : r \in prfs}) = Cardinality(prfs)
    <3> DEFINE T == {r.for : r \in prfs}
               f == [r \in prfs |-> r.for]
    <3>1. f \in [prfs -> T] /\ \A y \in T : \E x \in prfs : f[x] = y OBVIOUS
    <3>2. \A x, y \in prfs : f[x] = f[y] => x = y BY <2>4
    <3> HIDE DEF T, f
    <3>3. Cardinality(T) = Cardinality(prfs) BY <3>1, <3>2, <2>3, FieldTells
    <3> QED BY <3>3 DEF T
  <2>7. IsFiniteSet(seeds) /\ \A r \in seeds : \E kp \in KeyPairs : r = SeedOf(kp)
    BY DEF HashesInv, SeedHistory
  <2>8. \A r, q \in seeds : (r.for = q.for => r = q) /\ (r.at = q.at => r = q)
    <3> TAKE r, q \in seeds
    <3>1. PICK a \in KeyPairs : r = SeedOf(a) BY <2>7
    <3>2. PICK b \in KeyPairs : q = SeedOf(b) BY <2>7
    <3>3. r.for = a /\ q.for = b BY <3>1, <3>2 DEF SeedOf
    <3>4. r.for = q.for => r = q BY <3>1, <3>2, <3>3
    <3>5. ASSUME r.at = q.at PROVE r = q
      <4> DEFINE u == ChainHash(a, 0, 0, 0)
                 v == ChainHash(b, 0, 0, 0)
      <4>1. u.at = r.at /\ v.at = q.at BY <3>1, <3>2 DEF SeedOf, ChainHash
      <4>2. 0 \in Nat /\ WordBits \in Nat BY HashSizes
      <4>3. Lawful(u) /\ Lawful(v) BY <4>2 DEF Lawful
      <4>4. u = v
        <5> HIDE DEF u, v
        <5>1. u.at = v.at BY <4>1, <3>5
        <5> QED BY <5>1, <4>2, <4>3, HashDetermined
      <4>5. u.for = <<"chain", a, 0, 0, 0>> /\ v.for = <<"chain", b, 0, 0, 0>> BY DEF ChainHash
      <4>6. a = b
        <5> HIDE DEF u, v
        <5> QED BY <4>4, <4>5
      <4> QED BY <4>6, <3>1, <3>2
    <3> QED BY <3>4, <3>5
  <2>9. Cardinality({r.at : r \in seeds}) = Cardinality(seeds)
    <3> DEFINE T == {r.at : r \in seeds}
               f == [r \in seeds |-> r.at]
    <3>1. f \in [seeds -> T] /\ \A y \in T : \E x \in seeds : f[x] = y OBVIOUS
    <3>2. \A x, y \in seeds : f[x] = f[y] => x = y BY <2>8
    <3> HIDE DEF T, f
    <3>3. Cardinality(T) = Cardinality(seeds) BY <3>1, <3>2, <2>7, FieldTells
    <3> QED BY <3>3 DEF T
  <2>10. Cardinality({r.for : r \in seeds}) = Cardinality(seeds)
    <3> DEFINE T == {r.for : r \in seeds}
               f == [r \in seeds |-> r.for]
    <3>1. f \in [seeds -> T] /\ \A y \in T : \E x \in seeds : f[x] = y OBVIOUS
    <3>2. \A x, y \in seeds : f[x] = f[y] => x = y BY <2>8
    <3> HIDE DEF T, f
    <3>3. Cardinality(T) = Cardinality(seeds) BY <3>1, <3>2, <2>7, FieldTells
    <3> QED BY <3>3 DEF T
  <2> QED BY <2>1, <2>2, <2>5, <2>6, <2>9, <2>10
          DEF AddressesAgree, Hashes!AddressUnique, Hashes!CallsAgree, Hashes!SeedsAgree
<1> QED BY <1>1, HashesInvariant, PTL
=============================================================================
