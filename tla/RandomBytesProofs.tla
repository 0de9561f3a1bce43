------------------------- MODULE RandomBytesProofs -------------------------
(***************************************************************************)
(* The proofs about where random bytes come from: randombytes of           *)
(* mine-wots, for every size of chunk, every length and any number of      *)
(* calls; the seed expander, for every size of block and of counter and    *)
(* every list of requests; and the generator of the known-answer programs, *)
(* for every block size, seeding and list of lengths.  Then those programs *)
(* with their files, for any number of records and of runs, each of which  *)
(* may be killed anywhere.                                                 *)
(*                                                                         *)
(* The invariant of randombytes says where a call stands: what is filled,  *)
(* what is wanted and what was drawn always add up.  The expander's says   *)
(* that the counters it encrypted are 0, 1, 2, ... as their bytes count    *)
(* them, and that what was read and what is in the buffer are those        *)
(* blocks.  The generator's says that each key was made by the one before  *)
(* it, so that none comes back.  That of the programs says that a response *)
(* is right line by line, and for each statement what the program that     *)
(* comes to it has read, computed and written.                             *)
(***************************************************************************)
EXTENDS MCRandomness, TreeProofs, SequenceTheorems

(* Of the len bytes asked for, pos are there and xlen are not; those there   *)
(* are the bytes drawn since the call, and the others are untouched.         *)
Accounted ==
  /\ pos + xlen = len
  /\ drawn = base + pos
  /\ \A k \in 0..(pos - 1) : buf[k] = base + k
  /\ \A k \in pos..MaxLen : buf[k] = Unwritten
  /\ pc = "idle" => xlen = 0

IInv == TypeOK /\ Accounted /\ OpenedOnce

(* What ReadWorks leaves behind: the bytes up to the new pos. *)
LEMMA ReadKeeps ==
  ASSUME IInv, NEW n \in 1..i, ReadWorks(n)
  PROVE  IInv'
<1> USE BoundsAssumption DEF IInv, TypeOK, Accounted, OpenedOnce, Unwritten
<1>0. /\ pc = "read" /\ pc' = "loop"
      /\ i \in 1..xlen /\ n \in Nat /\ n >= 1 /\ n <= xlen
      /\ pos' = pos + n /\ xlen' = xlen - n /\ drawn' = drawn + n
      /\ fd' = fd /\ opens' = opens /\ i' = i /\ len' = len /\ base' = base
      /\ calls' = calls
  BY DEF ReadWorks, Advance
<1>1. /\ pos \in Nat /\ xlen \in Nat /\ len \in Nat /\ drawn \in Nat /\ base \in Nat
      /\ pos + xlen = len /\ len <= MaxLen
  OBVIOUS
<1>2. buf' = [k \in 0..MaxLen |->
                IF pos <= k /\ k < pos + n THEN drawn + (k - pos) ELSE buf[k]]
  BY DEF ReadWorks
<1>3. buf' \in [0..MaxLen -> Nat \cup {Unwritten}]
  <2>1. ASSUME NEW k \in 0..MaxLen
        PROVE  (IF pos <= k /\ k < pos + n THEN drawn + (k - pos) ELSE buf[k])
                 \in Nat \cup {Unwritten}
    <3>1. CASE pos <= k /\ k < pos + n
      BY <3>1, <1>1
    <3>2. CASE ~(pos <= k /\ k < pos + n)
      BY <3>2
    <3> QED BY <3>1, <3>2
  <2> QED BY <2>1, <1>2
<1>4. TypeOK'
  BY <1>0, <1>1, <1>3
<1>5. \A k \in 0..(pos' - 1) : buf'[k] = base' + k
  <2>1. ASSUME NEW k \in 0..(pos + n - 1) PROVE buf'[k] = base + k
    <3>1. k \in 0..MaxLen
      BY <1>0, <1>1
    <3>2. CASE k < pos
      <4>1. buf'[k] = buf[k] BY <3>1, <3>2, <1>2
      <4> QED BY <4>1, <3>2, <1>1
    <3>3. CASE ~(k < pos)
      <4>1. buf'[k] = drawn + (k - pos) BY <3>1, <3>3, <1>0, <1>1, <1>2
      <4> QED BY <4>1, <1>1
    <3> QED BY <3>2, <3>3
  <2> QED BY <2>1, <1>0
<1>6. \A k \in pos'..MaxLen : buf'[k] = Unwritten
  <2>1. ASSUME NEW k \in (pos + n)..MaxLen PROVE buf'[k] = Unwritten
    <3>1. k \in 0..MaxLen /\ k \in pos..MaxLen /\ ~(k < pos + n)
      BY <1>0, <1>1
    <3>2. buf'[k] = buf[k] BY <3>1, <1>2
    <3> QED BY <3>1, <3>2
  <2> QED BY <2>1, <1>0
<1> QED BY <1>0, <1>1, <1>4, <1>5, <1>6

(* A call starts with an empty buffer. *)
LEMMA CallKeeps ==
  ASSUME IInv, NEW n \in 0..MaxLen, Call(n)
  PROVE  IInv'
<1> USE BoundsAssumption DEF IInv, TypeOK, Accounted, OpenedOnce, Unwritten
<1>1. buf' = [k \in 0..MaxLen |-> Unwritten] /\ pos' = 0 /\ xlen' = n /\ len' = n
      /\ base' = drawn /\ drawn' = drawn /\ pc' = "open" /\ calls' = calls + 1
      /\ calls < MaxCalls /\ fd' = fd /\ opens' = opens /\ i' = i
  BY DEF Call
<1>2. buf' \in [0..MaxLen -> Nat \cup {Unwritten}]
  BY <1>1
<1>3. TypeOK'
  BY <1>1, <1>2
<1>4. Accounted'
  BY <1>1, <1>2
<1> QED BY <1>1, <1>3, <1>4

(* Every step of randombytes keeps IInv.                                     *)
LEMMA Inductive == IInv /\ [Next]_vars => IInv'
<1> SUFFICES ASSUME IInv, [Next]_vars PROVE IInv'
  OBVIOUS
<1>1. ASSUME NEW n \in 0..MaxLen, Call(n) PROVE IInv'
  BY <1>1, CallKeeps
<1>2. CASE HasOpened
  BY <1>2 DEF HasOpened, IInv, TypeOK, Accounted, OpenedOnce, Unwritten
<1>3. CASE OpenWorks
  BY <1>3 DEF OpenWorks, MustOpen, IInv, TypeOK, Accounted, OpenedOnce, Unwritten
<1>4. CASE OpenFails
  BY <1>4 DEF OpenFails, IInv, TypeOK, Accounted, OpenedOnce, Unwritten
<1>5. CASE Ask
  BY <1>5, BoundsAssumption
     DEF Ask, Asked, IInv, TypeOK, Accounted, OpenedOnce, Unwritten
<1>6. ASSUME NEW n \in 1..i, ReadWorks(n) PROVE IInv'
  BY <1>6, ReadKeeps
<1>7. CASE ReadFails
  BY <1>7 DEF ReadFails, IInv, TypeOK, Accounted, OpenedOnce, Unwritten
<1>8. CASE Wake
  BY <1>8 DEF Wake, IInv, TypeOK, Accounted, OpenedOnce, Unwritten
<1>9. CASE Return
  BY <1>9 DEF Return, IInv, TypeOK, Accounted, OpenedOnce, Unwritten
<1>10. CASE UNCHANGED vars
  BY <1>10 DEF vars, IInv, TypeOK, Accounted, OpenedOnce, Unwritten
<1> QED
  BY <1>1, <1>2, <1>3, <1>4, <1>5, <1>6, <1>7, <1>8, <1>9, <1>10 DEF Next

(* The invariant holds from the first state on. *)
LEMMA Invariant == Spec => []IInv
<1>1. Init => IInv
  BY BoundsAssumption DEF Init, IInv, TypeOK, Accounted, OpenedOnce, Unwritten
<1> QED BY <1>1, Inductive, PTL DEF Spec

(* Type correctness: in particular, read is never asked for more than a      *)
(* chunk or than the caller still wants.                                     *)
THEOREM TypeCorrect == Spec => []TypeOK
<1>1. IInv => TypeOK
  BY DEF IInv
<1> QED BY <1>1, Invariant, PTL

(* Whatever open and read return, a call that returns has filled its buffer  *)
(* with the bytes drawn since it began, each once and in order, and has      *)
(* written nothing behind it (randombytes.c:26).                             *)
THEOREM FilledHolds == Spec => []Filled
<1>1. IInv => Filled
  <2> SUFFICES ASSUME IInv PROVE Filled
    OBVIOUS
  <2> USE BoundsAssumption DEF IInv, TypeOK, Accounted
  <2>1. pos \in Nat /\ len \in Nat /\ xlen \in Nat /\ pos <= len
    OBVIOUS
  <2>2. \A k \in len..MaxLen : buf[k] = Unwritten
    BY <2>1
  <2>3. ASSUME pc = "idle"
        PROVE drawn = base + len /\ \A k \in 0..(len - 1) : buf[k] = base + k
    BY <2>1, <2>3
  <2> QED BY <2>2, <2>3 DEF Filled
<1> QED BY <1>1, Invariant, PTL

(* However often open and read fail, the device is opened once and the       *)
(* descriptor kept (randombytes.c:14).                                       *)
THEOREM OpenedOnceHolds == Spec => []OpenedOnce
<1>1. IInv => OpenedOnce
  BY DEF IInv
<1> QED BY <1>1, Invariant, PTL

(* A byte given to the caller is never written a second time.                *)
THEOREM WrittenOnceHolds == Spec => WrittenOnce
<1>1. IInv /\ [Next]_vars
        => [pc # "idle" => \A k \in 0..MaxLen : buf[k] # Unwritten => buf'[k] = buf[k]]_vars
  <2> SUFFICES ASSUME IInv, Next, pc # "idle",
                      NEW k \in 0..MaxLen, buf[k] # Unwritten
               PROVE  buf'[k] = buf[k]
    OBVIOUS
  <2>1. ASSUME NEW n \in 1..i, ReadWorks(n) PROVE buf'[k] = buf[k]
    <3>1. k < pos
      BY DEF IInv, TypeOK, Accounted
    <3> QED BY <3>1, <2>1 DEF ReadWorks, IInv, TypeOK
  <2>2. ASSUME NEW n \in 0..MaxLen, Call(n) PROVE buf'[k] = buf[k]
    BY <2>2 DEF Call
  <2>3. CASE HasOpened \/ OpenWorks \/ OpenFails \/ Ask \/ ReadFails \/ Wake \/ Return
    BY <2>3 DEF HasOpened, OpenWorks, OpenFails, Ask, ReadFails, Wake, Return
  <2> QED BY <2>1, <2>2, <2>3 DEF Next
<1> QED BY <1>1, Invariant, PTL DEF Spec, WrittenOnce

-----------------------------------------------------------------------------
(* g is the recursion of Power up to n. *)
Raising(n, g) ==
  /\ g \in [0..n -> Nat \ {0}]
  /\ \A m \in 0..n : g[m] = IF m = 0 THEN 1 ELSE Radix * g[m - 1]

(* The sizes of the expander are what it needs them to be. *)
LEMMA ExpanderSizes ==
  /\ XofBlock \in Nat \ {0} /\ CtrBytes \in Nat \ {0}
  /\ Radix \in Nat /\ Radix >= 2
  /\ Lengths \subseteq Nat /\ Requests \subseteq Nat
BY ExpanderAssumption DEF Expander!SizesAssumption

(* The product of two numbers that are not 0 is none. *)
LEMMA TimesPositive ==
  ASSUME NEW m \in Nat \ {0}, NEW n \in Nat \ {0}
  PROVE  m * n \in Nat \ {0}
OBVIOUS

(* The recursion that defines Power can be carried out up to any number.     *)
LEMMA RaisingExists == \A n \in Nat : \E g : Raising(n, g)
<1> DEFINE S == {n \in Nat : \E g : Raising(n, g)}
<1>1. 0 \in S
  <2>1. Raising(0, [m \in 0..0 |-> 1]) BY DEF Raising
  <2> QED BY <2>1
<1>2. ASSUME NEW n \in Nat, n \in S PROVE n + 1 \in S
  <2>1. PICK g : Raising(n, g) BY <1>2
  <2> DEFINE h == [m \in 0..(n + 1) |-> IF m = n + 1 THEN Radix * g[n] ELSE g[m]]
  <2>2. g[n] \in Nat \ {0} BY <2>1 DEF Raising
  <2>3. Radix * g[n] \in Nat \ {0}
    <3>1. Radix \in Nat \ {0} BY ExpanderSizes
    <3> QED BY ONLY <2>2, <3>1, TimesPositive
  <2>4. h \in [0..(n + 1) -> Nat \ {0}] BY <2>1, <2>3 DEF Raising
  <2>5. ASSUME NEW m \in 0..(n + 1)
        PROVE  h[m] = IF m = 0 THEN 1 ELSE Radix * h[m - 1]
    <3>1. CASE m = n + 1
      <4>1. m - 1 = n /\ m # 0 BY <3>1
      <4>2. h[m] = Radix * g[n] /\ h[n] = g[n] BY <3>1
      <4> QED BY <4>1, <4>2
    <3>2. CASE m # n + 1
      <4>1. m \in 0..n BY <3>2
      <4>2. h[m] = g[m] BY <3>2
      <4>3. m # 0 => m - 1 \in 0..(n + 1) /\ m - 1 # n + 1 BY <4>1
      <4>4. m # 0 => h[m - 1] = g[m - 1] BY <4>3
      <4>5. g[m] = IF m = 0 THEN 1 ELSE Radix * g[m - 1] BY <2>1, <4>1 DEF Raising
      <4> HIDE DEF h
      <4> QED BY ONLY <4>2, <4>4, <4>5
    <3> QED BY <3>1, <3>2
  <2>6. Raising(n + 1, h)
    <3> HIDE DEF h
    <3> QED BY <2>4, <2>5 DEF Raising
  <2> QED BY <2>6
<1>3. Nat \subseteq S
  <2> HIDE DEF S
  <2> QED BY <1>1, <1>2, SetInduction
<1> QED BY <1>3

(* Two such recursions agree where both are defined.                         *)
LEMMA RaisingUnique ==
  ASSUME NEW m \in Nat, NEW n \in Nat, NEW g, NEW h,
         Raising(m, g), Raising(n, h), m <= n
  PROVE  g[m] = h[m]
<1> DEFINE S == {l \in Nat : l <= m => g[l] = h[l]}
<1>1. 0 \in S BY DEF Raising
<1>2. ASSUME NEW l \in Nat, l \in S PROVE l + 1 \in S
  <2> SUFFICES ASSUME l + 1 <= m PROVE g[l + 1] = h[l + 1] OBVIOUS
  <2>1. l + 1 \in 0..m /\ l + 1 \in 0..n /\ l + 1 # 0 /\ (l + 1) - 1 = l OBVIOUS
  <2>2. g[l + 1] = Radix * g[l] /\ h[l + 1] = Radix * h[l] BY <2>1 DEF Raising
  <2>3. g[l] = h[l] BY <1>2
  <2> QED BY <2>2, <2>3
<1>3. Nat \subseteq S
  <2> HIDE DEF S
  <2> QED BY <1>1, <1>2, SetInduction
<1> QED BY <1>3

(* What the recursive definition of Power says.                              *)
LEMMA PowerRecursion ==
  /\ Expander!Power[0] = 1
  /\ \A n \in Nat : /\ Expander!Power[n] \in Nat \ {0}
                    /\ Expander!Power[n + 1] = Radix * Expander!Power[n]
<1> DEFINE Upto(n) == CHOOSE g : Raising(n, g)
           F == [n \in Nat |-> Upto(n)[n]]
<1>1. \A n \in Nat : Raising(n, Upto(n)) BY RaisingExists
<1>2. ASSUME NEW n \in Nat PROVE F[n] \in Nat \ {0}
  <2>1. Raising(n, Upto(n)) /\ n \in 0..n BY <1>1
  <2> HIDE DEF Upto
  <2>2. Upto(n)[n] \in Nat \ {0} BY <2>1 DEF Raising
  <2> QED BY <2>2
<1>3. F[0] = 1
  <2>1. Raising(0, Upto(0)) BY <1>1
  <2> HIDE DEF Upto
  <2>2. Upto(0)[0] = 1
    <3>1. 0 \in 0..0 OBVIOUS
    <3> QED BY <2>1, <3>1 DEF Raising
  <2> QED BY <2>2
<1>4. ASSUME NEW n \in Nat PROVE F[n + 1] = Radix * F[n]
  <2>1. Raising(n, Upto(n)) /\ Raising(n + 1, Upto(n + 1)) BY <1>1
  <2>2. n <= n + 1 OBVIOUS
  <2>3. Upto(n)[n] = Upto(n + 1)[n]
    <3> HIDE DEF Upto
    <3> QED BY <2>1, <2>2, RaisingUnique
  <2>4. n + 1 \in 0..(n + 1) /\ n + 1 # 0 /\ (n + 1) - 1 = n OBVIOUS
  <2>5. Upto(n + 1)[n + 1] = Radix * Upto(n + 1)[n]
    <3> HIDE DEF Upto
    <3> QED BY <2>1, <2>4 DEF Raising
  <2> QED BY <2>3, <2>5
<1>5. F = [n \in Nat |-> IF n = 0 THEN 1 ELSE Radix * F[n - 1]]
  <2>1. ASSUME NEW n \in Nat PROVE F[n] = IF n = 0 THEN 1 ELSE Radix * F[n - 1]
    <3>1. CASE n = 0 BY <3>1, <1>3
    <3>2. CASE n # 0
      <4>1. n - 1 \in Nat /\ (n - 1) + 1 = n BY <3>2
      <4> HIDE DEF F
      <4> QED BY <4>1, <3>2, <1>4
    <3> QED BY <3>1, <3>2
  <2>2. F = [n \in Nat |-> F[n]] OBVIOUS
  <2> HIDE DEF F
  <2> QED BY <2>1, <2>2
<1>6. Expander!Power = [n \in Nat |-> IF n = 0 THEN 1 ELSE Radix * Expander!Power[n - 1]]
  <2> HIDE DEF F
  <2> QED BY <1>5 DEF Expander!Power
<1>7. \A n \in Nat : Expander!Power[n] = IF n = 0 THEN 1 ELSE Radix * Expander!Power[n - 1]
  BY ONLY <1>6
<1>8. Expander!Power[0] = 1 BY ONLY <1>7
<1>9. ASSUME NEW n \in Nat PROVE Expander!Power[n + 1] = Radix * Expander!Power[n]
  <2>1. n + 1 \in Nat /\ n + 1 # 0 /\ (n + 1) - 1 = n OBVIOUS
  <2> QED BY ONLY <1>7, <2>1
<1>10. Nat \subseteq {n \in Nat : Expander!Power[n] \in Nat \ {0}}
  <2> DEFINE S == {n \in Nat : Expander!Power[n] \in Nat \ {0}}
  <2>1. 0 \in S BY ONLY <1>8
  <2>2. ASSUME NEW n \in Nat, n \in S PROVE n + 1 \in S
    <3>1. Radix \in Nat \ {0} BY ExpanderSizes
    <3>2. Expander!Power[n] \in Nat \ {0} BY ONLY <2>2
    <3>3. Radix * Expander!Power[n] \in Nat \ {0} BY ONLY <3>1, <3>2, TimesPositive
    <3> QED BY ONLY <3>3, <1>9, n \in Nat
  <2> HIDE DEF S
  <2>3. Nat \subseteq S BY ONLY <2>1, <2>2, SetInduction
  <2> QED BY <2>3 DEF S
<1> QED BY <1>8, <1>9, <1>10

-----------------------------------------------------------------------------
(* n without its e lowest digits. *)
Quot(n, e) == n \div Expander!Power[e]

(* Digit e of n. *)
Digit(n, e) == Quot(n, e) % Radix

(* What is left of n has one digit fewer after each division by the radix.   *)
LEMMA QuotStep ==
  ASSUME NEW n \in Nat, NEW e \in Nat
  PROVE  /\ Quot(n, e) \in Nat
         /\ Digit(n, e) \in 0..(Radix - 1)
         /\ Quot(n, e) = Quot(n, e + 1) * Radix + Digit(n, e)
<1> DEFINE t == Expander!Power[e]
           q == n \div t
           c == n % t
           u == q \div Radix
           b == q % Radix
<1>1. t \in Nat \ {0} /\ Expander!Power[e + 1] = Radix * t BY PowerRecursion
<1>2. Radix \in Nat \ {0} BY ExpanderSizes
<1>3. q \in Nat /\ c \in 0..(t - 1) /\ n = q * t + c
  <2> HIDE DEF t
  <2> QED BY ONLY <1>1, n \in Nat, SplitAt
<1>4. u \in Nat /\ b \in 0..(Radix - 1) /\ q = u * Radix + b
  <2> HIDE DEF q
  <2> QED BY ONLY <1>2, <1>3, SplitAt
<1> DEFINE tt == Radix * t
           r == b * t + c
<1>5. tt \in Nat \ {0}
  <2> HIDE DEF t
  <2> QED BY ONLY <1>1, <1>2, TimesPositive
<1>6. r \in 0..(tt - 1)
  <2> HIDE DEF t, q, c, u, b
  <2>1. b <= Radix - 1 /\ b \in Nat BY <1>4, <1>2
  <2>2. b * t <= (Radix - 1) * t /\ b * t \in Nat BY ONLY <2>1, <1>1, <1>2
  <2>3. (Radix - 1) * t = Radix * t - t /\ Radix * t \in Nat BY ONLY <1>1, <1>2
  <2> DEFINE bt == b * t
             rt == Radix * t
             st == (Radix - 1) * t
  <2>4. bt <= st /\ bt \in Nat /\ st = rt - t /\ rt \in Nat BY <2>2, <2>3
  <2> HIDE DEF bt, rt, st
  <2>5. bt + c \in 0..(rt - 1) BY ONLY <2>4, <1>3, <1>1
  <2> QED BY <2>5 DEF bt, rt
<1>7. n = u * tt + r
  <2> HIDE DEF t, q, c, u, b
  <2>1. (u * Radix + b) * t = u * (Radix * t) + b * t BY ONLY <1>1, <1>2, <1>4
  <2>2. u * (Radix * t) \in Nat /\ b * t \in Nat /\ q * t \in Nat
    BY ONLY <1>1, <1>2, <1>3, <1>4
  <2>3. q * t = u * (Radix * t) + b * t BY ONLY <2>1, <1>4
  <2> DEFINE m == u * (Radix * t)
             bt == b * t
             qt == q * t
  <2>4. m \in Nat /\ bt \in Nat /\ qt \in Nat /\ qt = m + bt /\ n = qt + c
    BY <2>2, <2>3, <1>3
  <2> HIDE DEF m, bt, qt
  <2>5. n = m + (bt + c) BY ONLY <2>4, <1>3, <1>1
  <2> QED BY <2>5 DEF m, bt
<1>8. n \div tt = u
  <2> DEFINE uu == n \div tt
             rr == n % tt
  <2>1. uu \in Nat /\ rr \in 0..(tt - 1) /\ n = uu * tt + rr
    <3> HIDE DEF tt
    <3> QED BY ONLY <1>5, n \in Nat, SplitAt
  <2>2. u \in Nat BY <1>4
  <2> HIDE DEF tt, uu, rr, u, r
  <2>3. uu * tt + rr = u * tt + r BY ONLY <2>1, <1>7
  <2>4. uu = u BY ONLY <2>1, <2>2, <2>3, <1>5, <1>6, SplitUnique
  <2> QED BY <2>4 DEF uu
<1>9. Quot(n, e) = q /\ Quot(n, e + 1) = u /\ Digit(n, e) = b
  <2>1. Quot(n, e + 1) = n \div tt BY <1>1 DEF Quot
  <2> QED BY <1>8, <2>1 DEF Quot, Digit
<1> HIDE DEF q, u, b
<1> QED BY ONLY <1>3, <1>4, <1>9

(* Nothing is taken off at first, and nothing is left of what is small.      *)
LEMMA QuotEnds ==
  ASSUME NEW n \in Nat, NEW e \in Nat
  PROVE  /\ Quot(n, 0) = n
         /\ n < Expander!Power[e] => Quot(n, e) = 0
<1>1. n \div 1 = n OBVIOUS
<1>2. Quot(n, 0) = n BY <1>1, PowerRecursion DEF Quot
<1>3. ASSUME n < Expander!Power[e] PROVE Quot(n, e) = 0
  <2> DEFINE t == Expander!Power[e]
  <2>1. t \in Nat \ {0} /\ n < t BY PowerRecursion, <1>3
  <2> HIDE DEF t
  <2>2. n \div t = 0 BY ONLY <2>1, n \in Nat
  <2> QED BY <2>2 DEF Quot, t
<1> QED BY <1>2, <1>3

(* The e lowest digits of n are the highest digit there is. *)
AllOnes(n, e) == \A l \in 0..(e - 1) : Digit(n, l) = Radix - 1

(* The remainder of the next number. *)
LEMMA RestOfNext ==
  ASSUME NEW q \in Nat, NEW t \in Nat \ {0}
  PROVE  (q + 1) % t = ((q % t) + 1) % t
<1> DEFINE u == q \div t
           b == q % t
<1>1. u \in Nat /\ b \in 0..(t - 1) /\ q = u * t + b BY SplitAt
<1> DEFINE p == b + 1
           w == p \div t
           r == p % t
<1>2. p \in Nat
  <2> HIDE DEF b
  <2> QED BY <1>1
<1>3. w \in Nat /\ r \in 0..(t - 1) /\ p = w * t + r
  <2> HIDE DEF p
  <2> QED BY ONLY <1>2, t \in Nat \ {0}, SplitAt
<1> DEFINE z == q + 1
           y == z \div t
           d == z % t
<1>4. y \in Nat /\ d \in 0..(t - 1) /\ z = y * t + d
  <2>1. z \in Nat OBVIOUS
  <2> HIDE DEF z
  <2> QED BY ONLY <2>1, t \in Nat \ {0}, SplitAt
<1>5. z = u * t + p /\ p = b + 1
  <2>1. u * t \in Nat
    <3> HIDE DEF u
    <3> QED BY ONLY <1>1, t \in Nat \ {0}, TimesNat
  <2> DEFINE m == u * t
  <2>2. m \in Nat /\ q = m + b /\ b \in Nat BY <1>1, <2>1
  <2> HIDE DEF m, b
  <2>3. q + 1 = m + (b + 1) BY ONLY <2>2
  <2> QED BY <2>3 DEF m
<1> HIDE DEF u, b, p, w, r, z, y, d
<1>6. (u + w) * t = u * t + w * t /\ u * t \in Nat /\ w * t \in Nat /\ u + w \in Nat
  BY ONLY <1>1, <1>3, t \in Nat \ {0}
<1>7. y * t + d = (u + w) * t + r
  <2> DEFINE m == u * t
             k == w * t
  <2>3. m \in Nat /\ k \in Nat /\ (u + w) * t = m + k BY ONLY <1>6
  <2>4. z = m + p /\ p = k + r BY ONLY <1>3, <1>5
  <2>5. r \in Nat BY ONLY <1>3, t \in Nat \ {0}
  <2>1. m \in Nat /\ k \in Nat /\ z = m + p /\ p = k + r /\ (u + w) * t = m + k
    BY ONLY <2>3, <2>4
  <2> HIDE DEF m, k
  <2>2. z = (m + k) + r BY ONLY <2>1, <2>5
  <2> QED BY ONLY <2>1, <2>2, <1>4, Zenon
<1>8. d = r
  <2>1. PICK a : a = u + w OBVIOUS
  <2>2. a \in Nat /\ y \in Nat /\ d \in 0..(t - 1) /\ r \in 0..(t - 1) /\ y * t + d = a * t + r
    BY ONLY <1>3, <1>4, <1>6, <1>7, <2>1, Zenon
  <2> QED BY ONLY <2>2, t \in Nat \ {0}, SplitUnique
<1> QED BY <1>8 DEF d, r, z, p, b

(* Counting on by one changes what is left of a number after e divisions     *)
(* exactly if a carry runs through all the digits below.                     *)
LEMMA CarryRuns ==
  ASSUME NEW n \in Nat
  PROVE  \A e \in Nat : Quot(n + 1, e) = IF AllOnes(n, e) THEN Quot(n, e) + 1 ELSE Quot(n, e)
<1> DEFINE S == {e \in Nat :
                  Quot(n + 1, e) = IF AllOnes(n, e) THEN Quot(n, e) + 1 ELSE Quot(n, e)}
<1>1. 0 \in S
  <2>1. AllOnes(n, 0) BY DEF AllOnes
  <2>2. n + 1 \in Nat OBVIOUS
  <2>3. Quot(n + 1, 0) = n + 1 /\ Quot(n, 0) = n BY <2>2, QuotEnds
  <2> QED BY <2>1, <2>3
<1>2. ASSUME NEW e \in Nat, e \in S PROVE e + 1 \in S
  <2>1. n + 1 \in Nat OBVIOUS
  <2> DEFINE q == Quot(n, e)
             u == Quot(n, e + 1)
             b == Digit(n, e)
             qq == Quot(n + 1, e)
             uu == Quot(n + 1, e + 1)
             bb == Digit(n + 1, e)
  <2>2. /\ q \in Nat /\ u \in Nat /\ b \in 0..(Radix - 1) /\ q = u * Radix + b
        /\ qq \in Nat /\ uu \in Nat /\ bb \in 0..(Radix - 1) /\ qq = uu * Radix + bb
    <3>1. /\ Quot(n, e + 1) \in Nat /\ Quot(n + 1, e + 1) \in Nat
      <4>1. e + 1 \in Nat OBVIOUS
      <4> QED BY <4>1, <2>1, QuotStep
    <3>2. q \in Nat /\ b \in 0..(Radix - 1) /\ q = u * Radix + b BY QuotStep
    <3>3. qq \in Nat /\ bb \in 0..(Radix - 1) /\ qq = uu * Radix + bb BY ONLY <2>1, e \in Nat, QuotStep
    <3> QED BY <3>1, <3>2, <3>3
  <2>3. AllOnes(n, e + 1) <=> AllOnes(n, e) /\ b = Radix - 1
    <3>1. 0..((e + 1) - 1) = (0..(e - 1)) \cup {e} OBVIOUS
    <3> QED BY <3>1 DEF AllOnes
  <2>4. qq = IF AllOnes(n, e) THEN q + 1 ELSE q BY <1>2
  <2>5. Radix \in Nat \ {0} BY ExpanderSizes
  <2> HIDE DEF q, u, b, qq, uu, bb
  <2>6. CASE AllOnes(n, e) /\ b = Radix - 1
    <3>1. (u + 1) * Radix = u * Radix + Radix /\ u * Radix \in Int
      BY ONLY <2>2, <2>5, TimesSucc
    <3>2. qq = (u + 1) * Radix + 0
      <4>1. qq = q + 1 BY <2>4, <2>6
      <4> QED BY ONLY <4>1, <3>1, <2>2, <2>5, <2>6
    <3>3. u + 1 \in Nat /\ 0 \in 0..(Radix - 1) BY ONLY <2>2, <2>5
    <3>4. uu * Radix + bb = (u + 1) * Radix + 0 BY ONLY <3>2, <2>2
    <3>5. uu = u + 1 BY ONLY <2>2, <2>5, <3>3, <3>4, SplitUnique
    <3> QED BY <3>5, <2>3, <2>6 DEF u, uu
  <2>7. CASE AllOnes(n, e) /\ b # Radix - 1
    <3>1. b + 1 \in 0..(Radix - 1) /\ u * Radix \in Nat BY ONLY <2>2, <2>5, <2>7, TimesNat
    <3>2. qq = q + 1 BY <2>4, <2>7
    <3>3. uu * Radix + bb = u * Radix + (b + 1) BY ONLY <3>1, <3>2, <2>2, <2>5
    <3>4. uu = u BY ONLY <2>2, <2>5, <3>1, <3>3, SplitUnique
    <3> QED BY <3>4, <2>3, <2>7 DEF u, uu
  <2>8. CASE ~AllOnes(n, e)
    <3>1. qq = q BY <2>4, <2>8
    <3>2. uu * Radix + bb = u * Radix + b BY ONLY <3>1, <2>2
    <3>3. uu = u BY ONLY <2>2, <2>5, <3>2, SplitUnique
    <3> QED BY <3>3, <2>3, <2>8 DEF u, uu
  <2> QED BY <2>6, <2>7, <2>8
<1>3. Nat \subseteq S
  <2> HIDE DEF S
  <2> QED BY <1>1, <1>2, SetInduction
<1> QED BY <1>3

(* The counter bytes of n are its digits, the highest first. *)
LEMMA CtrValueIs ==
  ASSUME NEW n \in Nat
  PROVE  /\ Expander!CtrValue(n) \in [1..CtrBytes -> 0..(Radix - 1)]
         /\ \A j \in 1..CtrBytes : Expander!CtrValue(n)[j] = Digit(n, CtrBytes - j)
<1>1. Expander!CtrValue(n) = [j \in 1..CtrBytes |-> Digit(n, CtrBytes - j)]
  BY DEF Expander!CtrValue, Digit, Quot
<1>2. ASSUME NEW j \in 1..CtrBytes PROVE Digit(n, CtrBytes - j) \in 0..(Radix - 1)
  <2>1. CtrBytes - j \in Nat BY ExpanderSizes
  <2> QED BY <2>1, QuotStep
<1> QED BY <1>1, <1>2

(* The loop over the counter bytes counts: it makes the bytes of the next    *)
(* number from those of any number.                                          *)
LEMMA IncrementCounts ==
  ASSUME NEW n \in Nat
  PROVE  Expander!Increment(Expander!CtrValue(n)) = Expander!CtrValue(n + 1)
<1> DEFINE c == Expander!CtrValue(n)
<1>1. \A j \in 1..CtrBytes : c[j] = Digit(n, CtrBytes - j) /\ c[j] \in 0..(Radix - 1)
  BY CtrValueIs
<1>2. n + 1 \in Nat OBVIOUS
<1>3. Expander!CtrValue(n + 1) = [j \in 1..CtrBytes |-> Digit(n + 1, CtrBytes - j)]
  BY DEF Expander!CtrValue, Digit, Quot
<1>4. Expander!Increment(c) =
        [j \in 1..CtrBytes |->
          IF \A l \in (j + 1)..CtrBytes : c[l] = Radix - 1 THEN (c[j] + 1) % Radix ELSE c[j]]
  BY DEF Expander!Increment
<1> HIDE DEF c
<1>5. ASSUME NEW j \in 1..CtrBytes
      PROVE  (IF \A l \in (j + 1)..CtrBytes : c[l] = Radix - 1 THEN (c[j] + 1) % Radix ELSE c[j])
               = Digit(n + 1, CtrBytes - j)
  <2> DEFINE e == CtrBytes - j
  <2>1. e \in Nat /\ CtrBytes \in Nat BY ExpanderSizes
  <2>2. (\A l \in (j + 1)..CtrBytes : c[l] = Radix - 1) <=> AllOnes(n, e)
    <3>1. ASSUME \A l \in (j + 1)..CtrBytes : c[l] = Radix - 1, NEW l \in 0..(e - 1)
          PROVE  Digit(n, l) = Radix - 1
      <4>1. CtrBytes - l \in (j + 1)..CtrBytes /\ CtrBytes - l \in 1..CtrBytes
            /\ CtrBytes - (CtrBytes - l) = l
        BY <2>1
      <4>2. c[CtrBytes - l] = Radix - 1 BY <4>1, <3>1
      <4>3. c[CtrBytes - l] = Digit(n, CtrBytes - (CtrBytes - l)) BY <4>1, <1>1
      <4> QED BY ONLY <4>1, <4>2, <4>3
    <3>2. ASSUME AllOnes(n, e), NEW l \in (j + 1)..CtrBytes
          PROVE  c[l] = Radix - 1
      <4>1. CtrBytes - l \in 0..(e - 1) /\ l \in 1..CtrBytes BY <2>1
      <4> HIDE DEF e
      <4>2. Digit(n, CtrBytes - l) = Radix - 1 BY ONLY <4>1, <3>2 DEF AllOnes
      <4> QED BY ONLY <4>1, <4>2, <1>1
    <3> HIDE DEF e
    <3> QED BY <3>1, <3>2 DEF AllOnes
  <2>3. Quot(n + 1, e) = IF AllOnes(n, e) THEN Quot(n, e) + 1 ELSE Quot(n, e)
    BY <2>1, CarryRuns
  <2>4. c[j] = Digit(n, e) BY <1>1
  <2>5. Digit(n + 1, e) = IF AllOnes(n, e) THEN (Digit(n, e) + 1) % Radix ELSE Digit(n, e)
    <3> DEFINE q == Quot(n, e)
    <3>1. q \in Nat BY <2>1, QuotStep
    <3>2. Radix \in Nat \ {0} /\ Radix >= 2 BY ExpanderSizes
    <3>3. (q + 1) % Radix = ((q % Radix) + 1) % Radix
      <4> HIDE DEF q
      <4> QED BY ONLY <3>1, <3>2, RestOfNext
    <3>4. Digit(n + 1, e) = Quot(n + 1, e) % Radix /\ Digit(n, e) = q % Radix BY DEF Digit
    <3> HIDE DEF q
    <3> QED BY <3>3, <3>4, <2>3 DEF q
  <2> DEFINE All == \A l \in (j + 1)..CtrBytes : c[l] = Radix - 1
  <2>6. All <=> AllOnes(n, e) BY <2>2
  <2> HIDE DEF e, All
  <2>7. (IF All THEN (c[j] + 1) % Radix ELSE c[j]) = Digit(n + 1, e)
    BY ONLY <2>4, <2>5, <2>6
  <2> QED BY <2>7 DEF e, All
<1> QED BY <1>3, <1>4, <1>5 DEF c

(* Below the limit, different numbers have different counter bytes.          *)
LEMMA CtrValueInjective ==
  ASSUME NEW m \in Nat, NEW n \in Nat, m < Expander!Limit, n < Expander!Limit,
         Expander!CtrValue(m) = Expander!CtrValue(n)
  PROVE  m = n
<1> DEFINE S == {d \in Nat : d <= CtrBytes => Quot(m, CtrBytes - d) = Quot(n, CtrBytes - d)}
<1>1. CtrBytes \in Nat /\ Radix \in Nat BY ExpanderSizes
<1>2. 0 \in S
  <2>1. m < Expander!Power[CtrBytes] /\ n < Expander!Power[CtrBytes] BY DEF Expander!Limit
  <2>2. Quot(m, CtrBytes) = 0 /\ Quot(n, CtrBytes) = 0 BY ONLY <2>1, <1>1, m \in Nat, n \in Nat, QuotEnds
  <2>3. CtrBytes - 0 = CtrBytes BY <1>1
  <2> QED BY <2>2, <2>3
<1>3. ASSUME NEW d \in Nat, d \in S PROVE d + 1 \in S
  <2> SUFFICES ASSUME d + 1 <= CtrBytes
               PROVE  Quot(m, CtrBytes - (d + 1)) = Quot(n, CtrBytes - (d + 1))
    OBVIOUS
  <2> DEFINE e == CtrBytes - (d + 1)
  <2>1. e \in Nat /\ e + 1 = CtrBytes - d /\ d <= CtrBytes BY <1>1
  <2>2. Quot(m, e + 1) = Quot(n, e + 1) BY <1>3, <2>1
  <2>3. Digit(m, e) = Digit(n, e)
    <3>1. d + 1 \in 1..CtrBytes BY <1>1
    <3>2. Expander!CtrValue(m)[d + 1] = Digit(m, e) BY <3>1, CtrValueIs
    <3>3. Expander!CtrValue(n)[d + 1] = Digit(n, e) BY <3>1, CtrValueIs
    <3> QED BY <3>2, <3>3
  <2> HIDE DEF e
  <2>4. Quot(m, e) = Quot(m, e + 1) * Radix + Digit(m, e) BY ONLY <2>1, m \in Nat, QuotStep
  <2>5. Quot(n, e) = Quot(n, e + 1) * Radix + Digit(n, e) BY ONLY <2>1, n \in Nat, QuotStep
  <2>6. Quot(m, e) = Quot(n, e) BY ONLY <2>2, <2>3, <2>4, <2>5
  <2> QED BY <2>6 DEF e
<1>4. Nat \subseteq S
  <2> HIDE DEF S
  <2> QED BY <1>2, <1>3, SetInduction
<1>5. Quot(m, CtrBytes - CtrBytes) = Quot(n, CtrBytes - CtrBytes) BY <1>4, <1>1
<1>6. CtrBytes - CtrBytes = 0 BY <1>1
<1>7. Quot(m, 0) = m /\ Quot(n, 0) = n BY QuotEnds
<1> QED BY <1>5, <1>6, <1>7

(* The bytes of the stream. *)
StreamBytes == {Expander!StreamByte(k) : k \in Nat}

(* The counters that have been encrypted are those of the blocks 0, 1, 2,    *)
(* ..., fewer than there are counters, and the buffer has the last of them.  *)
InSequence ==
  /\ taken \in Seq([1..CtrBytes -> 0..(Radix - 1)])
  /\ Len(taken) < Expander!Limit
  /\ \A k \in 1..Len(taken) : taken[k] = Expander!CtrValue(k - 1)
  /\ ctr = Expander!CtrValue(Len(taken))
  /\ Len(taken) > 0 => buffer = Expander!CtrValue(Len(taken) - 1)

(* Bytes read from the stream, by the running request and those before it. *)
BytesRead == answered + (IF at = "loop" THEN Len(x) ELSE 0)

(* What has been read and what is left in the buffer are the blocks, and     *)
(* what the running request has is the piece of the stream that is next.     *)
InPlace ==
  /\ answered \in Nat
  /\ BytesRead + (XofBlock - bufferPos) = Len(taken) * XofBlock
  /\ at = "loop" => /\ x \in Seq(StreamBytes)
                    /\ \A k \in 1..Len(x) : x[k] = Expander!StreamByte(answered + k - 1)
                    /\ Len(x) + wanted \in Requests
  /\ at = "new" => maxlen = 0

ExpanderInv == Expander!TypeOK /\ Expander!LengthAccounted /\ InSequence /\ InPlace

(* Byte number i of block n. *)
LEMMA StreamByteAt ==
  ASSUME NEW n \in Nat, NEW i1 \in 0..(XofBlock - 1)
  PROVE  /\ n * XofBlock + i1 \in Nat
         /\ Expander!StreamByte(n * XofBlock + i1) = <<Expander!CtrValue(n), i1>>
<1> DEFINE k == n * XofBlock + i1
           q == k \div XofBlock
           r == k % XofBlock
<1>1. XofBlock \in Nat \ {0} BY ExpanderSizes
<1>2. n * XofBlock \in Nat BY <1>1, TimesNat
<1>3. k \in Nat BY <1>1, <1>2
<1>4. q \in Nat /\ r \in 0..(XofBlock - 1) /\ k = q * XofBlock + r
  <2> HIDE DEF k
  <2> QED BY ONLY <1>1, <1>3, SplitAt
<1>5. Expander!StreamByte(k) = <<Expander!CtrValue(q), r>>
  BY DEF Expander!StreamByte
<1>6. q = n /\ r = i1
  <2> HIDE DEF q, r
  <2>1. q * XofBlock + r = n * XofBlock + i1 BY <1>4
  <2> QED BY ONLY <2>1, <1>1, <1>4, n \in Nat, i1 \in 0..(XofBlock - 1), SplitUnique
<1> HIDE DEF q, r
<1> QED BY <1>3, <1>5, <1>6

(* What a request takes from the buffer continues the piece it has.          *)
LEMMA PieceContinues ==
  ASSUME ExpanderInv, at = "loop", NEW n \in 0..(XofBlock - bufferPos)
  PROVE  /\ x \o Expander!Bytes(n) \in Seq(StreamBytes)
         /\ Len(x \o Expander!Bytes(n)) = Len(x) + n
         /\ \A k \in 1..(Len(x) + n) :
              (x \o Expander!Bytes(n))[k] = Expander!StreamByte(answered + k - 1)
<1> DEFINE b == Expander!Bytes(n)
           T == Len(taken)
<1>1. /\ XofBlock \in Nat \ {0} /\ bufferPos \in 0..XofBlock
      /\ answered \in Nat /\ x \in Seq(StreamBytes) /\ Len(x) \in Nat /\ T \in Nat
      /\ answered + Len(x) + (XofBlock - bufferPos) = T * XofBlock
      /\ \A k \in 1..Len(x) : x[k] = Expander!StreamByte(answered + k - 1)
      /\ T > 0 => buffer = Expander!CtrValue(T - 1)
  <2>1. x \in Seq(StreamBytes) BY DEF ExpanderInv, InPlace
  <2>2. Len(x) \in Nat BY ONLY <2>1, LenProperties
  <2>3. bufferPos \in 0..XofBlock BY DEF ExpanderInv, Expander!TypeOK
  <2>4. /\ answered \in Nat /\ answered + Len(x) + (XofBlock - bufferPos) = T * XofBlock
        /\ \A k \in 1..Len(x) : x[k] = Expander!StreamByte(answered + k - 1)
    BY DEF ExpanderInv, InPlace, BytesRead
  <2>5. T \in Nat /\ (T > 0 => buffer = Expander!CtrValue(T - 1))
    BY DEF ExpanderInv, InSequence
  <2>6. XofBlock \in Nat \ {0} BY ExpanderSizes
  <2> HIDE DEF T
  <2> QED BY ONLY <2>1, <2>2, <2>3, <2>4, <2>5, <2>6
<1>2. ASSUME NEW k \in 1..n
      PROVE  /\ answered + Len(x) + k - 1 \in Nat
             /\ Expander!StreamByte(answered + Len(x) + k - 1) = <<buffer, bufferPos + k - 1>>
  <2> DEFINE P == T * XofBlock
             m == bufferPos + k - 1
  <2>1. answered + Len(x) + k - 1 \in Nat BY <1>1
  <2>2. T > 0
    <3> SUFFICES ASSUME T = 0 PROVE FALSE BY <1>1
    <3>1. T * XofBlock = 0 BY <1>1
    <3> HIDE DEF T
    <3> QED BY <3>1, <1>1
  <2>3. m \in 0..(XofBlock - 1)
    <3> HIDE DEF T
    <3> QED BY <1>1
  <2>4. (T - 1) * XofBlock = P - XofBlock /\ P \in Nat
    <3> HIDE DEF T
    <3> QED BY ONLY <1>1
  <2>5. answered + Len(x) + k - 1 = (T - 1) * XofBlock + m
    <3>1. answered + Len(x) + (XofBlock - bufferPos) = P BY <1>1
    <3> DEFINE PP == (T - 1) * XofBlock
    <3>2. PP = P - XofBlock BY <2>4
    <3>3. P \in Nat BY <2>4
    <3> HIDE DEF P, PP, T
    <3>4. answered + Len(x) + k - 1 = PP + (bufferPos + k - 1)
      BY ONLY <3>1, <3>2, <3>3, <1>1, k \in 1..n, n \in 0..(XofBlock - bufferPos)
    <3> QED BY <3>4 DEF PP
  <2>6. T - 1 \in Nat BY <2>2, <1>1
  <2>7. Expander!StreamByte((T - 1) * XofBlock + m) = <<Expander!CtrValue(T - 1), m>>
    <3> HIDE DEF m, T
    <3> QED BY ONLY <2>3, <2>6, StreamByteAt
  <2>8. buffer = Expander!CtrValue(T - 1) BY <2>2, <1>1
  <2> HIDE DEF T
  <2> QED BY <2>1, <2>5, <2>7, <2>8
<1>3. b = [k \in 1..n |-> Expander!StreamByte(answered + Len(x) + k - 1)]
  <2>1. b = [k \in 1..n |-> <<buffer, bufferPos + k - 1>>] BY DEF Expander!Bytes
  <2> QED BY <2>1, <1>2
<1>4. b \in Seq(StreamBytes) /\ Len(b) = n
  <2>1. n \in Nat BY <1>1
  <2>2. b \in [1..n -> StreamBytes]
    <3> HIDE DEF b
    <3> QED BY <1>2, <1>3 DEF StreamBytes
  <2> HIDE DEF b
  <2> QED BY ONLY <2>1, <2>2
<1> HIDE DEF b
<1>5. /\ x \o b \in Seq(StreamBytes) /\ Len(x \o b) = Len(x) + n
      /\ \A k \in 1..(Len(x) + Len(b)) :
           (x \o b)[k] = IF k <= Len(x) THEN x[k] ELSE b[k - Len(x)]
  BY ONLY <1>1, <1>4, ConcatProperties
<1>6. ASSUME NEW k \in 1..(Len(x) + n)
      PROVE  (x \o b)[k] = Expander!StreamByte(answered + k - 1)
  <2>1. CASE k <= Len(x) BY <2>1, <1>1, <1>4, <1>5
  <2>2. CASE ~(k <= Len(x))
    <3>1. k - Len(x) \in 1..n BY <2>2, <1>1
    <3>2. (x \o b)[k] = b[k - Len(x)] BY <2>2, <1>4, <1>5
    <3>3. b[k - Len(x)] = Expander!StreamByte(answered + Len(x) + (k - Len(x)) - 1)
      BY ONLY <3>1, <1>3
    <3>4. answered + Len(x) + (k - Len(x)) - 1 = answered + k - 1
      BY ONLY <1>1, <3>1, k \in 1..(Len(x) + n), n \in 0..(XofBlock - bufferPos)
    <3> QED BY <3>2, <3>3, <3>4
  <2> QED BY <2>1, <2>2
<1> QED BY <1>5, <1>6 DEF b

(* The limit is a number, and not 0. *)
LEMMA LimitPositive == Expander!Limit \in Nat \ {0}
<1>1. CtrBytes \in Nat BY ExpanderSizes
<1> QED BY <1>1, PowerRecursion DEF Expander!Limit

(* The stream begins with the counter whose bytes are all zero. *)
LEMMA FirstCounter == Expander!CtrValue(0) = [j \in 1..CtrBytes |-> 0]
<1>1. ASSUME NEW j \in 1..CtrBytes PROVE Digit(0, CtrBytes - j) = 0
  <2> DEFINE e == CtrBytes - j
  <2>1. e \in Nat /\ 0 \in Nat BY ExpanderSizes
  <2> HIDE DEF e
  <2>2. Expander!Power[e] \in Nat \ {0} BY <2>1, PowerRecursion
  <2>3. Quot(0, e) = 0
    <3>1. 0 < Expander!Power[e] BY ONLY <2>2
    <3> QED BY ONLY <2>1, <3>1, QuotEnds
  <2>4. Radix \in Nat \ {0} BY ExpanderSizes
  <2>5. 0 % Radix = 0 BY ONLY <2>4
  <2> QED BY <2>3, <2>5 DEF Digit, e
<1>2. \A j \in 1..CtrBytes : Expander!CtrValue(0)[j] = 0
      /\ Expander!CtrValue(0) \in [1..CtrBytes -> 0..(Radix - 1)]
  BY <1>1, CtrValueIs
<1>3. Expander!CtrValue(0) = [j \in 1..CtrBytes |-> (0 \div Expander!Power[CtrBytes - j]) % Radix]
  BY DEF Expander!CtrValue
<1> QED BY <1>1, <1>3 DEF Digit, Quot

(* The invariant of the expander holds at first. *)
LEMMA ExpanderInit == Expander!Init => ExpanderInv
<1> SUFFICES ASSUME Expander!Init PROVE ExpanderInv OBVIOUS
<1>1. /\ maxlen = 0 /\ lengthRemaining = 0 /\ ctr = [j \in 1..CtrBytes |-> 0]
      /\ bufferPos = XofBlock /\ wanted = 0 /\ taken = <<>> /\ answered = 0 /\ at = "new"
  BY DEF Expander!Init
<1>2. Expander!Limit \in Nat \ {0} BY LimitPositive
<1>3. XofBlock \in Nat \ {0} /\ Radix \in Nat /\ Radix >= 2 BY ExpanderSizes
<1>4. Expander!TypeOK BY <1>1, <1>2, <1>3 DEF Expander!TypeOK
<1>5. Expander!LengthAccounted BY <1>1 DEF Expander!LengthAccounted
<1>6. Len(taken) = 0 /\ taken \in Seq([1..CtrBytes -> 0..(Radix - 1)]) BY <1>1
<1>7. InSequence
  <2>1. ctr = Expander!CtrValue(0) BY <1>1, FirstCounter
  <2> QED BY <2>1, <1>2, <1>6 DEF InSequence
<1>8. InPlace
  <2>1. BytesRead = 0 BY <1>1 DEF BytesRead
  <2>2. 0 * XofBlock = 0 /\ 0 + (XofBlock - XofBlock) = 0 BY <1>3
  <2> QED BY <2>1, <2>2, <1>1, <1>6 DEF InPlace
<1> QED BY <1>4, <1>5, <1>7, <1>8 DEF ExpanderInv

(* The steps that read nothing. *)
LEMMA QuietKeeps ==
  ASSUME ExpanderInv,
         \/ \E n \in Lengths : Expander!SeedExpanderInit(n)
         \/ Expander!BadOutbuf
         \/ \E n \in Requests : Expander!Refuse(n) \/ Expander!Request(n)
         \/ Expander!ReturnAtOnce
         \/ UNCHANGED expanderVars
  PROVE  ExpanderInv'
<1>1. /\ Lengths \subseteq Nat /\ Requests \subseteq Nat /\ XofBlock \in Nat \ {0}
      /\ Expander!Limit \in Nat \ {0}
  BY ExpanderSizes, LimitPositive
<1>2. ASSUME ctr' = ctr, buffer' = buffer, taken' = taken PROVE InSequence'
  BY <1>2 DEF ExpanderInv, InSequence
<1>3. ASSUME NEW n \in Lengths, Expander!SeedExpanderInit(n) PROVE ExpanderInv'
  <2>1. /\ at = "new" /\ at' = "idle" /\ ~Expander!TooLong(n)
        /\ maxlen' = n /\ lengthRemaining' = n /\ ctr' = ctr /\ buffer' = buffer
        /\ bufferPos' = bufferPos /\ wanted' = wanted /\ x' = x /\ taken' = taken
        /\ answered' = answered
    BY <1>3 DEF Expander!SeedExpanderInit
  <2>2. n < Expander!Limit /\ n \in Nat BY <1>1, <2>1 DEF Expander!TooLong
  <2>3. Expander!TypeOK' BY <1>1, <2>1, <2>2 DEF ExpanderInv, Expander!TypeOK
  <2>4. maxlen = 0 /\ answered = maxlen - lengthRemaining /\ lengthRemaining \in 0..maxlen
    BY <2>1 DEF ExpanderInv, Expander!TypeOK, Expander!LengthAccounted, InPlace
  <2>5. answered = 0
    <3>1. lengthRemaining \in 0..0 /\ answered = 0 - lengthRemaining BY <2>4
    <3>2. lengthRemaining = 0 BY ONLY <3>1
    <3> QED BY <3>1, <3>2
  <2>6. Expander!LengthAccounted' BY <2>1, <2>2, <2>5 DEF Expander!LengthAccounted
  <2>7. InPlace'
    <3>1. BytesRead' = BytesRead BY <2>1 DEF BytesRead
    <3> QED BY <2>1, <3>1 DEF ExpanderInv, InPlace
  <2> QED BY <1>2, <2>1, <2>3, <2>6, <2>7 DEF ExpanderInv
<1>4. ASSUME Expander!BadOutbuf \/ \E n \in Requests : Expander!Refuse(n)
      PROVE  ExpanderInv'
  <2>1. UNCHANGED <<maxlen, lengthRemaining, ctr, buffer, bufferPos, wanted, x, taken,
                    answered, at>>
    BY <1>4 DEF Expander!BadOutbuf, Expander!Refuse
  <2>2. BytesRead' = BytesRead BY <2>1 DEF BytesRead
  <2> QED BY <2>1, <2>2 DEF ExpanderInv, Expander!TypeOK, Expander!LengthAccounted,
                            InSequence, InPlace
<1>5. ASSUME NEW n \in Requests, Expander!Request(n) PROVE ExpanderInv'
  <2>1. /\ at = "idle" /\ at' = "loop" /\ ~Expander!BadRequest(n)
        /\ lengthRemaining' = lengthRemaining - n /\ wanted' = n /\ x' = <<>>
        /\ maxlen' = maxlen /\ ctr' = ctr /\ buffer' = buffer /\ bufferPos' = bufferPos
        /\ taken' = taken /\ answered' = answered
    BY <1>5 DEF Expander!Request
  <2>2. n < lengthRemaining /\ n \in Nat /\ lengthRemaining \in 0..maxlen /\ maxlen \in Nat
    <3>1. lengthRemaining \in 0..maxlen /\ maxlen \in 0..(Expander!Limit - 1)
      BY DEF ExpanderInv, Expander!TypeOK
    <3> QED BY <3>1, <1>1, <2>1 DEF Expander!BadRequest
  <2>3. Len(x') = 0 BY <2>1
  <2>4. Expander!TypeOK' BY <2>1, <2>2 DEF ExpanderInv, Expander!TypeOK
  <2>5. Expander!LengthAccounted'
    <3>1. answered = maxlen - lengthRemaining /\ answered \in Nat
      BY <2>1 DEF ExpanderInv, Expander!LengthAccounted, InPlace
    <3>2. answered + (0 + n) = maxlen - (lengthRemaining - n) /\ lengthRemaining - n > 0
      BY ONLY <2>2, <3>1
    <3> QED BY <2>1, <2>3, <3>2 DEF Expander!LengthAccounted
  <2>6. InPlace'
    <3>1. BytesRead' = answered + 0 /\ BytesRead = answered + 0 BY <2>1, <2>3 DEF BytesRead
    <3>2. x' \in Seq(StreamBytes) BY <2>1
    <3>3. Len(x') + wanted' \in Requests BY <2>1, <2>2, <2>3
    <3>4. answered \in Nat /\ BytesRead + (XofBlock - bufferPos) = Len(taken) * XofBlock
      BY DEF ExpanderInv, InPlace
    <3> QED BY <2>1, <2>3, <3>1, <3>2, <3>3, <3>4 DEF InPlace
  <2> QED BY <1>2, <2>1, <2>4, <2>5, <2>6 DEF ExpanderInv
<1>6. CASE Expander!ReturnAtOnce
  <2>1. /\ at = "loop" /\ at' = "idle" /\ wanted = 0 /\ x' = x /\ answered' = answered + Len(x)
        /\ maxlen' = maxlen /\ lengthRemaining' = lengthRemaining /\ ctr' = ctr
        /\ buffer' = buffer /\ bufferPos' = bufferPos /\ wanted' = wanted /\ taken' = taken
    BY <1>6 DEF Expander!ReturnAtOnce, Expander!Return
  <2>2. Expander!TypeOK' BY <2>1 DEF ExpanderInv, Expander!TypeOK
  <2>3. x \in Seq(StreamBytes) /\ answered \in Nat
        /\ BytesRead + (XofBlock - bufferPos) = Len(taken) * XofBlock
    BY <2>1 DEF ExpanderInv, InPlace
  <2>4. Len(x) \in Nat BY ONLY <2>3, LenProperties
  <2>5. BytesRead' = answered + Len(x) + 0 /\ BytesRead = answered + Len(x)
    BY <2>1 DEF BytesRead
  <2>6. Expander!LengthAccounted'
    <3>1. answered + (Len(x) + wanted) = maxlen - lengthRemaining
          /\ (maxlen > 0 => lengthRemaining > 0)
      BY <2>1 DEF ExpanderInv, Expander!LengthAccounted
    <3>2. (answered + Len(x)) + 0 = maxlen - lengthRemaining BY <2>1, <2>3, <2>4, <3>1
    <3> QED BY <2>1, <3>1, <3>2 DEF Expander!LengthAccounted
  <2>7. InPlace' BY <2>1, <2>3, <2>4, <2>5 DEF InPlace
  <2> QED BY <1>2, <2>1, <2>2, <2>6, <2>7 DEF ExpanderInv
<1>7. CASE UNCHANGED expanderVars
  <2>1. UNCHANGED <<maxlen, lengthRemaining, ctr, buffer, bufferPos, wanted, x, taken,
                    answered, at>>
    BY <1>7 DEF expanderVars
  <2>2. BytesRead' = BytesRead BY <2>1 DEF BytesRead
  <2> QED BY <2>1, <2>2 DEF ExpanderInv, Expander!TypeOK, Expander!LengthAccounted,
                            InSequence, InPlace
<1> QED BY <1>3, <1>4, <1>5, <1>6, <1>7

(* The step that takes the rest of a request from the buffer. *)
LEMMA TakeLastKeeps ==
  ASSUME ExpanderInv, Expander!TakeLast
  PROVE  /\ ExpanderInv'
         /\ x' \in Seq(StreamBytes) /\ Len(x') \in Requests
         /\ \A k \in 1..Len(x') : x'[k] = Expander!StreamByte(answered + k - 1)
         /\ answered' = answered + Len(x') /\ answer' = x'
<1>1. /\ at = "loop" /\ at' = "idle" /\ wanted > 0 /\ wanted <= XofBlock - bufferPos
      /\ x' = x \o Expander!Bytes(wanted) /\ bufferPos' = bufferPos + wanted /\ wanted' = 0
      /\ answered' = answered + Len(x') /\ answer' = x'
      /\ maxlen' = maxlen /\ lengthRemaining' = lengthRemaining /\ ctr' = ctr
      /\ buffer' = buffer /\ taken' = taken
  BY DEF Expander!TakeLast, Expander!Return, Expander!InBuffer, Expander!BufferPosAfter
<1>2. wanted \in Nat /\ bufferPos \in 0..XofBlock /\ XofBlock \in Nat \ {0}
  BY ExpanderSizes DEF ExpanderInv, Expander!TypeOK
<1>3. wanted \in 0..(XofBlock - bufferPos) BY <1>1, <1>2
<1>4. /\ x' \in Seq(StreamBytes) /\ Len(x') = Len(x) + wanted
      /\ \A k \in 1..(Len(x) + wanted) : x'[k] = Expander!StreamByte(answered + k - 1)
  BY <1>1, <1>3, PieceContinues
<1>5. /\ x \in Seq(StreamBytes) /\ answered \in Nat /\ Len(x) + wanted \in Requests
      /\ answered + Len(x) + (XofBlock - bufferPos) = Len(taken) * XofBlock
      /\ answered + (Len(x) + wanted) = maxlen - lengthRemaining
      /\ (maxlen > 0 => lengthRemaining > 0)
  BY <1>1 DEF ExpanderInv, InPlace, BytesRead, Expander!LengthAccounted
<1>6. Len(x) \in Nat BY ONLY <1>5, LenProperties
<1>7. Expander!TypeOK' BY <1>1, <1>2 DEF ExpanderInv, Expander!TypeOK
<1>8. Expander!LengthAccounted'
  <2>1. (answered + (Len(x) + wanted)) + 0 = maxlen - lengthRemaining BY <1>2, <1>5, <1>6
  <2> QED BY <1>1, <1>4, <1>5, <2>1 DEF Expander!LengthAccounted
<1>9. InSequence' BY <1>1 DEF ExpanderInv, InSequence
<1>10. InPlace'
  <2>1. BytesRead' = (answered + (Len(x) + wanted)) + 0 BY <1>1, <1>4 DEF BytesRead
  <2> DEFINE P == Len(taken) * XofBlock
  <2>2. answered + Len(x) + (XofBlock - bufferPos) = P BY <1>5
  <2> HIDE DEF P
  <2>3. BytesRead' + (XofBlock - (bufferPos + wanted)) = P BY <2>1, <2>2, <1>2, <1>5, <1>6
  <2>4. answered' \in Nat BY <1>1, <1>2, <1>4, <1>5, <1>6
  <2> QED BY <1>1, <2>3, <2>4 DEF InPlace, P
<1> QED BY <1>1, <1>4, <1>5, <1>7, <1>8, <1>9, <1>10 DEF ExpanderInv

(* The step that takes all the buffer has and makes the next block: the      *)
(* bytes still to be read are what keeps the counter below its limit.        *)
LEMMA NextBlockKeeps ==
  ASSUME ExpanderInv, Expander!NextBlock
  PROVE  ExpanderInv'
<1> DEFINE T == Len(taken)
           n == XofBlock - bufferPos
           P == T * XofBlock
<1>1. /\ at = "loop" /\ at' = "loop" /\ wanted > n
      /\ x' = x \o Expander!Bytes(n) /\ wanted' = wanted - n
      /\ buffer' = ctr /\ taken' = Append(taken, ctr) /\ bufferPos' = 0
      /\ ctr' = Expander!Increment(ctr)
      /\ maxlen' = maxlen /\ lengthRemaining' = lengthRemaining /\ answered' = answered
  BY DEF Expander!NextBlock, Expander!InBuffer
<1>2. /\ wanted \in Nat /\ bufferPos \in 0..XofBlock /\ XofBlock \in Nat \ {0}
      /\ maxlen \in 0..(Expander!Limit - 1) /\ lengthRemaining \in 0..maxlen
      /\ Expander!Limit \in Nat \ {0}
  BY ExpanderSizes, LimitPositive DEF ExpanderInv, Expander!TypeOK
<1>3. n \in 0..n /\ n \in Nat BY <1>2
<1>4. /\ x' \in Seq(StreamBytes) /\ Len(x') = Len(x) + n
      /\ \A k \in 1..(Len(x) + n) : x'[k] = Expander!StreamByte(answered + k - 1)
  BY <1>1, <1>3, PieceContinues
<1>5. /\ x \in Seq(StreamBytes) /\ answered \in Nat /\ Len(x) + wanted \in Requests
      /\ answered + Len(x) + n = P
      /\ answered + (Len(x) + wanted) = maxlen - lengthRemaining
      /\ (maxlen > 0 => lengthRemaining > 0)
  BY <1>1 DEF ExpanderInv, InPlace, BytesRead, Expander!LengthAccounted
<1>6. Len(x) \in Nat BY ONLY <1>5, LenProperties
<1>7. /\ T \in Nat /\ taken \in Seq([1..CtrBytes -> 0..(Radix - 1)])
      /\ \A k \in 1..T : taken[k] = Expander!CtrValue(k - 1)
      /\ ctr = Expander!CtrValue(T)
  <2>1. taken \in Seq([1..CtrBytes -> 0..(Radix - 1)]) BY DEF ExpanderInv, InSequence
  <2>2. T \in Nat BY ONLY <2>1, LenProperties
  <2> QED BY <2>1, <2>2 DEF ExpanderInv, InSequence
<1>8. (T + 1) * XofBlock = P + XofBlock /\ P \in Nat /\ T <= P
  <2>1. T * 1 <= T * XofBlock BY ONLY <1>2, <1>7
  <2> HIDE DEF T
  <2>2. (T + 1) * XofBlock = T * XofBlock + XofBlock BY ONLY <1>2, <1>7, TimesSucc
  <2>3. T * XofBlock \in Nat BY ONLY <1>2, <1>7, TimesNat
  <2> QED BY <2>1, <2>2, <2>3, <1>7
<1> HIDE DEF P, T, n
<1>9. T + 1 < Expander!Limit /\ T + 1 \in Nat
  BY ONLY <1>1, <1>2, <1>3, <1>5, <1>6, <1>7, <1>8
<1>10. /\ taken' \in Seq([1..CtrBytes -> 0..(Radix - 1)]) /\ Len(taken') = T + 1
       /\ \A k \in 1..T : taken'[k] = taken[k]
       /\ taken'[T + 1] = ctr
  <2>1. ctr \in [1..CtrBytes -> 0..(Radix - 1)] BY <1>7, CtrValueIs
  <2> DEFINE C == [1..CtrBytes -> 0..(Radix - 1)]
             y == Append(taken, ctr)
  <2>2. taken \in Seq(C) /\ ctr \in C BY <1>7, <2>1
  <2> HIDE DEF C
  <2>3. /\ y \in Seq(C) /\ Len(y) = Len(taken) + 1
        /\ \A k \in 1..Len(taken) : y[k] = taken[k]
        /\ y[Len(taken) + 1] = ctr
    BY ONLY <2>2, AppendProperties
  <2> HIDE DEF y
  <2>4. taken' = y BY <1>1 DEF y
  <2> QED BY <2>3, <2>4 DEF C, T
<1>11. InSequence'
  <2>1. ASSUME NEW k \in 1..(T + 1) PROVE taken'[k] = Expander!CtrValue(k - 1)
    <3>1. CASE k = T + 1
      <4>1. k - 1 = T BY <3>1, <1>7
      <4> QED BY <3>1, <4>1, <1>7, <1>10
    <3>2. CASE k # T + 1
      <4>1. k \in 1..T BY <3>2, <1>7
      <4> QED BY <4>1, <1>7, <1>10
    <3> QED BY <3>1, <3>2
  <2>2. ctr' = Expander!CtrValue(T + 1) BY <1>1, <1>7, IncrementCounts
  <2>3. buffer' = Expander!CtrValue((T + 1) - 1)
    <3>1. (T + 1) - 1 = T BY <1>7
    <3> QED BY <3>1, <1>1, <1>7
  <2> QED BY <2>1, <2>2, <2>3, <1>9, <1>10 DEF InSequence
<1>12. Expander!TypeOK'
  <2>1. ctr' \in [1..CtrBytes -> 0..(Radix - 1)] BY <1>1, <1>7, <1>9, IncrementCounts, CtrValueIs
  <2>2. wanted' \in Nat BY <1>1, <1>2, <1>3
  <2> QED BY <2>1, <2>2, <1>1, <1>2 DEF Expander!TypeOK
<1>13. Expander!LengthAccounted'
  <2>1. answered + ((Len(x) + n) + (wanted - n)) = maxlen - lengthRemaining
    BY ONLY <1>2, <1>3, <1>5, <1>6
  <2> QED BY <1>1, <1>4, <1>5, <2>1 DEF Expander!LengthAccounted
<1>14. InPlace'
  <2>1. BytesRead' = answered + (Len(x) + n) BY <1>1, <1>4 DEF BytesRead
  <2>2. BytesRead' + (XofBlock - 0) = P + XofBlock BY ONLY <2>1, <1>2, <1>3, <1>5, <1>6, <1>8
  <2>3. BytesRead' + (XofBlock - 0) = (T + 1) * XofBlock BY ONLY <2>2, <1>8
  <2>4. (Len(x) + n) + (wanted - n) = Len(x) + wanted BY <1>1, <1>2, <1>3, <1>6
  <2> QED BY <1>1, <1>4, <1>5, <1>10, <2>3, <2>4 DEF InPlace
<1> QED BY <1>11, <1>12, <1>13, <1>14 DEF ExpanderInv

(* A step of the expander keeps its invariant, and is a step of Xof or       *)
(* changes nothing Xof sees.                                                 *)
LEMMA ExpanderStepKeeps ==
  ASSUME ExpanderInv, Expander!Next \/ UNCHANGED expanderVars
  PROVE  ExpanderInv' /\ (Expander!TheXof!Next \/ UNCHANGED Expander!TheXof!vars)
<1>1. ASSUME NEW n \in Lengths, Expander!SeedExpanderInit(n)
      PROVE  ExpanderInv' /\ UNCHANGED Expander!TheXof!vars
  <2>1. UNCHANGED Expander!TheXof!vars
    BY <1>1 DEF Expander!SeedExpanderInit, Expander!TheXof!vars
  <2> QED BY <1>1, <2>1, QuietKeeps
<1>2. ASSUME Expander!BadOutbuf \/ \E n \in Requests : Expander!Refuse(n)
      PROVE  ExpanderInv' /\ Expander!TheXof!Next
  <2>1. Expander!TheXof!Refuse
    BY <1>2 DEF Expander!BadOutbuf, Expander!Refuse, Expander!TheXof!Refuse
  <2> QED BY <1>2, <2>1, QuietKeeps DEF Expander!TheXof!Next
<1>3. ASSUME NEW n \in Requests, Expander!Request(n)
      PROVE  ExpanderInv' /\ UNCHANGED Expander!TheXof!vars
  <2>1. UNCHANGED Expander!TheXof!vars
    BY <1>3 DEF Expander!Request, Expander!TheXof!vars
  <2> QED BY <1>3, <2>1, QuietKeeps
<1>4. ASSUME NEW y \in Seq(StreamBytes), Len(y) \in Requests,
             \A k \in 1..Len(y) : y[k] = Expander!StreamByte(answered + k - 1),
             answered' = answered + Len(y), answer' = y
      PROVE  Expander!TheXof!Next
  <2>1. y = [k \in 1..Len(y) |-> Expander!StreamByte(answered + k - 1)]
    <3>1. y \in [1..Len(y) -> StreamBytes] BY LenProperties
    <3> DEFINE n == Len(y)
    <3>2. \A k \in 1..n : y[k] = Expander!StreamByte(answered + k - 1) BY <1>4
    <3>3. y \in [1..n -> StreamBytes] BY <3>1
    <3> HIDE DEF n
    <3>4. y = [k \in 1..n |-> Expander!StreamByte(answered + k - 1)] BY ONLY <3>2, <3>3
    <3> QED BY <3>4 DEF n
  <2> DEFINE n == Len(y)
  <2>2. n \in Requests /\ answered' = answered + n
        /\ answer' = [k \in 1..n |-> Expander!StreamByte(answered + k - 1)]
    BY <1>4, <2>1
  <2> HIDE DEF n
  <2>3. Expander!TheXof!Give(n) BY <2>2 DEF Expander!TheXof!Give
  <2> QED BY <2>2, <2>3 DEF Expander!TheXof!Next
<1>5. ASSUME Expander!TakeLast PROVE ExpanderInv' /\ Expander!TheXof!Next
  <2>1. /\ ExpanderInv'
        /\ x' \in Seq(StreamBytes) /\ Len(x') \in Requests
        /\ \A k \in 1..Len(x') : x'[k] = Expander!StreamByte(answered + k - 1)
        /\ answered' = answered + Len(x') /\ answer' = x'
    BY <1>5, TakeLastKeeps
  <2> QED BY <2>1, <1>4
<1>6. ASSUME Expander!NextBlock PROVE ExpanderInv' /\ UNCHANGED Expander!TheXof!vars
  <2>1. UNCHANGED Expander!TheXof!vars
    BY <1>6 DEF Expander!NextBlock, Expander!TheXof!vars
  <2> QED BY <1>6, <2>1, NextBlockKeeps
<1>7. ASSUME Expander!ReturnAtOnce PROVE ExpanderInv' /\ Expander!TheXof!Next
  <2>1. /\ at = "loop" /\ wanted = 0 /\ answered' = answered + Len(x) /\ answer' = x
    BY <1>7 DEF Expander!ReturnAtOnce, Expander!Return
  <2>2. /\ x \in Seq(StreamBytes) /\ Len(x) + wanted \in Requests
        /\ \A k \in 1..Len(x) : x[k] = Expander!StreamByte(answered + k - 1)
    BY <2>1 DEF ExpanderInv, InPlace
  <2>3. Len(x) \in Requests
    <3>1. Len(x) \in Nat BY ONLY <2>2, LenProperties
    <3> QED BY <2>1, <2>2, <3>1
  <2> QED BY <1>4, <1>7, <2>1, <2>2, <2>3, QuietKeeps
<1>8. ASSUME UNCHANGED expanderVars PROVE ExpanderInv' /\ UNCHANGED Expander!TheXof!vars
  <2>1. UNCHANGED Expander!TheXof!vars BY <1>8 DEF expanderVars, Expander!TheXof!vars
  <2> QED BY <1>8, <2>1, QuietKeeps
<1> QED BY <1>1, <1>2, <1>3, <1>5, <1>6, <1>7, <1>8 DEF Expander!Next

(* All the variables of the four parts. *)
allVars == <<part, vars, generatorVars, expanderVars, answersVars>>

(* A step of any part is a step of the expander or leaves it alone. *)
LEMMA ExpanderStepOnly ==
  ASSUME [NextParts]_allVars
  PROVE  Expander!Next \/ UNCHANGED expanderVars
<1>1. CASE UNCHANGED allVars BY <1>1 DEF allVars
<1>2. CASE NextParts
  <2>1. ASSUME NEW n \in Lengths, ExpanderStep(Expander!SeedExpanderInit(n)) PROVE Expander!Next
    BY <2>1 DEF ExpanderStep, Expander!Next
  <2>2. ASSUME NEW n \in Requests,
               ExpanderStep(Expander!Refuse(n)) \/ ExpanderStep(Expander!Request(n))
        PROVE  Expander!Next
    BY <2>2 DEF ExpanderStep, Expander!Next
  <2>3. ASSUME ExpanderStep(Expander!TakeLast) \/ ExpanderStep(Expander!NextBlock)
                 \/ ExpanderStep(Expander!ReturnAtOnce) \/ ExpanderStep(Expander!BadOutbuf)
        PROVE  Expander!Next
    BY <2>3 DEF ExpanderStep, Expander!Next
  <2> QED BY <1>2, <2>1, <2>2, <2>3 DEF NextParts, DeviceStep, GeneratorStep, AnswersStep
<1> QED BY <1>1, <1>2

(* The expander's invariant holds in every reachable state. *)
LEMMA ExpanderInvariant == SpecParts => []ExpanderInv
<1>1. InitParts => ExpanderInv BY ExpanderInit DEF InitParts
<1>2. ExpanderInv /\ [NextParts]_allVars => ExpanderInv'
  BY ExpanderStepOnly, ExpanderStepKeeps
<1> QED BY <1>1, <1>2, PTL DEF SpecParts, allVars

(* seedexpander implements Xof, for every size of block and of counter.      *)
THEOREM ImplementsXofHolds == SpecParts => ImplementsXof
<1>1. InitParts => Expander!TheXof!Init
  BY DEF InitParts, Expander!Init, Expander!TheXof!Init
<1>2. ExpanderInv /\ [NextParts]_allVars
        => Expander!TheXof!Next \/ UNCHANGED Expander!TheXof!vars
  BY ExpanderStepOnly, ExpanderStepKeeps
<1>3. ExpanderInv /\ [NextParts]_allVars => [Expander!TheXof!Next]_Expander!TheXof!vars
  BY <1>2
<1> QED BY <1>1, <1>3, ExpanderInvariant, PTL
        DEF SpecParts, allVars, ImplementsXof, Expander!ImplementsXof, Expander!TheXof!Spec

(* The counters of two blocks are different. *)
LEMMA CountersFresh == ExpanderInv => Expander!BlocksFresh
<1> SUFFICES ASSUME ExpanderInv, NEW j \in DOMAIN taken, NEW k \in DOMAIN taken, j # k
             PROVE  taken[j] # taken[k]
  BY DEF Expander!BlocksFresh
<1>1. /\ taken \in Seq([1..CtrBytes -> 0..(Radix - 1)]) /\ Len(taken) < Expander!Limit
      /\ \A m \in 1..Len(taken) : taken[m] = Expander!CtrValue(m - 1)
  BY DEF ExpanderInv, InSequence
<1>2. DOMAIN taken = 1..Len(taken) /\ Len(taken) \in Nat BY ONLY <1>1, LenProperties
<1>3. Expander!Limit \in Nat BY LimitPositive
<1>4. j \in 1..Len(taken) /\ k \in 1..Len(taken) BY <1>2
<1>5. taken[j] = Expander!CtrValue(j - 1) /\ taken[k] = Expander!CtrValue(k - 1)
  BY <1>1, <1>4
<1>6. j - 1 \in Nat /\ k - 1 \in Nat /\ j - 1 < Expander!Limit /\ k - 1 < Expander!Limit
      /\ j - 1 # k - 1
  BY ONLY <1>1, <1>2, <1>3, <1>4, j # k
<1>7. Expander!CtrValue(j - 1) # Expander!CtrValue(k - 1) BY ONLY <1>6, CtrValueInjective
<1> QED BY <1>5, <1>7

(* The sizes of the generator are what it needs them to be. *)
LEMMA GeneratorSizes ==
  /\ DrbgBlock \in Nat \ {0} /\ DrbgLengths \subseteq Nat
  /\ MaxInits \in Nat /\ MaxDraws \in Nat
BY GeneratorAssumption DEF Generator!BoundsAssumption

(* s is a sequence. *)
Listed(s) == Len(s) \in Nat /\ s = [k \in 1..Len(s) |-> s[k]]

(* The sequence of n values. *)
LEMMA ListedIs ==
  ASSUME NEW n \in Nat, NEW s, s = [k \in 1..n |-> s[k]]
  PROVE  Listed(s) /\ Len(s) = n
<1> DEFINE S == {s[k] : k \in 1..n}
<1>1. s \in [1..n -> S]
  <2>1. \A k \in 1..n : s[k] \in S OBVIOUS
  <2> HIDE DEF S
  <2> QED BY <2>1
<1> HIDE DEF S
<1>2. s \in Seq(S) BY ONLY <1>1, n \in Nat
<1>3. Len(s) = n BY ONLY <1>1, <1>2, n \in Nat
<1> QED BY <1>3 DEF Listed

(* y is the sequence s and after it t. *)
Concatenated(s, t, y) ==
  /\ Listed(y) /\ Len(y) = Len(s) + Len(t)
  /\ \A k \in 1..Len(s) : y[k] = s[k]
  /\ \A k \in 1..Len(t) : y[Len(s) + k] = t[k]

(* One sequence after another. *)
LEMMA ConcatListed ==
  ASSUME NEW s, NEW t, Listed(s), Listed(t)
  PROVE  Concatenated(s, t, s \o t)
<1> DEFINE S == {s[k] : k \in 1..Len(s)} \cup {t[k] : k \in 1..Len(t)}
           m == Len(s)
           n == Len(t)
<1>1. m \in Nat /\ n \in Nat /\ s = [k \in 1..m |-> s[k]] /\ t = [k \in 1..n |-> t[k]]
  BY DEF Listed
<1>2. (\A k \in 1..m : s[k] \in S) /\ (\A k \in 1..n : t[k] \in S) OBVIOUS
<1> HIDE DEF S
<1>3. s \in Seq(S) /\ t \in Seq(S)
  <2> HIDE DEF m, n
  <2>1. s \in [1..m -> S] /\ t \in [1..n -> S] BY ONLY <1>1, <1>2
  <2> QED BY ONLY <2>1, <1>1
<1>4. /\ s \o t \in Seq(S) /\ Len(s \o t) = Len(s) + Len(t)
      /\ \A k \in 1..(Len(s) + Len(t)) :
           (s \o t)[k] = IF k <= Len(s) THEN s[k] ELSE t[k - Len(s)]
  BY ONLY <1>3, ConcatProperties
<1>5. Listed(s \o t)
  <2> DEFINE y == s \o t
  <2>1. y \in Seq(S) BY <1>4
  <2> HIDE DEF y
  <2>2. Len(y) \in Nat /\ y \in [1..Len(y) -> S] BY ONLY <2>1, LenProperties
  <2>3. Listed(y) BY ONLY <2>2 DEF Listed
  <2> QED BY <2>3 DEF y
<1>6. ASSUME NEW k \in 1..Len(s) PROVE (s \o t)[k] = s[k]
  <2>1. k \in 1..(Len(s) + Len(t)) /\ k <= Len(s) BY <1>1
  <2> QED BY ONLY <2>1, <1>4
<1>7. ASSUME NEW k \in 1..Len(t) PROVE (s \o t)[Len(s) + k] = t[k]
  <2>1. Len(s) + k \in 1..(Len(s) + Len(t)) /\ ~(Len(s) + k <= Len(s)) /\ (Len(s) + k) - Len(s) = k
    BY <1>1
  <2> QED BY ONLY <2>1, <1>4
<1> QED BY <1>4, <1>5, <1>6, <1>7 DEF Concatenated

(* A sequence without repetitions has as many elements as places. *)
LEMMA WithoutRepetitions ==
  ASSUME NEW s, Listed(s), \A j \in 1..Len(s), k \in 1..Len(s) : j # k => s[j] # s[k]
  PROVE  Generator!Cardinality(Generator!ToSet(s)) = Len(s)
<1> DEFINE T == {s[k] : k \in 1..Len(s)}
           n == Len(s)
<1>1. n \in Nat /\ s = [k \in 1..n |-> s[k]] BY DEF Listed
<1>2. DOMAIN s = 1..n
  <2> HIDE DEF n
  <2> QED BY ONLY <1>1
<1>3. Generator!ToSet(s) = T BY <1>2 DEF Generator!ToSet
<1>4. (\A k \in 1..n : s[k] \in T) /\ (\A y \in T : \E k \in 1..n : s[k] = y) OBVIOUS
<1> HIDE DEF T
<1>5. s \in Surjection(1..n, T) /\ s \in Injection(1..n, T)
  <2>1. \A j \in 1..n, k \in 1..n : s[j] = s[k] => j = k OBVIOUS
  <2> HIDE DEF n
  <2>2. s \in [1..n -> T] BY ONLY <1>1, <1>4
  <2> QED BY ONLY <2>1, <2>2, <1>4 DEF Surjection, Injection, IsInjective
<1>6. IsFiniteSet(1..n) /\ Cardinality(1..n) = n
  <2>1. 1 \in Int /\ n \in Int BY <1>1
  <2> HIDE DEF n
  <2>2. /\ IsFiniteSet(1..n) /\ Cardinality(1..n) = IF 1 > n THEN 0 ELSE n - 1 + 1
    BY ONLY <2>1, FS_Interval
  <2> QED BY ONLY <2>2, <1>1
<1>7. Cardinality(T) = Cardinality(1..n)
  <2> HIDE DEF n
  <2> QED BY ONLY <1>5, <1>6, FS_Surjection
<1>8. Generator!Cardinality(T) = Cardinality(T) BY DEF Generator!Cardinality, Cardinality
<1> QED BY <1>3, <1>6, <1>7, <1>8

(* One more term of a sum. *)
LEMMA SumOneMore ==
  ASSUME NEW n \in Nat, NEW f, NEW g,
         \A j \in 0..(n - 1) : f[j] \in Int /\ g[j] = f[j]
  PROVE  Generator!SumTo(g, n + 1) = Generator!SumTo(f, n) + g[n] /\ Generator!SumTo(f, n) \in Int
<1>1. \A h, m : Generator!SumTo(h, m) = SumTo(h, m) BY DEF Generator!SumTo, SumTo
<1>2. SumTo(f, n) \in Int /\ SumTo(g, n) \in Int BY SumInt
<1>3. SumTo(f, n) <= SumTo(g, n) BY SumLeq
<1>4. SumTo(g, n) <= SumTo(f, n) BY SumLeq
<1>5. SumTo(g, n) = SumTo(f, n) BY ONLY <1>2, <1>3, <1>4
<1>6. SumTo(g, n + 1) = SumTo(g, n) + g[n] BY SumRecursion
<1> QED BY <1>1, <1>2, <1>5, <1>6

(* No term of a sum. *)
LEMMA SumNone == ASSUME NEW f PROVE Generator!SumTo(f, 0) = 0
<1>1. Generator!SumTo(f, 0) = SumTo(f, 0) BY DEF Generator!SumTo, SumTo
<1> QED BY <1>1, SumRecursion

-----------------------------------------------------------------------------
(* The key that made a key: the key of its first block. *)
Prev(k) == k[1].block.key

(* The keys of the blocks encrypted since the seeding. *)
Keys == {encrypted[m].key : m \in 1..Len(encrypted)}

(* The key is new, and every key that was used was made with one that was    *)
(* used, but for the first; no block is used twice and no byte comes from    *)
(* elsewhere.                                                                *)
KeysChained ==
  /\ v = [of |-> v.of, plus |-> 0]
  /\ key # Generator!Zero /\ key \notin Keys /\ Prev(key) \in Keys
  /\ \A k \in Keys : k # Generator!Zero => Prev(k) \in Keys
  /\ \A j \in 1..Len(encrypted), k \in 1..Len(encrypted) :
       j # k => encrypted[j] # encrypted[k]
  /\ \A k \in 1..Len(given) : given[k][1].key \in Keys

(* The generator after randombytes(n). *)
AfterCall(g, n) ==
  LET block(b) == Generator!AES(g.key, Generator!Plus(g.v, b))
      u == Generator!Update(NULL, g.key, Generator!Plus(g.v, Generator!BlocksFor(n)))
  IN  [key |-> u.key, v |-> u.v,
       given |-> g.given \o [k \in 1..n |-> <<block(((k - 1) \div DrbgBlock) + 1),
                                              (k - 1) % DrbgBlock>>]]

(* The generator after randombytes_init. *)
AfterInit(s) ==
  LET u == Generator!Update(Generator!SeedMaterial(s[1], s[2]), Generator!Zero, Generator!FirstV)
  IN  [key |-> u.key, v |-> u.v, given |-> <<>>]

(* r is what the generator was after each call for the lengths of a. *)
Replay(r, s, a) ==
  /\ r[0] = AfterInit(s)
  /\ \A m \in 0..(Len(a) - 1) : r[m + 1] = AfterCall(r[m], a[m + 1])

(* What the generator holds and has given follows from the seed and the      *)
(* lengths asked for, now and whenever a call has returned.                  *)
Replayed ==
  /\ asked \in Seq(DrbgLengths)
  /\ seed # <<>> => \E r : Replay(r, seed, asked)
                           /\ r[Len(asked)] = [key |-> key, v |-> v, given |-> given]
  /\ \A t \in transcripts :
       /\ t.asked \in Seq(DrbgLengths)
       /\ \E r : Replay(r, t.seed, t.asked) /\ r[Len(t.asked)].given = t.given

GeneratorInv ==
  /\ Generator!TypeOK
  /\ Listed(encrypted) /\ Listed(given)
  /\ seed = <<>> => encrypted = <<>> /\ given = <<>> /\ asked = <<>>
  /\ seed # <<>> => KeysChained
  /\ Replayed

(* What an update makes of a key and a V that was incremented b times.       *)
LEMMA UpdateIs ==
  ASSUME NEW data, NEW k, NEW o, NEW b \in Nat, NEW w, w = [of |-> o, plus |-> b]
  PROVE  LET u == Generator!Update(data, k, w)
         IN  /\ u.v = [of |-> u.v.of, plus |-> 0]
             /\ u.key # Generator!Zero /\ Prev(u.key) = k
             /\ Listed(u.encrypted) /\ Len(u.encrypted) = 3
             /\ \A m \in 1..3 : u.encrypted[m] = [key |-> k, v |-> [of |-> o, plus |-> b + m]]
<1> DEFINE u == Generator!Update(data, k, w)
           block(m) == Generator!AES(k, Generator!UpdateV(w, m))
           temp(m) == [block |-> block(m), xor |-> IF data = NULL THEN <<>> ELSE <<data, m>>]
<1>1. u = [key |-> <<temp(1), temp(2)>>, v |-> [of |-> temp(3), plus |-> 0],
           encrypted |-> [m \in 1..3 |-> block(m)]]
  BY DEF Generator!Update
<1>2. ASSUME NEW m \in 1..3
      PROVE  block(m) = [key |-> k, v |-> [of |-> o, plus |-> b + m]]
  <2>1. Generator!UpdateV(w, m) = [of |-> o, plus |-> b + m]
    BY DEF Generator!UpdateV, Generator!Plus
  <2> QED BY <2>1 DEF Generator!AES
<1>3. temp(1).block.key = k
  <2>1. 1 \in 1..3 OBVIOUS
  <2>2. block(1).key = k BY <1>2, <2>1
  <2> HIDE DEF block
  <2> QED BY <2>2
<1>4. u.key = <<temp(1), temp(2)>> /\ u.v = [of |-> temp(3), plus |-> 0]
      /\ u.encrypted = [m \in 1..3 |-> block(m)]
  <2> HIDE DEF u, temp, block
  <2> QED BY ONLY <1>1
<1>5. u.key # Generator!Zero /\ Prev(u.key) = k
  <2> HIDE DEF u, temp
  <2>1. u.key[1] = temp(1) /\ Len(u.key) = 2 BY ONLY <1>4
  <2>2. Prev(u.key) = k BY <2>1, <1>3 DEF Prev
  <2>3. Len(Generator!Zero) = 0 BY DEF Generator!Zero
  <2> QED BY ONLY <2>1, <2>2, <2>3
<1>6. Listed(u.encrypted) /\ Len(u.encrypted) = 3
  <2> DEFINE e == u.encrypted
  <2>1. e = [m \in 1..3 |-> e[m]]
    <3> HIDE DEF u, block
    <3> QED BY ONLY <1>4 DEF e
  <2> HIDE DEF e
  <2>2. Listed(e) /\ Len(e) = 3
    <3>1. PICK n : n = 3 OBVIOUS
    <3>2. n \in Nat BY <3>1
    <3>3. e = [m \in 1..n |-> e[m]] BY <2>1, <3>1
    <3> QED BY ONLY <3>1, <3>2, <3>3, ListedIs
  <2> QED BY <2>2 DEF e
<1>7. ASSUME NEW m \in 1..3
      PROVE  u.encrypted[m] = [key |-> k, v |-> [of |-> o, plus |-> b + m]]
  <2>1. block(m) = [key |-> k, v |-> [of |-> o, plus |-> b + m]] BY <1>2
  <2> HIDE DEF u, block
  <2> QED BY ONLY <1>4, <2>1, m \in 1..3
<1>8. u.v = [of |-> u.v.of, plus |-> 0]
  <2> HIDE DEF u, temp
  <2> QED BY ONLY <1>4
<1> QED BY <1>5, <1>6, <1>7, <1>8

(* The invariant of the generator holds at first. *)
LEMMA GeneratorInit == Generator!Init => GeneratorInv
<1> SUFFICES ASSUME Generator!Init PROVE GeneratorInv OBVIOUS
<1>1. /\ seed = <<>> /\ encrypted = <<>> /\ asked = <<>> /\ given = <<>>
      /\ transcripts = {} /\ inits = 0 /\ draws = 0
  BY DEF Generator!Init
<1>2. Listed(<<>>) /\ Len(<<>>) = 0
  <2>1. <<>> = [k \in 1..0 |-> <<>>[k]] OBVIOUS
  <2> QED BY <2>1 DEF Listed
<1>3. Generator!TypeOK
  BY <1>1, <1>2, SumNone, GeneratorSizes DEF Generator!TypeOK
<1>4. Replayed
  <2>1. asked \in Seq(DrbgLengths) BY <1>1
  <2> QED BY <1>1, <2>1 DEF Replayed
<1> QED BY <1>1, <1>2, <1>3, <1>4 DEF GeneratorInv

(* A call for no lengths is replayed by nothing but the seeding. *)
LEMMA ReplayStarts ==
  ASSUME NEW s PROVE \E r : Replay(r, s, <<>>) /\ r[0] = AfterInit(s)
<1> DEFINE r == [m \in {0} |-> AfterInit(s)]
<1>1. Len(<<>>) = 0 OBVIOUS
<1>2. r[0] = AfterInit(s) OBVIOUS
<1>3. 0..(0 - 1) = {} OBVIOUS
<1> HIDE DEF r
<1>4. Replay(r, s, <<>>) BY <1>1, <1>2, <1>3 DEF Replay
<1> QED BY <1>2, <1>4

(* The seeding. *)
LEMMA SeedingKeeps ==
  ASSUME GeneratorInv, NEW e \in Seeds, NEW s \in Strings, Generator!RandomBytesInit(e, s)
  PROVE  GeneratorInv'
<1> DEFINE u == Generator!Update(Generator!SeedMaterial(e, s), Generator!Zero, Generator!FirstV)
<1>1. /\ inits < MaxInits /\ inits' = inits + 1 /\ draws' = draws /\ transcripts' = transcripts
      /\ key' = u.key /\ v' = u.v /\ seed' = <<e, s>> /\ encrypted' = u.encrypted
      /\ asked' = <<>> /\ given' = <<>>
  BY DEF Generator!RandomBytesInit
<1>2. PICK z : z = 0 OBVIOUS
<1>3. z \in Nat BY <1>2
<1>4. Generator!FirstV = [of |-> Generator!Zero, plus |-> z]
  BY <1>2 DEF Generator!FirstV, Generator!ZeroV
<1>5. /\ u.v = [of |-> u.v.of, plus |-> 0]
      /\ u.key # Generator!Zero /\ Prev(u.key) = Generator!Zero
      /\ Listed(u.encrypted) /\ Len(u.encrypted) = 3
      /\ \A m \in 1..3 : u.encrypted[m]
                           = [key |-> Generator!Zero, v |-> [of |-> Generator!Zero, plus |-> z + m]]
  <2> HIDE DEF Generator!Zero
  <2> QED BY <1>3, <1>4, UpdateIs
<1> HIDE DEF u
<1>6. Listed(<<>>) /\ Len(<<>>) = 0
  <2>1. <<>> = [k \in 1..0 |-> <<>>[k]] OBVIOUS
  <2> QED BY <2>1 DEF Listed
<1>7. seed' # <<>>
  <2>1. Len(seed') = 2 BY <1>1
  <2> QED BY <2>1, <1>6
<1>8. Generator!TypeOK'
  <2>1. inits' \in 0..MaxInits /\ draws' \in 0..MaxDraws
    BY <1>1, GeneratorSizes DEF GeneratorInv, Generator!TypeOK
  <2>2. Len(asked') = 0 /\ Len(given') = 0 /\ Len(encrypted') = 3 BY <1>1, <1>5, <1>6
  <2>3. 3 = 3 * (0 + 1) + 0 OBVIOUS
  <2> QED BY <2>1, <2>2, <2>3, SumNone DEF Generator!TypeOK
<1>9. KeysChained'
  <2> DEFINE ks == {u.encrypted[m].key : m \in 1..3}
  <2>1. Keys' = ks BY <1>1, <1>5 DEF Keys
  <2>2. ks = {Generator!Zero}
    <3>1. \A m \in 1..3 : u.encrypted[m].key = Generator!Zero
      <4> HIDE DEF Generator!Zero
      <4> QED BY <1>5
    <3>2. 1 \in 1..3 OBVIOUS
    <3> QED BY ONLY <3>1, <3>2
  <2> HIDE DEF ks
  <2>3. ASSUME NEW j \in 1..3, NEW k \in 1..3, j # k
        PROVE  u.encrypted[j] # u.encrypted[k]
    <3>1. u.encrypted[j].v.plus = z + j /\ u.encrypted[k].v.plus = z + k
      <4> HIDE DEF Generator!Zero
      <4> QED BY <1>5
    <3>2. z + j # z + k BY <1>3, <2>3
    <3> QED BY <3>1, <3>2
  <2> QED BY <1>1, <1>5, <1>6, <2>1, <2>2, <2>3 DEF KeysChained
<1>10. Replayed'
  <2>1. asked' \in Seq(DrbgLengths) BY <1>1
  <2>2. AfterInit(<<e, s>>) = [key |-> u.key, v |-> u.v, given |-> <<>>]
    BY DEF AfterInit, u
  <2>3. \E r : Replay(r, <<e, s>>, <<>>) /\ r[0] = [key |-> u.key, v |-> u.v, given |-> <<>>]
    BY <2>2, ReplayStarts
  <2>4. \E r : Replay(r, seed', asked')
               /\ r[Len(asked')] = [key |-> key', v |-> v', given |-> given']
    BY <1>1, <1>6, <2>3
  <2> QED BY <1>1, <2>1, <2>4 DEF GeneratorInv, Replayed
<1> QED BY <1>1, <1>5, <1>6, <1>7, <1>8, <1>9, <1>10 DEF GeneratorInv

(* The keys of the first n blocks of e. *)
KeysOf(e, n) == {e[m].key : m \in 1..n}

(* The first n blocks of e are all different. *)
Distinct(e, n) == \A j \in 1..n, m \in 1..n : j # m => e[j] # e[m]

(* f is the c blocks of e and d more, of key k and counted from o. *)
Continued(e, f, c, d, k, o) ==
  /\ \A m \in 1..c : f[m] = e[m]
  /\ \A m \in 1..d : f[c + m] = [key |-> k, v |-> [of |-> o, plus |-> m]]

(* A call whose key is new adds that key and no block there has been.        *)
LEMMA BlocksAppended ==
  ASSUME NEW o, NEW k, NEW c \in Nat, NEW d \in Nat, NEW e, NEW f, d > 0,
         Continued(e, f, c, d, k, o), k \notin KeysOf(e, c), Distinct(e, c)
  PROVE  KeysOf(f, c + d) = KeysOf(e, c) \cup {k} /\ Distinct(f, c + d)
<1> USE DEF Continued, KeysOf, Distinct
<1>1. ASSUME NEW m \in 1..(c + d), m > c
      PROVE  f[m].key = k /\ f[m].v.plus = m - c
  <2>1. m - c \in 1..d /\ c + (m - c) = m BY <1>1
  <2>2. f[c + (m - c)] = [key |-> k, v |-> [of |-> o, plus |-> m - c]]
    BY <2>1
  <2> QED BY <2>1, <2>2
<1>2. ASSUME NEW m \in 1..(c + d), m <= c
      PROVE  m \in 1..c /\ f[m] = e[m]
  BY <1>2
<1>3. {f[m].key : m \in 1..(c + d)} = {e[m].key : m \in 1..c} \cup {k}
  <2>1. ASSUME NEW m \in 1..(c + d)
        PROVE  f[m].key \in {e[l].key : l \in 1..c} \cup {k}
    <3>1. CASE m <= c BY <3>1, <1>2
    <3>2. CASE m > c BY <3>2, <1>1
    <3> QED BY <3>1, <3>2
  <2>2. ASSUME NEW m \in 1..c PROVE e[m].key \in {f[l].key : l \in 1..(c + d)}
    <3>1. m \in 1..(c + d) /\ f[m].key = e[m].key OBVIOUS
    <3> QED BY <3>1
  <2>3. k \in {f[l].key : l \in 1..(c + d)}
    <3>1. c + 1 \in 1..(c + d) /\ c + 1 > c OBVIOUS
    <3>2. f[c + 1].key = k BY <3>1, <1>1
    <3> QED BY <3>1, <3>2
  <2> QED BY <2>1, <2>2, <2>3
<1>4. ASSUME NEW j \in 1..(c + d), NEW m \in 1..(c + d), j # m, j <= m
      PROVE  f[j] # f[m]
  <2>1. CASE m <= c
    <3>1. j <= c BY <2>1, <1>4
    <3> QED BY <2>1, <3>1, <1>2, <1>4
  <2>2. CASE m > c /\ j <= c
    <3>1. f[m].key = k /\ f[j] = e[j] /\ j \in 1..c BY <2>2, <1>1, <1>2
    <3>2. e[j].key # k BY <3>1
    <3> QED BY <3>1, <3>2
  <2>3. CASE m > c /\ j > c
    <3>1. f[m].v.plus = m - c /\ f[j].v.plus = j - c BY <2>3, <1>1
    <3>2. m - c # j - c BY <1>4
    <3> QED BY <3>1, <3>2
  <2> QED BY <2>1, <2>2, <2>3
<1>5. ASSUME NEW j \in 1..(c + d), NEW m \in 1..(c + d), j # m
      PROVE  f[j] # f[m]
  <2>1. j <= m \/ m <= j OBVIOUS
  <2> QED BY <2>1, <1>4, <1>5
<1> QED BY <1>3, <1>5

(* A call continues the replay. *)
LEMMA ReplayContinues ==
  ASSUME NEW s, NEW a \in Seq(DrbgLengths), NEW r, Replay(r, s, a), NEW n \in DrbgLengths
  PROVE  \E q : /\ Replay(q, s, Append(a, n))
                /\ q[Len(Append(a, n))] = AfterCall(r[Len(a)], n)
<1> DEFINE c == Len(a)
           y == Append(a, n)
           q == [m \in 0..(c + 1) |-> IF m = c + 1 THEN AfterCall(r[c], n) ELSE r[m]]
<1>1. c \in Nat BY LenProperties
<1>2. /\ Len(y) = c + 1 /\ y[c + 1] = n
      /\ \A m \in 1..c : y[m] = a[m]
  BY ONLY a \in Seq(DrbgLengths), n \in DrbgLengths, AppendProperties
<1>3. /\ q[c + 1] = AfterCall(r[c], n)
      /\ \A m \in 0..c : q[m] = r[m]
  <2> HIDE DEF c
  <2> QED BY <1>1
<1>4. r[0] = AfterInit(s) /\ \A m \in 0..(c - 1) : r[m + 1] = AfterCall(r[m], a[m + 1])
  BY DEF Replay
<1> HIDE DEF q, y, c
<1>5. q[0] = AfterInit(s) BY <1>1, <1>3, <1>4
<1>6. ASSUME NEW m \in 0..((c + 1) - 1) PROVE q[m + 1] = AfterCall(q[m], y[m + 1])
  <2>1. CASE m = c BY <2>1, <1>1, <1>2, <1>3
  <2>2. CASE m # c
    <3>1. m \in 0..(c - 1) /\ m + 1 \in 0..c /\ m \in 0..c /\ m + 1 \in 1..c BY <2>2, <1>1
    <3>2. r[m + 1] = AfterCall(r[m], a[m + 1]) BY <3>1, <1>4
    <3>3. q[m + 1] = r[m + 1] /\ q[m] = r[m] /\ y[m + 1] = a[m + 1] BY ONLY <3>1, <1>2, <1>3
    <3> QED BY <3>2, <3>3
  <2> QED BY <2>1, <2>2
<1>7. Replay(q, s, y) BY <1>2, <1>5, <1>6 DEF Replay
<1>8. q[Len(y)] = AfterCall(r[c], n) BY <1>2, <1>3
<1> QED BY <1>7, <1>8 DEF y, c

(* Two replays of one seed and the same lengths agree. *)
LEMMA ReplayUnique ==
  ASSUME NEW s, NEW a \in Seq(DrbgLengths), NEW q, NEW r, Replay(q, s, a), Replay(r, s, a)
  PROVE  q[Len(a)] = r[Len(a)]
<1> DEFINE c == Len(a)
           S == {m \in Nat : m <= c => q[m] = r[m]}
<1>1. c \in Nat BY LenProperties
<1>2. 0 \in S BY DEF Replay
<1>3. ASSUME NEW m \in Nat, m \in S PROVE m + 1 \in S
  <2> SUFFICES ASSUME m + 1 <= c PROVE q[m + 1] = r[m + 1] OBVIOUS
  <2>1. m \in 0..(Len(a) - 1) BY <1>1
  <2>2. q[m + 1] = AfterCall(q[m], a[m + 1]) /\ r[m + 1] = AfterCall(r[m], a[m + 1])
    BY <2>1 DEF Replay
  <2>3. q[m] = r[m] BY <1>1, <1>3
  <2> QED BY <2>2, <2>3
<1>4. Nat \subseteq S
  <2> HIDE DEF S
  <2> QED BY <1>2, <1>3, SetInduction
<1> QED BY <1>1, <1>4

(* A call. *)
LEMMA DrawKeeps ==
  ASSUME GeneratorInv, NEW n \in DrbgLengths, Generator!RandomBytes(n)
  PROVE  GeneratorInv'
<1> DEFINE B == Generator!BlocksFor(n)
           block(b) == Generator!AES(key, Generator!Plus(v, b))
           blocks == [b \in 1..B |-> block(b)]
           u == Generator!Update(NULL, key, Generator!Plus(v, B))
           bytes == [k \in 1..n |-> <<block(((k - 1) \div DrbgBlock) + 1), (k - 1) % DrbgBlock>>]
           L == Len(encrypted)
<1>1. /\ seed # <<>> /\ draws < MaxDraws /\ draws' = draws + 1
      /\ given' = given \o bytes
      /\ key' = u.key /\ v' = u.v
      /\ encrypted' = encrypted \o blocks \o u.encrypted
      /\ asked' = Append(asked, n)
      /\ transcripts' = transcripts \cup {[seed |-> seed, asked |-> asked', given |-> given']}
      /\ seed' = seed /\ inits' = inits
  BY DEF Generator!RandomBytes, Generator!After
<1>2. n \in Nat /\ DrbgBlock \in Nat \ {0} BY GeneratorSizes
<1>3. B \in Nat
  <2> DEFINE m == n + DrbgBlock - 1
  <2>1. m \in Nat BY <1>2
  <2> HIDE DEF m
  <2>2. m \div DrbgBlock \in Nat BY ONLY <2>1, <1>2, SplitAt
  <2> QED BY <2>2 DEF m, Generator!BlocksFor
<1>4. KeysChained /\ Listed(encrypted) /\ Listed(given) /\ Replayed /\ Generator!TypeOK
  BY <1>1 DEF GeneratorInv
<1>5. v = [of |-> v.of, plus |-> 0] BY <1>4 DEF KeysChained
<1>6. \A b \in Nat : Generator!Plus(v, b) = [of |-> v.of, plus |-> b]
  <2> SUFFICES ASSUME NEW b \in Nat
               PROVE  [v EXCEPT !.plus = v.plus + b] = [of |-> v.of, plus |-> b]
    BY DEF Generator!Plus
  <2> DEFINE o == v.of
  <2>1. v = [of |-> o, plus |-> 0] BY <1>5
  <2> HIDE DEF o
  <2>2. [v EXCEPT !.plus = v.plus + b] = [of |-> o, plus |-> 0 + b] BY ONLY <2>1
  <2>3. 0 + b = b OBVIOUS
  <2> QED BY <2>2, <2>3 DEF o
<1>7. \A b \in Nat : block(b) = [key |-> key, v |-> [of |-> v.of, plus |-> b]]
  BY <1>6 DEF Generator!AES
<1>8. /\ u.v = [of |-> u.v.of, plus |-> 0]
      /\ u.key # Generator!Zero /\ Prev(u.key) = key
      /\ Listed(u.encrypted) /\ Len(u.encrypted) = 3
      /\ \A m \in 1..3 : u.encrypted[m] = [key |-> key, v |-> [of |-> v.of, plus |-> B + m]]
  <2>1. Generator!Plus(v, B) = [of |-> v.of, plus |-> B] BY <1>3, <1>6
  <2> HIDE DEF B
  <2> QED BY <1>3, <2>1, UpdateIs
<1>9. Listed(blocks) /\ Len(blocks) = B
  <2>1. blocks = [b \in 1..B |-> blocks[b]] OBVIOUS
  <2> HIDE DEF blocks, B
  <2> QED BY ONLY <2>1, <1>3, ListedIs
<1>10. Listed(bytes) /\ Len(bytes) = n
  <2>1. bytes = [k \in 1..n |-> bytes[k]] OBVIOUS
  <2> HIDE DEF bytes
  <2> QED BY ONLY <2>1, <1>2, ListedIs
<1>11. ASSUME NEW k \in 1..n PROVE bytes[k][1].key = key
  <2> DEFINE b == ((k - 1) \div DrbgBlock) + 1
  <2>1. b \in Nat
    <3> DEFINE m == k - 1
    <3>1. m \in Nat BY <1>2
    <3> HIDE DEF m
    <3>2. m \div DrbgBlock \in Nat BY ONLY <3>1, <1>2, SplitAt
    <3>3. (m \div DrbgBlock) + 1 \in Nat BY ONLY <3>2
    <3> QED BY <3>3 DEF m
  <2>2. bytes[k] = <<block(b), (k - 1) % DrbgBlock>> OBVIOUS
  <2> HIDE DEF b, bytes
  <2>3. block(b).key = key BY <2>1, <1>7
  <2> HIDE DEF block
  <2> QED BY <2>2, <2>3
<1>12. ASSUME NEW b \in 1..B
       PROVE  blocks[b] = [key |-> key, v |-> [of |-> v.of, plus |-> b]]
  <2>1. blocks[b] = block(b) /\ b \in Nat BY <1>3
  <2> HIDE DEF block, blocks, B
  <2> QED BY <2>1, <1>7
<1> HIDE DEF B, block, blocks, u, bytes
<1>13. L \in Nat BY <1>4 DEF Listed
<1>14. /\ Listed(encrypted') /\ Len(encrypted') = L + (B + 3)
       /\ \A m \in 1..L : encrypted'[m] = encrypted[m]
       /\ \A m \in 1..(B + 3) :
            encrypted'[L + m] = [key |-> key, v |-> [of |-> v.of, plus |-> m]]
  <2> DEFINE e == encrypted \o blocks
             f == e \o u.encrypted
  <2>1. /\ Listed(e) /\ Len(e) = L + B
        /\ \A m \in 1..L : e[m] = encrypted[m]
        /\ \A m \in 1..B : e[L + m] = blocks[m]
    <3>1. Concatenated(encrypted, blocks, e) BY <1>4, <1>9, ConcatListed
    <3> HIDE DEF e
    <3> QED BY <3>1, <1>9 DEF Concatenated
  <2> HIDE DEF e
  <2>2. /\ Listed(f) /\ Len(f) = Len(e) + 3
        /\ \A m \in 1..Len(e) : f[m] = e[m]
        /\ \A m \in 1..3 : f[Len(e) + m] = u.encrypted[m]
    <3> DEFINE w == u.encrypted
    <3>1. Listed(w) /\ Len(w) = 3 BY <1>8
    <3> HIDE DEF w
    <3>2. Concatenated(e, w, e \o w) BY ONLY <2>1, <3>1, ConcatListed
    <3>3. f = e \o w BY DEF w
    <3> HIDE DEF f
    <3> QED BY <3>1, <3>2, <3>3 DEF w, Concatenated
  <2> HIDE DEF f
  <2> HIDE DEF L
  <2>3. Len(f) = L + (B + 3) BY ONLY <2>1, <2>2, <1>3, <1>13
  <2>4. ASSUME NEW m \in 1..L PROVE f[m] = encrypted[m]
    <3>1. m \in 1..Len(e) BY <2>1, <1>3, <1>13
    <3> QED BY ONLY <3>1, <2>1, <2>2, m \in 1..L
  <2>5. ASSUME NEW m \in 1..(B + 3)
        PROVE  f[L + m] = [key |-> key, v |-> [of |-> v.of, plus |-> m]]
    <3>1. CASE m <= B
      <4>1. m \in 1..B /\ L + m \in 1..Len(e) BY <3>1, <2>1, <1>3, <1>13
      <4>2. f[L + m] = e[L + m] /\ e[L + m] = blocks[m] BY ONLY <4>1, <2>1, <2>2
      <4> QED BY <4>1, <4>2, <1>12
    <3>2. CASE m > B
      <4>1. m - B \in 1..3 /\ L + m = Len(e) + (m - B) /\ B + (m - B) = m
        BY <3>2, <2>1, <1>3, <1>13
      <4>2. f[Len(e) + (m - B)] = u.encrypted[m - B] BY ONLY <4>1, <2>2
      <4>3. u.encrypted[m - B] = [key |-> key, v |-> [of |-> v.of, plus |-> B + (m - B)]]
        BY <4>1, <1>8
      <4> QED BY <4>1, <4>2, <4>3
    <3> QED BY <3>1, <3>2, <1>3
  <2>6. encrypted' = f BY <1>1 DEF e, f
  <2> QED BY <2>2, <2>3, <2>4, <2>5, <2>6
<1>15. /\ Listed(given') /\ Len(given') = Len(given) + n
       /\ \A k \in 1..Len(given) : given'[k] = given[k]
       /\ \A k \in 1..n : given'[Len(given) + k] = bytes[k]
  <2>1. Concatenated(given, bytes, given') BY <1>1, <1>4, <1>10, ConcatListed
  <2> QED BY <2>1, <1>10 DEF Concatenated
<1>16. KeysChained'
  <2> DEFINE ks == Keys
  <2>1. /\ key # Generator!Zero /\ key \notin Keys /\ Prev(key) \in Keys
        /\ \A k \in Keys : k # Generator!Zero => Prev(k) \in Keys
        /\ \A j \in 1..L, k \in 1..L : j # k => encrypted[j] # encrypted[k]
        /\ \A k \in 1..Len(given) : given[k][1].key \in Keys
    BY <1>4 DEF KeysChained
  <2>2. /\ Keys' = Keys \cup {key}
        /\ \A j \in 1..(L + (B + 3)), m \in 1..(L + (B + 3)) :
             j # m => encrypted'[j] # encrypted'[m]
    <3> DEFINE f == encrypted'
               d == B + 3
               o == v.of
    <3>1. d \in Nat /\ d > 0 BY <1>3
    <3>2. Continued(encrypted, f, L, d, key, o) BY <1>14 DEF Continued
    <3>3. Keys = KeysOf(encrypted, L) BY DEF Keys, KeysOf
    <3>4. key \notin KeysOf(encrypted, L) BY <2>1, <3>3
    <3>5. Distinct(encrypted, L) BY <2>1 DEF Distinct
    <3>6. Keys' = KeysOf(f, L + d) BY <1>14 DEF Keys, KeysOf
    <3> HIDE DEF f, d, o, L
    <3>7. KeysOf(f, L + d) = KeysOf(encrypted, L) \cup {key} /\ Distinct(f, L + d)
      BY ONLY <3>1, <3>2, <3>4, <3>5, <1>13, BlocksAppended
    <3>8. Keys' = Keys \cup {key} BY ONLY <3>3, <3>6, <3>7
    <3> QED BY <3>7, <3>8 DEF f, d, Distinct
  <2>3. u.key \notin Keys \cup {key}
    <3>1. Prev(u.key) = key /\ u.key # Generator!Zero BY <1>8
    <3>2. ASSUME u.key = key PROVE FALSE
      <4>1. Prev(key) = key BY <3>1, <3>2
      <4> QED BY ONLY <4>1, <2>1
    <3>3. ASSUME u.key \in Keys PROVE FALSE
      <4>1. Prev(u.key) \in Keys BY ONLY <3>1, <3>3, <2>1
      <4> QED BY ONLY <4>1, <3>1, <2>1
    <3> QED BY <3>2, <3>3
  <2>4. ASSUME NEW k \in 1..Len(given') PROVE given'[k][1].key \in Keys \cup {key}
    <3>1. Len(given) \in Nat BY <1>4 DEF Listed
    <3>2. CASE k <= Len(given)
      <4>1. k \in 1..Len(given) BY <3>1, <3>2
      <4>2. given'[k] = given[k] /\ given[k][1].key \in Keys BY <4>1, <1>15, <2>1
      <4> QED BY <4>2
    <3>3. CASE k > Len(given)
      <4>1. k - Len(given) \in 1..n /\ Len(given) + (k - Len(given)) = k
        BY <3>1, <3>3, <1>2, <1>15
      <4>2. given'[Len(given) + (k - Len(given))] = bytes[k - Len(given)] BY ONLY <4>1, <1>15
      <4>3. bytes[k - Len(given)][1].key = key BY <4>1, <1>11
      <4> QED BY <4>1, <4>2, <4>3
    <3> QED BY <3>1, <3>2, <3>3, <1>2, <1>15
  <2>5. v' = [of |-> v'.of, plus |-> 0] BY <1>1, <1>8
  <2>6. key' # Generator!Zero /\ key' \notin Keys' /\ Prev(key') \in Keys'
    BY <1>1, <1>8, <2>2, <2>3
  <2>7. \A k \in Keys' : k # Generator!Zero => Prev(k) \in Keys'
    BY ONLY <2>1, <2>2
  <2>8. \A j \in 1..Len(encrypted'), k \in 1..Len(encrypted') :
          j # k => encrypted'[j] # encrypted'[k]
    BY ONLY <2>2, <1>14
  <2>9. \A k \in 1..Len(given') : given'[k][1].key \in Keys' BY <2>2, <2>4
  <2> QED BY <2>5, <2>6, <2>7, <2>8, <2>9 DEF KeysChained
<1>17. asked \in Seq(DrbgLengths) /\ Len(asked) \in Nat
       /\ asked' \in Seq(DrbgLengths) /\ Len(asked') = Len(asked) + 1
       /\ asked'[Len(asked) + 1] = n /\ \A k \in 1..Len(asked) : asked'[k] = asked[k]
  <2>1. asked \in Seq(DrbgLengths) BY <1>4 DEF Replayed
  <2>2. Len(asked) \in Nat BY ONLY <2>1, LenProperties
  <2>3. /\ Append(asked, n) \in Seq(DrbgLengths) /\ Len(Append(asked, n)) = Len(asked) + 1
        /\ Append(asked, n)[Len(asked) + 1] = n
        /\ \A k \in 1..Len(asked) : Append(asked, n)[k] = asked[k]
    BY ONLY <2>1, n \in DrbgLengths, AppendProperties
  <2> QED BY <1>1, <2>1, <2>2, <2>3
<1>18. Generator!TypeOK'
  <2> DEFINE c == Len(asked)
             f1 == [j \in 0..(c - 1) |-> asked[j + 1]]
             g1 == [j \in 0..((c + 1) - 1) |-> asked'[j + 1]]
             f2 == [j \in 0..(c - 1) |-> (asked[j + 1] + DrbgBlock - 1) \div DrbgBlock]
             g2 == [j \in 0..((c + 1) - 1) |-> (asked'[j + 1] + DrbgBlock - 1) \div DrbgBlock]
  <2>1. c \in Nat BY <1>17
  <2>2. ASSUME NEW j \in 0..(c - 1)
        PROVE  /\ f1[j] \in Int /\ g1[j] = f1[j]
               /\ f2[j] \in Int /\ g2[j] = f2[j]
    <3>1. j + 1 \in 1..c /\ j \in 0..((c + 1) - 1) BY <2>1
    <3>2. asked'[j + 1] = asked[j + 1] BY <3>1, <1>17
    <3>3. asked[j + 1] \in Nat
      <4>1. asked[j + 1] \in DrbgLengths BY ONLY <3>1, <1>17, ElementOfSeq
      <4> QED BY <4>1, GeneratorSizes
    <3>4. (asked[j + 1] + DrbgBlock - 1) \div DrbgBlock \in Int
      <4> DEFINE m == asked[j + 1] + DrbgBlock - 1
      <4>1. m \in Nat BY <3>3, <1>2
      <4> HIDE DEF m
      <4>2. m \div DrbgBlock \in Int BY ONLY <4>1, <1>2, SplitAt
      <4> QED BY <4>2 DEF m
    <3>5. f1[j] = asked[j + 1] /\ g1[j] = asked'[j + 1] BY <3>1
    <3>6. f2[j] = (asked[j + 1] + DrbgBlock - 1) \div DrbgBlock
          /\ g2[j] = (asked'[j + 1] + DrbgBlock - 1) \div DrbgBlock
      BY <3>1
    <3> HIDE DEF f1, g1, f2, g2, c
    <3>7. f1[j] \in Int /\ g1[j] = f1[j] BY <3>2, <3>3, <3>5
    <3>8. f2[j] \in Int /\ g2[j] = f2[j]
      <4> DEFINE m == (asked[j + 1] + DrbgBlock - 1) \div DrbgBlock
      <4>1. f2[j] = m /\ g2[j] = m /\ m \in Int BY <3>2, <3>4, <3>6
      <4> HIDE DEF m
      <4> QED BY ONLY <4>1
    <3> QED BY <3>7, <3>8
  <2>3. g1[c] = n /\ g2[c] = B
    <3>1. c \in 0..((c + 1) - 1) BY <2>1
    <3> QED BY <3>1, <1>17 DEF B, Generator!BlocksFor
  <2> HIDE DEF f1, g1, f2, g2
  <2>4. Generator!SumTo(g1, c + 1) = Generator!SumTo(f1, c) + g1[c]
        /\ Generator!SumTo(f1, c) \in Int
    <3> HIDE DEF c
    <3> QED BY <2>1, <2>2, SumOneMore
  <2>5. Generator!SumTo(g2, c + 1) = Generator!SumTo(f2, c) + g2[c]
        /\ Generator!SumTo(f2, c) \in Int
    <3> HIDE DEF c
    <3> QED BY <2>1, <2>2, SumOneMore
  <2>6. Len(given) = Generator!SumTo(f1, c) /\ L = 3 * (c + 1) + Generator!SumTo(f2, c)
    BY <1>1, <1>4 DEF Generator!TypeOK, f1, f2
  <2>7. inits' \in 0..MaxInits /\ draws' \in 0..MaxDraws
    BY <1>1, <1>4, GeneratorSizes DEF Generator!TypeOK
  <2>8. Len(given') = Generator!SumTo(g1, c + 1) BY <1>15, <2>3, <2>4, <2>6
  <2>9. Len(encrypted') = 3 * ((c + 1) + 1) + Generator!SumTo(g2, c + 1)
    <3> DEFINE S == Generator!SumTo(f2, c)
    <3>1. S \in Int /\ L = 3 * (c + 1) + S /\ Generator!SumTo(g2, c + 1) = S + B
      BY <2>3, <2>5, <2>6
    <3> HIDE DEF S, L, c
    <3>2. L + (B + 3) = 3 * ((c + 1) + 1) + (S + B) BY ONLY <3>1, <2>1, <1>3
    <3> QED BY <3>1, <3>2, <1>14
  <2>10. Len(asked') = c + 1 BY <1>17
  <2> QED BY <2>7, <2>8, <2>9, <2>10 DEF Generator!TypeOK, g1, g2
<1>19. Replayed'
  <2> DEFINE now == [key |-> key, v |-> v, given |-> given]
             next == [key |-> u.key, v |-> u.v, given |-> given \o bytes]
  <2>1. PICK r : Replay(r, seed, asked) /\ r[Len(asked)] = now
    BY <1>1, <1>4 DEF Replayed
  <2>2. AfterCall(now, n) = next
    BY DEF AfterCall, B, u, bytes, block
  <2>3. \E q : Replay(q, seed, asked') /\ q[Len(asked')] = next
    <3> HIDE DEF now, next
    <3>1. \E q : /\ Replay(q, seed, Append(asked, n))
                 /\ q[Len(Append(asked, n))] = AfterCall(r[Len(asked)], n)
      BY <2>1, <1>17, ReplayContinues
    <3> QED BY <3>1, <2>1, <2>2, <1>1
  <2>4. next = [key |-> key', v |-> v', given |-> given'] BY <1>1
  <2>5. next.given = given' BY <2>4
  <2> HIDE DEF next
  <2>6. ASSUME NEW t \in transcripts'
        PROVE  /\ t.asked \in Seq(DrbgLengths)
               /\ \E q : Replay(q, t.seed, t.asked) /\ q[Len(t.asked)].given = t.given
    <3>1. CASE t \in transcripts BY <3>1, <1>4 DEF Replayed
    <3>2. CASE t = [seed |-> seed, asked |-> asked', given |-> given']
      <4>1. t.seed = seed /\ t.asked = asked' /\ t.given = given' BY <3>2
      <4> QED BY <4>1, <1>17, <2>3, <2>5
    <3> QED BY <3>1, <3>2, <1>1
  <2> QED BY <1>1, <1>17, <2>3, <2>4, <2>6 DEF Replayed
<1> QED BY <1>1, <1>14, <1>15, <1>16, <1>18, <1>19 DEF GeneratorInv

(* A step of any part is a step of the generator or leaves it alone. *)
LEMMA GeneratorStepKeeps ==
  ASSUME GeneratorInv, [NextParts]_allVars
  PROVE  GeneratorInv'
<1>1. CASE UNCHANGED generatorVars
  <2>1. UNCHANGED <<key, v, seed, encrypted, asked, given, transcripts, inits, draws>>
    BY <1>1 DEF generatorVars
  <2>2. Replayed' BY <2>1 DEF GeneratorInv, Replayed
  <2>3. KeysChained' <=> KeysChained BY <2>1 DEF KeysChained, Keys
  <2>4. Generator!TypeOK' <=> Generator!TypeOK BY <2>1 DEF Generator!TypeOK
  <2> QED BY <2>1, <2>2, <2>3, <2>4 DEF GeneratorInv
<1>2. ASSUME NEW e \in Seeds, NEW s \in Strings, Generator!RandomBytesInit(e, s)
      PROVE  GeneratorInv'
  BY <1>2, SeedingKeeps
<1>3. ASSUME NEW n \in DrbgLengths, Generator!RandomBytes(n) PROVE GeneratorInv'
  BY <1>3, DrawKeeps
<1>4. \/ UNCHANGED generatorVars
      \/ \E e \in Seeds, s \in Strings : Generator!RandomBytesInit(e, s)
      \/ \E n \in DrbgLengths : Generator!RandomBytes(n)
  <2>1. CASE UNCHANGED allVars BY <2>1 DEF allVars
  <2>2. CASE NextParts
    BY <2>2 DEF NextParts, DeviceStep, GeneratorStep, ExpanderStep, AnswersStep
  <2> QED BY <2>1, <2>2
<1> QED BY <1>1, <1>2, <1>3, <1>4

(* The generator's invariant holds in every reachable state. *)
LEMMA GeneratorInvariant == SpecParts => []GeneratorInv
<1>1. InitParts => GeneratorInv BY GeneratorInit DEF InitParts
<1>2. GeneratorInv /\ [NextParts]_allVars => GeneratorInv' BY GeneratorStepKeeps
<1> QED BY <1>1, <1>2, PTL DEF SpecParts, allVars

(* No block is encrypted twice, by the generator between two seedings or by  *)
(* the expander in all of its stream, and both account for every byte they   *)
(* give, whatever lengths are asked for (rng.c:31-97, 162-206).              *)
THEOREM BlocksFreshHolds == SpecParts => []BlocksFresh
<1>1. GeneratorInv => Generator!TypeOK /\ Generator!BlocksFresh
  <2> SUFFICES ASSUME GeneratorInv PROVE Generator!BlocksFresh BY DEF GeneratorInv
  <2>1. Listed(encrypted) BY DEF GeneratorInv
  <2>2. \A j \in 1..Len(encrypted), k \in 1..Len(encrypted) :
          j # k => encrypted[j] # encrypted[k]
    <3>1. CASE seed = <<>>
      <4>1. Len(encrypted) = 0 BY <3>1 DEF GeneratorInv
      <4> QED BY <4>1
    <3>2. CASE seed # <<>> BY <3>2 DEF GeneratorInv, KeysChained
    <3> QED BY <3>1, <3>2
  <2>3. Generator!Cardinality(Generator!ToSet(encrypted)) = Len(encrypted)
    BY ONLY <2>1, <2>2, WithoutRepetitions
  <2> QED BY <2>3 DEF Generator!BlocksFresh
<1>2. ExpanderInv => Expander!TypeOK /\ Expander!BlocksFresh /\ Expander!LengthAccounted
  BY CountersFresh DEF ExpanderInv
<1>3. GeneratorInv /\ ExpanderInv => BlocksFresh BY <1>1, <1>2 DEF BlocksFresh
<1> QED BY <1>3, GeneratorInvariant, ExpanderInvariant, PTL

(* No byte that was given comes from the key the generator holds after the   *)
(* call, and what is given follows from the seed and the lengths asked for   *)
(* since, whatever was done before (rng.c:138-213).                          *)
THEOREM KeyErasedHolds == SpecParts => []KeyErased
<1>1. GeneratorInv => Generator!KeyErased
  <2> SUFFICES ASSUME GeneratorInv, NEW k \in DOMAIN given PROVE given[k][1].key # key
    BY DEF Generator!KeyErased
  <2>1. k \in 1..Len(given)
    <3> DEFINE n == Len(given)
    <3>1. given = [m \in 1..n |-> given[m]] BY DEF GeneratorInv, Listed
    <3> HIDE DEF n
    <3>2. DOMAIN given = 1..n BY ONLY <3>1
    <3> QED BY <3>2 DEF n
  <2>2. seed # <<>>
    <3> SUFFICES ASSUME seed = <<>> PROVE FALSE OBVIOUS
    <3>1. Len(given) = 0 BY DEF GeneratorInv
    <3> QED BY <2>1, <3>1
  <2> QED BY <2>1, <2>2 DEF GeneratorInv, KeysChained
<1>2. GeneratorInv => Generator!Reproducible
  <2> SUFFICES ASSUME GeneratorInv, NEW s \in transcripts, NEW t \in transcripts,
                      s.seed = t.seed, s.asked = t.asked
               PROVE  s.given = t.given
    BY DEF Generator!Reproducible
  <2>1. s.asked \in Seq(DrbgLengths)
        /\ \E q : Replay(q, s.seed, s.asked) /\ q[Len(s.asked)].given = s.given
    BY DEF GeneratorInv, Replayed
  <2>2. \E r : Replay(r, t.seed, t.asked) /\ r[Len(t.asked)].given = t.given
    BY DEF GeneratorInv, Replayed
  <2>3. PICK q : Replay(q, s.seed, s.asked) /\ q[Len(s.asked)].given = s.given BY <2>1
  <2>4. PICK r : Replay(r, t.seed, t.asked) /\ r[Len(t.asked)].given = t.given BY <2>2
  <2> DEFINE a == s.asked
             d == s.seed
  <2>5. Replay(q, d, a) /\ Replay(r, d, a) /\ a \in Seq(DrbgLengths) BY <2>1, <2>3, <2>4
  <2>6. q[Len(a)].given = s.given /\ r[Len(a)].given = t.given BY <2>3, <2>4
  <2> HIDE DEF a, d
  <2>7. q[Len(a)] = r[Len(a)] BY ONLY <2>5, ReplayUnique
  <2> QED BY <2>6, <2>7
<1>3. GeneratorInv => KeyErased BY <1>1, <1>2 DEF KeyErased
<1> QED BY <1>3, GeneratorInvariant, PTL

-----------------------------------------------------------------------------
\* The known-answer programs.

(* What is left of the statements p from the l-th on. *)
From(p, l) == SubSeq(p, l, Len(p))

(* The statement at hand, and those behind it.                               *)
LEMMA FromSteps ==
  ASSUME NEW S, NEW p \in Seq(S), NEW l \in 1..Len(p)
  PROVE  /\ From(p, l) # <<>> /\ From(p, l) \in Seq(S)
         /\ Head(From(p, l)) = p[l] /\ Tail(From(p, l)) = From(p, l + 1)
<1>1. Len(p) \in Nat BY LenProperties
<1>2. l \in Int /\ Len(p) \in l..Len(p) /\ Len(p) \in Int BY <1>1
<1>3. \A j \in l..Len(p) : p[j] \in S BY <1>1, ElementOfSeq
<1>4. From(p, l) \in Seq(S) /\ Len(From(p, l)) = Len(p) - l + 1
  BY <1>2, <1>3, SubSeqProperties DEF From
<1>5. From(p, l) # <<>>
  <2>1. Len(From(p, l)) > 0 BY <1>1, <1>4
  <2> QED BY <2>1, EmptySeq
<1> QED BY <1>2, <1>4, <1>5, HeadTailOfSubSeq DEF From

(* All of the statements, and none.                                          *)
LEMMA FromEnds ==
  ASSUME NEW S, NEW p \in Seq(S)
  PROVE  From(p, 1) = p /\ From(p, Len(p) + 1) = <<>>
<1>1. Len(p) \in Nat BY LenProperties
<1>2. From(p, 1) = p BY SubSeqFull DEF From
<1>3. Len(p) + 1 \in Int /\ Len(p) \in Int /\ Len(p) < Len(p) + 1 BY <1>1
<1> QED BY <1>2, <1>3, SubSeqEmpty DEF From

(* A line as the programs write them. *)
OkLine(w) ==
  /\ DOMAIN w = {"tag", "val", "len"} /\ w.len \in Nat
  /\ w.tag \in Answers!Numbers => w.val \in Nat

(* A file of such lines. *)
OkFile(s) == \E S : s \in Seq(S) /\ \A w \in S : OkLine(w)

(* What a file is.                                                           *)
LEMMA FileIs ==
  ASSUME NEW s, OkFile(s)
  PROVE  /\ Len(s) \in Nat /\ DOMAIN s = 1..Len(s)
         /\ \A k \in 1..Len(s) : OkLine(s[k])
<1>1. PICK S : s \in Seq(S) /\ \A w \in S : OkLine(w) BY DEF OkFile
<1> QED BY <1>1, LenProperties, ElementOfSeq

(* A file is emptied. *)
LEMMA FileEmpty == OkFile(<<>>) /\ Len(<<>>) = 0
<1>1. PICK S : S = {} OBVIOUS
<1>2. <<>> \in Seq(S) /\ Len(<<>>) = 0 BY ONLY EmptySeq
<1>3. \A w \in S : OkLine(w) BY ONLY <1>1
<1> QED BY ONLY <1>2, <1>3 DEF OkFile

(* A line is written at its end. *)
LEMMA FileAppend ==
  ASSUME NEW s, OkFile(s), NEW w, OkLine(w)
  PROVE  /\ OkFile(Append(s, w)) /\ Len(Append(s, w)) = Len(s) + 1
         /\ Append(s, w)[Len(s) + 1] = w
         /\ \A k \in 1..Len(s) : Append(s, w)[k] = s[k]
<1>1. PICK S : s \in Seq(S) /\ \A y \in S : OkLine(y) BY DEF OkFile
<1> DEFINE T == S \cup {w}
<1>2. s \in Seq(T) /\ w \in T
  <2>1. S \subseteq T OBVIOUS
  <2> HIDE DEF T
  <2>2. s \in Seq(T) BY <1>1, <2>1, SeqMonotonic
  <2> QED BY <2>2 DEF T
<1>3. \A y \in T : OkLine(y) BY <1>1
<1> HIDE DEF T
<1>4. /\ Append(s, w) \in Seq(T) /\ Len(Append(s, w)) = Len(s) + 1
      /\ Append(s, w)[Len(s) + 1] = w
      /\ \A k \in 1..Len(s) : Append(s, w)[k] = s[k]
  BY <1>2, AppendProperties
<1> QED BY <1>3, <1>4 DEF OkFile

(* Only its first lines are left. *)
LEMMA FilePrefix ==
  ASSUME NEW s, OkFile(s), NEW n \in 0..Len(s)
  PROVE  /\ OkFile(SubSeq(s, 1, n)) /\ Len(SubSeq(s, 1, n)) = n
         /\ \A k \in 1..n : SubSeq(s, 1, n)[k] = s[k]
<1>1. PICK S : s \in Seq(S) /\ \A y \in S : OkLine(y) BY DEF OkFile
<1>2. Len(s) \in Nat BY FileIs
<1>3. \A k \in 1..n : s[k] \in S BY <1>1, <1>2, ElementOfSeq
<1>4. 1 \in Int /\ n \in Int BY <1>2
<1>5. /\ SubSeq(s, 1, n) \in Seq(S) /\ Len(SubSeq(s, 1, n)) = IF 1 <= n THEN n - 1 + 1 ELSE 0
      /\ \A k \in 1..(n - 1 + 1) : SubSeq(s, 1, n)[k] = s[1 + k - 1]
  BY ONLY <1>3, <1>4, SubSeqProperties
<1>6. OkFile(SubSeq(s, 1, n)) BY ONLY <1>1, <1>5 DEF OkFile
<1>7. Len(SubSeq(s, 1, n)) = n /\ \A k \in 1..n : SubSeq(s, 1, n)[k] = s[k]
  <2> DEFINE q == SubSeq(s, 1, n)
  <2>1. Len(q) = (IF 1 <= n THEN n - 1 + 1 ELSE 0) /\ \A k \in 1..(n - 1 + 1) : q[k] = s[1 + k - 1]
    BY <1>5
  <2> HIDE DEF q
  <2>2. n \in Nat BY <1>2
  <2>3. Len(q) = n /\ \A k \in 1..n : q[k] = s[k] BY ONLY <2>1, <2>2
  <2> QED BY <2>3 DEF q
<1> QED BY <1>6, <1>7

(* A line is cut. *)
LEMMA LineCut ==
  ASSUME NEW w, OkLine(w)
  PROVE  /\ OkLine(Answers!CutLine(w))
         /\ Answers!CutLine(w).tag = w.tag /\ Answers!CutLine(w).len = 1
<1> DEFINE y == Answers!CutLine(w)
<1>1. w.tag \in Answers!Numbers => w.val \div 10 \in Nat BY SplitAt DEF OkLine
<1>2. /\ DOMAIN y = {"tag", "val", "len"} /\ y.tag = w.tag /\ y.len = 1
      /\ y.val = IF w.tag \in Answers!Numbers THEN w.val \div 10 ELSE w.val
  BY DEF OkLine, Answers!CutLine
<1> HIDE DEF y
<1>3. OkLine(y) BY <1>1, <1>2 DEF OkLine
<1> QED BY <1>2, <1>3 DEF y

(* One of its lines is changed. *)
LEMMA FileExcept ==
  ASSUME NEW s, OkFile(s), NEW n \in 1..Len(s), NEW w, OkLine(w)
  PROVE  /\ OkFile([s EXCEPT ![n] = w]) /\ Len([s EXCEPT ![n] = w]) = Len(s)
         /\ \A k \in 1..Len(s) : [s EXCEPT ![n] = w][k] = IF k = n THEN w ELSE s[k]
<1>1. PICK S : s \in Seq(S) /\ \A y \in S : OkLine(y) BY DEF OkFile
<1> DEFINE T == S \cup {w}
<1>2. s \in Seq(T) /\ w \in T
  <2>1. S \subseteq T OBVIOUS
  <2> HIDE DEF T
  <2>2. s \in Seq(T) BY <1>1, <2>1, SeqMonotonic
  <2> QED BY <2>2 DEF T
<1>3. \A y \in T : OkLine(y) BY <1>1
<1> HIDE DEF T
<1>4. /\ [s EXCEPT ![n] = w] \in Seq(T) /\ Len([s EXCEPT ![n] = w]) = Len(s)
      /\ \A k \in 1..Len(s) : [s EXCEPT ![n] = w][k] = IF k = n THEN w ELSE s[k]
  BY <1>2, ExceptSeq
<1> QED BY <1>3, <1>4 DEF OkFile

(* FindMarker finds the next line that matches.                              *)
LEMMA FoundAt ==
  ASSUME NEW f, NEW t, lines[f] \in Nat, Len(files[f]) \in Nat,
         NEW k \in (lines[f] + 1)..Len(files[f]), Answers!Matches(t, files[f][k]),
         \A j \in (lines[f] + 1)..(k - 1) : ~Answers!Matches(t, files[f][j])
  PROVE  Answers!Found(f, t) = k
<1> DEFINE hits == {j \in (lines[f] + 1)..Len(files[f]) : Answers!Matches(t, files[f][j])}
<1>1. k \in hits /\ \A j \in hits : k <= j OBVIOUS
<1>2. \A q \in hits : (\A j \in hits : q <= j) => q = k
  <2> TAKE q \in hits
  <2> HAVE \A j \in hits : q <= j
  <2>1. q <= k /\ k <= q BY <1>1
  <2>2. q \in Int OBVIOUS
  <2> QED BY <2>1, <2>2
<1>3. Answers!Found(f, t) = IF hits = {} THEN 0 ELSE CHOOSE q \in hits : \A j \in hits : q <= j
  BY DEF Answers!Found
<1> HIDE DEF hits
<1>4. (CHOOSE q \in hits : \A j \in hits : q <= j) = k BY <1>1, <1>2
<1> QED BY <1>1, <1>3, <1>4

(* It finds none.                                                            *)
LEMMA FoundNone ==
  ASSUME NEW f, NEW t,
         \A j \in (lines[f] + 1)..Len(files[f]) : ~Answers!Matches(t, files[f][j])
  PROVE  Answers!Found(f, t) = 0
BY DEF Answers!Found

(* What it finds. *)
LEMMA FoundIs ==
  ASSUME NEW f, NEW t, lines[f] \in Nat, Len(files[f]) \in Nat
  PROVE  \/ Answers!Found(f, t) = 0
         \/ /\ Answers!Found(f, t) \in (lines[f] + 1)..Len(files[f])
            /\ Answers!Matches(t, files[f][Answers!Found(f, t)])
<1> DEFINE hits == {j \in (lines[f] + 1)..Len(files[f]) : Answers!Matches(t, files[f][j])}
<1>1. Answers!Found(f, t) = IF hits = {} THEN 0 ELSE CHOOSE q \in hits : \A j \in hits : q <= j
  BY DEF Answers!Found
<1>2. hits # {} => \E q \in hits : \A j \in hits : q <= j
  <2> HAVE hits # {}
  <2>1. hits \subseteq Nat OBVIOUS
  <2> HIDE DEF hits
  <2> QED BY <2>1, LeastNumber
<1>3. hits # {} => Answers!Found(f, t) \in hits
  <2> HIDE DEF hits
  <2> QED BY <1>1, <1>2
<1> QED BY <1>1, <1>3

-----------------------------------------------------------------------------
\* Sequences put together from pieces of the same length.

(* g is what flatten has put together of s so far. *)
Flattening(n, s, g) == g = [k \in 1..n |-> IF k = 1 THEN s[k] ELSE g[k - 1] \o s[k]]

(* The recursion can be carried out for any number of pieces.                *)
LEMMA FlatteningExists ==
  ASSUME NEW s
  PROVE  \A n \in Nat : \E g : Flattening(n + 1, s, g)
<1> DEFINE S == {n \in Nat : \E g : Flattening(n + 1, s, g)}
<1>1. 0 \in S
  <2> DEFINE f == [h \in 1..1 |-> s[1]]
  <2>1. \A k \in 1..1 : k = 1 OBVIOUS
  <2>2. f = [k \in 1..1 |-> IF k = 1 THEN s[k] ELSE f[k - 1] \o s[k]] BY <2>1
  <2>3. 0 + 1 = 1 OBVIOUS
  <2>4. Flattening(1, s, f) BY ONLY <2>2 DEF Flattening
  <2> QED BY <2>3, <2>4
<1>2. ASSUME NEW n \in Nat, n \in S PROVE n + 1 \in S
  <2>1. PICK m : m = n + 1 OBVIOUS
  <2>2. PICK g : Flattening(m, s, g) BY <1>2, <2>1
  <2>3. m \in Nat /\ m >= 1 BY <2>1
  <2> DEFINE f == [k \in 1..(m + 1) |-> IF k = m + 1 THEN g[m] \o s[k] ELSE g[k]]
  <2>4. ASSUME NEW k \in 1..(m + 1)
        PROVE  f[k] = IF k = 1 THEN s[k] ELSE f[k - 1] \o s[k]
    <3>1. CASE k = m + 1
      <4>1. k # 1 /\ k - 1 = m /\ m \in 1..(m + 1) /\ m # m + 1 BY <3>1, <2>3
      <4>2. f[k] = g[m] \o s[k] BY <3>1
      <4>3. f[m] = g[m] BY <4>1
      <4> HIDE DEF f
      <4> QED BY <4>1, <4>2, <4>3
    <3>2. CASE k # m + 1
      <4>1. k \in 1..m BY <3>2, <2>3
      <4>2. f[k] = g[k] BY <3>2
      <4>3. g[k] = IF k = 1 THEN s[k] ELSE g[k - 1] \o s[k] BY <2>2, <4>1 DEF Flattening
      <4>4. k # 1 => f[k - 1] = g[k - 1] BY <4>1, <2>3
      <4> HIDE DEF f
      <4> QED BY <4>2, <4>3, <4>4
    <3> QED BY <3>1, <3>2
  <2>5. f = [k \in 1..(m + 1) |-> f[k]] OBVIOUS
  <2>6. Flattening(m + 1, s, f)
    <3> HIDE DEF f
    <3> QED BY <2>4, <2>5 DEF Flattening
  <2> QED BY <2>1, <2>6
<1>3. Nat \subseteq S
  <2> HIDE DEF S
  <2> QED BY <1>1, <1>2, SetInduction
<1> QED BY <1>3

(* n sequences of length m over S. *)
Pieces(S, n, m, s) ==
  /\ n \in Nat \ {0} /\ m \in {8, 9} /\ s = [k \in 1..n |-> s[k]]
  /\ \A k \in 1..n : s[k] \in Seq(S) /\ Len(s[k]) = m

(* f is all of them. *)
InARow(S, n, m, s, f) ==
  /\ f \in Seq(S) /\ Len(f) = m * n
  /\ \A k \in 1..n, c \in 1..m : f[m * (k - 1) + c] = s[k][c]

(* Pieces of the length m, one behind the other.                             *)
LEMMA PiecesFlat ==
  ASSUME NEW S, NEW n, NEW m, NEW s, Pieces(S, n, m, s)
  PROVE  InARow(S, n, m, s, Answers!FlattenSeq(s))
<1> USE DEF Pieces
<1>1. s \in Seq(Seq(S)) /\ Len(s) = n
  <2>1. s \in [1..n -> Seq(S)] OBVIOUS
  <2>2. n \in Nat OBVIOUS
  <2> QED BY ONLY <2>1, <2>2
<1>2. n - 1 \in Nat /\ (n - 1) + 1 = n OBVIOUS
<1>3. PICK g : Flattening(n, s, g) BY <1>2, FlatteningExists
<1> DEFINE h == CHOOSE w : Flattening(n, s, w)
<1>4. Flattening(n, s, h) BY <1>3
<1>5. Answers!FlattenSeq(s) = h[n]
  <2>1. Len(s) # 0 /\ Len(s) = n BY <1>1
  <2>2. Answers!FlattenSeq(s) = (CHOOSE f : f = [k \in 1..Len(s) |->
                                  IF k = 1 THEN s[k] ELSE f[k - 1] \o s[k]])[Len(s)]
    BY <2>1 DEF Answers!FlattenSeq
  <2> QED BY <2>1, <2>2 DEF Flattening
<1> HIDE DEF h
<1> DEFINE P(j) == /\ h[j] \in Seq(S) /\ Len(h[j]) = m * j
                   /\ \A k \in 1..j, c \in 1..m : h[j][m * (k - 1) + c] = s[k][c]
           T == {j \in Nat : j + 1 <= n => P(j + 1)}
<1>6. 0 \in T
  <2>1. 1 \in 1..n /\ 0 + 1 = 1 OBVIOUS
  <2>2. h[1] = s[1] BY <1>4, <2>1 DEF Flattening
  <2>3. h[1] \in Seq(S) /\ Len(h[1]) = m BY <2>1, <2>2
  <2>4. \A k \in 1..1, c \in 1..m : m * (k - 1) + c = c /\ k = 1 OBVIOUS
  <2>5. P(1) BY <2>2, <2>3, <2>4
  <2> HIDE DEF P
  <2> QED BY <2>1, <2>5
<1>7. ASSUME NEW r \in Nat, r \in T PROVE r + 1 \in T
  <2> HIDE DEF P
  <2> SUFFICES ASSUME (r + 1) + 1 <= n PROVE P((r + 1) + 1) OBVIOUS
  <2> USE DEF P
  <2>1. PICK j : j = r + 1 OBVIOUS
  <2>2. j \in Nat /\ j >= 1 /\ j + 1 \in 1..n /\ j + 1 # 1 /\ (j + 1) - 1 = j /\ j <= n
    BY <2>1
  <2>3. P(j) BY <1>7, <2>1, <2>2
  <2>4. h[j + 1] = h[j] \o s[j + 1] BY <1>4, <2>2 DEF Flattening
  <2>5. s[j + 1] \in Seq(S) /\ Len(s[j + 1]) = m BY <2>2
  <2>6. /\ h[j + 1] \in Seq(S) /\ Len(h[j + 1]) = m * j + m
        /\ \A k \in 1..(m * j + m) :
             h[j + 1][k] = IF k <= m * j THEN h[j][k] ELSE s[j + 1][k - m * j]
    <3> DEFINE a == h[j]
               b == s[j + 1]
    <3>1. a \in Seq(S) /\ Len(a) = m * j /\ b \in Seq(S) /\ Len(b) = m BY <2>3, <2>5
    <3>2. h[j + 1] = a \o b BY <2>4
    <3> HIDE DEF a, b
    <3>3. /\ a \o b \in Seq(S) /\ Len(a \o b) = Len(a) + Len(b)
          /\ \A k \in 1..(Len(a) + Len(b)) :
               (a \o b)[k] = IF k <= Len(a) THEN a[k] ELSE b[k - Len(a)]
      BY ONLY <3>1, ConcatProperties
    <3> QED BY <3>1, <3>2, <3>3 DEF a, b
  <2>7. m * j + m = m * (j + 1) BY <2>2
  <2>8. ASSUME NEW k \in 1..(j + 1), NEW c \in 1..m PROVE h[j + 1][m * (k - 1) + c] = s[k][c]
    <3>1. CASE k = j + 1
      <4>1. /\ m * (k - 1) + c = m * j + c /\ m * j + c \in 1..(m * j + m)
            /\ ~(m * j + c <= m * j) /\ (m * j + c) - m * j = c
        BY <3>1, <2>2
      <4> QED BY <3>1, <4>1, <2>6
    <3>2. CASE k # j + 1
      <4>1. k \in 1..j BY <3>2, <2>2
      <4>2. m * (k - 1) + c \in 1..(m * j + m) /\ m * (k - 1) + c <= m * j
        <5>1. CASE m = 8
          <6>1. c \in 1..8 /\ k \in Int /\ j \in Nat /\ 1 <= k /\ k <= j BY <5>1, <4>1, <2>2
          <6>2. 8 * (k - 1) + c \in 1..(8 * j + 8) /\ 8 * (k - 1) + c <= 8 * j
            BY ONLY <6>1
          <6> QED BY <5>1, <6>2
        <5>2. CASE m = 9
          <6>1. c \in 1..9 /\ k \in Int /\ j \in Nat /\ 1 <= k /\ k <= j BY <5>2, <4>1, <2>2
          <6>2. 9 * (k - 1) + c \in 1..(9 * j + 9) /\ 9 * (k - 1) + c <= 9 * j
            BY ONLY <6>1
          <6> QED BY <5>2, <6>2
        <5> QED BY <5>1, <5>2
      <4>3. h[j][m * (k - 1) + c] = s[k][c] BY <2>3, <4>1
      <4> DEFINE e == m * (k - 1) + c
      <4>4. h[j + 1][e] = h[j][e] BY <2>6, <4>2
      <4> QED BY <4>3, <4>4
    <3> QED BY <3>1, <3>2
  <2>9. P(j + 1) BY <2>6, <2>7, <2>8
  <2> HIDE DEF P
  <2> QED BY <2>1, <2>9
<1>8. n - 1 \in T
  <2>1. Nat \subseteq T
    <3> HIDE DEF T
    <3> QED BY <1>6, <1>7, SetInduction
  <2> QED BY <1>2, <2>1
<1>9. P(n)
  <2> HIDE DEF P
  <2>1. P((n - 1) + 1) BY <1>8
  <2> QED BY <2>1, <1>2
<1> QED BY <1>5, <1>9 DEF InARow

-----------------------------------------------------------------------------
\* The programs.

(* The variables of main by what they hold: numbers, values, and the two     *)
(* lengths that may come from crypto_sign_open.                              *)
Numerals == {"count", "mlen", "smlen", "siglen"}
Values == {"seed", "m", "sm", "sm1", "m1", "m2", "pk", "sk"}
Locals == Values \cup Numerals \cup {"mlen1", "mlen2"}

(* The files a program writes. *)
Outputs(p) ==
  CASE p = "generate" -> {"req", "rsp"} [] p = "check" -> {"sig", "messages"}
    [] p = "single" -> {"m1"} [] OTHER -> {}

(* A statement that p may have: it writes the files of p, prints numbers as  *)
(* numbers, and assigns numbers to the variables that hold some.             *)
Fits(p, s) ==
  /\ s.op \in {"open", "number", "hex", "put", "stray", "blank"} => s.file \in Answers!FileNames
  /\ (s.op = "open" /\ s.mode = "w") \/ s.op \in {"put", "stray", "blank"} => s.file \in Outputs(p)
  /\ s.op = "number" => s.var \in Numerals /\ s.tag \in Answers!Numbers
                        /\ s.fail \in {"go", "data", "done"}
  /\ s.op \in {"hex", "draw"} => s.var \in Values
  /\ s.op \in {"hex", "put"} => s.len \in Numerals \cup {"none"}
  /\ s.op = "put" /\ s.tag \in Answers!Numbers => s.var \in Numerals
  /\ s.op = "stray" => s.tag \notin Answers!Numbers
  /\ s.op = "set" => s.var \in Locals /\ (s.var \in Numerals => s.val \in Nat)
  /\ s.op = "verify" => s.var \in Values /\ s.len \in {"mlen1", "mlen2"}
  /\ s.op = "again" => p = "generate"

(* Statements that p may have. *)
AllFit(p, q) == \E S : q \in Seq(S) /\ \A s \in S : Fits(p, s)

(* They are put together. *)
LEMMA FitTogether ==
  ASSUME NEW p, NEW a, NEW b, AllFit(p, a), AllFit(p, b)
  PROVE  AllFit(p, a \o b)
<1>1. PICK S : a \in Seq(S) /\ \A s \in S : Fits(p, s) BY DEF AllFit
<1>2. PICK T : b \in Seq(T) /\ \A s \in T : Fits(p, s) BY DEF AllFit
<1>3. PICK U : U = S \cup T OBVIOUS
<1>4. S \subseteq U /\ T \subseteq U /\ \A s \in U : Fits(p, s) BY <1>1, <1>2, <1>3
<1>5. a \in Seq(U) /\ b \in Seq(U) BY <1>1, <1>2, <1>4, SeqMonotonic
<1>6. a \o b \in Seq(U) BY <1>5, ConcatProperties
<1> QED BY ONLY <1>4, <1>6 DEF AllFit

(* A function on 1..n is a sequence. *)
LEMMA ListIsSeq ==
  ASSUME NEW n \in Nat, NEW S, NEW q \in [1..n -> S]
  PROVE  q \in Seq(S) /\ Len(q) = n
OBVIOUS

(* A list of statements. *)
LEMMA ListFits ==
  ASSUME NEW p, NEW n \in Nat, NEW q, q = [k \in 1..n |-> q[k]], \A k \in 1..n : Fits(p, q[k])
  PROVE  AllFit(p, q) /\ Len(q) = n
<1>1. PICK S : S = {q[k] : k \in 1..n} OBVIOUS
<1>2. q \in [1..n -> S] BY <1>1
<1>3. q \in Seq(S) /\ Len(q) = n BY ONLY <1>2, n \in Nat
<1>4. \A s \in S : Fits(p, s) BY <1>1
<1> QED BY ONLY <1>3, <1>4 DEF AllFit

(* PQCgenKAT_sign_check_v1. *)
LEMMA CheckV1Is ==
  LET q == Answers!CheckV1 IN
  /\ AllFit("check_v1", q) /\ Len(q) = 11
  /\ q[1] = Answers!Open("rsp", "r")
  /\ q[2] = Answers!Number("rsp", "mlen", "mlen", "go")
  /\ q[3] = Answers!Hex("rsp", "msg", "m", "mlen")
  /\ q[4] = Answers!Hex("rsp", "pk", "pk", "none")
  /\ q[5] = Answers!Hex("rsp", "sk", "sk", "none")
  /\ q[6] = Answers!Number("rsp", "smlen", "smlen", "go")
  /\ q[7] = Answers!Hex("rsp", "sm", "sm", "smlen")
  /\ q[8] = Answers!Do("sign")
  /\ q[9] = Answers!Verify("sm", "m1", "mlen1")
  /\ q[10] = Answers!Same("mlen1", "m1")
  /\ q[11] = Answers!Close("rsp")
<1> DEFINE q == Answers!CheckV1
<1>1. /\ q = [k \in 1..11 |-> q[k]]
      /\ q[1] = Answers!Open("rsp", "r")
      /\ q[2] = Answers!Number("rsp", "mlen", "mlen", "go")
      /\ q[3] = Answers!Hex("rsp", "msg", "m", "mlen")
      /\ q[4] = Answers!Hex("rsp", "pk", "pk", "none")
      /\ q[5] = Answers!Hex("rsp", "sk", "sk", "none")
      /\ q[6] = Answers!Number("rsp", "smlen", "smlen", "go")
      /\ q[7] = Answers!Hex("rsp", "sm", "sm", "smlen")
      /\ q[8] = Answers!Do("sign")
      /\ q[9] = Answers!Verify("sm", "m1", "mlen1")
      /\ q[10] = Answers!Same("mlen1", "m1")
      /\ q[11] = Answers!Close("rsp")
  BY DEF Answers!CheckV1
<1> HIDE DEF q
<1>2. \A k \in 1..11 : k \in {1, 2, 3, 4, 5, 6, 7, 8, 9, 10, 11} OBVIOUS
<1>3. \A k \in 1..11 : Fits("check_v1", q[k])
  BY <1>1, <1>2 DEF Fits, Answers!Open, Answers!Number, Answers!Hex, Answers!Do, Answers!Verify,
     Answers!Same, Answers!Close, Numerals, Values, Locals, Outputs, Answers!FileNames,
     Answers!Numbers
<1>4. 11 \in Nat OBVIOUS
<1>5. AllFit("check_v1", q) /\ Len(q) = 11 BY <1>1, <1>3, <1>4, ListFits
<1> QED BY <1>1, <1>5 DEF q

(* What the variables of a program hold when it starts.                      *)
LEMMA VariablesAre ==
  ASSUME NEW g
  PROVE  LET z == Answers!Variables(g) IN
         z = [w \in Locals |-> z[w]] /\ \A w \in Numerals : z[w] = g
BY DEF Answers!Variables, Locals, Values, Numerals

(* PQCgenKAT_sign_check. *)
LEMMA CheckIs ==
  LET q == Answers!Check IN
  /\ AllFit("check", q) /\ Len(q) = 27
  /\ q[1] = Answers!Open("msg", "r")
  /\ q[2] = Answers!Number("msg", "mlen", "mlen", "go")
  /\ q[3] = Answers!Hex("msg", "msg", "m", "mlen")
  /\ q[4] = Answers!Number("msg", "smlen", "smlen", "go")
  /\ q[5] = Answers!Close("msg")
  /\ q[6] = Answers!Open("sk", "r")
  /\ q[7] = Answers!Hex("sk", "sk", "sk", "none")
  /\ q[8] = Answers!Close("sk")
  /\ q[9] = Answers!Open("pk", "r")
  /\ q[10] = Answers!Hex("pk", "pk", "pk", "none")
  /\ q[11] = Answers!Close("pk")
  /\ q[12] = Answers!Open("sig", "w")
  /\ q[13] = Answers!Do("sign")
  /\ q[14] = Answers!Put("sig", "sm", "sm", "smlen")
  /\ q[15] = Answers!Close("sig")
  /\ q[16] = Answers!Open("sig", "r")
  /\ q[17] = Answers!Hex("sig", "sm", "sm1", "smlen")
  /\ q[18] = Answers!Close("sig")
  /\ q[19] = Answers!Verify("sm", "m1", "mlen1")
  /\ q[20] = Answers!Same("mlen1", "m1")
  /\ q[21] = Answers!Verify("sm1", "m2", "mlen2")
  /\ q[22] = Answers!Same("mlen2", "m2")
  /\ q[23] = Answers!Open("messages", "w")
  /\ q[24] = Answers!Stray("messages", "m", "m")
  /\ q[25] = Answers!Stray("messages", "m1", "m1")
  /\ q[26] = Answers!Stray("messages", "m1", "m2")
  /\ q[27] = Answers!Close("messages")
<1> DEFINE q == Answers!Check
<1>1. /\ q = [k \in 1..27 |-> q[k]]
      /\ q[1] = Answers!Open("msg", "r")
      /\ q[2] = Answers!Number("msg", "mlen", "mlen", "go")
      /\ q[3] = Answers!Hex("msg", "msg", "m", "mlen")
      /\ q[4] = Answers!Number("msg", "smlen", "smlen", "go")
      /\ q[5] = Answers!Close("msg")
      /\ q[6] = Answers!Open("sk", "r")
      /\ q[7] = Answers!Hex("sk", "sk", "sk", "none")
      /\ q[8] = Answers!Close("sk")
      /\ q[9] = Answers!Open("pk", "r")
      /\ q[10] = Answers!Hex("pk", "pk", "pk", "none")
      /\ q[11] = Answers!Close("pk")
      /\ q[12] = Answers!Open("sig", "w")
      /\ q[13] = Answers!Do("sign")
      /\ q[14] = Answers!Put("sig", "sm", "sm", "smlen")
      /\ q[15] = Answers!Close("sig")
      /\ q[16] = Answers!Open("sig", "r")
      /\ q[17] = Answers!Hex("sig", "sm", "sm1", "smlen")
      /\ q[18] = Answers!Close("sig")
      /\ q[19] = Answers!Verify("sm", "m1", "mlen1")
      /\ q[20] = Answers!Same("mlen1", "m1")
      /\ q[21] = Answers!Verify("sm1", "m2", "mlen2")
      /\ q[22] = Answers!Same("mlen2", "m2")
      /\ q[23] = Answers!Open("messages", "w")
      /\ q[24] = Answers!Stray("messages", "m", "m")
      /\ q[25] = Answers!Stray("messages", "m1", "m1")
      /\ q[26] = Answers!Stray("messages", "m1", "m2")
      /\ q[27] = Answers!Close("messages")
  BY DEF Answers!Check
<1> HIDE DEF q
<1>2. \A k \in 1..27 :
        k \in {1, 2, 3, 4, 5, 6, 7, 8, 9, 10, 11, 12, 13, 14, 15, 16, 17, 18, 19, 20, 21, 22, 23,
              24, 25, 26, 27}
  OBVIOUS
<1>3. \A k \in 1..27 : Fits("check", q[k])
  BY <1>1, <1>2
  DEF Fits, Answers!Close, Answers!Do, Answers!Hex, Answers!Number, Answers!Open, Answers!Put,
      Answers!Same, Answers!Stray, Answers!Verify,
     Numerals, Values, Locals, Outputs, Answers!FileNames, Answers!Numbers
<1>4. 27 \in Nat OBVIOUS
<1>5. AllFit("check", q) /\ Len(q) = 27 BY <1>1, <1>3, <1>4, ListFits
<1> QED BY <1>1, <1>5 DEF q

(* A turn of the loop of PQCgenKAT_sign. *)
LEMMA ResponseIs ==
  LET q == Answers!Response IN
  /\ AllFit("generate", q) /\ Len(q) = 18
  /\ q[1] = Answers!Number("req", "count", "count", "done")
  /\ q[2] = Answers!Put("rsp", "count", "count", "none")
  /\ q[3] = Answers!Hex("req", "seed", "seed", "none")
  /\ q[4] = Answers!Put("rsp", "seed", "seed", "none")
  /\ q[5] = Answers!Init256("seed")
  /\ q[6] = Answers!Number("req", "mlen", "mlen", "data")
  /\ q[7] = Answers!Put("rsp", "mlen", "mlen", "none")
  /\ q[8] = Answers!Hex("req", "msg", "m", "mlen")
  /\ q[9] = Answers!Put("rsp", "msg", "m", "mlen")
  /\ q[10] = Answers!Do("keypair")
  /\ q[11] = Answers!Put("rsp", "pk", "pk", "none")
  /\ q[12] = Answers!Put("rsp", "sk", "sk", "none")
  /\ q[13] = Answers!Do("sign")
  /\ q[14] = Answers!Put("rsp", "smlen", "smlen", "none")
  /\ q[15] = Answers!Put("rsp", "sm", "sm", "smlen")
  /\ q[16] = Answers!Verify("sm", "m1", "mlen1")
  /\ q[17] = Answers!Same("mlen1", "m1")
  /\ q[18] = Answers!Do("again")
<1> DEFINE q == Answers!Response
<1>1. /\ q = [k \in 1..18 |-> q[k]]
      /\ q[1] = Answers!Number("req", "count", "count", "done")
      /\ q[2] = Answers!Put("rsp", "count", "count", "none")
      /\ q[3] = Answers!Hex("req", "seed", "seed", "none")
      /\ q[4] = Answers!Put("rsp", "seed", "seed", "none")
      /\ q[5] = Answers!Init256("seed")
      /\ q[6] = Answers!Number("req", "mlen", "mlen", "data")
      /\ q[7] = Answers!Put("rsp", "mlen", "mlen", "none")
      /\ q[8] = Answers!Hex("req", "msg", "m", "mlen")
      /\ q[9] = Answers!Put("rsp", "msg", "m", "mlen")
      /\ q[10] = Answers!Do("keypair")
      /\ q[11] = Answers!Put("rsp", "pk", "pk", "none")
      /\ q[12] = Answers!Put("rsp", "sk", "sk", "none")
      /\ q[13] = Answers!Do("sign")
      /\ q[14] = Answers!Put("rsp", "smlen", "smlen", "none")
      /\ q[15] = Answers!Put("rsp", "sm", "sm", "smlen")
      /\ q[16] = Answers!Verify("sm", "m1", "mlen1")
      /\ q[17] = Answers!Same("mlen1", "m1")
      /\ q[18] = Answers!Do("again")
  BY DEF Answers!Response
<1> HIDE DEF q
<1>2. \A k \in 1..18 : k \in {1, 2, 3, 4, 5, 6, 7, 8, 9, 10, 11, 12, 13, 14, 15, 16, 17, 18}
  OBVIOUS
<1>3. \A k \in 1..18 : Fits("generate", q[k])
  BY <1>1, <1>2
  DEF Fits, Answers!Do, Answers!Hex, Answers!Init256, Answers!Number, Answers!Put, Answers!Same,
      Answers!Verify,
     Numerals, Values, Locals, Outputs, Answers!FileNames, Answers!Numbers
<1>4. 18 \in Nat OBVIOUS
<1>5. AllFit("generate", q) /\ Len(q) = 18 BY <1>1, <1>3, <1>4, ListFits
<1> QED BY <1>1, <1>5 DEF q

(* single_sign_check. *)
LEMMA SingleCheckIs == AllFit("single", Answers!SingleCheck)
<1> DEFINE q == Answers!SingleCheck
<1>1. /\ q = [k \in 1..15 |-> q[k]]
      /\ q[1] = Answers!Set("mlen", 33)
      /\ q[2] = Answers!Open("sk", "r")
      /\ q[3] = Answers!Hex("sk", "sk", "sk", "none")
      /\ q[4] = Answers!Close("sk")
      /\ q[5] = Answers!Open("pk", "r")
      /\ q[6] = Answers!Hex("pk", "pk", "pk", "none")
      /\ q[7] = Answers!Close("pk")
      /\ q[8] = Answers!Open("rsp", "r")
      /\ q[9] = Answers!Set("siglen", 33 + SigBytes)
      /\ q[10] = Answers!Hex("rsp", "sm", "sm", "siglen")
      /\ q[11] = Answers!Close("rsp")
      /\ q[12] = Answers!Verify("sm", "m1", "mlen1")
      /\ q[13] = Answers!Open("m1", "w")
      /\ q[14] = Answers!Stray("m1", "m1", "m1")
      /\ q[15] = Answers!Close("m1")
  BY DEF Answers!SingleCheck
<1> HIDE DEF q
<1>2. \A k \in 1..15 : k \in {1, 2, 3, 4, 5, 6, 7, 8, 9, 10, 11, 12, 13, 14, 15}
  OBVIOUS
<1>3. 33 + SigBytes \in Nat BY AnswersAssumption DEF Answers!SizesAssumption
<1>4. \A k \in 1..15 : Fits("single", q[k])
  BY <1>1, <1>2, <1>3
     DEF Fits, Answers!Close, Answers!Hex, Answers!Open, Answers!Set, Answers!Stray, Answers!Verify,
     Numerals, Values, Locals, Outputs, Answers!FileNames, Answers!Numbers
<1>5. 15 \in Nat OBVIOUS
<1>6. AllFit("single", q) /\ Len(q) = 15 BY <1>1, <1>4, <1>5, ListFits
<1> QED BY <1>6 DEF q


(* A record of the request. *)
LEMMA RequestIs ==
  ASSUME NEW r \in Nat
  PROVE  LET q == Answers!Request(r) IN
         /\ AllFit("generate", q) /\ Len(q) = 9
         /\ q[1] = Answers!Set("count", r)
         /\ q[2] = Answers!Put("req", "count", "count", "none")
         /\ q[3] = Answers!Draw("seed")
         /\ q[4] = Answers!Put("req", "seed", "seed", "none")
         /\ q[5] = Answers!Set("mlen", 33 * (r + 1))
         /\ q[6] = Answers!Put("req", "mlen", "mlen", "none")
         /\ q[7] = Answers!Draw("m")
         /\ q[8] = Answers!Put("req", "msg", "m", "mlen")
         /\ q[9] = Answers!Blank("req")
<1> DEFINE q == Answers!Request(r)
<1>1. /\ q = [k \in 1..9 |-> q[k]]
      /\ q[1] = Answers!Set("count", r)
      /\ q[2] = Answers!Put("req", "count", "count", "none")
      /\ q[3] = Answers!Draw("seed")
      /\ q[4] = Answers!Put("req", "seed", "seed", "none")
      /\ q[5] = Answers!Set("mlen", 33 * (r + 1))
      /\ q[6] = Answers!Put("req", "mlen", "mlen", "none")
      /\ q[7] = Answers!Draw("m")
      /\ q[8] = Answers!Put("req", "msg", "m", "mlen")
      /\ q[9] = Answers!Blank("req")
  BY DEF Answers!Request
<1> HIDE DEF q
<1>2. \A k \in 1..9 : k \in {1, 2, 3, 4, 5, 6, 7, 8, 9} OBVIOUS
<1>3. 33 * (r + 1) \in Nat OBVIOUS
<1>4. \A k \in 1..9 : Fits("generate", q[k])
  BY <1>1, <1>2, <1>3
     DEF Fits, Answers!Blank, Answers!Draw, Answers!Put, Answers!Set,
     Numerals, Values, Locals, Outputs, Answers!FileNames, Answers!Numbers
<1>5. 9 \in Nat OBVIOUS
<1>6. AllFit("generate", q) /\ Len(q) = 9 BY <1>1, <1>4, <1>5, ListFits
<1> QED BY <1>1, <1>6 DEF q


(* The statements of all records. *)
AllRequests == Answers!FlattenSeq([r \in 1..Records |-> Answers!Request(r - 1)])

(* One record after the other is written. *)
LEMMA RequestsAre ==
  /\ AllFit("generate", AllRequests) /\ Len(AllRequests) = 9 * Records
  /\ \A r \in 1..Records, c \in 1..9 : AllRequests[9 * (r - 1) + c] = Answers!Request(r - 1)[c]
<1> DEFINE s == [r \in 1..Records |-> Answers!Request(r - 1)]
           S == {Answers!Request(j)[c] : j \in Nat, c \in 1..9}
<1>1. Records \in Nat \ {0} BY AnswersAssumption DEF Answers!SizesAssumption
<1>2. ASSUME NEW j \in Nat
      PROVE  Answers!Request(j) \in Seq(S) /\ Len(Answers!Request(j)) = 9
  <2>1. Len(Answers!Request(j)) = 9 BY RequestIs
  <2>8. AllFit("generate", Answers!Request(j)) BY RequestIs
  <2>2. PICK T : Answers!Request(j) \in Seq(T) BY ONLY <2>8 DEF AllFit
  <2>3. PICK q : q = Answers!Request(j) OBVIOUS
  <2>4. q \in [1..9 -> T] BY ONLY <2>1, <2>2, <2>3, LenProperties
  <2>5. \A c \in 1..9 : q[c] \in S BY <2>3
  <2> HIDE DEF S
  <2>6. q \in [1..9 -> S] BY ONLY <2>4, <2>5
  <2>7. q \in Seq(S)
    <3>1. 9 \in Nat OBVIOUS
    <3> QED BY ONLY <2>6, <3>1, ListIsSeq
  <2> QED BY <2>1, <2>3, <2>7
<1>3. \A w \in S : Fits("generate", w)
  <2> TAKE w \in S
  <2>1. PICK j \in Nat, c \in 1..9 : w = Answers!Request(j)[c] OBVIOUS
  <2>5. AllFit("generate", Answers!Request(j)) BY RequestIs
  <2>2. PICK T : Answers!Request(j) \in Seq(T) /\ \A y \in T : Fits("generate", y)
    BY ONLY <2>5 DEF AllFit
  <2>3. Len(Answers!Request(j)) = 9 BY RequestIs
  <2>4. w \in T
    <3>1. PICK q : q = Answers!Request(j) OBVIOUS
    <3>4. Len(q) = 9 BY ONLY <2>3, <3>1
    <3>5. c \in 1..Len(q) BY <3>4
    <3>6. q \in Seq(T) BY ONLY <2>2, <3>1
    <3>7. w = q[c] BY ONLY <2>1, <3>1
    <3>2. q \in Seq(T) /\ c \in 1..Len(q) /\ w = q[c] BY ONLY <3>5, <3>6, <3>7
    <3>3. q[c] \in T BY ONLY <3>2, ElementOfSeq
    <3> QED BY <3>2, <3>3
  <2> QED BY <2>2, <2>4
<1>4. \A r \in 1..Records : r - 1 \in Nat /\ s[r] = Answers!Request(r - 1) BY <1>1
<1>5. s = [r \in 1..Records |-> s[r]] OBVIOUS
<1>6. AllRequests = Answers!FlattenSeq(s) BY DEF AllRequests
<1> HIDE DEF s, S
<1>7. \A r \in 1..Records : s[r] \in Seq(S) /\ Len(s[r]) = 9 BY <1>2, <1>4
<1>8. 9 \in {8, 9} OBVIOUS
<1>9. /\ AllRequests \in Seq(S) /\ Len(AllRequests) = 9 * Records
      /\ \A r \in 1..Records, c \in 1..9 : AllRequests[9 * (r - 1) + c] = s[r][c]
  <2>1. PICK m : m = 9 OBVIOUS
  <2>2. PICK n : n = Records OBVIOUS
  <2>3. /\ n \in Nat \ {0} /\ m \in {8, 9} /\ s = [r \in 1..n |-> s[r]]
        /\ \A r \in 1..n : s[r] \in Seq(S) /\ Len(s[r]) = m
    BY <2>1, <2>2, <1>1, <1>5, <1>7, <1>8
  <2>4. Pieces(S, n, m, s) BY ONLY <2>3 DEF Pieces
  <2>5. InARow(S, n, m, s, AllRequests)
    <3>1. InARow(S, n, m, s, Answers!FlattenSeq(s)) BY ONLY <2>4, PiecesFlat
    <3> QED BY <3>1, <1>6
  <2> QED BY ONLY <2>1, <2>2, <2>5 DEF InARow
<1>10. AllFit("generate", AllRequests) BY ONLY <1>3, <1>9 DEF AllFit
<1> QED BY <1>4, <1>9, <1>10

(* PQCgenKAT_sign. *)
LEMMA GenerateIs ==
  LET q == Answers!Generate IN
  /\ AllFit("generate", q) /\ Len(q) = 9 * Records + 25
  /\ q[1] = Answers!Open("req", "w") /\ q[2] = Answers!Open("rsp", "w")
  /\ q[3] = Answers!Set("seed", Answers!Entropy) /\ q[4] = Answers!Init256("seed")
  /\ \A r \in 1..Records, c \in 1..9 : q[9 * r + c - 5] = Answers!Request(r - 1)[c]
  /\ q[9 * Records + 5] = Answers!Close("req") /\ q[9 * Records + 6] = Answers!Open("req", "r")
  /\ q[9 * Records + 7] = Answers!Blank("rsp")
  /\ From(q, 9 * Records + 8) = Answers!Response
<1> DEFINE a == <<Answers!Open("req", "w"), Answers!Open("rsp", "w"),
                  Answers!Set("seed", Answers!Entropy), Answers!Init256("seed")>>
           b == AllRequests
           c == <<Answers!Close("req"), Answers!Open("req", "r"), Answers!Blank("rsp")>>
           d == Answers!Response
<1>1. Answers!Generate = ((a \o b) \o c) \o d BY DEF Answers!Generate, AllRequests
<1>2. /\ a = [k \in 1..4 |-> a[k]]
      /\ a[1] = Answers!Open("req", "w") /\ a[2] = Answers!Open("rsp", "w")
      /\ a[3] = Answers!Set("seed", Answers!Entropy) /\ a[4] = Answers!Init256("seed")
  OBVIOUS
<1>3. /\ c = [k \in 1..3 |-> c[k]]
      /\ c[1] = Answers!Close("req") /\ c[2] = Answers!Open("req", "r")
      /\ c[3] = Answers!Blank("rsp")
  OBVIOUS
<1> HIDE DEF a, b, c, d
<1>4. AllFit("generate", a) /\ Len(a) = 4
  <2>1. \A k \in 1..4 : k \in {1, 2, 3, 4} OBVIOUS
  <2>2. \A k \in 1..4 : Fits("generate", a[k])
    BY <1>2, <2>1 DEF Fits, Answers!Open, Answers!Set, Answers!Init256,
       Numerals, Values, Locals, Outputs, Answers!FileNames, Answers!Numbers
  <2>3. 4 \in Nat OBVIOUS
  <2> QED BY <1>2, <2>2, <2>3, ListFits
<1>5. AllFit("generate", c) /\ Len(c) = 3
  <2>1. \A k \in 1..3 : k \in {1, 2, 3} OBVIOUS
  <2>2. \A k \in 1..3 : Fits("generate", c[k])
    BY <1>3, <2>1 DEF Fits, Answers!Open, Answers!Close, Answers!Blank,
       Numerals, Values, Locals, Outputs, Answers!FileNames, Answers!Numbers
  <2>3. 3 \in Nat OBVIOUS
  <2> QED BY <1>3, <2>2, <2>3, ListFits
<1>6. /\ AllFit("generate", b) /\ Len(b) = 9 * Records
      /\ \A r \in 1..Records, j \in 1..9 : b[9 * (r - 1) + j] = Answers!Request(r - 1)[j]
  BY RequestsAre DEF b
<1>7. AllFit("generate", d) /\ Len(d) = 18 BY ResponseIs DEF d
<1>8. AllFit("generate", Answers!Generate) BY <1>1, <1>4, <1>5, <1>6, <1>7, FitTogether
<1>9. PICK S : a \in Seq(S) /\ b \in Seq(S) /\ c \in Seq(S) /\ d \in Seq(S)
  <2>1. PICK A, B, C, D : a \in Seq(A) /\ b \in Seq(B) /\ c \in Seq(C) /\ d \in Seq(D)
    BY <1>4, <1>5, <1>6, <1>7 DEF AllFit
  <2>2. PICK S : S = (A \cup B) \cup (C \cup D) OBVIOUS
  <2>3. A \subseteq S /\ B \subseteq S /\ C \subseteq S /\ D \subseteq S BY <2>2
  <2> QED BY <2>1, <2>3, SeqMonotonic
<1>10. Records \in Nat \ {0} BY AnswersAssumption DEF Answers!SizesAssumption
<1>11. PICK R : R = 9 * Records OBVIOUS
<1>12. R \in Nat BY <1>10, <1>11
<1>13. PICK w : w = a \o b OBVIOUS
<1>14. /\ w \in Seq(S) /\ Len(w) = 4 + R
       /\ \A k \in 1..(4 + R) : w[k] = IF k <= 4 THEN a[k] ELSE b[k - 4]
  <2>1. /\ a \o b \in Seq(S) /\ Len(a \o b) = Len(a) + Len(b)
        /\ \A k \in 1..(Len(a) + Len(b)) : (a \o b)[k] = IF k <= Len(a) THEN a[k] ELSE b[k - Len(a)]
    BY ONLY <1>9, ConcatProperties
  <2> QED BY <2>1, <1>4, <1>6, <1>11, <1>13
<1>15. PICK y : y = w \o c OBVIOUS
<1>16. /\ y \in Seq(S) /\ Len(y) = 7 + R
       /\ \A k \in 1..(7 + R) : y[k] = IF k <= 4 + R THEN w[k] ELSE c[k - (4 + R)]
  <2>1. /\ w \o c \in Seq(S) /\ Len(w \o c) = Len(w) + Len(c)
        /\ \A k \in 1..(Len(w) + Len(c)) : (w \o c)[k] = IF k <= Len(w) THEN w[k] ELSE c[k - Len(w)]
    BY ONLY <1>9, <1>14, ConcatProperties
  <2>2. (4 + R) + 3 = 7 + R BY <1>12
  <2> QED BY <2>1, <2>2, <1>5, <1>14, <1>15
<1>17. PICK z : z = y \o d OBVIOUS
<1>18. z = Answers!Generate BY <1>1, <1>13, <1>15, <1>17
<1>19. /\ z \in Seq(S) /\ Len(z) = R + 25
       /\ \A k \in 1..(7 + R) : z[k] = y[k]
  <2>1. /\ y \o d \in Seq(S) /\ Len(y \o d) = Len(y) + Len(d)
        /\ \A k \in 1..(Len(y) + Len(d)) : (y \o d)[k] = IF k <= Len(y) THEN y[k] ELSE d[k - Len(y)]
    BY ONLY <1>9, <1>16, ConcatProperties
  <2>2. (7 + R) + 18 = R + 25 /\ \A k \in 1..(7 + R) : k \in 1..(R + 25) BY <1>12
  <2> QED BY <2>1, <2>2, <1>7, <1>16, <1>17
<1>20. /\ z[1] = a[1] /\ z[2] = a[2] /\ z[3] = a[3] /\ z[4] = a[4]
       /\ z[R + 5] = c[1] /\ z[R + 6] = c[2] /\ z[R + 7] = c[3]
  <2>1. \A k \in 1..4 : k \in 1..(7 + R) /\ k \in 1..(4 + R) /\ k <= 4 /\ k <= 4 + R BY <1>12
  <2>2. \A k \in 1..4 : z[k] = a[k] BY <2>1, <1>14, <1>16, <1>19
  <2>3. \A k \in 1..3 : /\ R + 4 + k \in 1..(7 + R) /\ ~(R + 4 + k <= 4 + R)
                       /\ (R + 4 + k) - (4 + R) = k
    BY <1>12
  <2>4. \A k \in 1..3 : z[R + 4 + k] = c[k] BY <2>3, <1>16, <1>19
  <2>5. R + 4 + 1 = R + 5 /\ R + 4 + 2 = R + 6 /\ R + 4 + 3 = R + 7 BY <1>12
  <2>6. /\ 1 \in 1..4 /\ 2 \in 1..4 /\ 3 \in 1..4 /\ 4 \in 1..4
        /\ 1 \in 1..3 /\ 2 \in 1..3 /\ 3 \in 1..3
    OBVIOUS
  <2>7. z[R + 4 + 1] = c[1] /\ z[R + 4 + 2] = c[2] /\ z[R + 4 + 3] = c[3] BY <2>4, <2>6
  <2> QED BY <2>2, <2>5, <2>6, <2>7
<1>21. ASSUME NEW r \in 1..Records, NEW j \in 1..9
       PROVE  z[9 * r + j - 5] = Answers!Request(r - 1)[j]
  <2>1. PICK k : k = 9 * r + j - 5 OBVIOUS
  <2>2. k \in 1..(7 + R) /\ k \in 1..(4 + R) /\ ~(k <= 4) /\ k <= 4 + R /\ k - 4 = 9 * (r - 1) + j
    BY <2>1, <1>10, <1>11
  <2>3. z[k] = b[k - 4] BY <2>2, <1>14, <1>16, <1>19
  <2> QED BY <2>1, <2>2, <2>3, <1>6
<1>22. From(z, R + 8) = d
  <2>1. PICK n : n = Len(y) OBVIOUS
  <2>2. n = 7 + R /\ n + 1 = R + 8 /\ Len(z) = n + 18 /\ n \in Nat BY <2>1, <1>12, <1>16, <1>19
  <2>3. /\ n + 1 \in (Len(y) + 1)..(Len(y) + Len(d)) /\ n + 18 \in (Len(y) + 1)..(Len(y) + Len(d))
        /\ (n + 1) - Len(y) = 1 /\ (n + 18) - Len(y) = 18 /\ 18 = Len(d)
    BY <1>7, <2>1, <2>2
  <2>4. SubSeq(y \o d, n + 1, n + 18) = SubSeq(d, (n + 1) - Len(y), (n + 18) - Len(y))
    BY ONLY <1>9, <1>16, <2>3, SubSeqOfConcat2
  <2>5. SubSeq(d, 1, Len(d)) = d BY ONLY <1>9, SubSeqFull
  <2> QED BY <2>1, <2>2, <2>3, <2>4, <2>5, <1>17 DEF From
<1> QED BY <1>2, <1>3, <1>8, <1>11, <1>18, <1>19, <1>20, <1>21, <1>22 DEF d

-----------------------------------------------------------------------------
\* What the state holds, whatever the files say.

(* How a program may have ended. *)
Results == {"none", "success", "file", "data", "crypto", "killed"}

(* Files of lines, and how far each is read. *)
FilesOk ==
  /\ files = [f \in Answers!FileNames |-> files[f]]
  /\ \A f \in Answers!FileNames : OkFile(files[f])

LinesOk ==
  /\ lines = [f \in Answers!FileNames |-> lines[f]]
  /\ \A f \in Answers!FileNames : lines[f] \in 0..Len(files[f])

(* What runs has only statements left that it may have. *)
ControlOk ==
  /\ prog \in Programs \cup {"none"} /\ (prog = "none" => todo = <<>>)
  /\ AllFit(prog, todo) /\ ret[2] \in Results

(* Lengths and the count are numbers, also before anything is read. *)
LocalsOk ==
  /\ locals = [w \in Locals |-> locals[w]]
  /\ \A w \in Numerals : locals[w] \in Nat

(* The generator, by what seeded it and how often it was drawn from. *)
DrbgOk == drbg = [seed |-> drbg.seed, draws |-> drbg.draws] /\ drbg.draws \in Nat

(* All of it. *)
KatTypes ==
  /\ FilesOk /\ LinesOk /\ ControlOk /\ LocalsOk /\ DrbgOk /\ runs \in 0..MaxRuns

(* Files that the running program does not write stay as they are. *)
OthersKept == \A f \in Answers!FileNames : f \notin Outputs(prog) => files'[f] = files[f]

(* The statement at hand. *)
LEMMA StmtFits ==
  ASSUME ControlOk, todo # <<>>
  PROVE  Fits(prog, Answers!Stmt) /\ AllFit(prog, Tail(todo)) /\ prog # "none"
<1>1. PICK S : todo \in Seq(S) /\ \A s \in S : Fits(prog, s) BY DEF ControlOk, AllFit
<1>2. Head(todo) \in S /\ Tail(todo) \in Seq(S) BY <1>1, HeadTailProperties
<1>3. Fits(prog, Answers!Stmt) BY <1>1, <1>2 DEF Answers!Stmt
<1>4. AllFit(prog, Tail(todo)) BY ONLY <1>1, <1>2 DEF AllFit
<1> QED BY <1>3, <1>4 DEF ControlOk

(* No statements at all. *)
LEMMA NoneFit == ASSUME NEW p PROVE AllFit(p, <<>>)
<1>1. PICK S : S = {} OBVIOUS
<1>2. <<>> \in Seq(S) BY ONLY EmptySeq
<1>3. \A s \in S : Fits(p, s) BY ONLY <1>1
<1> QED BY ONLY <1>2, <1>3 DEF AllFit

(* A statement is done. *)
LEMMA AdvanceKeeps ==
  ASSUME ControlOk, todo # <<>>, Answers!Advance PROVE ControlOk'
<1>1. AllFit(prog, Tail(todo)) /\ prog # "none" BY StmtFits
<1> QED BY <1>1 DEF ControlOk, Answers!Advance

(* A program ends. *)
LEMMA FinishKeeps ==
  ASSUME NEW r \in Results, Answers!Finish(r) PROVE ControlOk'
<1>1. AllFit(prog', todo') BY NoneFit DEF Answers!Finish
<1> QED BY <1>1 DEF ControlOk, Answers!Finish

(* A variable is assigned. *)
LEMMA SetKeeps ==
  ASSUME LocalsOk, NEW w \in Locals, NEW u, w \in Numerals => u \in Nat,
         locals' = [locals EXCEPT ![w] = u]
  PROVE  LocalsOk'
BY DEF LocalsOk, Locals

(* A line is written. *)
LEMMA WriteKeeps ==
  ASSUME FilesOk, LinesOk, NEW f \in Answers!FileNames, NEW w, OkLine(w),
         files' = [files EXCEPT ![f] = Append(@, w)], lines' = lines
  PROVE  FilesOk' /\ LinesOk'
<1>1. /\ OkFile(files[f]) /\ Len(files[f]) \in Nat
      /\ OkFile(Append(files[f], w)) /\ Len(Append(files[f], w)) = Len(files[f]) + 1
  BY FileAppend, FileIs DEF FilesOk
<1>2. /\ files' = [g \in Answers!FileNames |-> files'[g]]
      /\ files'[f] = Append(files[f], w)
      /\ \A g \in Answers!FileNames : g # f => files'[g] = files[g]
  BY DEF FilesOk
<1>3. FilesOk' BY <1>1, <1>2 DEF FilesOk
<1>4. ASSUME NEW g \in Answers!FileNames PROVE lines'[g] \in 0..Len(files'[g])
  <2>1. lines[g] \in 0..Len(files[g]) BY DEF LinesOk
  <2>2. CASE g = f BY <2>1, <2>2, <1>1, <1>2
  <2>3. CASE g # f BY <2>1, <2>3, <1>2
  <2> QED BY <2>2, <2>3
<1> QED BY <1>3, <1>4 DEF LinesOk

(* A reader goes on to a line it has found, or to the end of the file. *)
LEMMA MoveKeeps ==
  ASSUME FilesOk, LinesOk, NEW f \in Answers!FileNames, NEW t,
         Answers!MoveTo(f, Answers!Found(f, t)), files' = files
  PROVE  FilesOk' /\ LinesOk'
<1>1. FilesOk' BY DEF FilesOk
<1>2. Len(files[f]) \in Nat /\ lines[f] \in Nat BY FileIs DEF FilesOk, LinesOk
<1>3. PICK k : k = IF Answers!Found(f, t) = 0 THEN Len(files[f]) ELSE Answers!Found(f, t)
  OBVIOUS
<1>4. k \in 0..Len(files[f]) BY <1>2, <1>3, FoundIs
<1>5. lines' = [lines EXCEPT ![f] = k] BY <1>3 DEF Answers!MoveTo
<1>6. LinesOk' BY <1>4, <1>5 DEF LinesOk
<1> QED BY <1>1, <1>6

(* A file is opened. *)
LEMMA OpenKeeps ==
  ASSUME KatTypes, Answers!OpenFile PROVE KatTypes' /\ OthersKept
<1>1. todo # <<>> /\ Answers!Stmt.op = "open" BY DEF Answers!OpenFile, Answers!At
<1>2. Fits(prog, Answers!Stmt) BY <1>1, StmtFits DEF KatTypes
<1>3. PICK f \in Answers!FileNames : f = Answers!Stmt.file BY <1>1, <1>2 DEF Fits
<1>4. lines' = [lines EXCEPT ![f] = 0] /\ UNCHANGED <<locals, drbg, runs>>
  BY <1>3 DEF Answers!OpenFile
<1>5. CASE Answers!Stmt.mode = "w"
  <2>1. Answers!Advance /\ files' = [files EXCEPT ![f] = <<>>] /\ f \in Outputs(prog)
    BY <1>1, <1>2, <1>3, <1>5 DEF Answers!OpenFile, Fits
  <2>2. /\ files' = [g \in Answers!FileNames |-> files'[g]]
        /\ files'[f] = <<>> /\ \A g \in Answers!FileNames : g # f => files'[g] = files[g]
    BY <2>1 DEF KatTypes, FilesOk
  <2>3. FilesOk' BY <2>2, FileEmpty DEF FilesOk, KatTypes
  <2>4. \A g \in Answers!FileNames : lines'[g] \in 0..Len(files'[g])
    BY <2>2, <1>4, FileEmpty DEF LinesOk, KatTypes
  <2>5. lines' = [g \in Answers!FileNames |-> lines'[g]] BY <1>4 DEF LinesOk, KatTypes
  <2>6. ControlOk' BY <1>1, <2>1, AdvanceKeeps DEF KatTypes
  <2>7. OthersKept BY <2>1, <2>2 DEF OthersKept
  <2> QED BY <2>3, <2>4, <2>5, <2>6, <2>7, <1>4 DEF KatTypes, LinesOk, LocalsOk, DrbgOk
<1>6. CASE Answers!Stmt.mode # "w"
  <2>1. files' = files /\ (Answers!Finish("file") \/ Answers!Advance)
    BY <1>6 DEF Answers!OpenFile
  <2>2. ControlOk' BY <1>1, <2>1, AdvanceKeeps, FinishKeeps DEF KatTypes, Results
  <2>3. \A g \in Answers!FileNames : Len(files[g]) \in Nat BY FileIs DEF KatTypes, FilesOk
  <2>4. LinesOk' BY <1>4, <2>1, <2>3 DEF LinesOk, KatTypes
  <2> QED BY <1>4, <2>1, <2>2, <2>4 DEF KatTypes, FilesOk, LocalsOk, DrbgOk, OthersKept
<1> QED BY <1>5, <1>6

(* A statement that leaves the files alone. *)
LEMMA FilesQuiet ==
  ASSUME KatTypes, UNCHANGED <<files, lines, runs>>, ControlOk', LocalsOk', DrbgOk'
  PROVE  KatTypes' /\ OthersKept
<1>1. files' = files /\ lines' = lines /\ runs' = runs OBVIOUS
<1>2. FilesOk' BY <1>1 DEF KatTypes, FilesOk
<1>3. LinesOk' BY <1>1 DEF KatTypes, LinesOk
<1>4. (runs \in 0..MaxRuns)' BY <1>1 DEF KatTypes
<1>5. KatTypes' BY ONLY ControlOk', LocalsOk', DrbgOk', <1>2, <1>3, <1>4 DEF KatTypes
<1> QED BY <1>1, <1>5 DEF OthersKept

(* A number is read. *)
LEMMA NumberKeeps ==
  ASSUME KatTypes, Answers!ReadNumber PROVE KatTypes' /\ OthersKept
<1>1. todo # <<>> /\ Answers!Stmt.op = "number" BY DEF Answers!ReadNumber, Answers!At
<1>2. Fits(prog, Answers!Stmt) BY <1>1, StmtFits DEF KatTypes
<1>3. PICK f \in Answers!FileNames : f = Answers!Stmt.file BY <1>1, <1>2 DEF Fits
<1>4. PICK t \in Answers!Numbers : t = Answers!Stmt.tag BY <1>1, <1>2 DEF Fits
<1>5. PICK w \in Numerals : w = Answers!Stmt.var BY <1>1, <1>2 DEF Fits
<1>6. /\ Answers!MoveTo(f, Answers!Found(f, t)) /\ UNCHANGED <<files, drbg, runs>>
  BY <1>3, <1>4 DEF Answers!ReadNumber
<1>7. FilesOk' /\ LinesOk' BY <1>6, MoveKeeps DEF KatTypes
<1>8. Len(files[f]) \in Nat /\ lines[f] \in Nat BY FileIs DEF FilesOk, LinesOk, KatTypes
<1>9. PICK k : k = Answers!Found(f, t) OBVIOUS
<1>10. CASE k # 0
  <2>1. /\ Answers!Advance
        /\ locals' = [locals EXCEPT ![w] = files[f][k].val] \/ locals' = locals
    BY <1>3, <1>4, <1>5, <1>9, <1>10 DEF Answers!ReadNumber
  <2>2. k \in 1..Len(files[f]) /\ Answers!Matches(t, files[f][k])
    BY <1>8, <1>9, <1>10, FoundIs
  <2>3. files[f][k].tag \in Answers!Numbers
    BY <1>4, <2>2 DEF Answers!Matches, Answers!Numbers
  <2>4. files[f][k].val \in Nat BY <2>2, <2>3, FileIs DEF OkLine, FilesOk, KatTypes
  <2>5. LocalsOk'
    <3>1. CASE locals' = locals BY <3>1 DEF LocalsOk, KatTypes
    <3>2. CASE locals' = [locals EXCEPT ![w] = files[f][k].val]
      <4>1. w \in Locals BY DEF Locals
      <4> QED BY <3>2, <2>4, <4>1, SetKeeps DEF KatTypes
    <3> QED BY <2>1, <3>1, <3>2
  <2>6. ControlOk' BY <1>1, <2>1, AdvanceKeeps DEF KatTypes
  <2> QED BY <1>6, <1>7, <2>5, <2>6 DEF KatTypes, DrbgOk, OthersKept
<1>11. CASE k = 0
  <2>1. Answers!Stmt.fail \in {"go", "data", "done"} BY <1>1, <1>2 DEF Fits
  <2>2. /\ locals' = locals
        /\ Answers!Advance \/ Answers!Finish("data") \/ Answers!Finish("success")
    BY <1>3, <1>4, <1>9, <1>11, <2>1 DEF Answers!ReadNumber
  <2>3. ControlOk' BY <1>1, <2>2, AdvanceKeeps, FinishKeeps DEF KatTypes, Results
  <2> QED BY <1>6, <1>7, <2>2, <2>3 DEF KatTypes, LocalsOk, DrbgOk, OthersKept
<1> QED BY <1>10, <1>11

(* A value is read. *)
LEMMA HexKeeps ==
  ASSUME KatTypes, Answers!ReadHex PROVE KatTypes' /\ OthersKept
<1>1. todo # <<>> /\ Answers!Stmt.op = "hex" BY DEF Answers!ReadHex, Answers!At
<1>2. Fits(prog, Answers!Stmt) BY <1>1, StmtFits DEF KatTypes
<1>3. PICK f \in Answers!FileNames : f = Answers!Stmt.file BY <1>1, <1>2 DEF Fits
<1>4. PICK w \in Values : w = Answers!Stmt.var BY <1>1, <1>2 DEF Fits
<1>5. PICK k : k = Answers!Found(f, Answers!Stmt.tag) OBVIOUS
<1>6. UNCHANGED <<files, drbg, runs>> BY DEF Answers!ReadHex
<1>7. FilesOk' /\ LinesOk'
  <2>1. CASE Answers!NothingToRead(Answers!Stmt.len)
    <3>1. lines' = lines BY <2>1 DEF Answers!ReadHex
    <3> QED BY <1>6, <3>1 DEF KatTypes, FilesOk, LinesOk
  <2>2. CASE ~Answers!NothingToRead(Answers!Stmt.len)
    <3>1. Answers!MoveTo(f, Answers!Found(f, Answers!Stmt.tag)) BY <1>3, <2>2 DEF Answers!ReadHex
    <3> QED BY <1>6, <3>1, MoveKeeps DEF KatTypes
  <2> QED BY <2>1, <2>2
<1>8. \/ Answers!Advance /\ \E u : locals' = [locals EXCEPT ![w] = u]
      \/ Answers!Finish("data") /\ locals' = locals
  BY <1>4 DEF Answers!ReadHex
<1>9. ControlOk' BY <1>1, <1>8, AdvanceKeeps, FinishKeeps DEF KatTypes, Results
<1>10. LocalsOk'
  <2>1. w \in Locals /\ w \notin Numerals BY DEF Locals, Values, Numerals
  <2>2. CASE locals' = locals BY <2>2 DEF KatTypes, LocalsOk
  <2>3. ASSUME NEW u, locals' = [locals EXCEPT ![w] = u] PROVE LocalsOk'
    BY <2>1, <2>3, SetKeeps DEF KatTypes
  <2> QED BY <1>8, <2>2, <2>3
<1> QED BY <1>6, <1>7, <1>9, <1>10 DEF KatTypes, DrbgOk, OthersKept

(* A length that is given to fprintBstr, or that of a key. *)
LEMMA LengthsOk ==
  ASSUME KatTypes, NEW n \in Numerals \cup {"none"}
  PROVE  (IF n = "none" THEN Answers!KeyLen ELSE locals[n]) \in Nat
BY DEF KatTypes, LocalsOk, Answers!KeyLen

(* A line is written. *)
LEMMA PutKeeps ==
  ASSUME KatTypes, Answers!PutLine PROVE KatTypes' /\ OthersKept
<1>1. todo # <<>> /\ Answers!Stmt.op = "put" BY DEF Answers!PutLine, Answers!At
<1>2. Fits(prog, Answers!Stmt) BY <1>1, StmtFits DEF KatTypes
<1>3. PICK f \in Answers!FileNames : f = Answers!Stmt.file /\ f \in Outputs(prog)
  BY <1>1, <1>2 DEF Fits
<1>4. PICK n : n = IF Answers!Stmt.len = "none" THEN Answers!KeyLen ELSE locals[Answers!Stmt.len]
  OBVIOUS
<1>5. n \in Nat BY <1>1, <1>2, <1>4, LengthsOk DEF Fits
<1>6. PICK w : w = Answers!Line(Answers!Stmt.tag, locals[Answers!Stmt.var], n) OBVIOUS
<1>7. OkLine(w)
  <2>1. Answers!Stmt.tag \in Answers!Numbers => locals[Answers!Stmt.var] \in Nat
    BY <1>1, <1>2 DEF Fits, KatTypes, LocalsOk
  <2> QED BY <1>5, <1>6, <2>1 DEF Answers!Line, OkLine
<1>8. /\ files' = [files EXCEPT ![f] = Append(@, w)]
      /\ Answers!Advance /\ UNCHANGED <<lines, locals, drbg, runs>>
  BY <1>3, <1>4, <1>6 DEF Answers!PutLine
<1>9. FilesOk' /\ LinesOk' BY <1>7, <1>8, WriteKeeps DEF KatTypes
<1>10. ControlOk' BY <1>1, <1>8, AdvanceKeeps DEF KatTypes
<1>11. OthersKept BY <1>3, <1>8 DEF OthersKept, KatTypes, FilesOk
<1> QED BY <1>8, <1>9, <1>10, <1>11 DEF KatTypes, LocalsOk, DrbgOk

(* A blank line is written. *)
LEMMA BlankKeeps ==
  ASSUME KatTypes, Answers!PutBlank PROVE KatTypes' /\ OthersKept
<1>1. todo # <<>> /\ Answers!Stmt.op = "blank" BY DEF Answers!PutBlank, Answers!At
<1>2. Fits(prog, Answers!Stmt) BY <1>1, StmtFits DEF KatTypes
<1>3. PICK f \in Answers!FileNames : f = Answers!Stmt.file /\ f \in Outputs(prog)
  BY <1>1, <1>2 DEF Fits
<1>4. PICK w : w = Answers!Line("none", <<>>, 0) OBVIOUS
<1>5. OkLine(w) BY <1>4 DEF Answers!Line, OkLine, Answers!Numbers
<1>6. /\ files' = [files EXCEPT ![f] = Append(@, w)]
      /\ Answers!Advance /\ UNCHANGED <<lines, locals, drbg, runs>>
  BY <1>3, <1>4 DEF Answers!PutBlank
<1>7. FilesOk' /\ LinesOk' BY <1>5, <1>6, WriteKeeps DEF KatTypes
<1>8. ControlOk' BY <1>1, <1>6, AdvanceKeeps DEF KatTypes
<1>9. OthersKept BY <1>3, <1>6 DEF OthersKept, KatTypes, FilesOk
<1> QED BY <1>6, <1>7, <1>8, <1>9 DEF KatTypes, LocalsOk, DrbgOk

(* A line is written to a stream that was closed. *)
LEMMA StrayKeeps ==
  ASSUME KatTypes, Answers!StrayLine PROVE KatTypes' /\ OthersKept
<1>1. todo # <<>> /\ Answers!Stmt.op = "stray" BY DEF Answers!StrayLine, Answers!At
<1>2. Fits(prog, Answers!Stmt) BY <1>1, StmtFits DEF KatTypes
<1>3. PICK f \in Answers!FileNames : f = Answers!Stmt.file /\ f \in Outputs(prog)
  BY <1>1, <1>2 DEF Fits
<1>4. PICK w : w = Answers!Line(Answers!Stmt.tag, locals[Answers!Stmt.var], locals.mlen) OBVIOUS
<1>5. OkLine(w)
  <2>1. locals.mlen \in Nat BY DEF KatTypes, LocalsOk, Numerals
  <2>2. Answers!Stmt.tag \notin Answers!Numbers BY <1>1, <1>2 DEF Fits
  <2> QED BY <1>4, <2>1, <2>2 DEF Answers!Line, OkLine
<1>6. /\ files' = [files EXCEPT ![f] = Append(@, w)] \/ files' = files
      /\ Answers!Advance /\ UNCHANGED <<lines, locals, drbg, runs>>
  BY <1>3, <1>4 DEF Answers!StrayLine
<1>7. FilesOk' /\ LinesOk'
  <2>1. CASE files' = files BY <2>1, <1>6 DEF KatTypes, FilesOk, LinesOk
  <2>2. CASE files' = [files EXCEPT ![f] = Append(@, w)]
    BY <2>2, <1>5, <1>6, WriteKeeps DEF KatTypes
  <2> QED BY <1>6, <2>1, <2>2
<1>8. ControlOk' BY <1>1, <1>6, AdvanceKeeps DEF KatTypes
<1>9. OthersKept BY <1>3, <1>6 DEF OthersKept, KatTypes, FilesOk
<1> QED BY <1>6, <1>7, <1>8, <1>9 DEF KatTypes, LocalsOk, DrbgOk

(* Random bytes are drawn. *)
LEMMA DrawnOk ==
  ASSUME KatTypes, drbg' = Answers!Drawn PROVE DrbgOk'
<1>1. drbg' = [seed |-> drbg.seed, draws |-> drbg.draws + 1]
  BY DEF KatTypes, DrbgOk, Answers!Drawn
<1> QED BY <1>1 DEF KatTypes, DrbgOk

(* A signature is opened. *)
LEMMA VerifyKeeps ==
  ASSUME KatTypes, Answers!VerifySig PROVE KatTypes' /\ OthersKept
<1>1. todo # <<>> /\ Answers!Stmt.op = "verify" BY DEF Answers!VerifySig, Answers!At
<1>2. Fits(prog, Answers!Stmt) BY <1>1, StmtFits DEF KatTypes
<1>3. /\ UNCHANGED <<files, lines, drbg, runs>>
      /\ \/ /\ Answers!Advance
            /\ \E a, b : locals' = [locals EXCEPT ![Answers!Stmt.var] = a, ![Answers!Stmt.len] = b]
         \/ Answers!Finish("crypto") /\ locals' = locals
  BY DEF Answers!VerifySig
<1>4. ControlOk' BY <1>1, <1>3, AdvanceKeeps, FinishKeeps DEF KatTypes, Results
<1>5. LocalsOk'
  <2>1. CASE locals' = locals BY <2>1 DEF KatTypes, LocalsOk
  <2>2. ASSUME NEW a, NEW b,
               locals' = [locals EXCEPT ![Answers!Stmt.var] = a, ![Answers!Stmt.len] = b]
        PROVE  LocalsOk'
    <3>1. PICK w \in Values, y \in {"mlen1", "mlen2"} : w = Answers!Stmt.var /\ y = Answers!Stmt.len
      BY <1>1, <1>2 DEF Fits
    <3>2. w \notin Numerals /\ y \notin Numerals BY DEF Values, Numerals
    <3>3. locals' = [locals EXCEPT ![w] = a, ![y] = b] BY <3>1, <2>2
    <3>4. locals' = [z \in Locals |-> locals'[z]] BY <3>3 DEF KatTypes, LocalsOk
    <3>5. \A z \in Numerals : locals'[z] = locals[z]
      BY <3>2, <3>3 DEF KatTypes, LocalsOk, Locals
    <3> QED BY <3>4, <3>5 DEF KatTypes, LocalsOk
  <2> QED BY <1>3, <2>1, <2>2
<1>6. DrbgOk' BY <1>3 DEF KatTypes, DrbgOk
<1> QED BY <1>3, <1>4, <1>5, <1>6, FilesQuiet

(* Keys are made, and a message is signed. *)
LEMMA SchemeKeeps ==
  ASSUME KatTypes, Answers!Keypair \/ Answers!Sign PROVE KatTypes' /\ OthersKept
<1>1. todo # <<>> /\ Answers!Advance BY DEF Answers!Keypair, Answers!Sign, Answers!At
<1>2. UNCHANGED <<files, lines, runs>> /\ drbg' = Answers!Drawn
  BY DEF Answers!Keypair, Answers!Sign
<1>3. ControlOk' BY <1>1, AdvanceKeeps DEF KatTypes
<1>4. LocalsOk'
  <2>1. CASE Answers!Keypair
    <3>1. \E a, b : locals' = [locals EXCEPT !.pk = a, !.sk = b] BY <2>1 DEF Answers!Keypair
    <3> QED BY <3>1 DEF KatTypes, LocalsOk, Locals, Values, Numerals
  <2>2. CASE Answers!Sign
    <3>1. PICK a : locals' = [locals EXCEPT !.sm = a, !.smlen = SigBytes + locals.mlen]
      BY <2>2 DEF Answers!Sign
    <3>2. SigBytes + locals.mlen \in Nat
      BY AnswersAssumption DEF Answers!SizesAssumption, KatTypes, LocalsOk, Numerals
    <3>3. PICK b \in Nat : b = SigBytes + locals.mlen BY <3>2
    <3>4. locals' = [locals EXCEPT !.sm = a, !.smlen = b] BY <3>1, <3>3
    <3> QED BY <3>4 DEF KatTypes, LocalsOk, Locals, Values, Numerals
  <2> QED BY <2>1, <2>2
<1>5. DrbgOk' BY <1>2, DrawnOk
<1> QED BY <1>2, <1>3, <1>4, <1>5, FilesQuiet

(* A program has no statements left. *)
LEMMA ReturnKeeps ==
  ASSUME KatTypes, Answers!Return PROVE KatTypes' /\ OthersKept
<1>1. Answers!Finish("success") /\ UNCHANGED <<files, lines, runs, locals, drbg>>
  BY DEF Answers!Return
<1>2. ControlOk' BY <1>1, FinishKeeps DEF Results
<1>3. LocalsOk' BY <1>1 DEF LocalsOk, KatTypes
<1>4. DrbgOk' BY <1>1 DEF DrbgOk, KatTypes
<1> QED BY <1>1, <1>2, <1>3, <1>4, FilesQuiet

(* The other statements that leave the files alone. *)
LEMMA PlainKeeps ==
  ASSUME KatTypes,
         \/ Answers!CloseFile \/ Answers!SetVar \/ Answers!RandomBytesInit
         \/ Answers!DrawBytes \/ Answers!Compare \/ Answers!Again
  PROVE  KatTypes' /\ OthersKept
<1>1. todo # <<>>
  BY DEF Answers!CloseFile, Answers!SetVar, Answers!RandomBytesInit, Answers!DrawBytes,
         Answers!Compare, Answers!Again, Answers!At
<1>2. Fits(prog, Answers!Stmt) BY <1>1, StmtFits DEF KatTypes
<1>3. UNCHANGED <<files, lines, runs>>
  BY DEF Answers!CloseFile, Answers!SetVar, Answers!RandomBytesInit, Answers!DrawBytes,
         Answers!Compare, Answers!Again
<1>4. ControlOk'
  <2>1. CASE Answers!Again
    <3>1. Answers!Stmt.op = "again" BY <2>1 DEF Answers!Again, Answers!At
    <3>2. prog = "generate" BY <1>2, <3>1 DEF Fits
    <3>3. todo' = Answers!Response /\ prog' = prog /\ ret' = ret BY <2>1 DEF Answers!Again
    <3>4. AllFit(prog', todo') BY <3>2, <3>3, ResponseIs
    <3> QED BY <3>2, <3>3, <3>4 DEF ControlOk, KatTypes
  <2>2. CASE ~Answers!Again
    <3>1. Answers!Advance \/ Answers!Finish("crypto")
      BY <2>2 DEF Answers!CloseFile, Answers!SetVar, Answers!RandomBytesInit,
             Answers!DrawBytes, Answers!Compare
    <3> QED BY <1>1, <3>1, AdvanceKeeps, FinishKeeps DEF KatTypes, Results
  <2> QED BY <2>1, <2>2
<1>5. LocalsOk'
  <2>1. CASE locals' = locals BY <2>1 DEF KatTypes, LocalsOk
  <2>2. CASE Answers!SetVar
    <3>1. Answers!Stmt.op = "set" BY <2>2 DEF Answers!SetVar, Answers!At
    <3>2. PICK w \in Locals : w = Answers!Stmt.var /\ (w \in Numerals => Answers!Stmt.val \in Nat)
      BY <1>2, <3>1 DEF Fits
    <3>3. locals' = [locals EXCEPT ![w] = Answers!Stmt.val] BY <2>2, <3>2 DEF Answers!SetVar
    <3> QED BY <3>2, <3>3, SetKeeps DEF KatTypes
  <2>3. CASE Answers!DrawBytes
    <3>1. Answers!Stmt.op = "draw" BY <2>3 DEF Answers!DrawBytes, Answers!At
    <3>2. PICK w \in Values : w = Answers!Stmt.var BY <1>2, <3>1 DEF Fits
    <3>3. w \in Locals /\ w \notin Numerals BY DEF Locals, Values, Numerals
    <3>4. locals' = [locals EXCEPT ![w] = Answers!Random] BY <2>3, <3>2 DEF Answers!DrawBytes
    <3> QED BY <3>3, <3>4, SetKeeps DEF KatTypes
  <2> QED BY <2>1, <2>2, <2>3
       DEF Answers!CloseFile, Answers!RandomBytesInit, Answers!Compare, Answers!Again
<1>6. DrbgOk'
  <2>1. CASE drbg' = drbg BY <2>1 DEF KatTypes, DrbgOk
  <2>2. CASE Answers!RandomBytesInit
    <3>1. PICK s : drbg' = [seed |-> s, draws |-> 0] BY <2>2 DEF Answers!RandomBytesInit
    <3> QED BY <3>1 DEF DrbgOk
  <2>3. CASE Answers!DrawBytes
    <3>1. drbg' = Answers!Drawn BY <2>3 DEF Answers!DrawBytes
    <3> QED BY <3>1, DrawnOk
  <2> QED BY <2>1, <2>2, <2>3
       DEF Answers!CloseFile, Answers!SetVar, Answers!Compare, Answers!Again
<1> QED BY <1>3, <1>4, <1>5, <1>6, FilesQuiet

(* Whatever a program does next. *)
LEMMA ExecuteKeeps ==
  ASSUME KatTypes, Answers!Execute PROVE KatTypes' /\ OthersKept
BY OpenKeeps, NumberKeeps, HexKeeps, PutKeeps, BlankKeeps, StrayKeeps, VerifyKeeps, SchemeKeeps,
   ReturnKeeps, PlainKeeps DEF Answers!Execute

-----------------------------------------------------------------------------
\* The response file.

(* What the fixed entropy determines of record r. *)
SeedOf(r) == <<"rand", Answers!Entropy, 2 * r - 2>>
MsgOf(r) == <<"rand", Answers!Entropy, 2 * r - 1>>
KeyOf(r) == <<"rand", SeedOf(r), 0>>
SignedOf(r) == <<"sm", <<"sk", KeyOf(r)>>, MsgOf(r), <<"rand", SeedOf(r), 1>>, 33 * r>>

(* The lines of a record. *)
LEMMA ExpectedIs ==
  ASSUME NEW r
  PROVE  LET e == Answers!Expected(r) IN
         /\ e = [c \in 1..8 |-> e[c]]
         /\ e[1] = Answers!Line("count", r - 1, Answers!KeyLen)
         /\ e[2] = Answers!Line("seed", SeedOf(r), Answers!KeyLen)
         /\ e[3] = Answers!Line("mlen", 33 * r, Answers!KeyLen)
         /\ e[4] = Answers!Line("msg", MsgOf(r), 33 * r)
         /\ e[5] = Answers!Line("pk", <<"pk", KeyOf(r)>>, Answers!KeyLen)
         /\ e[6] = Answers!Line("sk", <<"sk", KeyOf(r)>>, Answers!KeyLen)
         /\ e[7] = Answers!Line("smlen", SigBytes + 33 * r, Answers!KeyLen)
         /\ e[8] = Answers!Line("sm", SignedOf(r), SigBytes + 33 * r)
BY DEF Answers!Expected, SeedOf, MsgOf, KeyOf, SignedOf

(* Their tags. *)
Tags == <<"count", "seed", "mlen", "msg", "pk", "sk", "smlen", "sm">>

(* The c-th line of a record has the c-th tag. *)
LEMMA ExpectedTags ==
  ASSUME NEW r, NEW c \in 1..8
  PROVE  Answers!Expected(r)[c].tag = Tags[c]
<1>1. c \in {1, 2, 3, 4, 5, 6, 7, 8} OBVIOUS
<1>2. PICK e : e = Answers!Expected(r) OBVIOUS
<1>3. /\ e[1] = Answers!Line("count", r - 1, Answers!KeyLen)
      /\ e[2] = Answers!Line("seed", SeedOf(r), Answers!KeyLen)
      /\ e[3] = Answers!Line("mlen", 33 * r, Answers!KeyLen)
      /\ e[4] = Answers!Line("msg", MsgOf(r), 33 * r)
      /\ e[5] = Answers!Line("pk", <<"pk", KeyOf(r)>>, Answers!KeyLen)
      /\ e[6] = Answers!Line("sk", <<"sk", KeyOf(r)>>, Answers!KeyLen)
      /\ e[7] = Answers!Line("smlen", SigBytes + 33 * r, Answers!KeyLen)
      /\ e[8] = Answers!Line("sm", SignedOf(r), SigBytes + 33 * r)
  BY <1>2, ExpectedIs
<1>4. /\ e[1].tag = "count" /\ e[2].tag = "seed" /\ e[3].tag = "mlen" /\ e[4].tag = "msg"
      /\ e[5].tag = "pk" /\ e[6].tag = "sk" /\ e[7].tag = "smlen" /\ e[8].tag = "sm"
  BY ONLY <1>3 DEF Answers!Line
<1>5. /\ Tags[1] = "count" /\ Tags[2] = "seed" /\ Tags[3] = "mlen" /\ Tags[4] = "msg"
      /\ Tags[5] = "pk" /\ Tags[6] = "sk" /\ Tags[7] = "smlen" /\ Tags[8] = "sm"
  BY DEF Tags
<1>6. e[c].tag = Tags[c] BY ONLY <1>1, <1>4, <1>5, Zenon
<1> QED BY <1>2, <1>6

(* The blank line that a response begins with. *)
BlankLine == Answers!Line("none", <<>>, 0)

(* s holds the response as far as it goes. *)
RspRight(s) ==
  /\ Len(s) \in 0..(8 * Records + 1)
  /\ Len(s) >= 1 => s[1] = BlankLine
  /\ \A r \in 1..Records, c \in 1..8 :
       8 * r - 7 + c <= Len(s) => s[8 * r - 7 + c] = Answers!Expected(r)[c]

(* The same, with the last line perhaps cut. *)
RspLines(s) ==
  /\ Len(s) \in 0..(8 * Records + 1)
  /\ Len(s) >= 1 => s[1].tag = "none"
  /\ \A r \in 1..Records, c \in 1..8 : 8 * r - 7 + c <= Len(s) =>
       \/ s[8 * r - 7 + c] = Answers!Expected(r)[c]
       \/ /\ 8 * r - 7 + c = Len(s) /\ s[Len(s)].len = 1
          /\ s[Len(s)].tag = Answers!Expected(r)[c].tag

(* The response, when there is one, is right line by line. *)
RspOk == files["rsp"] = Answers!Absent \/ RspLines(files["rsp"])

(* A response that is right as far as it goes.                               *)
LEMMA RightLines == ASSUME NEW s, RspRight(s) PROVE RspLines(s)
<1>1. BlankLine.tag = "none" BY DEF BlankLine, Answers!Line
<1> QED BY <1>1 DEF RspRight, RspLines

(* All of the records, one behind the other. *)
Wanted == <<BlankLine>> \o Answers!FlattenSeq([r \in 1..Records |-> Answers!Expected(r)])

(* Where its lines stand. *)
LEMMA WantedIs ==
  \E S : /\ Wanted \in Seq(S) /\ Len(Wanted) = 8 * Records + 1 /\ Wanted[1] = BlankLine
         /\ \A r \in 1..Records, c \in 1..8 : Wanted[8 * r - 7 + c] = Answers!Expected(r)[c]
<1> DEFINE s == [r \in 1..Records |-> Answers!Expected(r)]
           S == {Answers!Expected(r)[c] : r \in 1..Records, c \in 1..8} \cup {BlankLine}
<1>1. Records \in Nat \ {0} BY AnswersAssumption DEF Answers!SizesAssumption
<1>2. ASSUME NEW r \in 1..Records
      PROVE  Answers!Expected(r) \in Seq(S) /\ Len(Answers!Expected(r)) = 8
  <2>1. PICK e : e = Answers!Expected(r) OBVIOUS
  <2>2. e = [c \in 1..8 |-> e[c]] BY <2>1, ExpectedIs
  <2>3. \A c \in 1..8 : e[c] \in S BY <2>1
  <2> HIDE DEF S
  <2>4. e \in [1..8 -> S] BY <2>2, <2>3
  <2>5. 8 \in Nat OBVIOUS
  <2> QED BY <2>1, <2>4, <2>5, ListIsSeq
<1>3. \A r \in 1..Records : s[r] = Answers!Expected(r) OBVIOUS
<1>4. s = [r \in 1..Records |-> s[r]] OBVIOUS
<1>5. BlankLine \in S OBVIOUS
<1>6. Wanted = <<BlankLine>> \o Answers!FlattenSeq(s) BY DEF Wanted
<1> HIDE DEF s, S
<1>7. 8 \in {8, 9} OBVIOUS
<1>8. PICK f : f = Answers!FlattenSeq(s) OBVIOUS
<1>9. /\ f \in Seq(S) /\ Len(f) = 8 * Records
      /\ \A r \in 1..Records, c \in 1..8 : f[8 * (r - 1) + c] = s[r][c]
  <2>1. Pieces(S, Records, 8, s) BY <1>1, <1>2, <1>3, <1>4, <1>7 DEF Pieces
  <2>2. InARow(S, Records, 8, s, f) BY <2>1, <1>8, PiecesFlat
  <2> QED BY ONLY <2>2 DEF InARow
<1>10. PICK b : b = <<BlankLine>> OBVIOUS
<1>11. b \in Seq(S) /\ Len(b) = 1 /\ b[1] = BlankLine BY <1>5, <1>10
<1>12. /\ b \o f \in Seq(S) /\ Len(b \o f) = Len(b) + Len(f)
       /\ \A k \in 1..(Len(b) + Len(f)) : (b \o f)[k] = IF k <= Len(b) THEN b[k] ELSE f[k - Len(b)]
  BY ONLY <1>9, <1>11, ConcatProperties
<1>13. Wanted = b \o f BY <1>6, <1>8, <1>10
<1>14. Len(Wanted) = 8 * Records + 1 BY <1>1, <1>9, <1>11, <1>12, <1>13
<1>15. Wanted[1] = BlankLine
  <2>1. 1 \in 1..(Len(b) + Len(f)) /\ 1 <= Len(b) BY <1>1, <1>9, <1>11
  <2> QED BY <2>1, <1>11, <1>12, <1>13
<1>16. ASSUME NEW r \in 1..Records, NEW c \in 1..8
       PROVE  Wanted[8 * r - 7 + c] = Answers!Expected(r)[c]
  <2>1. PICK k : k = 8 * r - 7 + c OBVIOUS
  <2>2. k \in 1..(1 + 8 * Records) /\ ~(k <= 1) /\ k - 1 = 8 * (r - 1) + c BY <2>1, <1>1
  <2>3. Wanted[k] = f[k - 1] BY <2>2, <1>9, <1>11, <1>12, <1>13
  <2> QED BY <2>1, <2>2, <2>3, <1>3, <1>9
<1> QED BY <1>12, <1>13, <1>14, <1>15, <1>16

(* Every line but the first belongs to a record. *)
LEMMA PlaceOf ==
  ASSUME NEW k \in 2..(8 * Records + 1)
  PROVE  \E r \in 1..Records, c \in 1..8 : k = 8 * r - 7 + c
<1>1. Records \in Nat \ {0} BY AnswersAssumption DEF Answers!SizesAssumption
<1>2. k - 2 \in Nat /\ 8 \in Nat \ {0} OBVIOUS
<1>3. PICK a \in Nat, b \in 0..7 : k - 2 = a * 8 + b
  <2>1. PICK w : w = k - 2 OBVIOUS
  <2>2. w \in Nat BY <1>2, <2>1
  <2>3. w \div 8 \in Nat /\ w % 8 \in 0..(8 - 1) /\ w = (w \div 8) * 8 + (w % 8)
    BY ONLY <2>2, <1>2, SplitAt
  <2>4. 8 - 1 = 7 OBVIOUS
  <2> QED BY <2>1, <2>3, <2>4
<1>4. a + 1 \in 1..Records /\ b + 1 \in 1..8 /\ k = 8 * (a + 1) - 7 + (b + 1)
  BY <1>1, <1>3
<1> QED BY <1>4

(* A response with all of its lines is complete. *)
LEMMA CompleteWhen ==
  ASSUME FilesOk, RspRight(files["rsp"]), Len(files["rsp"]) = 8 * Records + 1
  PROVE  Answers!Complete
<1>1. PICK s : s = files["rsp"] OBVIOUS
<1>2. PICK S : /\ Wanted \in Seq(S) /\ Len(Wanted) = 8 * Records + 1 /\ Wanted[1] = BlankLine
               /\ \A r \in 1..Records, c \in 1..8 : Wanted[8 * r - 7 + c] = Answers!Expected(r)[c]
  BY WantedIs
<1>3. PICK T : s \in Seq(T)
  <2>1. OkFile(s) BY <1>1 DEF FilesOk, Answers!FileNames
  <2> QED BY ONLY <2>1 DEF OkFile
<1>4. PICK U : U = S \cup T OBVIOUS
<1>5. S \subseteq U /\ T \subseteq U BY <1>4
<1>6. s \in Seq(U) /\ Wanted \in Seq(U) BY ONLY <1>2, <1>3, <1>5, SeqMonotonic
<1>7. Records \in Nat \ {0} BY AnswersAssumption DEF Answers!SizesAssumption
<1>11. \A r \in 1..Records, c \in 1..8 :
         8 * r - 7 + c <= Len(s) => s[8 * r - 7 + c] = Answers!Expected(r)[c]
  BY <1>1, Zenon DEF RspRight
<1>8. ASSUME NEW k \in 1..Len(s) PROVE s[k] = Wanted[k]
  <2>1. CASE k = 1 BY <2>1, <1>1, <1>2, <1>7 DEF RspRight
  <2>2. CASE k # 1
    <3>1. k \in 2..(8 * Records + 1) BY <2>2, <1>1, <1>7
    <3>2. PICK r \in 1..Records, c \in 1..8 : k = 8 * r - 7 + c BY <3>1, PlaceOf
    <3>3. s[k] = Answers!Expected(r)[c]
      <4>1. k <= Len(s) BY <1>8, <1>3
      <4>2. 8 * r - 7 + c <= Len(s) => s[8 * r - 7 + c] = Answers!Expected(r)[c]
        BY ONLY <1>11, <3>2, Zenon
      <4> QED BY ONLY <4>1, <4>2, <3>2
    <3>4. Wanted[k] = Answers!Expected(r)[c] BY <3>2, <1>2
    <3> QED BY <3>3, <3>4
  <2> QED BY <2>1, <2>2
<1>9. Len(s) = Len(Wanted) BY <1>1, <1>2
<1>10. s = Wanted BY ONLY <1>6, <1>8, <1>9, SeqEqual
<1> QED BY <1>1, <1>10 DEF Answers!Complete, Wanted, BlankLine

(* What a complete response holds. *)
LEMMA CompleteIs ==
  ASSUME Answers!Complete
  PROVE  Len(files["rsp"]) = 8 * Records + 1 /\ RspRight(files["rsp"])
<1>1. files["rsp"] = Wanted BY DEF Answers!Complete, Wanted, BlankLine
<1>2. Records \in Nat \ {0} BY AnswersAssumption DEF Answers!SizesAssumption
<1>3. /\ Len(Wanted) = 8 * Records + 1 /\ Wanted[1] = BlankLine
      /\ \A r \in 1..Records, c \in 1..8 : Wanted[8 * r - 7 + c] = Answers!Expected(r)[c]
  BY WantedIs
<1> QED BY <1>1, <1>2, <1>3 DEF RspRight

(* What a file that was being written looks like afterwards. *)
Left(f, s) ==
  /\ OkFile(s) /\ Len(s) \in 0..Len(files[f])
  /\ \A k \in 1..Len(s) :
       \/ s[k] = files[f][k]
       \/ k = Len(s) /\ s[k].tag = files[f][k].tag /\ s[k].len = 1

(* Some of its lines have left the buffer. *)
LEMMA FlushedIs ==
  ASSUME NEW f, OkFile(files[f]), NEW s \in Answers!Flushed(f)
  PROVE  /\ Left(f, s)
         /\ s # files[f] => Answers!Writing(f) /\ ~Answers!Missing(f)
<1>1. Len(files[f]) \in Nat /\ \A k \in 1..Len(files[f]) : OkLine(files[f][k]) BY FileIs
<1>2. CASE s = files[f] BY <1>1, <1>2 DEF Left
<1>3. CASE s # files[f]
  <2>1. Answers!Writing(f) /\ ~Answers!Missing(f) BY <1>3 DEF Answers!Flushed
  <2>2. \/ \E k \in 0..Len(files[f]) : s = SubSeq(files[f], 1, k)
        \/ \E k \in 1..Len(files[f]) :
             s = [SubSeq(files[f], 1, k) EXCEPT ![k] = Answers!CutLine(@)]
    BY <2>1 DEF Answers!Flushed
  <2>3. ASSUME NEW k \in 0..Len(files[f]), s = SubSeq(files[f], 1, k) PROVE Left(f, s)
    <3>1. OkFile(s) /\ Len(s) = k /\ \A j \in 1..k : s[j] = files[f][j] BY <2>3, FilePrefix
    <3> QED BY <3>1 DEF Left
  <2>4. ASSUME NEW k \in 1..Len(files[f]),
               s = [SubSeq(files[f], 1, k) EXCEPT ![k] = Answers!CutLine(@)]
        PROVE  Left(f, s)
    <3>1. PICK q : q = SubSeq(files[f], 1, k) OBVIOUS
    <3>2. k \in 0..Len(files[f]) /\ k \in 1..k OBVIOUS
    <3>3. OkFile(q) /\ Len(q) = k /\ \A j \in 1..k : q[j] = files[f][j]
      BY <3>1, <3>2, FilePrefix
    <3>4. DOMAIN q = 1..k BY <3>3, FileIs
    <3>5. s = [q EXCEPT ![k] = Answers!CutLine(q[k])] BY <2>4, <3>1
    <3>6. q[k] = files[f][k] /\ OkLine(q[k]) BY <1>1, <3>2, <3>3
    <3>7. PICK w : w = Answers!CutLine(q[k]) OBVIOUS
    <3>8. OkLine(w) /\ w.tag = files[f][k].tag /\ w.len = 1 BY <3>6, <3>7, LineCut
    <3>9. /\ OkFile(s) /\ Len(s) = k
          /\ \A j \in 1..k : s[j] = IF j = k THEN w ELSE q[j]
      <4>1. s = [q EXCEPT ![k] = w] BY <3>5, <3>7
      <4>6. k \in 1..Len(q) BY <3>2, <3>3
      <4>7. OkFile(q) /\ OkLine(w) BY <3>3, <3>8
      <4>2. PICK t : t = [q EXCEPT ![k] = w] OBVIOUS
      <4>3. /\ OkFile([q EXCEPT ![k] = w]) /\ Len([q EXCEPT ![k] = w]) = Len(q)
            /\ \A j \in 1..Len(q) : [q EXCEPT ![k] = w][j] = IF j = k THEN w ELSE q[j]
        BY ONLY <4>6, <4>7, FileExcept
      <4>4. s = t BY <4>1, <4>2
      <4>5. OkFile(t) /\ Len(t) = k /\ \A j \in 1..k : t[j] = IF j = k THEN w ELSE q[j]
        BY <3>3, <4>2, <4>3
      <4> QED BY <4>4, <4>5
    <3> QED BY <3>3, <3>8, <3>9 DEF Left
  <2> QED BY <2>1, <2>2, <2>3, <2>4
<1> QED BY <1>2, <1>3

(* A response of which only a part is left. *)
LEMMA LeftLines ==
  ASSUME RspLines(files["rsp"]), NEW s, Left("rsp", s) PROVE RspLines(s)
<1>1. PICK r : r = files["rsp"] OBVIOUS
<1>2. Records \in Nat \ {0} BY AnswersAssumption DEF Answers!SizesAssumption
<1>3. Len(r) \in 0..(8 * Records + 1) /\ Len(s) \in 0..Len(r) BY <1>1 DEF RspLines, Left
<1>4. Len(s) \in 0..(8 * Records + 1) BY <1>2, <1>3
<1>5. \A k \in 1..Len(s) : s[k] = r[k] \/ (k = Len(s) /\ s[k].tag = r[k].tag /\ s[k].len = 1)
  <2>1. \A k \in 1..Len(s) :
          \/ s[k] = files["rsp"][k]
          \/ k = Len(s) /\ s[k].tag = files["rsp"][k].tag /\ s[k].len = 1
    BY DEF Left
  <2> TAKE k \in 1..Len(s)
  <2>2. files["rsp"][k] = r[k] BY <1>1
  <2> QED BY <2>1, <2>2
<1>6. Len(s) >= 1 => s[1].tag = "none"
  <2> HAVE Len(s) >= 1
  <2>1. 1 \in 1..Len(s) /\ Len(r) >= 1 BY <1>3
  <2>2. r[1].tag = "none" BY <2>1, <1>1 DEF RspLines
  <2> QED BY <2>1, <2>2, <1>5
<1>7. ASSUME NEW a \in 1..Records, NEW c \in 1..8, 8 * a - 7 + c <= Len(s)
      PROVE  \/ s[8 * a - 7 + c] = Answers!Expected(a)[c]
             \/ /\ 8 * a - 7 + c = Len(s) /\ s[Len(s)].len = 1
                /\ s[Len(s)].tag = Answers!Expected(a)[c].tag
  <2>1. PICK k : k = 8 * a - 7 + c OBVIOUS
  <2>2. k \in 1..Len(s) /\ k <= Len(r) BY <1>2, <1>3, <1>7, <2>1
  <2>3. \/ r[k] = Answers!Expected(a)[c]
        \/ k = Len(r) /\ r[k].len = 1 /\ r[k].tag = Answers!Expected(a)[c].tag
    BY <2>1, <2>2, <1>1 DEF RspLines
  <2>4. k = Len(r) => k = Len(s) BY <2>2, <1>3
  <2> QED BY <2>1, <2>2, <2>3, <2>4, <1>5
<1> QED BY <1>4, <1>6, <1>7 DEF RspLines

(* A file is longer than one line, or is not the one that is not there.      *)
LEMMA NotAbsent ==
  /\ OkFile(Answers!Absent) /\ Len(Answers!Absent) = 1
  /\ \A f : files[f] = Answers!Absent => Answers!Missing(f)
<1>1. PICK w : w = [tag |-> "absent", val |-> <<>>, len |-> 0] OBVIOUS
<1>2. OkLine(w) BY <1>1 DEF OkLine, Answers!Numbers
<1>3. Answers!Absent = <<w>> BY <1>1 DEF Answers!Absent
<1>4. PICK e : e = <<>> OBVIOUS
<1>5. OkFile(Answers!Absent) /\ Len(Answers!Absent) = 1
  <2>1. <<w>> = Append(e, w) BY <1>4
  <2>2. OkFile(e) /\ Len(e) = 0 BY <1>4, FileEmpty
  <2>3. OkFile(Append(e, w)) /\ Len(Append(e, w)) = Len(e) + 1 BY <1>2, <2>2, FileAppend
  <2> QED BY <1>3, <2>1, <2>2, <2>3
<1>6. Answers!Absent # <<>> /\ Answers!Absent[1].tag = "absent" BY DEF Answers!Absent
<1> QED BY <1>5, <1>6 DEF Answers!Missing

(* The program is killed.                                                    *)
LEMMA KillKeeps ==
  ASSUME KatTypes, RspOk, Answers!Kill PROVE KatTypes' /\ OthersKept /\ RspOk'
<1>1. PICK req \in Answers!Flushed("req"), rsp \in Answers!Flushed("rsp"),
           sig \in Answers!Flushed("sig") :
             files' = [files EXCEPT !["req"] = req, !["rsp"] = rsp, !["sig"] = sig]
  BY DEF Answers!Kill
<1>2. /\ Answers!Finish("killed") /\ locals' = Answers!Variables(0)
      /\ lines' = [f \in Answers!FileNames |-> 0] /\ UNCHANGED <<drbg, runs>>
  BY DEF Answers!Kill
<1>3. OkFile(files["req"]) /\ OkFile(files["rsp"]) /\ OkFile(files["sig"])
  BY DEF KatTypes, FilesOk, Answers!FileNames
<1>4. Left("req", req) /\ Left("rsp", rsp) /\ Left("sig", sig) BY <1>3, FlushedIs
<1>5. /\ files' = [f \in Answers!FileNames |-> files'[f]]
      /\ files'["req"] = req /\ files'["rsp"] = rsp /\ files'["sig"] = sig
      /\ \A f \in Answers!FileNames : f \notin {"req", "rsp", "sig"} => files'[f] = files[f]
  BY <1>1 DEF KatTypes, FilesOk, Answers!FileNames
<1>6. FilesOk' BY <1>4, <1>5 DEF FilesOk, Left, KatTypes
<1>7. LinesOk'
  <2>1. \A f \in Answers!FileNames : Len(files'[f]) \in Nat BY <1>6, FileIs DEF FilesOk
  <2>2. \A f \in Answers!FileNames : 0 \in 0..Len(files'[f]) BY <2>1
  <2> QED BY <1>2, <2>2 DEF LinesOk
<1>8. ControlOk' BY <1>2, FinishKeeps DEF Results
<1>9. LocalsOk' BY <1>2, VariablesAre DEF LocalsOk
<1>10. DrbgOk' BY <1>2 DEF KatTypes, DrbgOk
<1>11. KatTypes' BY <1>2, <1>6, <1>7, <1>8, <1>9, <1>10 DEF KatTypes
<1>12. OthersKept
  <2>1. Answers!Writing("req") => prog = "generate" BY DEF Answers!Writing
  <2>2. Answers!Writing("rsp") => prog = "generate" BY DEF Answers!Writing
  <2>3. Answers!Writing("sig") => prog = "check" BY DEF Answers!Writing
  <2>4. /\ "req" \notin Outputs(prog) => req = files["req"]
        /\ "rsp" \notin Outputs(prog) => rsp = files["rsp"]
        /\ "sig" \notin Outputs(prog) => sig = files["sig"]
    BY <1>3, <2>1, <2>2, <2>3, FlushedIs DEF Outputs
  <2> QED BY <1>5, <2>4 DEF OthersKept
<1>13. RspOk'
  <2>1. CASE RspLines(files["rsp"]) BY <2>1, <1>4, <1>5, LeftLines DEF RspOk
  <2>2. CASE files["rsp"] = Answers!Absent
    <3>1. Answers!Missing("rsp") BY <2>2, NotAbsent
    <3>2. rsp = files["rsp"] BY <1>3, <3>1, FlushedIs
    <3> QED BY <2>2, <3>2, <1>5 DEF RspOk
  <2> QED BY <2>1, <2>2 DEF RspOk
<1> QED BY <1>11, <1>12, <1>13

(* A program is started. *)
LEMMA StartKeeps ==
  ASSUME KatTypes, NEW p \in Programs, NEW g \in Garbage, Answers!Start(p, g) PROVE KatTypes'
<1>1. UNCHANGED <<files, lines>> /\ FilesOk' /\ LinesOk'
  BY DEF Answers!Start, KatTypes, FilesOk, LinesOk
<1>2. Programs \subseteq {"generate", "check_v1", "check", "single"} /\ Garbage \subseteq Nat
      /\ MaxRuns \in Nat
  BY AnswersAssumption DEF Answers!SizesAssumption
<1>3. p # "none" BY <1>2
<1>4. AllFit(p, Answers!Statements(p))
  <2>1. CASE p = "generate" BY <2>1, GenerateIs DEF Answers!Statements
  <2>2. CASE p = "check_v1" BY <2>2, CheckV1Is DEF Answers!Statements
  <2>3. CASE p = "check" BY <2>3, CheckIs DEF Answers!Statements
  <2>4. CASE p = "single" BY <2>4, SingleCheckIs DEF Answers!Statements
  <2> QED BY <1>2, <2>1, <2>2, <2>3, <2>4
<1>5. ret'[2] \in Results BY DEF Answers!Start, Answers!None, Results
<1>6. ControlOk' BY <1>3, <1>4, <1>5 DEF ControlOk, Answers!Start
<1>7. g \in Nat BY <1>2
<1>8. LocalsOk' BY <1>7, VariablesAre DEF LocalsOk, Answers!Start
<1>9. DrbgOk' BY DEF DrbgOk, Answers!Start
<1>10. (runs \in 0..MaxRuns)' BY <1>2 DEF Answers!Start, KatTypes
<1> QED BY <1>1, <1>6, <1>8, <1>9, <1>10 DEF KatTypes

(* Message and secret key of record r were copied, and public key of j. *)
CopiedFrom(r, j) ==
  /\ files["msg"] = <<Answers!Expected(r)[3], Answers!Expected(r)[4], Answers!Expected(r)[7]>>
  /\ files["sk"] = <<Answers!Expected(r)[6]>> /\ files["pk"] = <<Answers!Expected(j)[5]>>

(* The files a check reads are not there yet, or were copied. *)
CopiedOk ==
  \/ \A f \in {"msg", "sk", "pk"} : files[f] = Answers!Absent
  \/ \E r, j \in 1..Records : CopiedFrom(r, j)

(* Any line of a record but its last is found by its tag, and is whole.      *)
LEMMA RecordLine ==
  ASSUME RspLines(files["rsp"]), Len(files["rsp"]) = 8 * Records + 1,
         NEW r \in 1..Records, NEW c \in 1..7
  PROVE  files["rsp"][CHOOSE k \in (8 * r - 6)..(8 * r + 1) : files["rsp"][k].tag = Tags[c]]
           = Answers!Expected(r)[c]
<1>1. Records \in Nat \ {0} BY AnswersAssumption DEF Answers!SizesAssumption
<1>2. PICK s : s = files["rsp"] OBVIOUS
<1>3. \A e \in 1..8 : s[8 * r - 7 + e].tag = Tags[e]
  <2> TAKE e \in 1..8
  <2>1. 8 * r - 7 + e <= Len(files["rsp"]) BY <1>1
  <2>2. \/ files["rsp"][8 * r - 7 + e] = Answers!Expected(r)[e]
        \/ /\ 8 * r - 7 + e = Len(files["rsp"])
           /\ files["rsp"][Len(files["rsp"])].tag = Answers!Expected(r)[e].tag
    BY <2>1 DEF RspLines
  <2>3. files["rsp"][8 * r - 7 + e].tag = Answers!Expected(r)[e].tag BY <2>2
  <2> QED BY <1>2, <2>3, ExpectedTags
<1>4. s[8 * r - 7 + c] = Answers!Expected(r)[c]
  <2>1. /\ 8 * r - 7 + c <= Len(files["rsp"]) /\ 8 * r - 7 + c # Len(files["rsp"])
        /\ c \in 1..8
    BY <1>1
  <2>2. files["rsp"][8 * r - 7 + c] = Answers!Expected(r)[c] BY <2>1 DEF RspLines
  <2> QED BY <1>2, <2>2
<1>5. \A e \in 1..8 : Tags[e] = Tags[c] => e = c
  <2>1. \A e \in 1..8 : e \in {1, 2, 3, 4, 5, 6, 7, 8} OBVIOUS
  <2>2. /\ Tags[1] = "count" /\ Tags[2] = "seed" /\ Tags[3] = "mlen" /\ Tags[4] = "msg"
        /\ Tags[5] = "pk" /\ Tags[6] = "sk" /\ Tags[7] = "smlen" /\ Tags[8] = "sm"
    BY DEF Tags
  <2>3. c \in {1, 2, 3, 4, 5, 6, 7} OBVIOUS
  <2> QED BY ONLY <2>1, <2>2, <2>3
<1>6. \A k \in (8 * r - 6)..(8 * r + 1) : s[k].tag = Tags[c] <=> k = 8 * r - 7 + c
  <2> TAKE k \in (8 * r - 6)..(8 * r + 1)
  <2>1. PICK e : e = k - 8 * r + 7 OBVIOUS
  <2>2. e \in 1..8 /\ k = 8 * r - 7 + e BY <1>1, <2>1
  <2>3. s[k].tag = Tags[e] BY <1>3, <2>2
  <2>4. s[k].tag = Tags[c] <=> e = c BY <1>5, <2>2, <2>3
  <2>5. e = c <=> k = 8 * r - 7 + c BY <2>2, <1>1
  <2> QED BY <2>4, <2>5
<1>7. 8 * r - 7 + c \in (8 * r - 6)..(8 * r + 1) BY <1>1
<1>8. (CHOOSE k \in (8 * r - 6)..(8 * r + 1) : s[k].tag = Tags[c]) = 8 * r - 7 + c
  BY ONLY <1>6, <1>7
<1> QED BY <1>2, <1>4, <1>8

(* Lines of a record are copied. *)
LEMMA CopyKeeps ==
  ASSUME KatTypes, RspOk, CopiedOk, NEW r \in 1..Records, NEW u \in 1..Records,
         Answers!Copy(r, u)
  PROVE  KatTypes' /\ RspOk' /\ CopiedOk'
<1>1. Records \in Nat \ {0} BY AnswersAssumption DEF Answers!SizesAssumption
<1>2. Len(files["rsp"]) = 8 * Records + 1 BY DEF Answers!Copy
<1>3. RspLines(files["rsp"])
  <2>1. 8 * Records + 1 # 1 BY <1>1
  <2>2. Len(Answers!Absent) = 1 BY NotAbsent
  <2>3. files["rsp"] # Answers!Absent BY <1>2, <2>1, <2>2
  <2> QED BY <2>3 DEF RspOk
<1> DEFINE of(t, q) == files["rsp"][CHOOSE k \in (8 * q - 6)..(8 * q + 1) : files["rsp"][k].tag = t]
<1>4. files' = [files EXCEPT !["msg"] = <<of("mlen", r), of("msg", r), of("smlen", r)>>,
                             !["sk"] = <<of("sk", r)>>, !["pk"] = <<of("pk", u)>>]
  BY DEF Answers!Copy
<1>5. /\ of("mlen", r) = Answers!Expected(r)[3] /\ of("msg", r) = Answers!Expected(r)[4]
      /\ of("smlen", r) = Answers!Expected(r)[7] /\ of("sk", r) = Answers!Expected(r)[6]
      /\ of("pk", u) = Answers!Expected(u)[5]
  <2>1. \A q \in 1..Records, c \in 1..7 : of(Tags[c], q) = Answers!Expected(q)[c]
    BY <1>2, <1>3, RecordLine
  <2> HIDE DEF of
  <2>2. /\ Tags[3] = "mlen" /\ Tags[4] = "msg" /\ Tags[5] = "pk" /\ Tags[6] = "sk"
        /\ Tags[7] = "smlen"
    BY DEF Tags
  <2>3. 3 \in 1..7 /\ 4 \in 1..7 /\ 5 \in 1..7 /\ 6 \in 1..7 /\ 7 \in 1..7 OBVIOUS
  <2> QED BY <2>1, <2>2, <2>3
<1> HIDE DEF of
<1>6. /\ files' = [f \in Answers!FileNames |-> files'[f]]
      /\ CopiedFrom(r, u)'
      /\ \A f \in Answers!FileNames : f \notin {"msg", "sk", "pk"} => files'[f] = files[f]
  BY <1>4, <1>5 DEF KatTypes, FilesOk, Answers!FileNames, CopiedFrom
<1>7. \A e \in 1..8, q \in 1..Records : OkLine(Answers!Expected(q)[e])
  <2> TAKE e \in 1..8, q \in 1..Records
  <2>1. \A t, n : \A z \in Nat : n \in Nat => OkLine(Answers!Line(t, n, z))
    BY DEF OkLine, Answers!Line
  <2>2. \A t, n : \A z \in Nat : t \notin Answers!Numbers => OkLine(Answers!Line(t, n, z))
    BY DEF OkLine, Answers!Line
  <2>3. Answers!KeyLen \in Nat /\ SigBytes + 33 * q \in Nat /\ 33 * q \in Nat /\ q - 1 \in Nat
    BY <1>1, AnswersAssumption DEF Answers!SizesAssumption, Answers!KeyLen
  <2>5. PICK w : w = Answers!Expected(q) OBVIOUS
  <2>6. /\ OkLine(w[1]) /\ OkLine(w[2]) /\ OkLine(w[3]) /\ OkLine(w[4])
        /\ OkLine(w[5]) /\ OkLine(w[6]) /\ OkLine(w[7]) /\ OkLine(w[8])
    <3>1. /\ w[1] = Answers!Line("count", q - 1, Answers!KeyLen)
          /\ w[2] = Answers!Line("seed", SeedOf(q), Answers!KeyLen)
          /\ w[3] = Answers!Line("mlen", 33 * q, Answers!KeyLen)
          /\ w[4] = Answers!Line("msg", MsgOf(q), 33 * q)
          /\ w[5] = Answers!Line("pk", <<"pk", KeyOf(q)>>, Answers!KeyLen)
          /\ w[6] = Answers!Line("sk", <<"sk", KeyOf(q)>>, Answers!KeyLen)
          /\ w[7] = Answers!Line("smlen", SigBytes + 33 * q, Answers!KeyLen)
          /\ w[8] = Answers!Line("sm", SignedOf(q), SigBytes + 33 * q)
      BY <2>5, ExpectedIs
    <3>2. /\ "seed" \notin Answers!Numbers /\ "msg" \notin Answers!Numbers
          /\ "pk" \notin Answers!Numbers /\ "sk" \notin Answers!Numbers
          /\ "sm" \notin Answers!Numbers
      BY DEF Answers!Numbers
    <3>3. OkLine(w[1]) /\ OkLine(w[3]) /\ OkLine(w[7]) BY ONLY <2>1, <2>3, <3>1
    <3>4. OkLine(w[2]) /\ OkLine(w[4]) /\ OkLine(w[5]) /\ OkLine(w[6]) /\ OkLine(w[8])
      BY ONLY <2>2, <2>3, <3>1, <3>2
    <3> QED BY <3>3, <3>4
  <2>7. e \in {1, 2, 3, 4, 5, 6, 7, 8} OBVIOUS
  <2> QED BY ONLY <2>5, <2>6, <2>7
<1>8. /\ OkFile(files'["msg"]) /\ Len(files'["msg"]) = 3
      /\ OkFile(files'["sk"]) /\ Len(files'["sk"]) = 1
      /\ OkFile(files'["pk"]) /\ Len(files'["pk"]) = 1
  <2>1. \A z : OkLine(z) => OkFile(<<z>>) /\ Len(<<z>>) = 1
    <3> TAKE z
    <3> HAVE OkLine(z)
    <3>1. PICK Z : Z = {z} OBVIOUS
    <3>2. <<z>> \in Seq(Z) /\ \A y \in Z : OkLine(y) BY <3>1
    <3>3. OkFile(<<z>>) BY ONLY <3>2 DEF OkFile
    <3> QED BY <3>3
  <2>2. \A a, b, c : OkLine(a) /\ OkLine(b) /\ OkLine(c)
                       => OkFile(<<a, b, c>>) /\ Len(<<a, b, c>>) = 3
    <3> TAKE a, b, c
    <3> HAVE OkLine(a) /\ OkLine(b) /\ OkLine(c)
    <3>1. PICK Z : Z = {a, b, c} OBVIOUS
    <3>2. <<a, b, c>> \in Seq(Z) /\ \A y \in Z : OkLine(y) BY <3>1
    <3>3. OkFile(<<a, b, c>>) BY ONLY <3>2 DEF OkFile
    <3> QED BY <3>3
  <2>3. 3 \in 1..8 /\ 4 \in 1..8 /\ 5 \in 1..8 /\ 6 \in 1..8 /\ 7 \in 1..8 OBVIOUS
  <2>4. /\ OkLine(Answers!Expected(r)[3]) /\ OkLine(Answers!Expected(r)[4])
        /\ OkLine(Answers!Expected(r)[7]) /\ OkLine(Answers!Expected(r)[6])
        /\ OkLine(Answers!Expected(u)[5])
    BY <1>7, <2>3
  <2> QED BY <1>6, <2>1, <2>2, <2>4 DEF CopiedFrom
<1>9. FilesOk' BY <1>6, <1>8 DEF FilesOk, KatTypes
<1>10. /\ Len(files["msg"]) \in {1, 3} /\ Len(files["sk"]) = 1 /\ Len(files["pk"]) = 1
  <2>1. \A z : Len(<<z>>) = 1 OBVIOUS
  <2>2. \A a, b, c : Len(<<a, b, c>>) = 3 OBVIOUS
  <2> QED BY <2>1, <2>2, NotAbsent DEF CopiedOk, CopiedFrom
<1>11. lines' = lines /\ UNCHANGED <<prog, todo, locals, drbg, runs>> /\ ret' = Answers!None
  BY DEF Answers!Copy
<1>12. LinesOk'
  <2>1. \A f \in Answers!FileNames : lines[f] \in 0..Len(files[f]) BY DEF KatTypes, LinesOk
  <2>2. lines["msg"] \in 0..3 /\ lines["sk"] \in 0..1 /\ lines["pk"] \in 0..1
    <3>1. "msg" \in Answers!FileNames /\ "sk" \in Answers!FileNames /\ "pk" \in Answers!FileNames
      BY DEF Answers!FileNames
    <3>2. /\ lines["msg"] \in 0..Len(files["msg"]) /\ lines["sk"] \in 0..Len(files["sk"])
          /\ lines["pk"] \in 0..Len(files["pk"])
      BY ONLY <2>1, <3>1
    <3>3. PICK n : n = Len(files["msg"]) OBVIOUS
    <3>4. n \in {1, 3} /\ lines["msg"] \in 0..n BY <1>10, <3>2, <3>3
    <3>5. lines["msg"] \in 0..3 BY ONLY <3>4
    <3>6. lines["sk"] \in 0..1 /\ lines["pk"] \in 0..1 BY <1>10, <3>2
    <3> QED BY <3>5, <3>6
  <2>3. \A f \in Answers!FileNames : lines[f] \in 0..Len(files'[f])
    BY <2>1, <2>2, <1>6, <1>8
  <2> QED BY <2>3, <1>11 DEF KatTypes, LinesOk
<1>13. ControlOk'
  <2>1. ret'[2] \in Results BY <1>11 DEF Answers!None, Results
  <2> QED BY <1>11, <2>1 DEF KatTypes, ControlOk
<1>14. LocalsOk' /\ DrbgOk' /\ (runs \in 0..MaxRuns)' BY <1>11 DEF KatTypes, LocalsOk, DrbgOk
<1>15. RspOk' BY <1>6 DEF RspOk, Answers!FileNames
<1> QED BY <1>6, <1>9, <1>12, <1>13, <1>14, <1>15 DEF KatTypes, CopiedOk

-----------------------------------------------------------------------------
\* What the statements do.

(* The statement at hand is the one that is executed.                        *)
LEMMA Executed ==
  ASSUME Answers!Execute, todo # <<>>
  PROVE  /\ Answers!Stmt.op = "open" => Answers!OpenFile
         /\ Answers!Stmt.op = "close" => Answers!CloseFile
         /\ Answers!Stmt.op = "number" => Answers!ReadNumber
         /\ Answers!Stmt.op = "hex" => Answers!ReadHex
         /\ Answers!Stmt.op = "put" => Answers!PutLine
         /\ Answers!Stmt.op = "blank" => Answers!PutBlank
         /\ Answers!Stmt.op = "stray" => Answers!StrayLine
         /\ Answers!Stmt.op = "set" => Answers!SetVar
         /\ Answers!Stmt.op = "init" => Answers!RandomBytesInit
         /\ Answers!Stmt.op = "draw" => Answers!DrawBytes
         /\ Answers!Stmt.op = "keypair" => Answers!Keypair
         /\ Answers!Stmt.op = "sign" => Answers!Sign
         /\ Answers!Stmt.op = "verify" => Answers!VerifySig
         /\ Answers!Stmt.op = "same" => Answers!Compare
         /\ Answers!Stmt.op = "again" => Answers!Again
<1>1. /\ Answers!OpenFile => Answers!Stmt.op = "open"
      /\ Answers!CloseFile => Answers!Stmt.op = "close"
      /\ Answers!ReadNumber => Answers!Stmt.op = "number"
      /\ Answers!ReadHex => Answers!Stmt.op = "hex"
      /\ Answers!PutLine => Answers!Stmt.op = "put"
      /\ Answers!PutBlank => Answers!Stmt.op = "blank"
      /\ Answers!StrayLine => Answers!Stmt.op = "stray"
      /\ Answers!SetVar => Answers!Stmt.op = "set"
      /\ Answers!RandomBytesInit => Answers!Stmt.op = "init"
      /\ Answers!DrawBytes => Answers!Stmt.op = "draw"
      /\ Answers!Keypair => Answers!Stmt.op = "keypair"
      /\ Answers!Sign => Answers!Stmt.op = "sign"
      /\ Answers!VerifySig => Answers!Stmt.op = "verify"
      /\ Answers!Compare => Answers!Stmt.op = "same"
      /\ Answers!Again => Answers!Stmt.op = "again"
  BY DEF Answers!OpenFile, Answers!CloseFile, Answers!ReadNumber, Answers!ReadHex,
     Answers!PutLine, Answers!PutBlank, Answers!StrayLine, Answers!SetVar,
     Answers!RandomBytesInit, Answers!DrawBytes, Answers!Keypair, Answers!Sign,
     Answers!VerifySig, Answers!Compare, Answers!Again, Answers!At
<1>2. ~Answers!Return BY DEF Answers!Return
<1> QED BY <1>1, <1>2 DEF Answers!Execute

(* A file is opened for reading. *)
LEMMA OpenReads ==
  ASSUME KatTypes, Answers!Execute, todo # <<>>, NEW f \in Answers!FileNames,
         Answers!Stmt = Answers!Open(f, "r")
  PROVE  /\ UNCHANGED <<files, locals, drbg>> /\ lines' = [lines EXCEPT ![f] = 0] /\ lines'[f] = 0
         /\ IF Answers!Missing(f) THEN Answers!Finish("file") ELSE Answers!Advance
<1>1. Answers!Stmt.op = "open" /\ Answers!Stmt.file = f /\ Answers!Stmt.mode = "r"
  BY DEF Answers!Open
<1>2. Answers!OpenFile BY <1>1, Executed
<1>3. lines' = [lines EXCEPT ![f] = 0] BY <1>1, <1>2 DEF Answers!OpenFile
<1>4. lines'[f] = 0 BY <1>3 DEF KatTypes, LinesOk
<1> QED BY <1>1, <1>2, <1>3, <1>4 DEF Answers!OpenFile

(* A file is opened for writing. *)
LEMMA OpenWrites ==
  ASSUME KatTypes, Answers!Execute, todo # <<>>, NEW f \in Answers!FileNames,
         Answers!Stmt = Answers!Open(f, "w")
  PROVE  /\ UNCHANGED <<locals, drbg>> /\ Answers!Advance
         /\ files'[f] = <<>> /\ \A g \in Answers!FileNames : g # f => files'[g] = files[g]
         /\ \A g \in Answers!FileNames : g # f => lines'[g] = lines[g]
<1>1. Answers!Stmt.op = "open" /\ Answers!Stmt.file = f /\ Answers!Stmt.mode = "w"
  BY DEF Answers!Open
<1>2. Answers!OpenFile BY <1>1, Executed
<1>3. files' = [files EXCEPT ![f] = <<>>] /\ lines' = [lines EXCEPT ![f] = 0]
  BY <1>1, <1>2 DEF Answers!OpenFile
<1>4. files'[f] = <<>> /\ \A g \in Answers!FileNames : g # f => files'[g] = files[g]
  BY <1>3 DEF KatTypes, FilesOk
<1>5. \A g \in Answers!FileNames : g # f => lines'[g] = lines[g] BY <1>3 DEF KatTypes, LinesOk
<1> QED BY <1>1, <1>2, <1>4, <1>5 DEF Answers!OpenFile

(* A file is closed. *)
LEMMA Closes ==
  ASSUME Answers!Execute, todo # <<>>, NEW f, Answers!Stmt = Answers!Close(f)
  PROVE  UNCHANGED <<files, lines, locals, drbg>> /\ Answers!Advance
<1>1. Answers!Stmt.op = "close" BY DEF Answers!Close
<1> QED BY <1>1, Executed DEF Answers!CloseFile

(* A number is looked for: the reader is behind its line now. *)
LEMMA NumberReads ==
  ASSUME KatTypes, Answers!Execute, todo # <<>>,
         NEW f \in Answers!FileNames, NEW t, NEW w \in Locals, NEW e,
         Answers!Stmt = Answers!Number(f, t, w, e),
         NEW k, k = Answers!Found(f, t), k # 0
  PROVE  /\ UNCHANGED <<files, drbg>> /\ Answers!Advance /\ lines'[f] = k
         /\ \A y \in Locals : y # w => locals'[y] = locals[y]
         /\ files[f][k].len # 1 => locals'[w] = files[f][k].val
<1>1. /\ Answers!Stmt.op = "number" /\ Answers!Stmt.file = f /\ Answers!Stmt.tag = t
      /\ Answers!Stmt.var = w
  BY DEF Answers!Number
<1>2. Answers!ReadNumber BY <1>1, Executed
<1>3. /\ UNCHANGED <<files, drbg>> /\ Answers!MoveTo(f, k) /\ Answers!Advance
      /\ locals' = IF Answers!Digits(files[f][k]) THEN [locals EXCEPT ![w] = files[f][k].val]
                   ELSE locals
  BY <1>1, <1>2 DEF Answers!ReadNumber
<1>4. lines'[f] = k BY <1>3 DEF Answers!MoveTo, KatTypes, LinesOk
<1>5. \A y \in Locals : y # w => locals'[y] = locals[y] BY <1>3 DEF KatTypes, LocalsOk
<1>6. files[f][k].len # 1 => locals'[w] = files[f][k].val
  BY <1>3 DEF KatTypes, LocalsOk, Answers!Digits
<1> QED BY <1>3, <1>4, <1>5, <1>6

(* There is no such number: the reader is at the end of the file. *)
LEMMA NumberMisses ==
  ASSUME KatTypes, Answers!Execute, todo # <<>>,
         NEW f \in Answers!FileNames, NEW t, NEW w, NEW e \in {"go", "data", "done"},
         Answers!Stmt = Answers!Number(f, t, w, e), Answers!Found(f, t) = 0
  PROVE  /\ UNCHANGED <<files, locals, drbg>> /\ lines'[f] = Len(files[f])
         /\ e = "go" => Answers!Advance
         /\ e = "data" => Answers!Finish("data")
         /\ e = "done" => Answers!Finish("success")
<1>1. /\ Answers!Stmt.op = "number" /\ Answers!Stmt.file = f /\ Answers!Stmt.tag = t
      /\ Answers!Stmt.fail = e
  BY DEF Answers!Number
<1>2. Answers!ReadNumber BY <1>1, Executed
<1>3. Answers!MoveTo(f, 0) BY <1>1, <1>2 DEF Answers!ReadNumber
<1>4. lines'[f] = Len(files[f]) BY <1>3 DEF Answers!MoveTo, KatTypes, LinesOk
<1>5. e = "go" => locals' = locals /\ Answers!Advance BY <1>1, <1>2 DEF Answers!ReadNumber
<1>6. e = "data" => locals' = locals /\ Answers!Finish("data") BY <1>1, <1>2 DEF Answers!ReadNumber
<1>7. e = "done" => locals' = locals /\ Answers!Finish("success")
  BY <1>1, <1>2 DEF Answers!ReadNumber
<1> QED BY <1>2, <1>4, <1>5, <1>6, <1>7 DEF Answers!ReadNumber

(* How much ReadHex is asked for. *)
BytesOf(n) == IF n = "none" THEN Answers!KeyLen ELSE locals[n]

(* A value is read. *)
LEMMA HexReads ==
  ASSUME KatTypes, Answers!Execute, todo # <<>>,
         NEW f \in Answers!FileNames, NEW t, NEW w \in Locals, NEW n,
         Answers!Stmt = Answers!Hex(f, t, w, n), BytesOf(n) # 0,
         NEW k, k = Answers!Found(f, t), k # 0
  PROVE  /\ UNCHANGED <<files, drbg>> /\ Answers!Advance /\ lines'[f] = k
         /\ \A y \in Locals : y # w => locals'[y] = locals[y]
         /\ locals'[w] = IF files[f][k].len = BytesOf(n) THEN files[f][k].val ELSE <<"part">>
<1>1. /\ Answers!Stmt.op = "hex" /\ Answers!Stmt.file = f /\ Answers!Stmt.tag = t
      /\ Answers!Stmt.var = w /\ Answers!Stmt.len = n
  BY DEF Answers!Hex
<1>2. Answers!ReadHex BY <1>1, Executed
<1>3. ~Answers!NothingToRead(n) BY DEF BytesOf, Answers!NothingToRead
<1>4. /\ UNCHANGED <<files, drbg>> /\ Answers!MoveTo(f, k) /\ Answers!Advance
      /\ locals' = [locals EXCEPT ![w] = IF files[f][k].len = BytesOf(n) THEN files[f][k].val
                                         ELSE <<"part">>]
  BY <1>1, <1>2, <1>3 DEF Answers!ReadHex, BytesOf
<1>5. lines'[f] = k BY <1>4 DEF Answers!MoveTo, KatTypes, LinesOk
<1>6. \A y \in Locals : y # w => locals'[y] = locals[y] BY <1>4 DEF KatTypes, LocalsOk
<1>7. locals'[w] = IF files[f][k].len = BytesOf(n) THEN files[f][k].val ELSE <<"part">>
  BY <1>4 DEF KatTypes, LocalsOk
<1> QED BY <1>4, <1>5, <1>6, <1>7

(* Nothing is to be read, or there is no such value. *)
LEMMA HexMisses ==
  ASSUME KatTypes, Answers!Execute, todo # <<>>,
         NEW f \in Answers!FileNames, NEW t, NEW w \in Locals, NEW n,
         Answers!Stmt = Answers!Hex(f, t, w, n), Answers!Found(f, t) = 0
  PROVE  /\ UNCHANGED <<files, drbg>>
         /\ \A y \in Locals : y # w => locals'[y] = locals[y]
         /\ \/ Answers!Advance /\ lines' = lines /\ BytesOf(n) = 0
            \/ Answers!Finish("data")
<1>1. /\ Answers!Stmt.op = "hex" /\ Answers!Stmt.file = f /\ Answers!Stmt.tag = t
      /\ Answers!Stmt.var = w /\ Answers!Stmt.len = n
  BY DEF Answers!Hex
<1>2. Answers!ReadHex BY <1>1, Executed
<1>3. Answers!NothingToRead(n) => BytesOf(n) = 0 BY DEF BytesOf, Answers!NothingToRead
<1>4. /\ UNCHANGED <<files, drbg>>
      /\ \/ /\ Answers!Advance /\ lines' = lines /\ BytesOf(n) = 0
            /\ locals' = [locals EXCEPT ![w] = <<"empty">>]
         \/ Answers!Finish("data") /\ locals' = locals
  BY <1>1, <1>2, <1>3 DEF Answers!ReadHex
<1>5. \A y \in Locals : y # w => locals'[y] = locals[y] BY <1>4 DEF KatTypes, LocalsOk
<1> QED BY <1>4, <1>5

(* A line is written. *)
LEMMA Writes ==
  ASSUME KatTypes, Answers!Execute, todo # <<>>, NEW f \in Answers!FileNames, NEW y,
         \/ \E t, w, n : /\ Answers!Stmt = Answers!Put(f, t, w, n)
                         /\ y = Answers!Line(t, locals[w], BytesOf(n))
         \/ Answers!Stmt = Answers!Blank(f) /\ y = BlankLine
  PROVE  /\ UNCHANGED <<lines, locals, drbg>> /\ Answers!Advance
         /\ files'[f] = Append(files[f], y)
         /\ \A g \in Answers!FileNames : g # f => files'[g] = files[g]
<1>1. /\ UNCHANGED <<lines, locals, drbg>> /\ Answers!Advance
      /\ files' = [files EXCEPT ![f] = Append(@, y)]
  <2>1. ASSUME NEW t, NEW w, NEW n, Answers!Stmt = Answers!Put(f, t, w, n),
               y = Answers!Line(t, locals[w], BytesOf(n))
        PROVE  <1>1
    <3>1. /\ Answers!Stmt.op = "put" /\ Answers!Stmt.file = f /\ Answers!Stmt.tag = t
          /\ Answers!Stmt.var = w /\ Answers!Stmt.len = n
      BY <2>1 DEF Answers!Put
    <3>2. Answers!PutLine BY <3>1, Executed
    <3> QED BY <2>1, <3>1, <3>2 DEF Answers!PutLine, BytesOf
  <2>2. ASSUME Answers!Stmt = Answers!Blank(f), y = BlankLine PROVE <1>1
    <3>1. Answers!Stmt.op = "blank" /\ Answers!Stmt.file = f BY <2>2 DEF Answers!Blank
    <3>2. Answers!PutBlank BY <3>1, Executed
    <3> QED BY <2>2, <3>1, <3>2 DEF Answers!PutBlank, BlankLine
  <2> QED BY <2>1, <2>2
<1> QED BY <1>1 DEF KatTypes, FilesOk

(* A line is written to a stream that was closed. *)
LEMMA Strays ==
  ASSUME KatTypes, Answers!Execute, todo # <<>>, NEW f \in Answers!FileNames, NEW t, NEW w,
         Answers!Stmt = Answers!Stray(f, t, w)
  PROVE  /\ UNCHANGED <<lines, locals, drbg>> /\ Answers!Advance
         /\ \A g \in Answers!FileNames : g # f => files'[g] = files[g]
<1>1. Answers!Stmt.op = "stray" /\ Answers!Stmt.file = f BY DEF Answers!Stray
<1>2. Answers!StrayLine BY <1>1, Executed
<1>3. \A g \in Answers!FileNames : g # f => files'[g] = files[g]
  BY <1>1, <1>2 DEF Answers!StrayLine, KatTypes, FilesOk
<1> QED BY <1>2, <1>3 DEF Answers!StrayLine

(* A variable is assigned. *)
LEMMA Sets ==
  ASSUME KatTypes, Answers!Execute, todo # <<>>, NEW w \in Locals, NEW u,
         Answers!Stmt = Answers!Set(w, u)
  PROVE  /\ UNCHANGED <<files, lines, drbg>> /\ Answers!Advance /\ locals'[w] = u
         /\ \A y \in Locals : y # w => locals'[y] = locals[y]
<1>1. Answers!Stmt.op = "set" /\ Answers!Stmt.var = w /\ Answers!Stmt.val = u
  BY DEF Answers!Set
<1>2. Answers!SetVar BY <1>1, Executed
<1>3. locals' = [locals EXCEPT ![w] = u] BY <1>1, <1>2 DEF Answers!SetVar
<1>4. locals'[w] = u /\ \A y \in Locals : y # w => locals'[y] = locals[y]
  BY <1>3 DEF KatTypes, LocalsOk
<1> QED BY <1>2, <1>4 DEF Answers!SetVar

(* The generator is seeded. *)
LEMMA SeedsAgain ==
  ASSUME Answers!Execute, todo # <<>>, NEW w, Answers!Stmt = Answers!Init256(w)
  PROVE  /\ UNCHANGED <<files, lines, locals>> /\ Answers!Advance
         /\ drbg' = [seed |-> locals[w], draws |-> 0]
<1>1. Answers!Stmt.op = "init" /\ Answers!Stmt.var = w BY DEF Answers!Init256
<1> QED BY <1>1, Executed DEF Answers!RandomBytesInit

(* It is drawn from. *)
LEMMA Draws ==
  ASSUME KatTypes, Answers!Execute, todo # <<>>, NEW w \in Locals,
         Answers!Stmt = Answers!Draw(w)
  PROVE  /\ UNCHANGED <<files, lines>> /\ Answers!Advance
         /\ drbg' = [seed |-> drbg.seed, draws |-> drbg.draws + 1]
         /\ locals'[w] = <<"rand", drbg.seed, drbg.draws>>
         /\ \A y \in Locals : y # w => locals'[y] = locals[y]
<1>1. Answers!Stmt.op = "draw" /\ Answers!Stmt.var = w BY DEF Answers!Draw
<1>2. Answers!DrawBytes BY <1>1, Executed
<1>3. locals' = [locals EXCEPT ![w] = Answers!Random] /\ drbg' = Answers!Drawn
  BY <1>1, <1>2 DEF Answers!DrawBytes
<1>4. locals'[w] = Answers!Random /\ \A y \in Locals : y # w => locals'[y] = locals[y]
  BY <1>3 DEF KatTypes, LocalsOk
<1>5. drbg' = [seed |-> drbg.seed, draws |-> drbg.draws + 1]
  BY <1>3 DEF Answers!Drawn, KatTypes, DrbgOk
<1> QED BY <1>2, <1>4, <1>5 DEF Answers!DrawBytes, Answers!Random

(* Keys are made. *)
LEMMA KeysMade ==
  ASSUME KatTypes, Answers!Execute, todo # <<>>, Answers!Stmt = Answers!Do("keypair")
  PROVE  /\ UNCHANGED <<files, lines>> /\ Answers!Advance
         /\ drbg' = [seed |-> drbg.seed, draws |-> drbg.draws + 1]
         /\ locals'["pk"] = <<"pk", <<"rand", drbg.seed, drbg.draws>>>>
         /\ locals'["sk"] = <<"sk", <<"rand", drbg.seed, drbg.draws>>>>
         /\ \A y \in Locals : y \notin {"pk", "sk"} => locals'[y] = locals[y]
<1>1. Answers!Stmt.op = "keypair" BY DEF Answers!Do
<1>2. Answers!Keypair BY <1>1, Executed
<1>3. /\ locals' = [locals EXCEPT !["pk"] = <<"pk", Answers!Random>>,
                                  !["sk"] = <<"sk", Answers!Random>>]
      /\ drbg' = Answers!Drawn
  BY <1>2 DEF Answers!Keypair
<1>4. /\ locals'["pk"] = <<"pk", Answers!Random>> /\ locals'["sk"] = <<"sk", Answers!Random>>
      /\ \A y \in Locals : y \notin {"pk", "sk"} => locals'[y] = locals[y]
  BY <1>3 DEF KatTypes, LocalsOk, Locals, Values
<1>5. drbg' = [seed |-> drbg.seed, draws |-> drbg.draws + 1]
  BY <1>3 DEF Answers!Drawn, KatTypes, DrbgOk
<1> QED BY <1>2, <1>4, <1>5 DEF Answers!Keypair, Answers!Random

(* A message is signed. *)
LEMMA Signs ==
  ASSUME KatTypes, Answers!Execute, todo # <<>>, Answers!Stmt = Answers!Do("sign")
  PROVE  /\ UNCHANGED <<files, lines>> /\ Answers!Advance
         /\ drbg' = [seed |-> drbg.seed, draws |-> drbg.draws + 1]
         /\ locals'["sm"] = <<"sm", locals["sk"], locals["m"],
                              <<"rand", drbg.seed, drbg.draws>>, locals["mlen"]>>
         /\ locals'["smlen"] = SigBytes + locals["mlen"]
         /\ \A y \in Locals : y \notin {"sm", "smlen"} => locals'[y] = locals[y]
<1>1. Answers!Stmt.op = "sign" BY DEF Answers!Do
<1>2. Answers!Sign BY <1>1, Executed
<1> DEFINE s == <<"sm", locals["sk"], locals["m"], Answers!Random, locals["mlen"]>>
<1>3. /\ locals' = [locals EXCEPT !["sm"] = s, !["smlen"] = SigBytes + locals["mlen"]]
      /\ drbg' = Answers!Drawn
  BY <1>2 DEF Answers!Sign
<1> HIDE DEF s
<1>4. /\ locals'["sm"] = s /\ locals'["smlen"] = SigBytes + locals["mlen"]
      /\ \A y \in Locals : y \notin {"sm", "smlen"} => locals'[y] = locals[y]
  BY <1>3 DEF KatTypes, LocalsOk, Locals, Values, Numerals
<1>5. drbg' = [seed |-> drbg.seed, draws |-> drbg.draws + 1]
  BY <1>3 DEF Answers!Drawn, KatTypes, DrbgOk
<1> QED BY <1>2, <1>4, <1>5 DEF Answers!Sign, Answers!Random, s

(* A signature is opened. *)
LEMMA Verifies ==
  ASSUME KatTypes, Answers!Execute, todo # <<>>,
         NEW s \in Locals, NEW w \in Locals, NEW n \in Locals, w # n,
         Answers!Stmt = Answers!Verify(s, w, n)
  PROVE  /\ UNCHANGED <<files, lines, drbg>>
         /\ \A y \in Locals : y \notin {w, n} => locals'[y] = locals[y]
         /\ IF Answers!Opens(locals[s], locals["smlen"], locals["pk"])
            THEN Answers!Advance /\ locals'[w] = locals[s][3] /\ locals'[n] = locals[s][5]
            ELSE Answers!Finish("crypto")
<1>1. /\ Answers!Stmt.op = "verify" /\ Answers!Stmt.sm = s /\ Answers!Stmt.var = w
      /\ Answers!Stmt.len = n
  BY DEF Answers!Verify
<1>2. Answers!VerifySig BY <1>1, Executed
<1>3. /\ UNCHANGED <<files, lines, drbg>>
      /\ IF Answers!Opens(locals[s], locals["smlen"], locals["pk"])
         THEN /\ Answers!Advance
              /\ locals' = [locals EXCEPT ![w] = locals[s][3], ![n] = locals[s][5]]
         ELSE Answers!Finish("crypto") /\ locals' = locals
  BY <1>1, <1>2 DEF Answers!VerifySig
<1>4. CASE Answers!Opens(locals[s], locals["smlen"], locals["pk"])
  <2>1. Answers!Advance /\ locals' = [locals EXCEPT ![w] = locals[s][3], ![n] = locals[s][5]]
    BY <1>3, <1>4
  <2>2. /\ locals'[w] = locals[s][3] /\ locals'[n] = locals[s][5]
        /\ \A y \in Locals : y \notin {w, n} => locals'[y] = locals[y]
    BY <2>1 DEF KatTypes, LocalsOk
  <2> QED BY <1>3, <1>4, <2>1, <2>2
<1>5. CASE ~Answers!Opens(locals[s], locals["smlen"], locals["pk"])
  BY <1>3, <1>5
<1> QED BY <1>4, <1>5

(* What was opened is compared. *)
LEMMA Compares ==
  ASSUME Answers!Execute, todo # <<>>, NEW n, NEW w, Answers!Stmt = Answers!Same(n, w)
  PROVE  /\ UNCHANGED <<files, lines, locals, drbg>>
         /\ IF locals[n] = locals["mlen"] /\ locals[w] = locals["m"]
            THEN Answers!Advance ELSE Answers!Finish("crypto")
<1>1. Answers!Stmt.op = "same" /\ Answers!Stmt.len = n /\ Answers!Stmt.var = w
  BY DEF Answers!Same
<1>2. Answers!Compare BY <1>1, Executed
<1> QED BY <1>1, <1>2 DEF Answers!Compare

(* The loop is gone through again. *)
LEMMA Repeats ==
  ASSUME Answers!Execute, todo # <<>>, Answers!Stmt = Answers!Do("again")
  PROVE  UNCHANGED <<files, lines, locals, drbg, prog, ret>> /\ todo' = Answers!Response
<1>1. Answers!Stmt.op = "again" BY DEF Answers!Do
<1> QED BY <1>1, Executed DEF Answers!Again

(* No statement is left. *)
LEMMA NoneLeft ==
  ASSUME Answers!Execute, todo = <<>>
  PROVE  UNCHANGED <<files, lines, locals, drbg>> /\ Answers!Finish("success")
<1>1. Answers!Return
  BY DEF Answers!Execute, Answers!OpenFile, Answers!CloseFile, Answers!ReadNumber,
     Answers!ReadHex, Answers!PutLine, Answers!PutBlank, Answers!StrayLine, Answers!SetVar,
     Answers!RandomBytesInit, Answers!DrawBytes, Answers!Keypair, Answers!Sign,
     Answers!VerifySig, Answers!Compare, Answers!Again, Answers!At
<1> QED BY <1>1 DEF Answers!Return

(* The next line is the one that is looked for. *)
LEMMA NextFound ==
  ASSUME KatTypes, NEW f \in Answers!FileNames, NEW t, NEW k,
         lines[f] + 1 = k, k <= Len(files[f]), files[f][k].tag = t
  PROVE  Answers!Found(f, t) = k /\ k \in 1..Len(files[f])
<1>1. lines[f] \in Nat /\ Len(files[f]) \in Nat BY FileIs DEF KatTypes, LinesOk, FilesOk
<1>2. k \in (lines[f] + 1)..Len(files[f]) /\ k \in 1..Len(files[f]) BY <1>1
<1>3. Answers!Matches(t, files[f][k]) BY DEF Answers!Matches
<1>4. \A j \in (lines[f] + 1)..(k - 1) : ~Answers!Matches(t, files[f][j]) BY <1>1
<1> QED BY <1>1, <1>2, <1>3, <1>4, FoundAt

(* The reader is at the end of the file. *)
LEMMA EndFound ==
  ASSUME NEW f, NEW t, lines[f] \in Nat, lines[f] = Len(files[f]) PROVE Answers!Found(f, t) = 0
<1>1. \A j \in (lines[f] + 1)..Len(files[f]) : ~Answers!Matches(t, files[f][j]) OBVIOUS
<1> QED BY <1>1, FoundNone

(* A value is read, or is not. *)
LEMMA HexSomehow ==
  ASSUME KatTypes, Answers!Execute, todo # <<>>,
         NEW f \in Answers!FileNames, NEW t, NEW w \in Locals, NEW n,
         Answers!Stmt = Answers!Hex(f, t, w, n)
  PROVE  /\ UNCHANGED <<files, drbg>>
         /\ \A y \in Locals : y # w => locals'[y] = locals[y]
         /\ Answers!Advance \/ (Answers!Finish("data") /\ Answers!Found(f, t) = 0)
<1>1. /\ Answers!Stmt.op = "hex" /\ Answers!Stmt.file = f /\ Answers!Stmt.tag = t
      /\ Answers!Stmt.var = w
  BY DEF Answers!Hex
<1>2. Answers!ReadHex BY <1>1, Executed
<1>3. /\ UNCHANGED <<files, drbg>>
      /\ \/ Answers!Advance /\ \E u : locals' = [locals EXCEPT ![w] = u]
         \/ Answers!Finish("data") /\ locals' = locals /\ Answers!Found(f, t) = 0
  BY <1>1, <1>2 DEF Answers!ReadHex
<1>4. \A y \in Locals : y # w => locals'[y] = locals[y] BY <1>3 DEF KatTypes, LocalsOk
<1> QED BY <1>3, <1>4

(* A signature of a key pair is good under its public key, and only there;   *)
(* one made with a key that was cut is never good.                           *)
LEMMA OpensIs ==
  ASSUME NEW s, NEW n, NEW p, NEW k, NEW m, NEW w, NEW l, NEW a,
         s = <<"sm", k, m, w, l>>, n = SigBytes + l, p = <<"pk", a>>
  PROVE  /\ \A b : k = <<"sk", b>> => (Answers!Opens(s, n, p) <=> a = b)
         /\ k = <<"part">> => ~Answers!Opens(s, n, p)
<1>1. Len(s) = 5 /\ s[2] = k /\ s[5] = l BY Len(<<"sm", k, m, w, l>>) = 5
<1>2. Len(p) = 2 /\ p[1] = "pk" /\ p[2] = a BY Len(<<"pk", a>>) = 2
<1>3. ASSUME NEW b, k = <<"sk", b>> PROVE Answers!Opens(s, n, p) <=> a = b
  <2>1. Len(k) = 2 /\ k[1] = "sk" /\ k[2] = b BY <1>3, Len(<<"sk", b>>) = 2
  <2> QED BY <1>1, <1>2, <2>1 DEF Answers!Opens
<1>4. k = <<"part">> => Len(k) = 1 BY Len(<<"part">>) = 1
<1> QED BY <1>1, <1>3, <1>4 DEF Answers!Opens

(* What the results of programs say. *)
ResultsOk == Answers!Reproducible /\ Answers!CompleteAccepted /\ Answers!VerifiedTogether

(* The keys are a pair and were read in full, and so was the message. *)
Together ==
  /\ locals["sk"][1] = "sk" /\ locals["pk"] = <<"pk", locals["sk"][2]>>
  /\ locals["m"][1] = "rand" /\ locals["m1"] = locals["m"]

(* A program ends with a result that is right. *)
LEMMA EndsWell ==
  ASSUME NEW r, Answers!Finish(r),
         r = "success" /\ prog = "generate" => Answers!Complete',
         r = "success" /\ prog \in {"check_v1", "check"} => Together',
         r \notin {"success", "killed"} /\ prog = "check_v1" => ~Answers!Complete',
         r \notin {"success", "killed"} /\ prog = "check" => ~Answers!Copied'
  PROVE  ResultsOk' /\ prog' = "none"
<1>1. prog' = "none" /\ ret' = <<prog, r>> BY DEF Answers!Finish
<1>2. ret'[1] = prog /\ ret'[2] = r BY <1>1
<1>3. Answers!Reproducible'
  <2>1. ret' = <<"generate", "success">> => r = "success" /\ prog = "generate" BY <1>2
  <2> QED BY <2>1 DEF Answers!Reproducible
<1>4. Answers!CompleteAccepted' BY <1>2 DEF Answers!CompleteAccepted
<1>5. Answers!VerifiedTogether'
  <2>1. ret' \in {<<"check_v1", "success">>, <<"check", "success">>}
          => r = "success" /\ prog \in {"check_v1", "check"}
    BY <1>2
  <2> QED BY <2>1 DEF Answers!VerifiedTogether, Together
<1> QED BY <1>1, <1>3, <1>4, <1>5 DEF ResultsOk

(* Nothing is claimed of a program that has no result yet. *)
LEMMA Unfinished == ASSUME ret = Answers!None PROVE ResultsOk
<1>1. ret[1] = "none" /\ ret[2] = "none" BY DEF Answers!None
<1>2. ret \notin {<<"generate", "success">>, <<"check_v1", "success">>, <<"check", "success">>}
  BY <1>1
<1> QED BY <1>1, <1>2
     DEF ResultsOk, Answers!Reproducible, Answers!CompleteAccepted, Answers!VerifiedTogether

-----------------------------------------------------------------------------
\* PQCgenKAT_sign_check_v1.

(* How far the reader of the response is: at line k, or at the end. *)
ReadTo(k) == lines["rsp"] = IF k <= Len(files["rsp"]) THEN k ELSE Len(files["rsp"])

(* Message and public key of the first record have been read, and of its     *)
(* secret key what there is.                                                 *)
FirstRead ==
  /\ locals["mlen"] = 33 /\ locals["m"] = MsgOf(1) /\ locals["pk"] = <<"pk", KeyOf(1)>>
  /\ \/ locals["sk"] = <<"sk", KeyOf(1)>>
     \/ Len(files["rsp"]) <= 7 /\ locals["sk"] = <<"part">>

(* What the program knows before its l-th statement. *)
FirstAt(l) ==
  /\ todo = From(Answers!CheckV1, l)
  /\ \/ l = 1
     \/ l = 2 /\ ~Answers!Missing("rsp") /\ lines["rsp"] = 0
     \/ /\ l = 3 /\ ~Answers!Missing("rsp") /\ ReadTo(4)
        /\ Len(files["rsp"]) > 4 => locals["mlen"] = 33
     \/ /\ l = 4 /\ ~Answers!Missing("rsp") /\ ReadTo(5)
        /\ Len(files["rsp"]) > 5 => locals["mlen"] = 33 /\ locals["m"] = MsgOf(1)
     \/ /\ l = 5 /\ ~Answers!Missing("rsp") /\ Len(files["rsp"]) >= 6 /\ lines["rsp"] = 6
        /\ locals["mlen"] = 33 /\ locals["m"] = MsgOf(1)
        /\ Len(files["rsp"]) > 6 => locals["pk"] = <<"pk", KeyOf(1)>>
     \/ /\ l = 6 /\ ~Answers!Missing("rsp") /\ Len(files["rsp"]) >= 7 /\ lines["rsp"] = 7
        /\ FirstRead
     \/ /\ l = 7 /\ ~Answers!Missing("rsp") /\ FirstRead
        /\ Len(files["rsp"]) >= 9 => lines["rsp"] = 8
     \/ l = 8 /\ FirstRead
     \/ /\ l = 9 /\ FirstRead
        /\ \E w : locals["sm"] = <<"sm", locals["sk"], locals["m"], w, 33>>
        /\ locals["smlen"] = SigBytes + 33
     \/ l \in {10, 11, 12} /\ Together /\ locals["mlen1"] = locals["mlen"]

(* The first record of a response.                                           *)
LEMMA FirstLines ==
  ASSUME RspOk, ~Answers!Missing("rsp")
  PROVE  /\ Len(files["rsp"]) \in Nat
         /\ Len(files["rsp"]) >= 1 => files["rsp"][1].tag = "none"
         /\ \A c \in 1..8 : 1 + c <= Len(files["rsp"]) =>
              /\ files["rsp"][1 + c].tag = Tags[c]
              /\ \/ files["rsp"][1 + c] = Answers!Expected(1)[c]
                 \/ 1 + c = Len(files["rsp"]) /\ files["rsp"][1 + c].len = 1
<1>1. Records \in Nat \ {0} BY AnswersAssumption DEF Answers!SizesAssumption
<1>2. RspLines(files["rsp"]) BY NotAbsent DEF RspOk
<1>3. Len(files["rsp"]) \in Nat BY <1>1, <1>2 DEF RspLines
<1>4. ASSUME NEW c \in 1..8, 1 + c <= Len(files["rsp"])
      PROVE  /\ files["rsp"][1 + c].tag = Tags[c]
             /\ \/ files["rsp"][1 + c] = Answers!Expected(1)[c]
                \/ 1 + c = Len(files["rsp"]) /\ files["rsp"][1 + c].len = 1
  <2>1. 1 \in 1..Records /\ 8 * 1 - 7 + c = 1 + c BY <1>1
  <2>2. \/ files["rsp"][1 + c] = Answers!Expected(1)[c]
        \/ /\ 1 + c = Len(files["rsp"]) /\ files["rsp"][Len(files["rsp"])].len = 1
           /\ files["rsp"][Len(files["rsp"])].tag = Answers!Expected(1)[c].tag
    BY <2>1, <1>2, <1>4 DEF RspLines
  <2>3. Answers!Expected(1)[c].tag = Tags[c] BY ExpectedTags
  <2> QED BY <2>2, <2>3
<1> QED BY <1>2, <1>3, <1>4 DEF RspLines

(* Its lines, as far as they are there. *)
LEMMA FirstRecord ==
  ASSUME RspOk, ~Answers!Missing("rsp")
  PROVE  LET s == files["rsp"]
             n == Len(files["rsp"])
         IN  /\ n \in Nat
             /\ n >= 1 => s[1].tag = "none"
             /\ n >= 2 => s[2].tag = "count"
             /\ n >= 3 => s[3].tag = "seed"
             /\ n >= 4 => s[4].tag = "mlen"
             /\ n > 4 => s[4].val = 33 /\ s[4].len = Answers!KeyLen
             /\ n >= 5 => s[5].tag = "msg"
             /\ n > 5 => s[5].val = MsgOf(1) /\ s[5].len = 33
             /\ n >= 6 => s[6].tag = "pk"
             /\ n > 6 => s[6].val = <<"pk", KeyOf(1)>> /\ s[6].len = Answers!KeyLen
             /\ n >= 7 => s[7].tag = "sk"
             /\ n >= 7 => \/ s[7].val = <<"sk", KeyOf(1)>> /\ s[7].len = Answers!KeyLen
                          \/ n = 7 /\ s[7].len = 1
             /\ n >= 8 => s[8].tag = "smlen"
             /\ n >= 9 => s[9].tag = "sm"
<1>1. PICK s : s = files["rsp"] OBVIOUS
<1>2. PICK n : n = Len(files["rsp"]) OBVIOUS
<1>3. /\ n \in Nat /\ (n >= 1 => s[1].tag = "none")
      /\ \A c \in 1..8 : 1 + c <= n =>
           /\ s[1 + c].tag = Tags[c]
           /\ s[1 + c] = Answers!Expected(1)[c] \/ (1 + c = n /\ s[1 + c].len = 1)
  BY <1>1, <1>2, FirstLines
<1>4. /\ Tags[1] = "count" /\ Tags[2] = "seed" /\ Tags[3] = "mlen" /\ Tags[4] = "msg"
      /\ Tags[5] = "pk" /\ Tags[6] = "sk" /\ Tags[7] = "smlen" /\ Tags[8] = "sm"
  BY DEF Tags
<1>5. PICK e : e = Answers!Expected(1) OBVIOUS
<1>6. /\ e[3].val = 33 /\ e[3].len = Answers!KeyLen /\ e[4].val = MsgOf(1) /\ e[4].len = 33
      /\ e[5].val = <<"pk", KeyOf(1)>> /\ e[5].len = Answers!KeyLen
      /\ e[6].val = <<"sk", KeyOf(1)>> /\ e[6].len = Answers!KeyLen
  <2>1. /\ e[3] = Answers!Line("mlen", 33 * 1, Answers!KeyLen)
        /\ e[4] = Answers!Line("msg", MsgOf(1), 33 * 1)
        /\ e[5] = Answers!Line("pk", <<"pk", KeyOf(1)>>, Answers!KeyLen)
        /\ e[6] = Answers!Line("sk", <<"sk", KeyOf(1)>>, Answers!KeyLen)
    BY <1>5, ExpectedIs
  <2>2. 33 * 1 = 33 OBVIOUS
  <2> QED BY ONLY <2>1, <2>2 DEF Answers!Line
<1>7. /\ n >= 2 => s[2].tag = "count"
      /\ n >= 3 => s[3].tag = "seed"
      /\ n >= 4 => s[4].tag = "mlen" /\ (n > 4 => s[4] = e[3])
      /\ n >= 5 => s[5].tag = "msg" /\ (n > 5 => s[5] = e[4])
      /\ n >= 6 => s[6].tag = "pk" /\ (n > 6 => s[6] = e[5])
      /\ n >= 7 => s[7].tag = "sk" /\ (s[7] = e[6] \/ (n = 7 /\ s[7].len = 1))
      /\ n >= 8 => s[8].tag = "smlen"
      /\ n >= 9 => s[9].tag = "sm"
  <2>1. \A c \in 1..8 : 1 + c <= n =>
          /\ s[1 + c].tag = Tags[c]
          /\ s[1 + c] = e[c] \/ (1 + c = n /\ s[1 + c].len = 1)
    BY <1>3, <1>5
  <2>2. /\ 1 \in 1..8 /\ 2 \in 1..8 /\ 3 \in 1..8 /\ 4 \in 1..8 /\ 5 \in 1..8 /\ 6 \in 1..8
        /\ 7 \in 1..8 /\ 8 \in 1..8
    OBVIOUS
  <2>3. /\ 2 <= n => s[2].tag = "count" /\ s[2].tag = Tags[1]
        /\ 3 <= n => s[3].tag = Tags[2]
        /\ 4 <= n => s[4].tag = Tags[3] /\ (s[4] = e[3] \/ 4 = n)
        /\ 5 <= n => s[5].tag = Tags[4] /\ (s[5] = e[4] \/ 5 = n)
        /\ 6 <= n => s[6].tag = Tags[5] /\ (s[6] = e[5] \/ 6 = n)
        /\ 7 <= n => s[7].tag = Tags[6] /\ (s[7] = e[6] \/ (7 = n /\ s[7].len = 1))
        /\ 8 <= n => s[8].tag = Tags[7]
        /\ 9 <= n => s[9].tag = Tags[8]
    <3>1. /\ 1 + 1 = 2 /\ 1 + 2 = 3 /\ 1 + 3 = 4 /\ 1 + 4 = 5 /\ 1 + 5 = 6 /\ 1 + 6 = 7
          /\ 1 + 7 = 8 /\ 1 + 8 = 9
      OBVIOUS
    <3> QED BY <2>1, <2>2, <3>1, <1>4
  <2> QED BY <2>3, <1>3, <1>4
<1> QED BY <1>1, <1>2, <1>3, <1>6, <1>7

(* The l-th statement is at hand. *)
LEMMA AtFrom ==
  ASSUME NEW p, NEW q, AllFit(p, q), NEW l \in 1..Len(q), todo = From(q, l)
  PROVE  /\ todo # <<>> /\ Answers!Stmt = q[l]
         /\ Answers!Advance => todo' = From(q, l + 1) /\ prog' = prog /\ ret' = ret
<1>1. PICK S : q \in Seq(S) BY DEF AllFit
<1>2. todo # <<>> /\ Head(todo) = q[l] /\ Tail(todo) = From(q, l + 1)
  BY ONLY <1>1, FromSteps, todo = From(q, l), l \in 1..Len(q)
<1> QED BY <1>2 DEF Answers!Stmt, Answers!Advance

(* None is. *)
LEMMA AtEnd ==
  ASSUME NEW p, NEW q, AllFit(p, q), todo = From(q, Len(q) + 1) PROVE todo = <<>>
<1>1. PICK S : q \in Seq(S) BY DEF AllFit
<1> QED BY <1>1, FromEnds

(* A check of a response that was killed before it was complete may fail. *)
LEMMA TooShort ==
  ASSUME files' = files, Len(files["rsp"]) < 9 PROVE ~Answers!Complete'
<1>1. Records \in Nat \ {0} BY AnswersAssumption DEF Answers!SizesAssumption
<1>2. Answers!Complete' => Answers!Complete BY DEF Answers!Complete
<1>3. Answers!Complete => Len(files["rsp"]) = 8 * Records + 1 BY CompleteIs
<1> QED BY <1>1, <1>2, <1>3

(* A response that is not there is not complete.                             *)
LEMMA NotThere ==
  ASSUME files' = files, Answers!Missing("rsp") PROVE ~Answers!Complete'
<1>1. Records \in Nat \ {0} BY AnswersAssumption DEF Answers!SizesAssumption
<1>2. Answers!Complete' => Answers!Complete BY DEF Answers!Complete
<1>3. ASSUME Answers!Complete PROVE FALSE
  <2>1. Len(files["rsp"]) = 8 * Records + 1 /\ RspRight(files["rsp"]) BY <1>3, CompleteIs
  <2>2. Len(files["rsp"]) >= 1 BY <2>1, <1>1
  <2>3. files["rsp"][1] = BlankLine BY <2>1, <2>2 DEF RspRight
  <2>4. files["rsp"][1].tag = "none" BY <2>3 DEF BlankLine, Answers!Line
  <2> QED BY <2>4 DEF Answers!Missing
<1> QED BY <1>2, <1>3

(* The program knows what it should, or has ended with a result that is right. *)
FirstGoesOn ==
  \/ (\E l \in 1..12 : FirstAt(l)') /\ prog' = prog /\ ret' = ret
  \/ prog' = "none" /\ ResultsOk'

(* The file is opened, and mlen and the message are looked for. *)
LEMMA FirstOpens ==
  ASSUME KatTypes, RspOk, prog = "check_v1", Answers!Execute,
         NEW l \in {1, 2, 3}, FirstAt(l)
  PROVE  FirstGoesOn
<1>1. AllFit("check_v1", Answers!CheckV1) /\ Len(Answers!CheckV1) = 11 BY CheckV1Is
<1>2. todo = From(Answers!CheckV1, l) /\ l \in 1..Len(Answers!CheckV1) BY <1>1 DEF FirstAt
<1>3. /\ todo # <<>> /\ Answers!Stmt = Answers!CheckV1[l]
      /\ Answers!Advance => todo' = From(Answers!CheckV1, l + 1) /\ prog' = prog /\ ret' = ret
  BY <1>1, <1>2, AtFrom
<1>4. "rsp" \in Answers!FileNames BY DEF Answers!FileNames
<1>5. "mlen" \in Locals /\ "m" \in Locals BY DEF Locals, Values, Numerals
<1>6. CASE l = 1
  <2>1. Answers!Stmt = Answers!Open("rsp", "r") BY <1>3, <1>6, CheckV1Is
  <2>2. /\ UNCHANGED <<files, locals, drbg>> /\ lines'["rsp"] = 0
        /\ IF Answers!Missing("rsp") THEN Answers!Finish("file") ELSE Answers!Advance
    BY <1>3, <1>4, <2>1, OpenReads
  <2>3. CASE Answers!Missing("rsp")
    <3>1. Answers!Finish("file") /\ ~Answers!Complete' BY <2>2, <2>3, NotThere
    <3> QED BY <3>1, EndsWell DEF FirstGoesOn
  <2>4. CASE ~Answers!Missing("rsp")
    <3>1. todo' = From(Answers!CheckV1, 2) /\ prog' = prog /\ ret' = ret BY <1>3, <1>6, <2>2, <2>4
    <3>2. ~Answers!Missing("rsp")' BY <2>2, <2>4 DEF Answers!Missing
    <3>3. FirstAt(2)' BY <2>2, <3>1, <3>2 DEF FirstAt
    <3> QED BY <3>1, <3>3 DEF FirstGoesOn
  <2> QED BY <2>3, <2>4
<1>7. CASE l = 2
  <2>1. Answers!Stmt = Answers!Number("rsp", "mlen", "mlen", "go") BY <1>3, <1>7, CheckV1Is
  <2>2. ~Answers!Missing("rsp") /\ lines["rsp"] = 0 BY <1>7 DEF FirstAt
  <2>3. PICK n : n = Len(files["rsp"]) OBVIOUS
  <2>4. /\ n \in Nat
        /\ n >= 1 => files["rsp"][1].tag = "none"
        /\ n >= 2 => files["rsp"][2].tag = "count"
        /\ n >= 3 => files["rsp"][3].tag = "seed"
        /\ n >= 4 => files["rsp"][4].tag = "mlen"
        /\ n > 4 => files["rsp"][4].val = 33 /\ files["rsp"][4].len = Answers!KeyLen
    BY <2>2, <2>3, FirstRecord
  <2>5. \A j \in 1..3 : j <= n => ~Answers!Matches("mlen", files["rsp"][j])
    <3>1. \A j \in 1..3 : j \in {1, 2, 3} OBVIOUS
    <3>2. \A j \in 1..3 : j <= n => files["rsp"][j].tag \in {"none", "count", "seed"}
      BY <2>4, <3>1
    <3> QED BY <3>2 DEF Answers!Matches
  <2>6. CASE n >= 4
    <3>1. PICK k : k = 4 OBVIOUS
    <3>2. Answers!Matches("mlen", files["rsp"][k]) BY <3>1, <2>4, <2>6 DEF Answers!Matches
    <3>3. k \in (lines["rsp"] + 1)..Len(files["rsp"]) /\ k # 0 BY <3>1, <2>2, <2>3, <2>4, <2>6
    <3>4. \A j \in (lines["rsp"] + 1)..(k - 1) : ~Answers!Matches("mlen", files["rsp"][j])
      BY <3>1, <2>2, <2>4, <2>5, <2>6
    <3>5. k = Answers!Found("rsp", "mlen")
      BY <2>2, <2>3, <2>4, <3>2, <3>3, <3>4, FoundAt
    <3>6. /\ UNCHANGED <<files, drbg>> /\ Answers!Advance /\ lines'["rsp"] = k
          /\ files["rsp"][k].len # 1 => locals'["mlen"] = files["rsp"][k].val
      BY <1>3, <1>4, <1>5, <2>1, <3>3, <3>5, NumberReads
    <3>7. todo' = From(Answers!CheckV1, 3) /\ prog' = prog /\ ret' = ret BY <1>3, <1>7, <3>6
    <3>8. ~Answers!Missing("rsp")' BY <2>2, <3>6 DEF Answers!Missing
    <3>9. ReadTo(4)' BY <3>1, <3>6, <2>3, <2>6 DEF ReadTo
    <3>10. Len(files'["rsp"]) > 4 => locals'["mlen"] = 33
      BY <3>1, <3>6, <2>3, <2>4 DEF Answers!KeyLen
    <3>11. FirstAt(3)' BY <3>7, <3>8, <3>9, <3>10 DEF FirstAt
    <3> QED BY <3>7, <3>11 DEF FirstGoesOn
  <2>7. CASE ~(n >= 4)
    <3>1. \A j \in (lines["rsp"] + 1)..Len(files["rsp"]) : ~Answers!Matches("mlen", files["rsp"][j])
      BY <2>2, <2>3, <2>4, <2>5, <2>7
    <3>2. Answers!Found("rsp", "mlen") = 0 BY <3>1, FoundNone
    <3>3. /\ UNCHANGED <<files, locals, drbg>> /\ lines'["rsp"] = Len(files["rsp"])
          /\ Answers!Advance
      BY <1>3, <1>4, <2>1, <3>2, NumberMisses
    <3>4. todo' = From(Answers!CheckV1, 3) /\ prog' = prog /\ ret' = ret BY <1>3, <1>7, <3>3
    <3>5. ~Answers!Missing("rsp")' BY <2>2, <3>3 DEF Answers!Missing
    <3>6. ReadTo(4)' BY <3>3, <2>3, <2>7 DEF ReadTo
    <3>7. ~(Len(files'["rsp"]) > 4) BY <3>3, <2>3, <2>4, <2>7
    <3>8. FirstAt(3)' BY <3>4, <3>5, <3>6, <3>7 DEF FirstAt
    <3> QED BY <3>4, <3>8 DEF FirstGoesOn
  <2> QED BY <2>6, <2>7
<1>8. CASE l = 3
  <2>1. Answers!Stmt = Answers!Hex("rsp", "msg", "m", "mlen") BY <1>3, <1>8, CheckV1Is
  <2>2. PICK n : n = Len(files["rsp"]) OBVIOUS
  <2>3. ~Answers!Missing("rsp") /\ ReadTo(4) /\ (n > 4 => locals["mlen"] = 33)
    BY <1>8, <2>2 DEF FirstAt
  <2>4. /\ n \in Nat
        /\ n >= 5 => files["rsp"][5].tag = "msg"
        /\ n > 5 => files["rsp"][5].val = MsgOf(1) /\ files["rsp"][5].len = 33
    BY <2>2, <2>3, FirstRecord
  <2>5. CASE n >= 5
    <3>1. lines["rsp"] = 4 BY <2>2, <2>3, <2>4, <2>5 DEF ReadTo
    <3>2. PICK k : k = 5 OBVIOUS
    <3>3. lines["rsp"] + 1 = k /\ k <= Len(files["rsp"]) /\ files["rsp"][k].tag = "msg" /\ k # 0
      BY <3>1, <3>2, <2>2, <2>4, <2>5
    <3>4. k = Answers!Found("rsp", "msg") BY <1>4, <3>3, NextFound
    <3>5. BytesOf("mlen") = 33 /\ BytesOf("mlen") # 0 BY <2>3, <2>4, <2>5 DEF BytesOf
    <3>6. /\ UNCHANGED <<files, drbg>> /\ Answers!Advance /\ lines'["rsp"] = k
          /\ \A y \in Locals : y # "m" => locals'[y] = locals[y]
          /\ locals'["m"] = IF files["rsp"][k].len = BytesOf("mlen") THEN files["rsp"][k].val
                            ELSE <<"part">>
      BY <1>3, <1>4, <1>5, <2>1, <3>3, <3>4, <3>5, HexReads
    <3>7. todo' = From(Answers!CheckV1, 4) /\ prog' = prog /\ ret' = ret BY <1>3, <1>8, <3>6
    <3>8. ~Answers!Missing("rsp")' BY <2>3, <3>6 DEF Answers!Missing
    <3>9. ReadTo(5)' BY <3>2, <3>6, <2>2, <2>5 DEF ReadTo
    <3>10. locals'["mlen"] = 33 BY <1>5, <2>3, <2>4, <2>5, <3>6
    <3>11. Len(files'["rsp"]) > 5 => locals'["m"] = MsgOf(1)
      BY <3>2, <3>5, <3>6, <2>2, <2>4
    <3>12. FirstAt(4)' BY <3>7, <3>8, <3>9, <3>10, <3>11 DEF FirstAt
    <3> QED BY <3>7, <3>12 DEF FirstGoesOn
  <2>6. CASE ~(n >= 5)
    <3>1. lines["rsp"] = Len(files["rsp"]) /\ lines["rsp"] \in Nat
      BY <2>2, <2>3, <2>4, <2>6 DEF ReadTo
    <3>2. Answers!Found("rsp", "msg") = 0 BY <3>1, EndFound
    <3>3. /\ UNCHANGED <<files, drbg>>
          /\ (Answers!Advance /\ lines' = lines) \/ Answers!Finish("data")
      BY <1>3, <1>4, <1>5, <2>1, <3>2, HexMisses
    <3>4. CASE Answers!Finish("data")
      <4>1. ~Answers!Complete' BY <3>3, <2>2, <2>4, <2>6, TooShort
      <4> QED BY <3>4, <4>1, EndsWell DEF FirstGoesOn
    <3>5. CASE Answers!Advance /\ lines' = lines
      <4>1. todo' = From(Answers!CheckV1, 4) /\ prog' = prog /\ ret' = ret BY <1>3, <1>8, <3>5
      <4>2. ~Answers!Missing("rsp")' BY <2>3, <3>3 DEF Answers!Missing
      <4>3. ReadTo(5)' BY <3>1, <3>3, <3>5, <2>2, <2>6 DEF ReadTo
      <4>4. ~(Len(files'["rsp"]) > 5) BY <3>3, <2>2, <2>4, <2>6
      <4>5. FirstAt(4)' BY <4>1, <4>2, <4>3, <4>4 DEF FirstAt
      <4> QED BY <4>1, <4>5 DEF FirstGoesOn
    <3> QED BY <3>3, <3>4, <3>5
  <2> QED BY <2>5, <2>6
<1> QED BY <1>6, <1>7, <1>8

(* The keys are read, and smlen is looked for. *)
LEMMA FirstReads ==
  ASSUME KatTypes, RspOk, prog = "check_v1", Answers!Execute,
         NEW l \in {4, 5, 6}, FirstAt(l)
  PROVE  FirstGoesOn
<1>1. AllFit("check_v1", Answers!CheckV1) /\ Len(Answers!CheckV1) = 11 BY CheckV1Is
<1>2. todo = From(Answers!CheckV1, l) /\ l \in 1..Len(Answers!CheckV1) BY <1>1 DEF FirstAt
<1>3. /\ todo # <<>> /\ Answers!Stmt = Answers!CheckV1[l]
      /\ Answers!Advance => todo' = From(Answers!CheckV1, l + 1) /\ prog' = prog /\ ret' = ret
  BY <1>1, <1>2, AtFrom
<1>4. "rsp" \in Answers!FileNames BY DEF Answers!FileNames
<1>5. {"mlen", "m", "pk", "sk", "smlen"} \subseteq Locals BY DEF Locals, Values, Numerals
<1>6. PICK n : n = Len(files["rsp"]) OBVIOUS
<1>7. ~Answers!Missing("rsp") BY DEF FirstAt
<1>8. /\ n \in Nat
      /\ n >= 6 => files["rsp"][6].tag = "pk"
      /\ n > 6 => files["rsp"][6].val = <<"pk", KeyOf(1)>> /\ files["rsp"][6].len = Answers!KeyLen
      /\ n >= 7 => files["rsp"][7].tag = "sk"
      /\ n >= 7 => \/ /\ files["rsp"][7].val = <<"sk", KeyOf(1)>>
                      /\ files["rsp"][7].len = Answers!KeyLen
                   \/ n = 7 /\ files["rsp"][7].len = 1
      /\ n >= 8 => files["rsp"][8].tag = "smlen"
  BY <1>6, <1>7, FirstRecord
<1>9. BytesOf("none") = Answers!KeyLen /\ BytesOf("none") # 0 /\ BytesOf("none") # 1
  BY DEF BytesOf, Answers!KeyLen
<1>10. files' = files => ~Answers!Missing("rsp")' BY <1>7 DEF Answers!Missing
<1>11. CASE l = 4
  <2>1. Answers!Stmt = Answers!Hex("rsp", "pk", "pk", "none") BY <1>3, <1>11, CheckV1Is
  <2>2. ReadTo(5) /\ (n > 5 => locals["mlen"] = 33 /\ locals["m"] = MsgOf(1))
    BY <1>6, <1>11 DEF FirstAt
  <2>3. CASE n >= 6
    <3>1. lines["rsp"] = 5 BY <1>6, <1>8, <2>2, <2>3 DEF ReadTo
    <3>2. PICK k : k = 6 OBVIOUS
    <3>3. lines["rsp"] + 1 = k /\ k <= Len(files["rsp"]) /\ files["rsp"][k].tag = "pk" /\ k # 0
      BY <3>1, <3>2, <1>6, <1>8, <2>3
    <3>4. k = Answers!Found("rsp", "pk") BY <1>4, <3>3, NextFound
    <3>5. /\ UNCHANGED <<files, drbg>> /\ Answers!Advance /\ lines'["rsp"] = k
          /\ \A y \in Locals : y # "pk" => locals'[y] = locals[y]
          /\ locals'["pk"] = IF files["rsp"][k].len = BytesOf("none") THEN files["rsp"][k].val
                             ELSE <<"part">>
      BY <1>3, <1>4, <1>5, <1>9, <2>1, <3>3, <3>4, HexReads
    <3>6. todo' = From(Answers!CheckV1, 5) /\ prog' = prog /\ ret' = ret BY <1>3, <1>11, <3>5
    <3>7. locals'["mlen"] = 33 /\ locals'["m"] = MsgOf(1) BY <1>5, <1>8, <2>2, <2>3, <3>5
    <3>8. Len(files'["rsp"]) > 6 => locals'["pk"] = <<"pk", KeyOf(1)>>
      BY <1>6, <1>8, <1>9, <3>2, <3>5
    <3>9. FirstAt(5)' BY <1>6, <1>10, <2>3, <3>2, <3>5, <3>6, <3>7, <3>8 DEF FirstAt
    <3> QED BY <3>6, <3>9 DEF FirstGoesOn
  <2>4. CASE ~(n >= 6)
    <3>1. lines["rsp"] = Len(files["rsp"]) /\ lines["rsp"] \in Nat
      BY <1>6, <1>8, <2>2, <2>4 DEF ReadTo
    <3>2. Answers!Found("rsp", "pk") = 0 BY <3>1, EndFound
    <3>3. files' = files /\ Answers!Finish("data")
      BY <1>3, <1>4, <1>5, <1>9, <2>1, <3>2, HexMisses
    <3>4. ~Answers!Complete' BY <3>3, <1>6, <1>8, <2>4, TooShort
    <3> QED BY <3>3, <3>4, EndsWell DEF FirstGoesOn
  <2> QED BY <2>3, <2>4
<1>12. CASE l = 5
  <2>1. Answers!Stmt = Answers!Hex("rsp", "sk", "sk", "none") BY <1>3, <1>12, CheckV1Is
  <2>2. /\ n >= 6 /\ lines["rsp"] = 6 /\ locals["mlen"] = 33 /\ locals["m"] = MsgOf(1)
        /\ n > 6 => locals["pk"] = <<"pk", KeyOf(1)>>
    BY <1>6, <1>12 DEF FirstAt
  <2>3. CASE n >= 7
    <3>1. PICK k : k = 7 OBVIOUS
    <3>2. lines["rsp"] + 1 = k /\ k <= Len(files["rsp"]) /\ files["rsp"][k].tag = "sk" /\ k # 0
      BY <3>1, <1>6, <1>8, <2>2, <2>3
    <3>3. k = Answers!Found("rsp", "sk") BY <1>4, <3>2, NextFound
    <3>4. /\ UNCHANGED <<files, drbg>> /\ Answers!Advance /\ lines'["rsp"] = k
          /\ \A y \in Locals : y # "sk" => locals'[y] = locals[y]
          /\ locals'["sk"] = IF files["rsp"][k].len = BytesOf("none") THEN files["rsp"][k].val
                             ELSE <<"part">>
      BY <1>3, <1>4, <1>5, <1>9, <2>1, <3>2, <3>3, HexReads
    <3>5. todo' = From(Answers!CheckV1, 6) /\ prog' = prog /\ ret' = ret BY <1>3, <1>12, <3>4
    <3>6. /\ locals'["mlen"] = 33 /\ locals'["m"] = MsgOf(1)
          /\ locals'["pk"] = <<"pk", KeyOf(1)>>
      BY <1>5, <1>8, <2>2, <2>3, <3>4
    <3>7. \/ locals'["sk"] = <<"sk", KeyOf(1)>>
          \/ Len(files'["rsp"]) <= 7 /\ locals'["sk"] = <<"part">>
      BY <1>6, <1>8, <1>9, <2>3, <3>1, <3>4
    <3>8. FirstRead' BY <3>6, <3>7 DEF FirstRead
    <3>9. FirstAt(6)' BY <1>6, <1>10, <2>3, <3>1, <3>4, <3>5, <3>8 DEF FirstAt
    <3> QED BY <3>5, <3>9 DEF FirstGoesOn
  <2>4. CASE ~(n >= 7)
    <3>1. lines["rsp"] = Len(files["rsp"]) /\ lines["rsp"] \in Nat
      <4>1. n \in Nat /\ n >= 6 /\ ~(n >= 7) BY <1>8, <2>2, <2>4
      <4>2. n = 6 BY ONLY <4>1
      <4> QED BY <1>6, <2>2, <4>2
    <3>2. Answers!Found("rsp", "sk") = 0 BY <3>1, EndFound
    <3>3. files' = files /\ Answers!Finish("data")
      BY <1>3, <1>4, <1>5, <1>9, <2>1, <3>2, HexMisses
    <3>4. ~Answers!Complete' BY <3>3, <1>6, <1>8, <2>4, TooShort
    <3> QED BY <3>3, <3>4, EndsWell DEF FirstGoesOn
  <2> QED BY <2>3, <2>4
<1>13. CASE l = 6
  <2>1. Answers!Stmt = Answers!Number("rsp", "smlen", "smlen", "go") BY <1>3, <1>13, CheckV1Is
  <2>2. n >= 7 /\ lines["rsp"] = 7 /\ FirstRead BY <1>6, <1>13 DEF FirstAt
  <2>3. ASSUME files' = files, \A y \in Locals : y # "smlen" => locals'[y] = locals[y]
        PROVE  FirstRead'
    BY <1>5, <2>2, <2>3 DEF FirstRead
  <2>4. CASE n >= 8
    <3>1. PICK k : k = 8 OBVIOUS
    <3>2. lines["rsp"] + 1 = k /\ k <= Len(files["rsp"]) /\ files["rsp"][k].tag = "smlen" /\ k # 0
      BY <3>1, <1>6, <1>8, <2>2, <2>4
    <3>3. k = Answers!Found("rsp", "smlen") BY <1>4, <3>2, NextFound
    <3>4. /\ UNCHANGED <<files, drbg>> /\ Answers!Advance /\ lines'["rsp"] = k
          /\ \A y \in Locals : y # "smlen" => locals'[y] = locals[y]
      BY <1>3, <1>4, <1>5, <2>1, <3>2, <3>3, NumberReads
    <3>5. todo' = From(Answers!CheckV1, 7) /\ prog' = prog /\ ret' = ret BY <1>3, <1>13, <3>4
    <3>6. FirstAt(7)' BY <1>10, <2>3, <3>1, <3>4, <3>5 DEF FirstAt
    <3> QED BY <3>5, <3>6 DEF FirstGoesOn
  <2>5. CASE ~(n >= 8)
    <3>1. lines["rsp"] = Len(files["rsp"]) /\ lines["rsp"] \in Nat
      <4>1. n \in Nat /\ n >= 7 /\ ~(n >= 8) BY <1>8, <2>2, <2>5
      <4>2. n = 7 BY ONLY <4>1
      <4> QED BY <1>6, <2>2, <4>2
    <3>2. Answers!Found("rsp", "smlen") = 0 BY <3>1, EndFound
    <3>3. /\ UNCHANGED <<files, locals, drbg>> /\ lines'["rsp"] = Len(files["rsp"])
          /\ Answers!Advance
      BY <1>3, <1>4, <2>1, <3>2, NumberMisses
    <3>4. todo' = From(Answers!CheckV1, 7) /\ prog' = prog /\ ret' = ret BY <1>3, <1>13, <3>3
    <3>5. ~(Len(files'["rsp"]) >= 9) BY <1>6, <1>8, <2>5, <3>3
    <3>6. FirstRead' BY <2>3, <3>3
    <3>7. FirstAt(7)' BY <1>10, <3>3, <3>4, <3>5, <3>6 DEF FirstAt
    <3> QED BY <3>4, <3>7 DEF FirstGoesOn
  <2> QED BY <2>4, <2>5
<1> QED BY <1>11, <1>12, <1>13

(* The message is signed again, and the signature opened. *)
LEMMA FirstSigns ==
  ASSUME KatTypes, RspOk, prog = "check_v1", Answers!Execute,
         NEW l \in {7, 8, 9}, FirstAt(l)
  PROVE  FirstGoesOn
<1>1. AllFit("check_v1", Answers!CheckV1) /\ Len(Answers!CheckV1) = 11 BY CheckV1Is
<1>2. todo = From(Answers!CheckV1, l) /\ l \in 1..Len(Answers!CheckV1) BY <1>1 DEF FirstAt
<1>3. /\ todo # <<>> /\ Answers!Stmt = Answers!CheckV1[l]
      /\ Answers!Advance => todo' = From(Answers!CheckV1, l + 1) /\ prog' = prog /\ ret' = ret
  BY <1>1, <1>2, AtFrom
<1>4. "rsp" \in Answers!FileNames BY DEF Answers!FileNames
<1>5. {"mlen", "m", "pk", "sk", "sm", "smlen", "m1", "mlen1"} \subseteq Locals
  BY DEF Locals, Values, Numerals
<1>6. FirstRead BY DEF FirstAt
<1>7. ASSUME files' = files, \A y \in Locals : y \notin {"sm", "smlen"} => locals'[y] = locals[y]
      PROVE  FirstRead'
  BY <1>5, <1>6, <1>7 DEF FirstRead
<1>8. CASE l = 7
  <2>1. Answers!Stmt = Answers!Hex("rsp", "sm", "sm", "smlen") BY <1>3, <1>8, CheckV1Is
  <2>2. /\ UNCHANGED <<files, drbg>>
        /\ \A y \in Locals : y # "sm" => locals'[y] = locals[y]
        /\ Answers!Advance \/ (Answers!Finish("data") /\ Answers!Found("rsp", "sm") = 0)
    BY <1>3, <1>4, <1>5, <2>1, HexSomehow
  <2>3. CASE Answers!Advance
    <3>1. todo' = From(Answers!CheckV1, 8) /\ prog' = prog /\ ret' = ret BY <1>3, <1>8, <2>3
    <3>2. FirstAt(8)' BY <1>7, <2>2, <3>1 DEF FirstAt
    <3> QED BY <3>1, <3>2 DEF FirstGoesOn
  <2>4. CASE Answers!Finish("data") /\ Answers!Found("rsp", "sm") = 0
    <3>1. PICK n : n = Len(files["rsp"]) OBVIOUS
    <3>2. ~Answers!Missing("rsp") /\ (n >= 9 => lines["rsp"] = 8) BY <1>8, <3>1 DEF FirstAt
    <3>3. n \in Nat /\ (n >= 9 => files["rsp"][9].tag = "sm") BY <3>1, <3>2, FirstRecord
    <3>4. ASSUME n >= 9 PROVE FALSE
      <4>1. PICK k : k = 9 OBVIOUS
      <4>2. lines["rsp"] + 1 = k /\ k <= Len(files["rsp"]) /\ files["rsp"][k].tag = "sm"
        BY <4>1, <3>1, <3>2, <3>3, <3>4
      <4>3. Answers!Found("rsp", "sm") = k BY <1>4, <4>2, NextFound
      <4> QED BY <4>1, <4>3, <2>4
    <3>5. ~Answers!Complete' BY <2>2, <3>1, <3>3, <3>4, TooShort
    <3> QED BY <2>4, <3>5, EndsWell DEF FirstGoesOn
  <2> QED BY <2>2, <2>3, <2>4
<1>9. CASE l = 8
  <2>1. Answers!Stmt = Answers!Do("sign") BY <1>3, <1>9, CheckV1Is
  <2>2. /\ UNCHANGED <<files, lines>> /\ Answers!Advance
        /\ locals'["sm"] = <<"sm", locals["sk"], locals["m"],
                             <<"rand", drbg.seed, drbg.draws>>, locals["mlen"]>>
        /\ locals'["smlen"] = SigBytes + locals["mlen"]
        /\ \A y \in Locals : y \notin {"sm", "smlen"} => locals'[y] = locals[y]
    BY <1>3, <2>1, Signs
  <2>3. todo' = From(Answers!CheckV1, 9) /\ prog' = prog /\ ret' = ret BY <1>3, <1>9, <2>2
  <2>4. FirstRead' BY <1>7, <2>2
  <2>5. locals["mlen"] = 33 BY <1>6 DEF FirstRead
  <2>6. locals'["sk"] = locals["sk"] /\ locals'["m"] = locals["m"] BY <1>5, <2>2
  <2>7. \E y : locals'["sm"] = <<"sm", locals'["sk"], locals'["m"], y, 33>>
    BY <2>2, <2>5, <2>6
  <2>8. locals'["smlen"] = SigBytes + 33 BY <2>2, <2>5
  <2>9. FirstAt(9)' BY <2>3, <2>4, <2>7, <2>8 DEF FirstAt
  <2> QED BY <2>3, <2>9 DEF FirstGoesOn
<1>10. CASE l = 9
  <2>1. Answers!Stmt = Answers!Verify("sm", "m1", "mlen1") BY <1>3, <1>10, CheckV1Is
  <2>2. PICK y : locals["sm"] = <<"sm", locals["sk"], locals["m"], y, 33>> BY <1>10 DEF FirstAt
  <2>3. locals["smlen"] = SigBytes + 33 BY <1>10 DEF FirstAt
  <2>4. /\ files' = files
        /\ \A z \in Locals : z \notin {"m1", "mlen1"} => locals'[z] = locals[z]
        /\ IF Answers!Opens(locals["sm"], locals["smlen"], locals["pk"])
           THEN /\ Answers!Advance /\ locals'["m1"] = locals["sm"][3]
                /\ locals'["mlen1"] = locals["sm"][5]
           ELSE Answers!Finish("crypto")
    BY <1>3, <1>5, <2>1, Verifies
  <2>5. locals["pk"] = <<"pk", KeyOf(1)>> /\ locals["m"] = MsgOf(1) /\ locals["mlen"] = 33
    BY <1>6 DEF FirstRead
  <2>6. CASE locals["sk"] = <<"sk", KeyOf(1)>>
    <3>1. Answers!Opens(locals["sm"], locals["smlen"], locals["pk"])
      BY <2>2, <2>3, <2>5, <2>6, OpensIs
    <3>2. Answers!Advance /\ locals'["m1"] = locals["sm"][3] /\ locals'["mlen1"] = locals["sm"][5]
      BY <2>4, <3>1
    <3>3. locals["sm"][3] = locals["m"] /\ locals["sm"][5] = 33 BY <2>2
    <3>4. todo' = From(Answers!CheckV1, 10) /\ prog' = prog /\ ret' = ret BY <1>3, <1>10, <3>2
    <3>5. /\ locals'["sk"] = locals["sk"] /\ locals'["m"] = locals["m"]
          /\ locals'["pk"] = locals["pk"] /\ locals'["mlen"] = locals["mlen"]
      BY <1>5, <2>4
    <3>6. locals["sk"][1] = "sk" /\ locals["sk"][2] = KeyOf(1) /\ locals["m"][1] = "rand"
      BY <2>5, <2>6 DEF MsgOf
    <3>7. Together' BY <2>5, <3>2, <3>3, <3>5, <3>6 DEF Together
    <3>8. FirstAt(10)' BY <2>5, <3>2, <3>3, <3>4, <3>5, <3>7 DEF FirstAt
    <3> QED BY <3>4, <3>8 DEF FirstGoesOn
  <2>7. CASE Len(files["rsp"]) <= 7 /\ locals["sk"] = <<"part">>
    <3>1. ~Answers!Opens(locals["sm"], locals["smlen"], locals["pk"])
      BY <2>2, <2>3, <2>5, <2>7, OpensIs
    <3>2. Answers!Finish("crypto") BY <2>4, <3>1
    <3>3. Len(files["rsp"]) \in Nat BY <1>4, FileIs DEF KatTypes, FilesOk
    <3>4. ~Answers!Complete' BY <2>4, <2>7, <3>3, TooShort
    <3> QED BY <3>2, <3>4, EndsWell DEF FirstGoesOn
  <2> QED BY <1>6, <2>6, <2>7 DEF FirstRead
<1> QED BY <1>8, <1>9, <1>10

(* What was opened is the message, and the program succeeds. *)
LEMMA FirstEnds ==
  ASSUME KatTypes, prog = "check_v1", Answers!Execute,
         NEW l \in {10, 11, 12}, FirstAt(l)
  PROVE  FirstGoesOn
<1>1. AllFit("check_v1", Answers!CheckV1) /\ Len(Answers!CheckV1) = 11 BY CheckV1Is
<1>2. Together /\ locals["mlen1"] = locals["mlen"] BY DEF FirstAt
<1>3. CASE l \in {10, 11}
  <2>1. todo = From(Answers!CheckV1, l) /\ l \in 1..Len(Answers!CheckV1) BY <1>1, <1>3 DEF FirstAt
  <2>2. /\ todo # <<>> /\ Answers!Stmt = Answers!CheckV1[l]
        /\ Answers!Advance => todo' = From(Answers!CheckV1, l + 1) /\ prog' = prog /\ ret' = ret
    BY <1>1, <2>1, AtFrom
  <2>3. locals' = locals /\ Answers!Advance
    <3>1. CASE l = 10
      <4>1. Answers!Stmt = Answers!Same("mlen1", "m1") BY <2>2, <3>1, CheckV1Is
      <4> QED BY <2>2, <4>1, <1>2, Compares DEF Together
    <3>2. CASE l = 11
      <4>1. Answers!Stmt = Answers!Close("rsp") BY <2>2, <3>2, CheckV1Is
      <4> QED BY <2>2, <4>1, Closes
    <3> QED BY <1>3, <3>1, <3>2
  <2>4. Together' /\ locals'["mlen1"] = locals'["mlen"] BY <1>2, <2>3 DEF Together
  <2>5. todo' = From(Answers!CheckV1, l + 1) /\ prog' = prog /\ ret' = ret BY <2>2, <2>3
  <2>6. PICK k : k = l + 1 OBVIOUS
  <2>7. k \in {10, 11, 12} /\ k \in 1..12 BY <1>3, <2>6
  <2>8. FirstAt(k)' BY <2>4, <2>5, <2>6, <2>7 DEF FirstAt
  <2> QED BY <2>5, <2>7, <2>8 DEF FirstGoesOn
<1>4. CASE l = 12
  <2>1. todo = From(Answers!CheckV1, Len(Answers!CheckV1) + 1) BY <1>1, <1>4 DEF FirstAt
  <2>2. todo = <<>> BY <1>1, <2>1, AtEnd
  <2>3. locals' = locals /\ Answers!Finish("success") BY <2>2, NoneLeft
  <2>4. Together' BY <1>2, <2>3 DEF Together
  <2> QED BY <2>3, <2>4, EndsWell DEF FirstGoesOn
<1> QED BY <1>3, <1>4

(* Whatever the program does next. *)
LEMMA FirstSteps ==
  ASSUME KatTypes, RspOk, prog = "check_v1", Answers!Execute, NEW l \in 1..12, FirstAt(l)
  PROVE  FirstGoesOn
<1>1. l \in {1, 2, 3} \/ l \in {4, 5, 6} \/ l \in {7, 8, 9} \/ l \in {10, 11, 12} OBVIOUS
<1> QED BY <1>1, FirstOpens, FirstReads, FirstSigns, FirstEnds

-----------------------------------------------------------------------------
\* PQCgenKAT_sign_check.

(* The message of record r was read. *)
MsgRead(r) == locals["mlen"] = 33 * r /\ locals["m"] = MsgOf(r)

(* Its secret key was, too. *)
SkRead(r) == MsgRead(r) /\ locals["sk"] = <<"sk", KeyOf(r)>>

(* And the public key of record u. *)
PairRead(r, u) == SkRead(r) /\ locals["pk"] = <<"pk", KeyOf(u)>>

(* The message was signed. *)
SignedAs(r, u) ==
  /\ PairRead(r, u) /\ locals["smlen"] = SigBytes + 33 * r
  /\ \E w : locals["sm"] = <<"sm", locals["sk"], locals["m"], w, 33 * r>>

(* The signature was written. *)
SigWritten == files["sig"] = Append(<<>>, Answers!Line("sm", locals["sm"], locals["smlen"]))

(* What the program knows before its l-th statement. *)
CheckAt(l, r, u) ==
  /\ todo = From(Answers!Check, l)
  /\ \/ l = 1
     \/ l = 2 /\ CopiedFrom(r, u) /\ lines["msg"] = 0
     \/ l = 3 /\ CopiedFrom(r, u) /\ lines["msg"] = 1 /\ locals["mlen"] = 33 * r
     \/ l = 4 /\ CopiedFrom(r, u) /\ lines["msg"] = 2 /\ MsgRead(r)
     \/ l \in {5, 6} /\ CopiedFrom(r, u) /\ MsgRead(r)
     \/ l = 7 /\ CopiedFrom(r, u) /\ MsgRead(r) /\ lines["sk"] = 0
     \/ l \in {8, 9} /\ CopiedFrom(r, u) /\ SkRead(r)
     \/ l = 10 /\ CopiedFrom(r, u) /\ SkRead(r) /\ lines["pk"] = 0
     \/ l \in {11, 12} /\ CopiedFrom(r, u) /\ PairRead(r, u)
     \/ l = 13 /\ CopiedFrom(r, u) /\ PairRead(r, u) /\ files["sig"] = <<>>
     \/ l = 14 /\ CopiedFrom(r, u) /\ SignedAs(r, u) /\ files["sig"] = <<>>
     \/ l \in {15, 16} /\ CopiedFrom(r, u) /\ SignedAs(r, u) /\ SigWritten
     \/ l = 17 /\ CopiedFrom(r, u) /\ SignedAs(r, u) /\ SigWritten /\ lines["sig"] = 0
     \/ l \in {18, 19} /\ CopiedFrom(r, u) /\ SignedAs(r, u) /\ locals["sm1"] = locals["sm"]
     \/ /\ l \in {20, 21} /\ SignedAs(r, u) /\ locals["sm1"] = locals["sm"]
        /\ Together /\ locals["mlen1"] = locals["mlen"]
     \/ l = 22 /\ Together /\ locals["m2"] = locals["m"] /\ locals["mlen2"] = locals["mlen"]
     \/ l \in 23..28 /\ Together

(* A step leads to what the next statement needs, or ends the program. *)
CheckGoesOn ==
  \/ (\E l \in 1..28, r, u \in 1..Records : CheckAt(l, r, u)') /\ prog' = prog /\ ret' = ret
  \/ prog' = "none" /\ ResultsOk'

(* What was copied. *)
LEMMA CopiedFiles ==
  ASSUME NEW r, NEW u, CopiedFrom(r, u)
  PROVE  /\ Len(files["msg"]) = 3 /\ Len(files["sk"]) = 1 /\ Len(files["pk"]) = 1
         /\ files["msg"][1].tag = "mlen" /\ files["msg"][1].val = 33 * r
         /\ files["msg"][1].len = Answers!KeyLen
         /\ files["msg"][2].tag = "msg" /\ files["msg"][2].val = MsgOf(r)
         /\ files["msg"][2].len = 33 * r
         /\ files["msg"][3].tag = "smlen"
         /\ files["sk"][1].tag = "sk" /\ files["sk"][1].val = <<"sk", KeyOf(r)>>
         /\ files["sk"][1].len = Answers!KeyLen
         /\ files["pk"][1].tag = "pk" /\ files["pk"][1].val = <<"pk", KeyOf(u)>>
         /\ files["pk"][1].len = Answers!KeyLen
         /\ ~Answers!Missing("msg") /\ ~Answers!Missing("sk") /\ ~Answers!Missing("pk")
<1>1. PICK e : e = Answers!Expected(r) OBVIOUS
<1>2. PICK d : d = Answers!Expected(u) OBVIOUS
<1>3. /\ files["msg"] = <<e[3], e[4], e[7]>> /\ files["sk"] = <<e[6]>> /\ files["pk"] = <<d[5]>>
  BY <1>1, <1>2 DEF CopiedFrom
<1>4. /\ Len(files["msg"]) = 3 /\ Len(files["sk"]) = 1 /\ Len(files["pk"]) = 1
      /\ files["msg"][1] = e[3] /\ files["msg"][2] = e[4] /\ files["msg"][3] = e[7]
      /\ files["sk"][1] = e[6] /\ files["pk"][1] = d[5]
  BY <1>3
<1>5. /\ e[3] = Answers!Line("mlen", 33 * r, Answers!KeyLen)
      /\ e[4] = Answers!Line("msg", MsgOf(r), 33 * r)
      /\ e[7] = Answers!Line("smlen", SigBytes + 33 * r, Answers!KeyLen)
      /\ e[6] = Answers!Line("sk", <<"sk", KeyOf(r)>>, Answers!KeyLen)
      /\ d[5] = Answers!Line("pk", <<"pk", KeyOf(u)>>, Answers!KeyLen)
  BY <1>1, <1>2, ExpectedIs
<1>6. /\ e[3].tag = "mlen" /\ e[3].val = 33 * r /\ e[3].len = Answers!KeyLen
      /\ e[4].tag = "msg" /\ e[4].val = MsgOf(r) /\ e[4].len = 33 * r
      /\ e[7].tag = "smlen"
      /\ e[6].tag = "sk" /\ e[6].val = <<"sk", KeyOf(r)>> /\ e[6].len = Answers!KeyLen
      /\ d[5].tag = "pk" /\ d[5].val = <<"pk", KeyOf(u)>> /\ d[5].len = Answers!KeyLen
  BY ONLY <1>5 DEF Answers!Line
<1> QED BY <1>4, <1>6 DEF Answers!Missing

(* The program leaves those files alone.                                     *)
LEMMA CopiedStays ==
  ASSUME NEW r, NEW u, CopiedFrom(r, u), OthersKept, prog = "check"
  PROVE  CopiedFrom(r, u)'
<1>1. "msg" \in Answers!FileNames /\ "sk" \in Answers!FileNames /\ "pk" \in Answers!FileNames
  BY DEF Answers!FileNames
<1>2. "msg" \notin Outputs(prog) /\ "sk" \notin Outputs(prog) /\ "pk" \notin Outputs(prog)
  BY DEF Outputs
<1> QED BY <1>1, <1>2 DEF OthersKept, CopiedFrom

(* What was copied from one record is not called bad.                        *)
LEMMA OneRecord ==
  ASSUME NEW r, NEW u, CopiedFrom(r, u), Answers!Copied PROVE KeyOf(r) = KeyOf(u)
<1>1. PICK k \in 1..Records : files["sk"] = <<Answers!Expected(k)[6]>>
                              /\ files["pk"] = <<Answers!Expected(k)[5]>>
  BY DEF Answers!Copied
<1>2. /\ files["sk"][1].val = <<"sk", KeyOf(r)>> /\ files["pk"][1].val = <<"pk", KeyOf(u)>>
  BY CopiedFiles
<1>3. /\ Answers!Expected(k)[6] = Answers!Line("sk", <<"sk", KeyOf(k)>>, Answers!KeyLen)
      /\ Answers!Expected(k)[5] = Answers!Line("pk", <<"pk", KeyOf(k)>>, Answers!KeyLen)
  BY ExpectedIs
<1>4. /\ files["sk"][1] = Answers!Line("sk", <<"sk", KeyOf(k)>>, Answers!KeyLen)
      /\ files["pk"][1] = Answers!Line("pk", <<"pk", KeyOf(k)>>, Answers!KeyLen)
  BY <1>1, <1>3
<1>5. <<"sk", KeyOf(r)>> = <<"sk", KeyOf(k)>> /\ <<"pk", KeyOf(u)>> = <<"pk", KeyOf(k)>>
  BY ONLY <1>2, <1>4 DEF Answers!Line
<1> QED BY <1>5

(* The message is read. *)
LEMMA CheckReadsMessage ==
  ASSUME KatTypes, CopiedOk, OthersKept, prog = "check", Answers!Execute,
         NEW l \in 1..5, NEW r \in 1..Records, NEW u \in 1..Records, CheckAt(l, r, u)
  PROVE  CheckGoesOn
<1>1. AllFit("check", Answers!Check) /\ Len(Answers!Check) = 27 BY CheckIs
<1>2. todo = From(Answers!Check, l) /\ l \in 1..Len(Answers!Check) BY <1>1 DEF CheckAt
<1>3. /\ todo # <<>> /\ Answers!Stmt = Answers!Check[l]
      /\ Answers!Advance => todo' = From(Answers!Check, l + 1) /\ prog' = prog /\ ret' = ret
  BY <1>1, <1>2, AtFrom
<1>4. "msg" \in Answers!FileNames BY DEF Answers!FileNames
<1>5. {"mlen", "m", "smlen"} \subseteq Locals BY DEF Locals, Values, Numerals
<1>6. 33 * r \in Nat \ {0} /\ Answers!KeyLen # 1
  BY AnswersAssumption DEF Answers!SizesAssumption, Answers!KeyLen
<1>7. CASE l = 1
  <2>1. Answers!Stmt = Answers!Open("msg", "r") BY <1>3, <1>7, CheckIs
  <2>2. /\ UNCHANGED <<files, locals, drbg>> /\ lines'["msg"] = 0
        /\ IF Answers!Missing("msg") THEN Answers!Finish("file") ELSE Answers!Advance
    BY <1>3, <1>4, <2>1, OpenReads
  <2>3. CASE files["msg"] = Answers!Absent /\ files["sk"] = Answers!Absent
    <3>1. Answers!Missing("msg") /\ Answers!Missing("sk") BY <2>3, NotAbsent
    <3>2. Answers!Finish("file") BY <2>2, <3>1
    <3>3. ASSUME Answers!Copied PROVE FALSE
      <4>1. PICK k \in 1..Records : files["sk"] = <<Answers!Expected(k)[6]>>
        BY <3>3 DEF Answers!Copied
      <4>2. Answers!Expected(k)[6] = Answers!Line("sk", <<"sk", KeyOf(k)>>, Answers!KeyLen)
        BY ExpectedIs
      <4>3. files["sk"][1] = Answers!Line("sk", <<"sk", KeyOf(k)>>, Answers!KeyLen)
        BY <4>1, <4>2
      <4>4. files["sk"][1].tag = "sk" BY ONLY <4>3 DEF Answers!Line
      <4> QED BY <3>1, <4>4 DEF Answers!Missing
    <3>4. Answers!Copied' => Answers!Copied
      BY <2>2 DEF Answers!Copied, Answers!Complete
    <3> QED BY <3>2, <3>3, <3>4, EndsWell DEF CheckGoesOn
  <2>4. ASSUME NEW k \in 1..Records, NEW j \in 1..Records, CopiedFrom(k, j)
        PROVE  CheckGoesOn
    <3>1. Answers!Advance BY <2>2, <2>4, CopiedFiles
    <3>2. todo' = From(Answers!Check, 2) /\ prog' = prog /\ ret' = ret BY <1>3, <1>7, <3>1
    <3>3. CopiedFrom(k, j)' BY <2>4, CopiedStays
    <3>4. CheckAt(2, k, j)' BY <2>2, <3>2, <3>3 DEF CheckAt
    <3> QED BY <3>2, <3>4 DEF CheckGoesOn
  <2> QED BY <2>3, <2>4 DEF CopiedOk
<1>8. ASSUME l # 1
      PROVE  /\ CopiedFrom(r, u) /\ CopiedFrom(r, u)'
             /\ Len(files["msg"]) = 3
             /\ files["msg"][1].tag = "mlen" /\ files["msg"][1].val = 33 * r
             /\ files["msg"][1].len = Answers!KeyLen
             /\ files["msg"][2].tag = "msg" /\ files["msg"][2].val = MsgOf(r)
             /\ files["msg"][2].len = 33 * r
             /\ files["msg"][3].tag = "smlen"
  <2>1. CopiedFrom(r, u) BY <1>8 DEF CheckAt
  <2> QED BY <2>1, CopiedFiles, CopiedStays
<1>9. CASE l = 2
  <2>1. Answers!Stmt = Answers!Number("msg", "mlen", "mlen", "go") BY <1>3, <1>9, CheckIs
  <2>2. lines["msg"] = 0 BY <1>9 DEF CheckAt
  <2>3. PICK k : k = 1 OBVIOUS
  <2>4. lines["msg"] + 1 = k /\ k <= Len(files["msg"]) /\ files["msg"][k].tag = "mlen" /\ k # 0
    BY <1>8, <1>9, <2>2, <2>3
  <2>5. k = Answers!Found("msg", "mlen") BY <1>4, <2>4, NextFound
  <2>6. /\ Answers!Advance /\ lines'["msg"] = k
        /\ files["msg"][k].len # 1 => locals'["mlen"] = files["msg"][k].val
    BY <1>3, <1>4, <1>5, <2>1, <2>4, <2>5, NumberReads
  <2>7. todo' = From(Answers!Check, 3) /\ prog' = prog /\ ret' = ret BY <1>3, <1>9, <2>6
  <2>8. locals'["mlen"] = 33 * r BY <1>6, <1>8, <1>9, <2>3, <2>6
  <2>9. CheckAt(3, r, u)' BY <1>8, <1>9, <2>3, <2>6, <2>7, <2>8 DEF CheckAt
  <2> QED BY <2>7, <2>9 DEF CheckGoesOn
<1>10. CASE l = 3
  <2>1. Answers!Stmt = Answers!Hex("msg", "msg", "m", "mlen") BY <1>3, <1>10, CheckIs
  <2>2. lines["msg"] = 1 /\ locals["mlen"] = 33 * r BY <1>10 DEF CheckAt
  <2>3. PICK k : k = 2 OBVIOUS
  <2>4. lines["msg"] + 1 = k /\ k <= Len(files["msg"]) /\ files["msg"][k].tag = "msg" /\ k # 0
    BY <1>8, <1>10, <2>2, <2>3
  <2>5. k = Answers!Found("msg", "msg") BY <1>4, <2>4, NextFound
  <2>6. BytesOf("mlen") = 33 * r /\ BytesOf("mlen") # 0 BY <1>6, <2>2 DEF BytesOf
  <2>7. /\ Answers!Advance /\ lines'["msg"] = k
        /\ \A y \in Locals : y # "m" => locals'[y] = locals[y]
        /\ locals'["m"] = IF files["msg"][k].len = BytesOf("mlen") THEN files["msg"][k].val
                          ELSE <<"part">>
    BY <1>3, <1>4, <1>5, <2>1, <2>4, <2>5, <2>6, HexReads
  <2>8. todo' = From(Answers!Check, 4) /\ prog' = prog /\ ret' = ret BY <1>3, <1>10, <2>7
  <2>9. MsgRead(r)' BY <1>5, <1>8, <1>10, <2>2, <2>3, <2>6, <2>7 DEF MsgRead
  <2>10. CheckAt(4, r, u)' BY <1>8, <1>10, <2>3, <2>7, <2>8, <2>9 DEF CheckAt
  <2> QED BY <2>8, <2>10 DEF CheckGoesOn
<1>11. CASE l = 4
  <2>1. Answers!Stmt = Answers!Number("msg", "smlen", "smlen", "go") BY <1>3, <1>11, CheckIs
  <2>2. lines["msg"] = 2 /\ MsgRead(r) BY <1>11 DEF CheckAt
  <2>3. PICK k : k = 3 OBVIOUS
  <2>4. lines["msg"] + 1 = k /\ k <= Len(files["msg"]) /\ files["msg"][k].tag = "smlen" /\ k # 0
    BY <1>8, <1>11, <2>2, <2>3
  <2>5. k = Answers!Found("msg", "smlen") BY <1>4, <2>4, NextFound
  <2>6. /\ Answers!Advance /\ \A y \in Locals : y # "smlen" => locals'[y] = locals[y]
    BY <1>3, <1>4, <1>5, <2>1, <2>4, <2>5, NumberReads
  <2>7. todo' = From(Answers!Check, 5) /\ prog' = prog /\ ret' = ret BY <1>3, <1>11, <2>6
  <2>8. MsgRead(r)' BY <1>5, <2>2, <2>6 DEF MsgRead
  <2>9. CheckAt(5, r, u)' BY <1>8, <1>11, <2>7, <2>8 DEF CheckAt
  <2> QED BY <2>7, <2>9 DEF CheckGoesOn
<1>12. CASE l = 5
  <2>1. Answers!Stmt = Answers!Close("msg") BY <1>3, <1>12, CheckIs
  <2>2. MsgRead(r) BY <1>12 DEF CheckAt
  <2>3. locals' = locals /\ Answers!Advance BY <1>3, <2>1, Closes
  <2>4. todo' = From(Answers!Check, 6) /\ prog' = prog /\ ret' = ret BY <1>3, <1>12, <2>3
  <2>5. MsgRead(r)' BY <2>2, <2>3 DEF MsgRead
  <2>6. CheckAt(6, r, u)' BY <1>8, <1>12, <2>4, <2>5 DEF CheckAt
  <2> QED BY <2>4, <2>6 DEF CheckGoesOn
<1> QED BY <1>7, <1>9, <1>10, <1>11, <1>12

(* The keys are read. *)
LEMMA CheckReadsKeys ==
  ASSUME KatTypes, OthersKept, prog = "check", Answers!Execute,
         NEW l \in 6..11, NEW r \in 1..Records, NEW u \in 1..Records, CheckAt(l, r, u)
  PROVE  CheckGoesOn
<1>1. AllFit("check", Answers!Check) /\ Len(Answers!Check) = 27 BY CheckIs
<1>2. todo = From(Answers!Check, l) /\ l \in 1..Len(Answers!Check) BY <1>1 DEF CheckAt
<1>3. /\ todo # <<>> /\ Answers!Stmt = Answers!Check[l]
      /\ Answers!Advance => todo' = From(Answers!Check, l + 1) /\ prog' = prog /\ ret' = ret
  BY <1>1, <1>2, AtFrom
<1>4. "sk" \in Answers!FileNames /\ "pk" \in Answers!FileNames BY DEF Answers!FileNames
<1>5. {"mlen", "m", "sk", "pk"} \subseteq Locals BY DEF Locals, Values, Numerals
<1>6. BytesOf("none") = Answers!KeyLen /\ Answers!KeyLen # 0 BY DEF BytesOf, Answers!KeyLen
<1>7. CopiedFrom(r, u) /\ CopiedFrom(r, u)' /\ MsgRead(r)
  <2>1. l \notin {1, 2, 3, 4} /\ l \notin 13..28 OBVIOUS
  <2>2. CopiedFrom(r, u) /\ (MsgRead(r) \/ SkRead(r) \/ PairRead(r, u)) BY <2>1 DEF CheckAt
  <2>3. CopiedFrom(r, u) /\ MsgRead(r) BY <2>2, Zenon DEF SkRead, PairRead
  <2> QED BY <2>3, CopiedStays
<1>8. /\ Len(files["sk"]) = 1 /\ Len(files["pk"]) = 1
      /\ files["sk"][1].tag = "sk" /\ files["sk"][1].val = <<"sk", KeyOf(r)>>
      /\ files["sk"][1].len = Answers!KeyLen
      /\ files["pk"][1].tag = "pk" /\ files["pk"][1].val = <<"pk", KeyOf(u)>>
      /\ files["pk"][1].len = Answers!KeyLen
      /\ ~Answers!Missing("sk") /\ ~Answers!Missing("pk")
  BY <1>7, CopiedFiles
<1>9. CASE l = 6
  <2>1. Answers!Stmt = Answers!Open("sk", "r") BY <1>3, <1>9, CheckIs
  <2>2. locals' = locals /\ lines'["sk"] = 0 /\ Answers!Advance
    BY <1>3, <1>4, <1>8, <2>1, OpenReads
  <2>3. todo' = From(Answers!Check, 7) /\ prog' = prog /\ ret' = ret BY <1>3, <1>9, <2>2
  <2>4. MsgRead(r)' BY <1>7, <2>2 DEF MsgRead
  <2>5. CheckAt(7, r, u)' BY <1>7, <2>2, <2>3, <2>4 DEF CheckAt
  <2> QED BY <2>3, <2>5 DEF CheckGoesOn
<1>10. CASE l = 7
  <2>1. Answers!Stmt = Answers!Hex("sk", "sk", "sk", "none") BY <1>3, <1>10, CheckIs
  <2>2. lines["sk"] = 0 BY <1>10 DEF CheckAt
  <2>3. PICK k : k = 1 OBVIOUS
  <2>4. lines["sk"] + 1 = k /\ k <= Len(files["sk"]) /\ files["sk"][k].tag = "sk" /\ k # 0
    BY <1>8, <2>2, <2>3
  <2>5. k = Answers!Found("sk", "sk") BY <1>4, <2>4, NextFound
  <2>6. /\ Answers!Advance
        /\ \A y \in Locals : y # "sk" => locals'[y] = locals[y]
        /\ locals'["sk"] = IF files["sk"][k].len = BytesOf("none") THEN files["sk"][k].val
                           ELSE <<"part">>
    BY <1>3, <1>4, <1>5, <1>6, <2>1, <2>4, <2>5, HexReads
  <2>7. todo' = From(Answers!Check, 8) /\ prog' = prog /\ ret' = ret BY <1>3, <1>10, <2>6
  <2>8. locals'["sk"] = <<"sk", KeyOf(r)>> BY <1>6, <1>8, <2>3, <2>6
  <2>9. SkRead(r)' BY <1>5, <1>7, <2>6, <2>8 DEF SkRead, MsgRead
  <2>10. CheckAt(8, r, u)' BY <1>7, <2>7, <2>9 DEF CheckAt
  <2> QED BY <2>7, <2>10 DEF CheckGoesOn
<1>11. CASE l = 8
  <2>1. Answers!Stmt = Answers!Close("sk") BY <1>3, <1>11, CheckIs
  <2>2. SkRead(r) BY <1>11 DEF CheckAt
  <2>3. locals' = locals /\ Answers!Advance BY <1>3, <2>1, Closes
  <2>4. todo' = From(Answers!Check, 9) /\ prog' = prog /\ ret' = ret BY <1>3, <1>11, <2>3
  <2>5. SkRead(r)' BY <2>2, <2>3 DEF SkRead, MsgRead
  <2>6. CheckAt(9, r, u)' BY <1>7, <2>4, <2>5 DEF CheckAt
  <2> QED BY <2>4, <2>6 DEF CheckGoesOn
<1>12. CASE l = 9
  <2>1. Answers!Stmt = Answers!Open("pk", "r") BY <1>3, <1>12, CheckIs
  <2>2. SkRead(r) BY <1>12 DEF CheckAt
  <2>3. locals' = locals /\ lines'["pk"] = 0 /\ Answers!Advance
    BY <1>3, <1>4, <1>8, <2>1, OpenReads
  <2>4. todo' = From(Answers!Check, 10) /\ prog' = prog /\ ret' = ret BY <1>3, <1>12, <2>3
  <2>5. SkRead(r)' BY <2>2, <2>3 DEF SkRead, MsgRead
  <2>6. CheckAt(10, r, u)' BY <1>7, <2>3, <2>4, <2>5 DEF CheckAt
  <2> QED BY <2>4, <2>6 DEF CheckGoesOn
<1>13. CASE l = 10
  <2>1. Answers!Stmt = Answers!Hex("pk", "pk", "pk", "none") BY <1>3, <1>13, CheckIs
  <2>2. lines["pk"] = 0 /\ SkRead(r) BY <1>13 DEF CheckAt
  <2>3. PICK k : k = 1 OBVIOUS
  <2>4. lines["pk"] + 1 = k /\ k <= Len(files["pk"]) /\ files["pk"][k].tag = "pk" /\ k # 0
    BY <1>8, <2>2, <2>3
  <2>5. k = Answers!Found("pk", "pk") BY <1>4, <2>4, NextFound
  <2>6. /\ Answers!Advance
        /\ \A y \in Locals : y # "pk" => locals'[y] = locals[y]
        /\ locals'["pk"] = IF files["pk"][k].len = BytesOf("none") THEN files["pk"][k].val
                           ELSE <<"part">>
    BY <1>3, <1>4, <1>5, <1>6, <2>1, <2>4, <2>5, HexReads
  <2>7. todo' = From(Answers!Check, 11) /\ prog' = prog /\ ret' = ret BY <1>3, <1>13, <2>6
  <2>8. locals'["pk"] = <<"pk", KeyOf(u)>> BY <1>6, <1>8, <2>3, <2>6
  <2>9. PairRead(r, u)' BY <1>5, <2>2, <2>6, <2>8 DEF PairRead, SkRead, MsgRead
  <2>10. CheckAt(11, r, u)' BY <1>7, <2>7, <2>9 DEF CheckAt
  <2> QED BY <2>7, <2>10 DEF CheckGoesOn
<1>14. CASE l = 11
  <2>1. Answers!Stmt = Answers!Close("pk") BY <1>3, <1>14, CheckIs
  <2>2. PairRead(r, u) BY <1>14 DEF CheckAt
  <2>3. locals' = locals /\ Answers!Advance BY <1>3, <2>1, Closes
  <2>4. todo' = From(Answers!Check, 12) /\ prog' = prog /\ ret' = ret BY <1>3, <1>14, <2>3
  <2>5. PairRead(r, u)' BY <2>2, <2>3 DEF PairRead, SkRead, MsgRead
  <2>6. CheckAt(12, r, u)' BY <1>7, <2>4, <2>5 DEF CheckAt
  <2> QED BY <2>4, <2>6 DEF CheckGoesOn
<1> QED BY <1>9, <1>10, <1>11, <1>12, <1>13, <1>14

(* The message is signed, and the signature written and read back. *)
LEMMA CheckSigns ==
  ASSUME KatTypes, OthersKept, prog = "check", Answers!Execute,
         NEW l \in 12..18, NEW r \in 1..Records, NEW u \in 1..Records, CheckAt(l, r, u)
  PROVE  CheckGoesOn
<1>1. AllFit("check", Answers!Check) /\ Len(Answers!Check) = 27 BY CheckIs
<1>2. todo = From(Answers!Check, l) /\ l \in 1..Len(Answers!Check) BY <1>1 DEF CheckAt
<1>3. /\ todo # <<>> /\ Answers!Stmt = Answers!Check[l]
      /\ Answers!Advance => todo' = From(Answers!Check, l + 1) /\ prog' = prog /\ ret' = ret
  BY <1>1, <1>2, AtFrom
<1>4. "sig" \in Answers!FileNames BY DEF Answers!FileNames
<1>5. {"mlen", "m", "sk", "pk", "sm", "smlen", "sm1"} \subseteq Locals
  BY DEF Locals, Values, Numerals
<1>6. 33 * r \in Nat \ {0} /\ SigBytes \in Nat \ {0} /\ SigBytes + 33 * r # 0
  BY AnswersAssumption DEF Answers!SizesAssumption
<1>7. CopiedFrom(r, u) /\ CopiedFrom(r, u)' /\ PairRead(r, u)
  <2>1. CopiedFrom(r, u) /\ PairRead(r, u) BY DEF CheckAt, SignedAs
  <2> QED BY <2>1, CopiedStays
<1>8. ASSUME locals' = locals PROVE PairRead(r, u)' /\ (SignedAs(r, u) => SignedAs(r, u)')
  BY <1>7, <1>8 DEF PairRead, SkRead, MsgRead, SignedAs
<1>9. CASE l = 12
  <2>1. Answers!Stmt = Answers!Open("sig", "w") BY <1>3, <1>9, CheckIs
  <2>2. locals' = locals /\ files'["sig"] = <<>> /\ Answers!Advance
    BY <1>3, <1>4, <2>1, OpenWrites
  <2>3. todo' = From(Answers!Check, 13) /\ prog' = prog /\ ret' = ret BY <1>3, <1>9, <2>2
  <2>4. CheckAt(13, r, u)' BY <1>7, <1>8, <2>2, <2>3 DEF CheckAt
  <2> QED BY <2>3, <2>4 DEF CheckGoesOn
<1>10. CASE l = 13
  <2>1. Answers!Stmt = Answers!Do("sign") BY <1>3, <1>10, CheckIs
  <2>2. files["sig"] = <<>> BY <1>10 DEF CheckAt
  <2>3. /\ files' = files /\ Answers!Advance
        /\ locals'["sm"] = <<"sm", locals["sk"], locals["m"],
                             <<"rand", drbg.seed, drbg.draws>>, locals["mlen"]>>
        /\ locals'["smlen"] = SigBytes + locals["mlen"]
        /\ \A y \in Locals : y \notin {"sm", "smlen"} => locals'[y] = locals[y]
    BY <1>3, <2>1, Signs
  <2>4. todo' = From(Answers!Check, 14) /\ prog' = prog /\ ret' = ret BY <1>3, <1>10, <2>3
  <2>5. /\ locals'["sk"] = locals["sk"] /\ locals'["m"] = locals["m"]
        /\ locals'["mlen"] = locals["mlen"] /\ locals'["pk"] = locals["pk"]
    BY <1>5, <2>3
  <2>6. PairRead(r, u)' /\ locals["mlen"] = 33 * r BY <1>7, <2>5 DEF PairRead, SkRead, MsgRead
  <2>7. SignedAs(r, u)' BY <2>3, <2>5, <2>6 DEF SignedAs
  <2>8. CheckAt(14, r, u)' BY <1>7, <2>2, <2>3, <2>4, <2>7 DEF CheckAt
  <2> QED BY <2>4, <2>8 DEF CheckGoesOn
<1>11. CASE l = 14
  <2>1. Answers!Stmt = Answers!Put("sig", "sm", "sm", "smlen") BY <1>3, <1>11, CheckIs
  <2>2. files["sig"] = <<>> /\ SignedAs(r, u) BY <1>11 DEF CheckAt
  <2>3. PICK y : y = Answers!Line("sm", locals["sm"], BytesOf("smlen")) OBVIOUS
  <2>4. locals' = locals /\ Answers!Advance /\ files'["sig"] = Append(files["sig"], y)
    BY <1>3, <1>4, <2>1, <2>3, Writes
  <2>5. y = Answers!Line("sm", locals["sm"], locals["smlen"]) BY <2>3 DEF BytesOf
  <2>6. SigWritten' BY <2>2, <2>4, <2>5 DEF SigWritten
  <2>7. todo' = From(Answers!Check, 15) /\ prog' = prog /\ ret' = ret BY <1>3, <1>11, <2>4
  <2>8. CheckAt(15, r, u)' BY <1>7, <1>8, <2>2, <2>4, <2>6, <2>7 DEF CheckAt
  <2> QED BY <2>7, <2>8 DEF CheckGoesOn
<1>12. CASE l = 15
  <2>1. Answers!Stmt = Answers!Close("sig") BY <1>3, <1>12, CheckIs
  <2>2. SignedAs(r, u) /\ SigWritten BY <1>12 DEF CheckAt
  <2>3. locals' = locals /\ files' = files /\ Answers!Advance BY <1>3, <2>1, Closes
  <2>4. todo' = From(Answers!Check, 16) /\ prog' = prog /\ ret' = ret BY <1>3, <1>12, <2>3
  <2>5. SigWritten' BY <2>2, <2>3 DEF SigWritten
  <2>6. CheckAt(16, r, u)' BY <1>7, <1>8, <2>2, <2>3, <2>4, <2>5 DEF CheckAt
  <2> QED BY <2>4, <2>6 DEF CheckGoesOn
<1>13. ASSUME SigWritten
       PROVE  /\ Len(files["sig"]) = 1 /\ files["sig"][1].tag = "sm"
              /\ files["sig"][1].val = locals["sm"] /\ files["sig"][1].len = locals["smlen"]
              /\ ~Answers!Missing("sig")
  <2>1. PICK y : y = Answers!Line("sm", locals["sm"], locals["smlen"]) OBVIOUS
  <2>2. files["sig"] = Append(<<>>, y) BY <1>13, <2>1 DEF SigWritten
  <2>3. Len(files["sig"]) = 1 /\ files["sig"][1] = y
    <3>1. Append(<<>>, y) = <<y>> OBVIOUS
    <3> QED BY <2>2, <3>1
  <2>4. y.tag = "sm" /\ y.val = locals["sm"] /\ y.len = locals["smlen"]
    BY ONLY <2>1 DEF Answers!Line
  <2> QED BY <2>3, <2>4 DEF Answers!Missing
<1>14. CASE l = 16
  <2>1. Answers!Stmt = Answers!Open("sig", "r") BY <1>3, <1>14, CheckIs
  <2>2. SignedAs(r, u) /\ SigWritten BY <1>14 DEF CheckAt
  <2>3. locals' = locals /\ files' = files /\ lines'["sig"] = 0 /\ Answers!Advance
    BY <1>3, <1>4, <1>13, <2>1, <2>2, OpenReads
  <2>4. todo' = From(Answers!Check, 17) /\ prog' = prog /\ ret' = ret BY <1>3, <1>14, <2>3
  <2>5. SigWritten' BY <2>2, <2>3 DEF SigWritten
  <2>6. CheckAt(17, r, u)' BY <1>7, <1>8, <2>2, <2>3, <2>4, <2>5 DEF CheckAt
  <2> QED BY <2>4, <2>6 DEF CheckGoesOn
<1>15. CASE l = 17
  <2>1. Answers!Stmt = Answers!Hex("sig", "sm", "sm1", "smlen") BY <1>3, <1>15, CheckIs
  <2>2. lines["sig"] = 0 /\ SignedAs(r, u) /\ SigWritten BY <1>15 DEF CheckAt
  <2>3. PICK k : k = 1 OBVIOUS
  <2>4. lines["sig"] + 1 = k /\ k <= Len(files["sig"]) /\ files["sig"][k].tag = "sm" /\ k # 0
    BY <1>13, <2>2, <2>3
  <2>5. k = Answers!Found("sig", "sm") BY <1>4, <2>4, NextFound
  <2>6. BytesOf("smlen") = locals["smlen"] /\ BytesOf("smlen") # 0
    BY <1>6, <2>2 DEF BytesOf, SignedAs
  <2>7. /\ Answers!Advance
        /\ \A y \in Locals : y # "sm1" => locals'[y] = locals[y]
        /\ locals'["sm1"] = IF files["sig"][k].len = BytesOf("smlen") THEN files["sig"][k].val
                            ELSE <<"part">>
    BY <1>3, <1>4, <1>5, <2>1, <2>4, <2>5, <2>6, HexReads
  <2>8. todo' = From(Answers!Check, 18) /\ prog' = prog /\ ret' = ret BY <1>3, <1>15, <2>7
  <2>9. locals'["sm1"] = locals["sm"] BY <1>13, <2>2, <2>3, <2>6, <2>7
  <2>10. /\ locals'["sk"] = locals["sk"] /\ locals'["m"] = locals["m"]
         /\ locals'["mlen"] = locals["mlen"] /\ locals'["pk"] = locals["pk"]
         /\ locals'["sm"] = locals["sm"] /\ locals'["smlen"] = locals["smlen"]
    BY <1>5, <2>7
  <2>11. SignedAs(r, u)' BY <2>2, <2>10 DEF SignedAs, PairRead, SkRead, MsgRead
  <2>12. CheckAt(18, r, u)' BY <1>7, <2>8, <2>9, <2>10, <2>11 DEF CheckAt
  <2> QED BY <2>8, <2>12 DEF CheckGoesOn
<1>16. CASE l = 18
  <2>1. Answers!Stmt = Answers!Close("sig") BY <1>3, <1>16, CheckIs
  <2>2. SignedAs(r, u) /\ locals["sm1"] = locals["sm"] BY <1>16 DEF CheckAt
  <2>3. locals' = locals /\ Answers!Advance BY <1>3, <2>1, Closes
  <2>4. todo' = From(Answers!Check, 19) /\ prog' = prog /\ ret' = ret BY <1>3, <1>16, <2>3
  <2>5. CheckAt(19, r, u)' BY <1>7, <1>8, <2>2, <2>3, <2>4 DEF CheckAt
  <2> QED BY <2>4, <2>5 DEF CheckGoesOn
<1> QED BY <1>9, <1>10, <1>11, <1>12, <1>14, <1>15, <1>16

(* Both signatures are opened; with keys of two records neither is. *)
LEMMA CheckVerifies ==
  ASSUME KatTypes, prog = "check", Answers!Execute,
         NEW l \in 19..22, NEW r \in 1..Records, NEW u \in 1..Records, CheckAt(l, r, u)
  PROVE  CheckGoesOn
<1>1. AllFit("check", Answers!Check) /\ Len(Answers!Check) = 27 BY CheckIs
<1>2. todo = From(Answers!Check, l) /\ l \in 1..Len(Answers!Check) BY <1>1 DEF CheckAt
<1>3. /\ todo # <<>> /\ Answers!Stmt = Answers!Check[l]
      /\ Answers!Advance => todo' = From(Answers!Check, l + 1) /\ prog' = prog /\ ret' = ret
  BY <1>1, <1>2, AtFrom
<1>4. {"mlen", "m", "sk", "pk", "sm", "smlen", "sm1", "m1", "mlen1", "m2", "mlen2"} \subseteq Locals
  BY DEF Locals, Values, Numerals
<1>5. ASSUME SignedAs(r, u)
      PROVE  /\ locals["sm"][3] = locals["m"] /\ locals["sm"][5] = locals["mlen"]
             /\ Answers!Opens(locals["sm"], locals["smlen"], locals["pk"]) <=> KeyOf(u) = KeyOf(r)
             /\ locals["sk"] = <<"sk", KeyOf(r)>> /\ locals["pk"] = <<"pk", KeyOf(u)>>
             /\ locals["m"] = MsgOf(r)
  <2>1. PICK w : locals["sm"] = <<"sm", locals["sk"], locals["m"], w, 33 * r>>
    BY <1>5 DEF SignedAs
  <2>2. /\ locals["smlen"] = SigBytes + 33 * r /\ locals["mlen"] = 33 * r
        /\ locals["sk"] = <<"sk", KeyOf(r)>> /\ locals["pk"] = <<"pk", KeyOf(u)>>
        /\ locals["m"] = MsgOf(r)
    BY <1>5 DEF SignedAs, PairRead, SkRead, MsgRead
  <2>3. Answers!Opens(locals["sm"], locals["smlen"], locals["pk"]) <=> KeyOf(u) = KeyOf(r)
    BY <2>1, <2>2, OpensIs
  <2> QED BY <2>1, <2>2, <2>3
<1>6. CASE l = 19
  <2>1. Answers!Stmt = Answers!Verify("sm", "m1", "mlen1") BY <1>3, <1>6, CheckIs
  <2>2. CopiedFrom(r, u) /\ SignedAs(r, u) /\ locals["sm1"] = locals["sm"]
    BY <1>6 DEF CheckAt
  <2>3. /\ files' = files
        /\ \A y \in Locals : y \notin {"m1", "mlen1"} => locals'[y] = locals[y]
        /\ IF Answers!Opens(locals["sm"], locals["smlen"], locals["pk"])
           THEN /\ Answers!Advance /\ locals'["m1"] = locals["sm"][3]
                /\ locals'["mlen1"] = locals["sm"][5]
           ELSE Answers!Finish("crypto")
    BY <1>3, <1>4, <2>1, Verifies
  <2>4. CASE KeyOf(u) = KeyOf(r)
    <3>1. /\ Answers!Advance /\ locals'["m1"] = locals["m"] /\ locals'["mlen1"] = locals["mlen"]
      BY <1>5, <2>2, <2>3, <2>4
    <3>2. todo' = From(Answers!Check, 20) /\ prog' = prog /\ ret' = ret BY <1>3, <1>6, <3>1
    <3>3. /\ locals'["sk"] = locals["sk"] /\ locals'["m"] = locals["m"]
          /\ locals'["mlen"] = locals["mlen"] /\ locals'["pk"] = locals["pk"]
          /\ locals'["sm"] = locals["sm"] /\ locals'["smlen"] = locals["smlen"]
          /\ locals'["sm1"] = locals["sm1"]
      BY <1>4, <2>3
    <3>4. SignedAs(r, u)' BY <2>2, <3>3 DEF SignedAs, PairRead, SkRead, MsgRead
    <3>5. locals["m"][1] = "rand" /\ locals["sk"][1] = "sk" /\ locals["sk"][2] = KeyOf(r)
      BY <1>5, <2>2 DEF MsgOf
    <3>6. Together' BY <1>5, <2>2, <2>4, <3>1, <3>3, <3>5 DEF Together
    <3>7. CheckAt(20, r, u)' BY <2>2, <3>1, <3>2, <3>3, <3>4, <3>6 DEF CheckAt
    <3> QED BY <3>2, <3>7 DEF CheckGoesOn
  <2>5. CASE KeyOf(u) # KeyOf(r)
    <3>1. Answers!Finish("crypto") BY <1>5, <2>2, <2>3, <2>5
    <3>2. ~Answers!Copied BY <2>2, <2>5, OneRecord
    <3>3. Answers!Copied' => Answers!Copied BY <2>3 DEF Answers!Copied, Answers!Complete
    <3> QED BY <3>1, <3>2, <3>3, EndsWell DEF CheckGoesOn
  <2> QED BY <2>4, <2>5
<1>7. CASE l = 20
  <2>1. Answers!Stmt = Answers!Same("mlen1", "m1") BY <1>3, <1>7, CheckIs
  <2>2. /\ SignedAs(r, u) /\ locals["sm1"] = locals["sm"]
        /\ Together /\ locals["mlen1"] = locals["mlen"]
    BY <1>7 DEF CheckAt
  <2>3. locals' = locals /\ Answers!Advance BY <1>3, <2>1, <2>2, Compares DEF Together
  <2>4. todo' = From(Answers!Check, 21) /\ prog' = prog /\ ret' = ret BY <1>3, <1>7, <2>3
  <2>5. SignedAs(r, u)' /\ Together'
    BY <2>2, <2>3 DEF SignedAs, PairRead, SkRead, MsgRead, Together
  <2>6. CheckAt(21, r, u)' BY <2>2, <2>3, <2>4, <2>5 DEF CheckAt
  <2> QED BY <2>4, <2>6 DEF CheckGoesOn
<1>8. CASE l = 21
  <2>1. Answers!Stmt = Answers!Verify("sm1", "m2", "mlen2") BY <1>3, <1>8, CheckIs
  <2>2. SignedAs(r, u) /\ locals["sm1"] = locals["sm"] /\ Together BY <1>8 DEF CheckAt
  <2>3. /\ \A y \in Locals : y \notin {"m2", "mlen2"} => locals'[y] = locals[y]
        /\ IF Answers!Opens(locals["sm1"], locals["smlen"], locals["pk"])
           THEN /\ Answers!Advance /\ locals'["m2"] = locals["sm1"][3]
                /\ locals'["mlen2"] = locals["sm1"][5]
           ELSE Answers!Finish("crypto")
    BY <1>3, <1>4, <2>1, Verifies
  <2>4. KeyOf(u) = KeyOf(r)
    <3>1. locals["pk"] = <<"pk", KeyOf(r)>> /\ locals["pk"] = <<"pk", KeyOf(u)>>
      BY <1>5, <2>2 DEF Together
    <3> QED BY <3>1
  <2>5. /\ Answers!Advance /\ locals'["m2"] = locals["m"] /\ locals'["mlen2"] = locals["mlen"]
    BY <1>5, <2>2, <2>3, <2>4
  <2>6. todo' = From(Answers!Check, 22) /\ prog' = prog /\ ret' = ret BY <1>3, <1>8, <2>5
  <2>7. /\ locals'["sk"] = locals["sk"] /\ locals'["m"] = locals["m"]
        /\ locals'["mlen"] = locals["mlen"] /\ locals'["pk"] = locals["pk"]
        /\ locals'["m1"] = locals["m1"]
    BY <1>4, <2>3
  <2>8. Together' BY <2>2, <2>7 DEF Together
  <2>9. CheckAt(22, r, u)' BY <2>5, <2>6, <2>7, <2>8 DEF CheckAt
  <2> QED BY <2>6, <2>9 DEF CheckGoesOn
<1>9. CASE l = 22
  <2>1. Answers!Stmt = Answers!Same("mlen2", "m2") BY <1>3, <1>9, CheckIs
  <2>2. Together /\ locals["m2"] = locals["m"] /\ locals["mlen2"] = locals["mlen"]
    BY <1>9 DEF CheckAt
  <2>3. locals' = locals /\ Answers!Advance BY <1>3, <2>1, <2>2, Compares
  <2>4. todo' = From(Answers!Check, 23) /\ prog' = prog /\ ret' = ret BY <1>3, <1>9, <2>3
  <2>5. Together' BY <2>2, <2>3 DEF Together
  <2>6. CheckAt(23, r, u)' BY <2>4, <2>5 DEF CheckAt
  <2> QED BY <2>4, <2>6 DEF CheckGoesOn
<1> QED BY <1>6, <1>7, <1>8, <1>9

(* The messages are written, and the program succeeds. *)
LEMMA CheckEnds ==
  ASSUME KatTypes, prog = "check", Answers!Execute,
         NEW l \in 23..28, NEW r \in 1..Records, NEW u \in 1..Records, CheckAt(l, r, u)
  PROVE  CheckGoesOn
<1>1. AllFit("check", Answers!Check) /\ Len(Answers!Check) = 27 BY CheckIs
<1>2. Together
  <2>1. l > 22 /\ l \notin {5, 6} /\ l \notin {8, 9} /\ l \notin {11, 12} /\ l \notin {15, 16}
        /\ l \notin {18, 19} /\ l \notin {20, 21}
    OBVIOUS
  <2> QED BY <2>1 DEF CheckAt
<1>3. CASE l \in 23..27
  <2>1. todo = From(Answers!Check, l) /\ l \in 1..Len(Answers!Check) BY <1>1, <1>3 DEF CheckAt
  <2>2. /\ todo # <<>> /\ Answers!Stmt = Answers!Check[l]
        /\ Answers!Advance => todo' = From(Answers!Check, l + 1) /\ prog' = prog /\ ret' = ret
    BY <1>1, <2>1, AtFrom
  <2>3. "messages" \in Answers!FileNames BY DEF Answers!FileNames
  <2>4. locals' = locals /\ Answers!Advance
    <3>1. CASE l = 23
      <4>1. Answers!Stmt = Answers!Open("messages", "w") BY <2>2, <3>1, CheckIs
      <4> QED BY <2>2, <2>3, <4>1, OpenWrites
    <3>2. CASE l = 24
      <4>1. Answers!Stmt = Answers!Stray("messages", "m", "m") BY <2>2, <3>2, CheckIs
      <4> QED BY <2>2, <2>3, <4>1, Strays
    <3>3. CASE l = 25
      <4>1. Answers!Stmt = Answers!Stray("messages", "m1", "m1") BY <2>2, <3>3, CheckIs
      <4> QED BY <2>2, <2>3, <4>1, Strays
    <3>4. CASE l = 26
      <4>1. Answers!Stmt = Answers!Stray("messages", "m1", "m2") BY <2>2, <3>4, CheckIs
      <4> QED BY <2>2, <2>3, <4>1, Strays
    <3>5. CASE l = 27
      <4>1. Answers!Stmt = Answers!Close("messages") BY <2>2, <3>5, CheckIs
      <4> QED BY <2>2, <4>1, Closes
    <3> QED BY <1>3, <3>1, <3>2, <3>3, <3>4, <3>5
  <2>5. Together' BY <1>2, <2>4 DEF Together
  <2>6. todo' = From(Answers!Check, l + 1) /\ prog' = prog /\ ret' = ret BY <2>2, <2>4
  <2>7. PICK k : k = l + 1 OBVIOUS
  <2>8. k \in 23..28 /\ k \in 1..28 BY <1>3, <2>7
  <2>9. CheckAt(k, r, u)' BY <2>5, <2>6, <2>7, <2>8 DEF CheckAt
  <2> QED BY <2>6, <2>8, <2>9 DEF CheckGoesOn
<1>4. CASE l = 28
  <2>1. todo = From(Answers!Check, Len(Answers!Check) + 1) BY <1>1, <1>4 DEF CheckAt
  <2>2. todo = <<>> BY <1>1, <2>1, AtEnd
  <2>3. locals' = locals /\ Answers!Finish("success") BY <2>2, NoneLeft
  <2>4. Together' BY <1>2, <2>3 DEF Together
  <2> QED BY <2>3, <2>4, EndsWell DEF CheckGoesOn
<1> QED BY <1>3, <1>4

(* Whatever the program does next. *)
LEMMA CheckSteps ==
  ASSUME KatTypes, CopiedOk, OthersKept, prog = "check", Answers!Execute,
         NEW l \in 1..28, NEW r \in 1..Records, NEW u \in 1..Records, CheckAt(l, r, u)
  PROVE  CheckGoesOn
<1>1. l \in 1..5 \/ l \in 6..11 \/ l \in 12..18 \/ l \in 19..22 \/ l \in 23..28 OBVIOUS
<1> QED BY <1>1, CheckReadsMessage, CheckReadsKeys, CheckSigns, CheckVerifies, CheckEnds

-----------------------------------------------------------------------------
\* PQCgenKAT_sign.

(* The lines of a record of the request. *)
Asking(r) ==
  <<Answers!Line("count", r - 1, Answers!KeyLen), Answers!Line("seed", SeedOf(r), Answers!KeyLen),
    Answers!Line("mlen", 33 * r, Answers!KeyLen), Answers!Line("msg", MsgOf(r), 33 * r), BlankLine>>

(* s holds the request as far as it goes. *)
ReqRight(s) ==
  /\ Len(s) \in 0..(5 * Records)
  /\ \A r \in 1..Records, c \in 1..5 : 5 * r - 5 + c <= Len(s) => s[5 * r - 5 + c] = Asking(r)[c]

(* What a line of the request is.                                            *)
LEMMA AskingIs ==
  ASSUME NEW r \in 1..Records
  PROVE  /\ Asking(r)[1] = Answers!Line("count", r - 1, Answers!KeyLen)
         /\ Asking(r)[2] = Answers!Line("seed", SeedOf(r), Answers!KeyLen)
         /\ Asking(r)[3] = Answers!Line("mlen", 33 * r, Answers!KeyLen)
         /\ Asking(r)[4] = Answers!Line("msg", MsgOf(r), 33 * r)
         /\ Asking(r)[5] = BlankLine
         /\ \A c \in 1..5 : OkLine(Asking(r)[c])
<1>1. r - 1 \in Nat /\ 33 * r \in Nat /\ Answers!KeyLen \in Nat /\ 0 \in Nat
  BY AnswersAssumption DEF Answers!SizesAssumption, Answers!KeyLen
<1>2. /\ Asking(r)[1] = Answers!Line("count", r - 1, Answers!KeyLen)
      /\ Asking(r)[2] = Answers!Line("seed", SeedOf(r), Answers!KeyLen)
      /\ Asking(r)[3] = Answers!Line("mlen", 33 * r, Answers!KeyLen)
      /\ Asking(r)[4] = Answers!Line("msg", MsgOf(r), 33 * r)
      /\ Asking(r)[5] = BlankLine
  BY DEF Asking
<1>3. ASSUME NEW t, NEW w, NEW n \in Nat, t \in Answers!Numbers => w \in Nat
      PROVE  OkLine(Answers!Line(t, w, n))
  BY <1>3 DEF OkLine, Answers!Line
<1>4. /\ OkLine(Answers!Line("count", r - 1, Answers!KeyLen))
      /\ OkLine(Answers!Line("mlen", 33 * r, Answers!KeyLen))
  BY <1>1, <1>3
<1>5. "seed" \notin Answers!Numbers /\ "msg" \notin Answers!Numbers /\ "none" \notin Answers!Numbers
  BY DEF Answers!Numbers
<1>6. /\ OkLine(Answers!Line("seed", SeedOf(r), Answers!KeyLen))
      /\ OkLine(Answers!Line("msg", MsgOf(r), 33 * r))
      /\ OkLine(BlankLine)
  BY <1>1, <1>3, <1>5 DEF BlankLine
<1>7. \A c \in 1..5 : c \in {1, 2, 3, 4, 5} OBVIOUS
<1> QED BY <1>2, <1>4, <1>6, <1>7

(* The next line of the request is written.                                  *)
LEMMA AskingNext ==
  ASSUME NEW s, OkFile(s), ReqRight(s), NEW r \in 1..Records, NEW c \in 1..5,
         Len(s) = 5 * r - 5 + (c - 1)
  PROVE  LET z == Append(s, Asking(r)[c]) IN
         OkFile(z) /\ ReqRight(z) /\ Len(z) = 5 * r - 5 + c
<1>1. Records \in Nat \ {0} BY AnswersAssumption DEF Answers!SizesAssumption
<1>2. PICK y : y = Asking(r)[c] OBVIOUS
<1>3. PICK z : z = Append(s, y) OBVIOUS
<1>4. OkFile(z) /\ Len(z) = Len(s) + 1 /\ z[Len(s) + 1] = y /\ \A k \in 1..Len(s) : z[k] = s[k]
  <2>1. OkLine(y) BY <1>2, AskingIs
  <2> QED BY <1>3, <2>1, FileAppend
<1>5. Len(z) \in 0..(5 * Records) /\ Len(z) = 5 * r - 5 + c /\ Len(s) \in Nat
  BY <1>1, <1>4 DEF ReqRight
<1>6. ASSUME NEW q \in 1..Records, NEW d \in 1..5, 5 * q - 5 + d <= Len(z)
      PROVE  z[5 * q - 5 + d] = Asking(q)[d]
  <2>1. CASE 5 * q - 5 + d <= Len(s)
    <3>1. 5 * q - 5 + d \in 1..Len(s) BY <1>1, <1>5, <2>1
    <3> QED BY <1>4, <2>1, <3>1 DEF ReqRight
  <2>2. CASE ~(5 * q - 5 + d <= Len(s))
    <3>1. 5 * q - 5 + d = 5 * r - 5 + c BY <1>1, <1>5, <1>6, <2>2
    <3>2. q = r /\ d = c BY <1>1, <3>1
    <3> QED BY <1>2, <1>4, <1>5, <3>2
  <2> QED BY <2>1, <2>2
<1>7. ReqRight(z) BY <1>5, <1>6 DEF ReqRight
<1> QED BY <1>2, <1>3, <1>4, <1>5, <1>7

(* Lines of the response as they are written. *)
LEMMA ExpectedOk ==
  ASSUME NEW r \in 1..Records, NEW c \in 1..8 PROVE OkLine(Answers!Expected(r)[c])
<1>1. /\ r - 1 \in Nat /\ 33 * r \in Nat /\ SigBytes + 33 * r \in Nat /\ Answers!KeyLen \in Nat
  BY AnswersAssumption DEF Answers!SizesAssumption, Answers!KeyLen
<1>2. ASSUME NEW t, NEW w, NEW n \in Nat, t \in Answers!Numbers => w \in Nat
      PROVE  OkLine(Answers!Line(t, w, n))
  BY <1>2 DEF OkLine, Answers!Line
<1>3. /\ "seed" \notin Answers!Numbers /\ "msg" \notin Answers!Numbers
      /\ "pk" \notin Answers!Numbers /\ "sk" \notin Answers!Numbers /\ "sm" \notin Answers!Numbers
  BY DEF Answers!Numbers
<1>4. PICK e : e = Answers!Expected(r) OBVIOUS
<1>10. /\ e[1] = Answers!Line("count", r - 1, Answers!KeyLen)
       /\ e[2] = Answers!Line("seed", SeedOf(r), Answers!KeyLen)
       /\ e[3] = Answers!Line("mlen", 33 * r, Answers!KeyLen)
       /\ e[4] = Answers!Line("msg", MsgOf(r), 33 * r)
       /\ e[5] = Answers!Line("pk", <<"pk", KeyOf(r)>>, Answers!KeyLen)
       /\ e[6] = Answers!Line("sk", <<"sk", KeyOf(r)>>, Answers!KeyLen)
       /\ e[7] = Answers!Line("smlen", SigBytes + 33 * r, Answers!KeyLen)
       /\ e[8] = Answers!Line("sm", SignedOf(r), SigBytes + 33 * r)
  BY <1>4, ExpectedIs
<1>5. OkLine(e[1]) /\ OkLine(e[3]) /\ OkLine(e[7])
  <2>1. OkLine(Answers!Line("count", r - 1, Answers!KeyLen)) BY ONLY <1>1, <1>2
  <2>2. OkLine(Answers!Line("mlen", 33 * r, Answers!KeyLen)) BY ONLY <1>1, <1>2
  <2>3. OkLine(Answers!Line("smlen", SigBytes + 33 * r, Answers!KeyLen)) BY ONLY <1>1, <1>2
  <2> QED BY ONLY <2>1, <2>2, <2>3, <1>10, Zenon
<1>6. OkLine(e[2]) /\ OkLine(e[4]) /\ OkLine(e[5]) /\ OkLine(e[6]) /\ OkLine(e[8])
  <2>1. ASSUME NEW t, NEW w, NEW n \in Nat, t \notin Answers!Numbers
        PROVE  OkLine(Answers!Line(t, w, n))
    BY ONLY <1>2, <2>1
  <2>2. OkLine(Answers!Line("seed", SeedOf(r), Answers!KeyLen)) BY ONLY <1>1, <1>3, <2>1, Zenon
  <2>3. OkLine(Answers!Line("msg", MsgOf(r), 33 * r)) BY ONLY <1>1, <1>3, <2>1, Zenon
  <2>4. OkLine(Answers!Line("pk", <<"pk", KeyOf(r)>>, Answers!KeyLen))
    BY ONLY <1>1, <1>3, <2>1, Zenon
  <2>5. OkLine(Answers!Line("sk", <<"sk", KeyOf(r)>>, Answers!KeyLen))
    BY ONLY <1>1, <1>3, <2>1, Zenon
  <2>6. OkLine(Answers!Line("sm", SignedOf(r), SigBytes + 33 * r))
    BY ONLY <1>1, <1>3, <2>1, Zenon
  <2> QED BY ONLY <2>2, <2>3, <2>4, <2>5, <2>6, <1>10, Zenon
<1>7. c \in {1, 2, 3, 4, 5, 6, 7, 8} OBVIOUS
<1>8. \A k \in {1, 2, 3, 4, 5, 6, 7, 8} : OkLine(e[k])
  <2> DEFINE P(k) == OkLine(e[k])
  <2>1. P(1) /\ P(2) /\ P(3) /\ P(4) /\ P(5) /\ P(6) /\ P(7) /\ P(8) BY <1>5, <1>6
  <2> HIDE DEF P
  <2>2. \A k \in {1, 2, 3, 4, 5, 6, 7, 8} : P(k) BY ONLY <2>1
  <2> QED BY <2>2 DEF P
<1>9. OkLine(e[c]) BY ONLY <1>7, <1>8
<1> QED BY <1>4, <1>9, Zenon

(* The next line of the response is written.                                 *)
LEMMA ExpectedNext ==
  ASSUME NEW s, OkFile(s), RspRight(s), NEW r \in 1..Records, NEW c \in 1..8,
         Len(s) = 8 * r - 7 + (c - 1)
  PROVE  LET z == Append(s, Answers!Expected(r)[c]) IN RspRight(z) /\ Len(z) = 8 * r - 7 + c
<1>1. Records \in Nat \ {0} BY AnswersAssumption DEF Answers!SizesAssumption
<1>2. PICK y : y = Answers!Expected(r)[c] OBVIOUS
<1>3. PICK z : z = Append(s, y) OBVIOUS
<1>4. OkFile(z) /\ Len(z) = Len(s) + 1 /\ z[Len(s) + 1] = y /\ \A k \in 1..Len(s) : z[k] = s[k]
  BY <1>2, <1>3, ExpectedOk, FileAppend
<1>5. /\ Len(z) \in 0..(8 * Records + 1) /\ Len(z) = 8 * r - 7 + c /\ Len(s) \in Nat /\ Len(s) >= 1
  BY <1>1, <1>4 DEF RspRight
<1>6. ASSUME NEW q \in 1..Records, NEW d \in 1..8, 8 * q - 7 + d <= Len(z)
      PROVE  z[8 * q - 7 + d] = Answers!Expected(q)[d]
  <2>1. CASE 8 * q - 7 + d <= Len(s)
    <3>1. 8 * q - 7 + d \in 1..Len(s) BY <1>1, <1>5, <2>1
    <3> QED BY <1>4, <2>1, <3>1 DEF RspRight
  <2>2. CASE ~(8 * q - 7 + d <= Len(s))
    <3>1. 8 * q - 7 + d = 8 * r - 7 + c BY <1>1, <1>5, <1>6, <2>2
    <3>2. q = r /\ d = c BY <1>1, <3>1
    <3> QED BY <1>2, <1>4, <1>5, <3>2
  <2> QED BY <2>1, <2>2
<1>7. z[1] = BlankLine BY <1>4, <1>5 DEF RspRight
<1>8. RspRight(z) BY <1>5, <1>6, <1>7 DEF RspRight
<1> QED BY <1>2, <1>3, <1>5, <1>8

(* Before the requests are written. *)
OpensAt(l) ==
  /\ todo = From(Answers!Generate, l)
  /\ l \in 2..4 => files["req"] = <<>>
  /\ l \in 3..4 => files["rsp"] = <<>>
  /\ l = 4 => locals["seed"] = Answers!Entropy

(* Record r of the request is written, of which there are c lines: the       *)
(* generator was drawn from n times for it.                                  *)
WritesAt(r, j, c, n) ==
  /\ todo = From(Answers!Generate, 9 * r + j - 5)
  /\ ReqRight(files["req"]) /\ Len(files["req"]) = 5 * r - 5 + c
  /\ files["rsp"] = <<>>
  /\ drbg.seed = Answers!Entropy /\ drbg.draws = 2 * r - 2 + n
  /\ r = Records + 1 => j = 1
  /\ \/ j = 1 /\ c = 0 /\ n = 0
     \/ j = 2 /\ c = 0 /\ n = 0 /\ locals["count"] = r - 1
     \/ j = 3 /\ c = 1 /\ n = 0
     \/ j = 4 /\ c = 1 /\ n = 1 /\ locals["seed"] = SeedOf(r)
     \/ j = 5 /\ c = 2 /\ n = 1
     \/ j = 6 /\ c = 2 /\ n = 1 /\ locals["mlen"] = 33 * r
     \/ j = 7 /\ c = 3 /\ n = 1 /\ locals["mlen"] = 33 * r
     \/ j = 8 /\ c = 3 /\ n = 2 /\ MsgRead(r)
     \/ j = 9 /\ c = 4 /\ n = 2

(* All of the request is written, which is closed and opened again. *)
ReopensAt(l) ==
  /\ todo = From(Answers!Generate, 9 * Records + l)
  /\ ReqRight(files["req"]) /\ Len(files["req"]) = 5 * Records
  /\ files["rsp"] = <<>> /\ (l = 7 => lines["req"] = 0)

(* The generator was seeded for record r, and drawn from n times since. *)
SeededFor(r, n) == drbg.seed = SeedOf(r) /\ drbg.draws = n

(* Record r was signed. *)
RecordSigned(r) ==
  /\ locals["mlen"] = 33 * r /\ locals["smlen"] = SigBytes + 33 * r
  /\ locals["sm"] = SignedOf(r)

(* Record r is answered: n lines of it were read, and c were written. *)
AnswersAt(r, j, c, n) ==
  /\ todo = From(Answers!Response, j)
  /\ ReqRight(files["req"]) /\ Len(files["req"]) = 5 * Records
  /\ RspRight(files["rsp"]) /\ Len(files["rsp"]) = 8 * r - 7 + c
  /\ r = Records + 1 => j = 1
  /\ j # 1 => lines["req"] = 5 * r - 5 + n
  /\ \/ j = 1 /\ c = 0 /\ (lines["req"] = 5 * r - 6 \/ (r = 1 /\ lines["req"] = 0))
     \/ j = 2 /\ c = 0 /\ n = 1 /\ locals["count"] = r - 1
     \/ j = 3 /\ c = 1 /\ n = 1
     \/ j \in {4, 5} /\ c = j - 3 /\ n = 2 /\ locals["seed"] = SeedOf(r)
     \/ j = 6 /\ c = 2 /\ n = 2 /\ SeededFor(r, 0)
     \/ j \in {7, 8} /\ c = j - 5 /\ n = 3 /\ SeededFor(r, 0) /\ locals["mlen"] = 33 * r
     \/ j \in {9, 10} /\ c = j - 6 /\ n = 4 /\ SeededFor(r, 0) /\ MsgRead(r)
     \/ j \in {11, 12, 13} /\ c = j - 7 /\ n = 4 /\ SeededFor(r, 1) /\ PairRead(r, r)
     \/ j \in {14, 15} /\ c = j - 8 /\ n = 4 /\ RecordSigned(r)
     \/ j \in {16, 17, 18} /\ c = 8 /\ n = 4

(* What the program knows. *)
GenerateAt ==
  \/ \E l \in 1..4 : OpensAt(l)
  \/ \E r \in 1..(Records + 1), j \in 1..9, c \in 0..4, n \in 0..2 : WritesAt(r, j, c, n)
  \/ \E l \in {6, 7} : ReopensAt(l)
  \/ \E r \in 1..(Records + 1), j \in 1..18, c \in 0..8, n \in 0..4 : AnswersAt(r, j, c, n)

(* A step leads to what the next statement needs, or ends the program, and   *)
(* the response stays right.                                                 *)
GenerateGoesOn ==
  /\ RspOk'
  /\ \/ GenerateAt' /\ prog' = prog /\ ret' = ret
     \/ prog' = "none" /\ ResultsOk'

(* The response is right as far as it goes. *)
LEMMA RightIsOk == RspRight(files["rsp"]) => RspOk
BY RightLines DEF RspOk

(* A file of which nothing is written. *)
LEMMA NothingIsRight == ReqRight(<<>>) /\ RspRight(<<>>) /\ Len(<<>>) = 0
<1>1. Records \in Nat \ {0} BY AnswersAssumption DEF Answers!SizesAssumption
<1>2. Len(<<>>) = 0 OBVIOUS
<1>3. \A r \in 1..Records, c \in 1..5 : ~(5 * r - 5 + c <= 0) BY <1>1
<1>4. \A r \in 1..Records, c \in 1..8 : ~(8 * r - 7 + c <= 0) BY <1>1
<1> QED BY <1>1, <1>2, <1>3, <1>4 DEF ReqRight, RspRight

(* Both files are opened, and the generator is seeded. *)
LEMMA GenerateOpens ==
  ASSUME KatTypes, RspOk, prog = "generate", Answers!Execute, NEW l \in 1..4, OpensAt(l)
  PROVE  GenerateGoesOn
<1>1. Records \in Nat \ {0} BY AnswersAssumption DEF Answers!SizesAssumption
<1>2. AllFit("generate", Answers!Generate) /\ Len(Answers!Generate) = 9 * Records + 25
  BY GenerateIs
<1>3. todo = From(Answers!Generate, l) /\ l \in 1..Len(Answers!Generate)
  BY <1>1, <1>2 DEF OpensAt
<1>4. /\ todo # <<>> /\ Answers!Stmt = Answers!Generate[l]
      /\ Answers!Advance => todo' = From(Answers!Generate, l + 1) /\ prog' = prog /\ ret' = ret
  BY <1>2, <1>3, AtFrom
<1>5. "req" \in Answers!FileNames /\ "rsp" \in Answers!FileNames BY DEF Answers!FileNames
<1>6. "seed" \in Locals BY DEF Locals, Values
<1>7. CASE l = 1
  <2>1. Answers!Stmt = Answers!Open("req", "w") BY <1>4, <1>7, GenerateIs
  <2>2. /\ Answers!Advance /\ files'["req"] = <<>> /\ files'["rsp"] = files["rsp"]
    BY <1>4, <1>5, <2>1, OpenWrites
  <2>3. todo' = From(Answers!Generate, 2) /\ prog' = prog /\ ret' = ret BY <1>4, <1>7, <2>2
  <2>4. OpensAt(2)' BY <2>2, <2>3 DEF OpensAt
  <2>5. RspOk' BY <2>2 DEF RspOk, RspLines
  <2> QED BY <2>3, <2>4, <2>5 DEF GenerateGoesOn, GenerateAt
<1>8. CASE l = 2
  <2>1. Answers!Stmt = Answers!Open("rsp", "w") BY <1>4, <1>8, GenerateIs
  <2>2. files["req"] = <<>> BY <1>8 DEF OpensAt
  <2>3. Answers!Advance /\ files'["rsp"] = <<>> /\ files'["req"] = files["req"]
    BY <1>4, <1>5, <2>1, OpenWrites
  <2>4. todo' = From(Answers!Generate, 3) /\ prog' = prog /\ ret' = ret BY <1>4, <1>8, <2>3
  <2>5. OpensAt(3)' BY <2>2, <2>3, <2>4 DEF OpensAt
  <2>6. RspLines(files'["rsp"]) BY <2>3, NothingIsRight, RightLines
  <2>7. RspOk' BY <2>6 DEF RspOk, RspLines
  <2> QED BY <2>4, <2>5, <2>7 DEF GenerateGoesOn, GenerateAt
<1>9. ASSUME l \in {3, 4}
      PROVE  files["req"] = <<>> /\ files["rsp"] = <<>> /\ (files' = files => RspOk')
  <2>1. files["req"] = <<>> /\ files["rsp"] = <<>> BY <1>9 DEF OpensAt
  <2>2. files' = files => RspOk' BY DEF RspOk, RspLines
  <2> QED BY <2>1, <2>2
<1>10. CASE l = 3
  <2>1. Answers!Stmt = Answers!Set("seed", Answers!Entropy) BY <1>4, <1>10, GenerateIs
  <2>2. Answers!Advance /\ files' = files /\ locals'["seed"] = Answers!Entropy
    BY <1>4, <1>6, <2>1, Sets
  <2>3. todo' = From(Answers!Generate, 4) /\ prog' = prog /\ ret' = ret BY <1>4, <1>10, <2>2
  <2>4. OpensAt(4)' BY <1>9, <1>10, <2>2, <2>3 DEF OpensAt
  <2> QED BY <1>9, <1>10, <2>2, <2>3, <2>4 DEF GenerateGoesOn, GenerateAt
<1>11. CASE l = 4
  <2>1. Answers!Stmt = Answers!Init256("seed") BY <1>4, <1>11, GenerateIs
  <2>2. locals["seed"] = Answers!Entropy BY <1>11 DEF OpensAt
  <2>3. Answers!Advance /\ files' = files /\ drbg' = [seed |-> locals["seed"], draws |-> 0]
    BY <1>4, <2>1, SeedsAgain
  <2>4. todo' = From(Answers!Generate, 5) /\ prog' = prog /\ ret' = ret BY <1>4, <1>11, <2>3
  <2>5. drbg'.seed = Answers!Entropy /\ drbg'.draws = 0 BY <2>2, <2>3
  <2>6. /\ files'["req"] = <<>> /\ files'["rsp"] = <<>>
        /\ ReqRight(files'["req"]) /\ Len(files'["req"]) = 0
    BY <1>9, <1>11, <2>3, NothingIsRight
  <2>7. 9 * 1 + 1 - 5 = 5 /\ 5 * 1 - 5 + 0 = 0 /\ 2 * 1 - 2 + 0 = 0 /\ 1 \in 1..(Records + 1)
        /\ 1 # Records + 1
    BY <1>1
  <2>8. WritesAt(1, 1, 0, 0)' BY <2>4, <2>5, <2>6, <2>7 DEF WritesAt, ReqRight
  <2>9. GenerateAt' BY <2>7, <2>8 DEF GenerateAt
  <2> QED BY <1>9, <1>11, <2>3, <2>4, <2>9 DEF GenerateGoesOn
<1> QED BY <1>7, <1>8, <1>10, <1>11

(* The statements of a record of the request. *)
LEMMA RecordStmt ==
  ASSUME NEW r \in 1..Records, NEW j \in 1..9, todo = From(Answers!Generate, 9 * r + j - 5)
  PROVE  /\ todo # <<>> /\ Answers!Stmt = Answers!Request(r - 1)[j]
         /\ Answers!Advance =>
              todo' = From(Answers!Generate, 9 * r + (j + 1) - 5) /\ prog' = prog /\ ret' = ret
<1>1. Records \in Nat \ {0} BY AnswersAssumption DEF Answers!SizesAssumption
<1>2. AllFit("generate", Answers!Generate) /\ Len(Answers!Generate) = 9 * Records + 25
  BY GenerateIs
<1>3. PICK l : l = 9 * r + j - 5 OBVIOUS
<1>4. l \in 1..Len(Answers!Generate) /\ l + 1 = 9 * r + (j + 1) - 5 BY <1>1, <1>2, <1>3
<1>5. Answers!Generate[l] = Answers!Request(r - 1)[j]
  <2>1. Answers!Generate[9 * r + j - 5] = Answers!Request(r - 1)[j] BY GenerateIs
  <2> QED BY <1>3, <2>1
<1>6. /\ todo # <<>> /\ Answers!Stmt = Answers!Generate[l]
      /\ Answers!Advance => todo' = From(Answers!Generate, l + 1) /\ prog' = prog /\ ret' = ret
  BY <1>2, <1>3, <1>4, AtFrom
<1> QED BY <1>4, <1>5, <1>6

(* A line of record r of the request is written.                             *)
LEMMA RequestWritten ==
  ASSUME KatTypes, prog = "generate", Answers!Execute,
         NEW r \in 1..Records, NEW j \in {2, 4, 6, 8, 9}, NEW c \in 0..4, NEW n \in 0..2,
         WritesAt(r, j, c, n)
  PROVE  GenerateGoesOn
<1>1. Records \in Nat \ {0} BY AnswersAssumption DEF Answers!SizesAssumption
<1>2. /\ todo # <<>> /\ Answers!Stmt = Answers!Request(r - 1)[j]
      /\ Answers!Advance =>
           todo' = From(Answers!Generate, 9 * r + (j + 1) - 5) /\ prog' = prog /\ ret' = ret
  <2>1. j \in 1..9 /\ todo = From(Answers!Generate, 9 * r + j - 5) BY DEF WritesAt
  <2> QED BY ONLY <2>1, RecordStmt, r \in 1..Records
<1>3. "req" \in Answers!FileNames /\ "rsp" \in Answers!FileNames BY DEF Answers!FileNames
<1>4. /\ ReqRight(files["req"]) /\ Len(files["req"]) = 5 * r - 5 + c /\ files["rsp"] = <<>>
      /\ drbg.seed = Answers!Entropy /\ drbg.draws = 2 * r - 2 + n
  BY DEF WritesAt
<1>5. r - 1 \in Nat BY <1>1
<1>6. PICK y : y = Asking(r)[c + 1] OBVIOUS
<1>7. \/ \E t, w, k : /\ Answers!Stmt = Answers!Put("req", t, w, k)
                      /\ y = Answers!Line(t, locals[w], BytesOf(k))
      \/ Answers!Stmt = Answers!Blank("req") /\ y = BlankLine
  <2>1. CASE j = 2
    <3>1. Answers!Stmt = Answers!Put("req", "count", "count", "none") BY <1>2, <1>5, <2>1, RequestIs
    <3>2. c + 1 = 1 /\ locals["count"] = r - 1 BY <2>1 DEF WritesAt
    <3>3. y = Answers!Line("count", r - 1, Answers!KeyLen) BY <1>6, <3>2, AskingIs
    <3> QED BY <3>1, <3>2, <3>3 DEF BytesOf
  <2>2. CASE j = 4
    <3>1. Answers!Stmt = Answers!Put("req", "seed", "seed", "none") BY <1>2, <1>5, <2>2, RequestIs
    <3>2. c + 1 = 2 /\ locals["seed"] = SeedOf(r) BY <2>2 DEF WritesAt
    <3>3. y = Answers!Line("seed", SeedOf(r), Answers!KeyLen) BY <1>6, <3>2, AskingIs
    <3> QED BY <3>1, <3>2, <3>3 DEF BytesOf
  <2>3. CASE j = 6
    <3>1. Answers!Stmt = Answers!Put("req", "mlen", "mlen", "none") BY <1>2, <1>5, <2>3, RequestIs
    <3>2. c + 1 = 3 /\ locals["mlen"] = 33 * r BY <2>3 DEF WritesAt
    <3>3. y = Answers!Line("mlen", 33 * r, Answers!KeyLen) BY <1>6, <3>2, AskingIs
    <3> QED BY <3>1, <3>2, <3>3 DEF BytesOf
  <2>4. CASE j = 8
    <3>1. Answers!Stmt = Answers!Put("req", "msg", "m", "mlen") BY <1>2, <1>5, <2>4, RequestIs
    <3>2. c + 1 = 4 /\ MsgRead(r) BY <2>4 DEF WritesAt
    <3>3. y = Answers!Line("msg", MsgOf(r), 33 * r) BY <1>6, <3>2, AskingIs
    <3> QED BY <3>1, <3>2, <3>3 DEF BytesOf, MsgRead
  <2>5. CASE j = 9
    <3>1. Answers!Stmt = Answers!Blank("req") BY <1>2, <1>5, <2>5, RequestIs
    <3>2. c + 1 = 5 BY <2>5 DEF WritesAt
    <3>3. y = BlankLine BY <1>6, <3>2, AskingIs
    <3> QED BY <3>1, <3>3
  <2> QED BY <2>1, <2>2, <2>3, <2>4, <2>5
<1>8. /\ UNCHANGED <<locals, drbg>> /\ Answers!Advance
      /\ files'["req"] = Append(files["req"], y) /\ files'["rsp"] = files["rsp"]
  <2>1. /\ UNCHANGED <<lines, locals, drbg>> /\ Answers!Advance
        /\ files'["req"] = Append(files["req"], y)
        /\ \A g \in Answers!FileNames : g # "req" => files'[g] = files[g]
    BY <1>2, <1>3, <1>7, Writes
  <2> QED BY <1>3, <2>1
<1>9. ReqRight(files'["req"]) /\ Len(files'["req"]) = 5 * r - 5 + (c + 1)
  <2>1. OkFile(files["req"]) BY <1>3 DEF KatTypes, FilesOk
  <2>2. c + 1 \in 1..5 /\ Len(files["req"]) = 5 * r - 5 + ((c + 1) - 1) BY <1>4
  <2> QED BY <1>4, <1>6, <1>8, <2>1, <2>2, AskingNext
<1>10. todo' = From(Answers!Generate, 9 * r + (j + 1) - 5) /\ prog' = prog /\ ret' = ret
  BY <1>2, <1>8
<1>11. RspOk'
  <2>1. RspRight(files'["rsp"]) BY <1>4, <1>8, NothingIsRight
  <2> QED BY <2>1, RightLines DEF RspOk, RspLines
<1>12. GenerateAt'
  <2>1. CASE j # 9
    <3>1. PICK k : k = j + 1 OBVIOUS
    <3>2. PICK d : d = c + 1 OBVIOUS
    <3>3. k \in 1..9 /\ d \in 0..4 /\ r \in 1..(Records + 1) /\ r # Records + 1
      <4>1. c \in {0, 1, 2, 3} BY <2>1 DEF WritesAt
      <4> QED BY <1>1, <2>1, <3>1, <3>2, <4>1
    <3>4. /\ todo' = From(Answers!Generate, 9 * r + k - 5)
          /\ ReqRight(files'["req"]) /\ Len(files'["req"]) = 5 * r - 5 + d
          /\ files'["rsp"] = <<>>
          /\ drbg'.seed = Answers!Entropy /\ drbg'.draws = 2 * r - 2 + n
      BY <1>4, <1>8, <1>9, <1>10, <3>1, <3>2
    <3>5. \/ k = 3 /\ d = 1 /\ n = 0
          \/ k = 5 /\ d = 2 /\ n = 1
          \/ k = 7 /\ d = 3 /\ n = 1 /\ locals["mlen"] = 33 * r
          \/ k = 9 /\ d = 4 /\ n = 2
      BY <2>1, <3>1, <3>2 DEF WritesAt
    <3>6. WritesAt(r, k, d, n)' BY <1>8, <3>3, <3>4, <3>5 DEF WritesAt, ReqRight
    <3> QED BY <3>3, <3>6 DEF GenerateAt
  <2>2. CASE j = 9
    <3>1. c = 4 /\ n = 2 BY <2>2 DEF WritesAt
    <3>2. PICK q : q = r + 1 OBVIOUS
    <3>3. q \in 1..(Records + 1) BY <1>1, <3>2
    <3>4. /\ 9 * r + (9 + 1) - 5 = 9 * q + 1 - 5 /\ 5 * r - 5 + (4 + 1) = 5 * q - 5 + 0
          /\ 2 * r - 2 + 2 = 2 * q - 2 + 0
      BY <1>1, <3>2
    <3>5. /\ todo' = From(Answers!Generate, 9 * q + 1 - 5)
          /\ ReqRight(files'["req"]) /\ Len(files'["req"]) = 5 * q - 5 + 0
          /\ files'["rsp"] = <<>>
          /\ drbg'.seed = Answers!Entropy /\ drbg'.draws = 2 * q - 2 + 0
      BY <1>4, <1>8, <1>9, <1>10, <2>2, <3>1, <3>4
    <3>6. WritesAt(q, 1, 0, 0)' BY <3>5 DEF WritesAt, ReqRight
    <3> QED BY <3>3, <3>6 DEF GenerateAt
  <2> QED BY <2>1, <2>2
<1> QED BY <1>10, <1>11, <1>12 DEF GenerateGoesOn

(* What a line of record r says is set or drawn. *)
LEMMA RequestDrawn ==
  ASSUME KatTypes, prog = "generate", Answers!Execute,
         NEW r \in 1..Records, NEW j \in {1, 3, 5, 7}, NEW c \in 0..4, NEW n \in 0..2,
         WritesAt(r, j, c, n)
  PROVE  GenerateGoesOn
<1>1. Records \in Nat \ {0} /\ r # Records + 1 /\ r \in 1..(Records + 1)
  BY AnswersAssumption DEF Answers!SizesAssumption
<1>2. /\ todo # <<>> /\ Answers!Stmt = Answers!Request(r - 1)[j]
      /\ Answers!Advance =>
           todo' = From(Answers!Generate, 9 * r + (j + 1) - 5) /\ prog' = prog /\ ret' = ret
  <2>1. j \in 1..9 /\ todo = From(Answers!Generate, 9 * r + j - 5) BY DEF WritesAt
  <2> QED BY ONLY <2>1, RecordStmt, r \in 1..Records
<1>3. {"count", "seed", "mlen", "m"} \subseteq Locals BY DEF Locals, Values, Numerals
<1>4. /\ ReqRight(files["req"]) /\ Len(files["req"]) = 5 * r - 5 + c /\ files["rsp"] = <<>>
      /\ drbg.seed = Answers!Entropy /\ drbg.draws = 2 * r - 2 + n
  BY DEF WritesAt
<1>5. r - 1 \in Nat BY <1>1
<1>6. ASSUME files' = files PROVE RspOk'
  <2>1. RspRight(files'["rsp"]) BY <1>4, <1>6, NothingIsRight
  <2> QED BY <2>1, RightLines DEF RspOk, RspLines
<1>7. CASE j = 1
  <2>1. Answers!Stmt = Answers!Set("count", r - 1) BY <1>2, <1>5, <1>7, RequestIs
  <2>2. c = 0 /\ n = 0 BY <1>7 DEF WritesAt
  <2>3. /\ files' = files /\ drbg' = drbg /\ Answers!Advance /\ locals'["count"] = r - 1
    BY <1>2, <1>3, <2>1, Sets
  <2>4. todo' = From(Answers!Generate, 9 * r + 2 - 5) /\ prog' = prog /\ ret' = ret
    BY <1>2, <1>7, <2>3
  <2>5. WritesAt(r, 2, 0, 0)' BY <1>1, <1>4, <2>2, <2>3, <2>4 DEF WritesAt, ReqRight
  <2>6. GenerateAt' BY <1>1, <2>5 DEF GenerateAt
  <2> QED BY <1>6, <2>3, <2>4, <2>6 DEF GenerateGoesOn
<1>8. CASE j = 3
  <2>1. Answers!Stmt = Answers!Draw("seed") BY <1>2, <1>5, <1>8, RequestIs
  <2>2. c = 1 /\ n = 0 BY <1>8 DEF WritesAt
  <2>3. /\ files' = files /\ Answers!Advance
        /\ drbg' = [seed |-> drbg.seed, draws |-> drbg.draws + 1]
        /\ locals'["seed"] = <<"rand", drbg.seed, drbg.draws>>
    BY <1>2, <1>3, <2>1, Draws
  <2>4. todo' = From(Answers!Generate, 9 * r + 4 - 5) /\ prog' = prog /\ ret' = ret
    BY <1>2, <1>8, <2>3
  <2>5. drbg.draws = 2 * r - 2 BY <1>1, <1>4, <2>2
  <2>6. locals'["seed"] = SeedOf(r) BY <1>4, <2>3, <2>5 DEF SeedOf
  <2>7. drbg'.seed = Answers!Entropy /\ drbg'.draws = 2 * r - 2 + 1 BY <1>4, <2>3, <2>5
  <2>8. WritesAt(r, 4, 1, 1)' BY <1>1, <1>4, <2>2, <2>3, <2>4, <2>6, <2>7 DEF WritesAt, ReqRight
  <2>9. GenerateAt' BY <1>1, <2>8 DEF GenerateAt
  <2> QED BY <1>6, <2>3, <2>4, <2>9 DEF GenerateGoesOn
<1>9. CASE j = 5
  <2>1. Answers!Stmt = Answers!Set("mlen", 33 * ((r - 1) + 1)) BY <1>2, <1>5, <1>9, RequestIs
  <2>2. c = 2 /\ n = 1 BY <1>9 DEF WritesAt
  <2>3. /\ files' = files /\ drbg' = drbg /\ Answers!Advance
        /\ locals'["mlen"] = 33 * ((r - 1) + 1)
    BY <1>2, <1>3, <2>1, Sets
  <2>4. todo' = From(Answers!Generate, 9 * r + 6 - 5) /\ prog' = prog /\ ret' = ret
    BY <1>2, <1>9, <2>3
  <2>5. locals'["mlen"] = 33 * r BY <1>1, <2>3
  <2>6. WritesAt(r, 6, 2, 1)' BY <1>1, <1>4, <2>2, <2>3, <2>4, <2>5 DEF WritesAt, ReqRight
  <2>7. GenerateAt' BY <1>1, <2>6 DEF GenerateAt
  <2> QED BY <1>6, <2>3, <2>4, <2>7 DEF GenerateGoesOn
<1>10. CASE j = 7
  <2>1. Answers!Stmt = Answers!Draw("m") BY <1>2, <1>5, <1>10, RequestIs
  <2>2. c = 3 /\ n = 1 /\ locals["mlen"] = 33 * r BY <1>10 DEF WritesAt
  <2>3. /\ files' = files /\ Answers!Advance
        /\ drbg' = [seed |-> drbg.seed, draws |-> drbg.draws + 1]
        /\ locals'["m"] = <<"rand", drbg.seed, drbg.draws>>
        /\ \A y \in Locals : y # "m" => locals'[y] = locals[y]
    BY <1>2, <1>3, <2>1, Draws
  <2>4. todo' = From(Answers!Generate, 9 * r + 8 - 5) /\ prog' = prog /\ ret' = ret
    BY <1>2, <1>10, <2>3
  <2>5. drbg.draws = 2 * r - 1 BY <1>1, <1>4, <2>2
  <2>6. locals'["m"] = MsgOf(r) BY <1>4, <2>3, <2>5 DEF MsgOf
  <2>7. drbg'.seed = Answers!Entropy /\ drbg'.draws = 2 * r - 2 + 2 BY <1>1, <1>4, <2>3, <2>5
  <2>8. MsgRead(r)' BY <1>3, <2>2, <2>3, <2>6 DEF MsgRead
  <2>9. WritesAt(r, 8, 3, 2)' BY <1>1, <1>4, <2>2, <2>3, <2>4, <2>7, <2>8 DEF WritesAt, ReqRight
  <2>10. GenerateAt' BY <1>1, <2>9 DEF GenerateAt
  <2> QED BY <1>6, <2>3, <2>4, <2>10 DEF GenerateGoesOn
<1> QED BY <1>7, <1>8, <1>9, <1>10

(* The request is closed and opened again, and the response begun. *)
LEMMA GenerateReopens ==
  ASSUME KatTypes, prog = "generate", Answers!Execute,
         \/ \E c \in 0..4, n \in 0..2 : WritesAt(Records + 1, 1, c, n)
         \/ \E l \in {6, 7} : ReopensAt(l)
  PROVE  GenerateGoesOn
<1>1. Records \in Nat \ {0} BY AnswersAssumption DEF Answers!SizesAssumption
<1>2. AllFit("generate", Answers!Generate) /\ Len(Answers!Generate) = 9 * Records + 25
  BY GenerateIs
<1>3. ASSUME NEW l \in {5, 6, 7}, todo = From(Answers!Generate, 9 * Records + l)
      PROVE  /\ todo # <<>> /\ Answers!Stmt = Answers!Generate[9 * Records + l]
             /\ Answers!Advance => /\ todo' = From(Answers!Generate, 9 * Records + (l + 1))
                                   /\ prog' = prog /\ ret' = ret
  <2>1. PICK k : k = 9 * Records + l OBVIOUS
  <2>2. k \in 1..Len(Answers!Generate) /\ k + 1 = 9 * Records + (l + 1) BY <1>1, <1>2, <2>1
  <2>3. /\ todo # <<>> /\ Answers!Stmt = Answers!Generate[k]
        /\ Answers!Advance => todo' = From(Answers!Generate, k + 1) /\ prog' = prog /\ ret' = ret
    BY <1>2, <1>3, <2>1, <2>2, AtFrom
  <2> QED BY <2>1, <2>2, <2>3
<1>4. "req" \in Answers!FileNames /\ "rsp" \in Answers!FileNames BY DEF Answers!FileNames
<1>5. ASSUME files["rsp"] = <<>>, files' = files PROVE RspOk'
  <2>1. RspRight(files'["rsp"]) BY <1>5, NothingIsRight
  <2> QED BY <2>1, RightLines DEF RspOk, RspLines
<1>6. ASSUME NEW c \in 0..4, NEW n \in 0..2, WritesAt(Records + 1, 1, c, n)
      PROVE  GenerateGoesOn
  <2>1. /\ todo = From(Answers!Generate, 9 * Records + 5) /\ c = 0
        /\ ReqRight(files["req"]) /\ Len(files["req"]) = 5 * Records /\ files["rsp"] = <<>>
    <3>1. /\ todo = From(Answers!Generate, 9 * (Records + 1) + 1 - 5) /\ c = 0
          /\ ReqRight(files["req"]) /\ Len(files["req"]) = 5 * (Records + 1) - 5 + c
          /\ files["rsp"] = <<>>
      BY <1>6 DEF WritesAt
    <3>2. /\ 9 * (Records + 1) + 1 - 5 = 9 * Records + 5 /\ 5 * (Records + 1) - 5 + 0 = 5 * Records
      BY <1>1
    <3> QED BY <3>1, <3>2
  <2>2. Answers!Stmt = Answers!Close("req") /\ todo # <<>> BY <1>3, <2>1, GenerateIs
  <2>3. files' = files /\ Answers!Advance BY <2>2, Closes
  <2>4. todo' = From(Answers!Generate, 9 * Records + 6) /\ prog' = prog /\ ret' = ret
    BY <1>3, <2>1, <2>3
  <2>5. ReopensAt(6)' BY <2>1, <2>3, <2>4 DEF ReopensAt, ReqRight
  <2>6. GenerateAt' BY <2>5 DEF GenerateAt
  <2> QED BY <1>5, <2>1, <2>3, <2>4, <2>6 DEF GenerateGoesOn
<1>7. ASSUME ReopensAt(6) PROVE GenerateGoesOn
  <2>1. /\ todo = From(Answers!Generate, 9 * Records + 6)
        /\ ReqRight(files["req"]) /\ Len(files["req"]) = 5 * Records /\ files["rsp"] = <<>>
    BY <1>7 DEF ReopensAt
  <2>2. Answers!Stmt = Answers!Open("req", "r") /\ todo # <<>> BY <1>3, <2>1, GenerateIs
  <2>3. /\ files' = files /\ lines'["req"] = 0
        /\ IF Answers!Missing("req") THEN Answers!Finish("file") ELSE Answers!Advance
    BY <1>4, <2>2, OpenReads
  <2>4. CASE Answers!Missing("req")
    <3>1. Answers!Finish("file") BY <2>3, <2>4
    <3>2. ResultsOk' /\ prog' = "none" BY <3>1, EndsWell
    <3> QED BY <1>5, <2>1, <2>3, <3>2 DEF GenerateGoesOn
  <2>5. CASE ~Answers!Missing("req")
    <3>1. todo' = From(Answers!Generate, 9 * Records + 7) /\ prog' = prog /\ ret' = ret
      BY <1>3, <2>1, <2>3, <2>5
    <3>2. ReopensAt(7)' BY <2>1, <2>3, <3>1 DEF ReopensAt, ReqRight
    <3>3. GenerateAt' BY <3>2 DEF GenerateAt
    <3> QED BY <1>5, <2>1, <2>3, <3>1, <3>3 DEF GenerateGoesOn
  <2> QED BY <2>4, <2>5
<1>8. ASSUME ReopensAt(7) PROVE GenerateGoesOn
  <2>1. /\ todo = From(Answers!Generate, 9 * Records + 7) /\ lines["req"] = 0
        /\ ReqRight(files["req"]) /\ Len(files["req"]) = 5 * Records /\ files["rsp"] = <<>>
    BY <1>8 DEF ReopensAt
  <2>2. Answers!Stmt = Answers!Blank("rsp") /\ todo # <<>> BY <1>3, <2>1, GenerateIs
  <2>3. /\ lines' = lines /\ Answers!Advance /\ files'["rsp"] = Append(files["rsp"], BlankLine)
        /\ files'["req"] = files["req"]
    BY <1>4, <2>2, Writes
  <2>4. todo' = From(Answers!Generate, 9 * Records + 8) /\ prog' = prog /\ ret' = ret
    BY <1>3, <2>1, <2>3
  <2>5. todo' = From(Answers!Response, 1)
    <3>1. PICK S : Answers!Response \in Seq(S) BY ResponseIs DEF AllFit
    <3>2. From(Answers!Response, 1) = Answers!Response BY <3>1, FromEnds
    <3> QED BY <2>4, <3>2, GenerateIs
  <2>6. RspRight(files'["rsp"]) /\ Len(files'["rsp"]) = 1
    <3>1. files'["rsp"] = <<BlankLine>> BY <2>1, <2>3
    <3>2. Len(files'["rsp"]) = 1 /\ files'["rsp"][1] = BlankLine BY <3>1
    <3>3. \A r \in 1..Records, c \in 1..8 : ~(8 * r - 7 + c <= 1) BY <1>1
    <3> QED BY <1>1, <3>2, <3>3 DEF RspRight
  <2>7. RspOk' BY <2>6, RightLines DEF RspOk, RspLines
  <2>8. 8 * 1 - 7 + 0 = 1 /\ 1 # Records + 1 /\ 1 \in 1..(Records + 1) BY <1>1
  <2>9. AnswersAt(1, 1, 0, 0)' BY <2>1, <2>3, <2>5, <2>6, <2>8 DEF AnswersAt, ReqRight, RspRight
  <2>10. GenerateAt' BY <2>8, <2>9 DEF GenerateAt
  <2> QED BY <2>4, <2>7, <2>10 DEF GenerateGoesOn
<1> QED BY <1>6, <1>7, <1>8

(* The statements of a turn. *)
LEMMA TurnStmt ==
  ASSUME NEW j \in 1..18, todo = From(Answers!Response, j)
  PROVE  /\ todo # <<>> /\ Answers!Stmt = Answers!Response[j]
         /\ Answers!Advance => todo' = From(Answers!Response, j + 1) /\ prog' = prog /\ ret' = ret
<1>1. AllFit("generate", Answers!Response) /\ Len(Answers!Response) = 18 BY ResponseIs
<1> QED BY <1>1, AtFrom

(* Line c of record r of a request that is all there.                        *)
LEMMA AskedFor ==
  ASSUME ReqRight(files["req"]), Len(files["req"]) = 5 * Records,
         NEW r \in 1..Records, NEW c \in 1..5
  PROVE  /\ 5 * r - 5 + c \in 1..Len(files["req"]) /\ files["req"][5 * r - 5 + c] = Asking(r)[c]
<1>1. Records \in Nat \ {0} BY AnswersAssumption DEF Answers!SizesAssumption
<1>2. 5 * r - 5 + c \in 1..Len(files["req"]) /\ 5 * r - 5 + c <= Len(files["req"]) BY <1>1
<1>3. 5 * r - 5 + c <= Len(files["req"]) => files["req"][5 * r - 5 + c] = Asking(r)[c]
  BY Zenon DEF ReqRight
<1> QED BY ONLY <1>2, <1>3

(* A reader that is behind a record finds the count of the next one.         *)
LEMMA CountRead ==
  ASSUME KatTypes, prog = "generate", Answers!Execute, NEW r \in 1..Records,
         NEW c \in 0..8, NEW n \in 0..4, AnswersAt(r, 1, c, n)
  PROVE  GenerateGoesOn
<1>1. Records \in Nat \ {0} BY AnswersAssumption DEF Answers!SizesAssumption
<1>2. /\ todo # <<>> /\ Answers!Stmt = Answers!Number("req", "count", "count", "done")
      /\ Answers!Advance => todo' = From(Answers!Response, 2) /\ prog' = prog /\ ret' = ret
  <2>1. 1 \in 1..18 /\ 1 + 1 = 2 /\ todo = From(Answers!Response, 1) BY DEF AnswersAt
  <2>2. /\ todo # <<>> /\ Answers!Stmt = Answers!Response[1]
        /\ Answers!Advance => todo' = From(Answers!Response, 1 + 1) /\ prog' = prog /\ ret' = ret
    BY ONLY <2>1, TurnStmt
  <2> QED BY <2>1, <2>2, ResponseIs
<1>3. /\ ReqRight(files["req"]) /\ Len(files["req"]) = 5 * Records
      /\ RspRight(files["rsp"]) /\ Len(files["rsp"]) = 8 * r - 7 /\ c = 0
      /\ lines["req"] = 5 * r - 6 \/ (r = 1 /\ lines["req"] = 0)
  BY <1>1 DEF AnswersAt
<1>4. "req" \in Answers!FileNames BY DEF Answers!FileNames
<1>5. "count" \in Locals BY DEF Locals, Numerals
<1>6. lines["req"] \in Nat BY <1>4 DEF KatTypes, LinesOk
<1>7. PICK k : k = 5 * r - 5 + 1 OBVIOUS
<1>8. k \in 1..Len(files["req"]) /\ files["req"][k] = Answers!Line("count", r - 1, Answers!KeyLen)
  <2>1. 1 \in 1..5 OBVIOUS
  <2>2. /\ 5 * r - 5 + 1 \in 1..Len(files["req"]) /\ files["req"][5 * r - 5 + 1] = Asking(r)[1]
    BY <1>3, <2>1, AskedFor
  <2> QED BY <1>7, <2>2, AskingIs
<1>9. /\ files["req"][k].tag = "count" /\ files["req"][k].val = r - 1
      /\ files["req"][k].len = Answers!KeyLen
  BY ONLY <1>8 DEF Answers!Line
<1>10. Answers!Matches("count", files["req"][k]) BY <1>9 DEF Answers!Matches
<1>11. k \in (lines["req"] + 1)..Len(files["req"]) /\ k # 0 BY <1>3, <1>6, <1>7, <1>8
<1>12. \A d \in (lines["req"] + 1)..(k - 1) : ~Answers!Matches("count", files["req"][d])
  <2>1. CASE r = 1 /\ lines["req"] = 0
    <3>1. \A d \in (lines["req"] + 1)..(k - 1) : FALSE BY <2>1, <1>7
    <3> QED BY <3>1
  <2>2. CASE lines["req"] = 5 * r - 6
    <3>1. PICK q : q = r - 1 OBVIOUS
    <3>2. q \in 1..Records /\ 5 \in 1..5
      <4>1. 5 * r - 6 >= 0 BY <1>6, <2>2
      <4>2. r >= 2 BY <4>1
      <4> QED BY <1>1, <3>1, <4>2
    <3>3. files["req"][5 * q - 5 + 5] = Asking(q)[5] BY <1>3, <3>2, AskedFor
    <3>4. Asking(q)[5] = BlankLine BY <3>2, AskingIs
    <3>5. \A d \in (lines["req"] + 1)..(k - 1) : d = 5 * q - 5 + 5 BY <1>7, <2>2, <3>1
    <3>6. BlankLine.tag = "none" BY DEF BlankLine, Answers!Line
    <3>7. \A d \in (lines["req"] + 1)..(k - 1) : files["req"][d].tag = "none"
      BY <3>3, <3>4, <3>5, <3>6
    <3> QED BY <3>7 DEF Answers!Matches
  <2> QED BY <1>3, <2>1, <2>2
<1>13. k = Answers!Found("req", "count") BY <1>3, <1>6, <1>8, <1>10, <1>11, <1>12, FoundAt
<1>14. /\ files' = files /\ Answers!Advance /\ lines'["req"] = k
       /\ files["req"][k].len # 1 => locals'["count"] = files["req"][k].val
  BY <1>2, <1>4, <1>5, <1>11, <1>13, NumberReads
<1>15. todo' = From(Answers!Response, 2) /\ prog' = prog /\ ret' = ret BY <1>2, <1>14
<1>16. locals'["count"] = r - 1 BY <1>9, <1>14 DEF Answers!KeyLen
<1>17. RspOk' BY <1>3, <1>14, RightLines DEF RspOk, RspLines
<1>18. r # Records + 1 /\ r \in 1..(Records + 1) /\ 8 * r - 7 = 8 * r - 7 + 0 BY <1>1
<1>19. AnswersAt(r, 2, 0, 1)'
  BY <1>3, <1>7, <1>14, <1>15, <1>16, <1>18 DEF AnswersAt, ReqRight, RspRight
<1>20. GenerateAt' BY <1>18, <1>19 DEF GenerateAt
<1> QED BY <1>15, <1>17, <1>20 DEF GenerateGoesOn

(* Behind the last record it finds none, and the response is complete. *)
LEMMA NoCountLeft ==
  ASSUME KatTypes, prog = "generate", Answers!Execute,
         NEW c \in 0..8, NEW n \in 0..4, AnswersAt(Records + 1, 1, c, n)
  PROVE  GenerateGoesOn
<1>1. Records \in Nat \ {0} BY AnswersAssumption DEF Answers!SizesAssumption
<1>2. todo # <<>> /\ Answers!Stmt = Answers!Number("req", "count", "count", "done")
  <2>1. 1 \in 1..18 /\ todo = From(Answers!Response, 1) BY DEF AnswersAt
  <2>2. todo # <<>> /\ Answers!Stmt = Answers!Response[1] BY ONLY <2>1, TurnStmt
  <2> QED BY <2>2, ResponseIs
<1>3. /\ ReqRight(files["req"]) /\ Len(files["req"]) = 5 * Records /\ RspRight(files["rsp"])
      /\ Len(files["rsp"]) = 8 * Records + 1 /\ lines["req"] = 5 * Records - 1
  <2>1. /\ ReqRight(files["req"]) /\ Len(files["req"]) = 5 * Records /\ RspRight(files["rsp"])
        /\ Len(files["rsp"]) = 8 * (Records + 1) - 7 + c /\ c = 0
        /\ lines["req"] = 5 * (Records + 1) - 6 \/ Records + 1 = 1
    BY DEF AnswersAt
  <2>2. /\ 8 * (Records + 1) - 7 + 0 = 8 * Records + 1 /\ 5 * (Records + 1) - 6 = 5 * Records - 1
        /\ Records + 1 # 1
    BY <1>1
  <2> QED BY <2>1, <2>2
<1>4. "req" \in Answers!FileNames BY DEF Answers!FileNames
<1>5. \A d \in (lines["req"] + 1)..Len(files["req"]) : ~Answers!Matches("count", files["req"][d])
  <2>1. Records \in 1..Records /\ 5 \in 1..5 BY <1>1
  <2>2. files["req"][5 * Records - 5 + 5] = Asking(Records)[5] BY <1>3, <2>1, AskedFor
  <2>3. Asking(Records)[5] = BlankLine BY <2>1, AskingIs
  <2>4. \A d \in (lines["req"] + 1)..Len(files["req"]) : d = 5 * Records - 5 + 5 BY <1>1, <1>3
  <2>5. BlankLine.tag = "none" BY DEF BlankLine, Answers!Line
  <2>6. \A d \in (lines["req"] + 1)..Len(files["req"]) : files["req"][d].tag = "none"
    BY <2>2, <2>3, <2>4, <2>5
  <2> QED BY <2>6 DEF Answers!Matches
<1>6. Answers!Found("req", "count") = 0 BY <1>5, FoundNone
<1>7. files' = files /\ Answers!Finish("success") BY <1>2, <1>4, <1>6, NumberMisses
<1>8. Answers!Complete BY <1>3, CompleteWhen DEF KatTypes
<1>9. Answers!Complete' BY <1>7, <1>8 DEF Answers!Complete
<1>10. ResultsOk' /\ prog' = "none"
  <2>1. prog \notin {"check_v1", "check"} /\ "success" \in {"success", "killed"} OBVIOUS
  <2> QED BY <1>7, <1>9, <2>1, EndsWell
<1>11. RspOk' BY <1>3, <1>7, RightLines DEF RspOk, RspLines
<1> QED BY <1>10, <1>11 DEF GenerateGoesOn

(* The next line of the record is read. *)
LEMMA AnswerRead ==
  ASSUME KatTypes, prog = "generate", Answers!Execute, NEW r \in 1..Records,
         NEW j \in {3, 6, 8}, NEW c \in 0..8, NEW n \in 0..4, AnswersAt(r, j, c, n)
  PROVE  GenerateGoesOn
<1>1. Records \in Nat \ {0} /\ r # Records + 1 /\ r \in 1..(Records + 1)
  BY AnswersAssumption DEF Answers!SizesAssumption
<1>2. /\ todo # <<>> /\ Answers!Stmt = Answers!Response[j]
      /\ Answers!Advance => todo' = From(Answers!Response, j + 1) /\ prog' = prog /\ ret' = ret
  <2>1. j \in 1..18 /\ todo = From(Answers!Response, j) BY DEF AnswersAt
  <2> QED BY ONLY <2>1, TurnStmt
<1>3. /\ ReqRight(files["req"]) /\ Len(files["req"]) = 5 * Records
      /\ RspRight(files["rsp"]) /\ Len(files["rsp"]) = 8 * r - 7 + c
      /\ lines["req"] = 5 * r - 5 + n
  BY DEF AnswersAt
<1>4. "req" \in Answers!FileNames BY DEF Answers!FileNames
<1>5. {"seed", "mlen", "m"} \subseteq Locals BY DEF Locals, Values, Numerals
<1>6. files' = files => RspOk' BY <1>3, RightLines DEF RspOk, RspLines
<1>7. /\ BytesOf("none") = Answers!KeyLen /\ Answers!KeyLen # 0 /\ Answers!KeyLen # 1
      /\ BytesOf("mlen") = locals["mlen"]
  BY DEF BytesOf, Answers!KeyLen
<1>8. PICK k : k = 5 * r - 5 + (n + 1) OBVIOUS
<1>9. ASSUME NEW t, n + 1 \in 1..5, Asking(r)[n + 1].tag = t
      PROVE  /\ k = Answers!Found("req", t) /\ k # 0 /\ files["req"][k] = Asking(r)[n + 1]
  <2>1. /\ 5 * r - 5 + (n + 1) \in 1..Len(files["req"])
        /\ files["req"][5 * r - 5 + (n + 1)] = Asking(r)[n + 1]
    BY <1>3, <1>9, AskedFor
  <2>2. lines["req"] + 1 = k /\ k <= Len(files["req"]) /\ k # 0 BY <1>1, <1>3, <1>8, <1>9, <2>1
  <2>3. files["req"][k].tag = t BY <1>8, <1>9, <2>1
  <2> QED BY <1>4, <1>8, <2>1, <2>2, <2>3, NextFound
<1>10. ASSUME files' = files, lines'["req"] = k
       PROVE  /\ ReqRight(files["req"])' /\ Len(files["req"])' = 5 * Records
              /\ RspRight(files["rsp"])' /\ Len(files["rsp"])' = 8 * r - 7 + c
              /\ lines["req"]' = 5 * r - 5 + (n + 1)
  BY <1>3, <1>8, <1>10 DEF ReqRight, RspRight
<1>11. CASE j = 3
  <2>1. Answers!Stmt = Answers!Hex("req", "seed", "seed", "none") BY <1>2, <1>11, ResponseIs
  <2>2. c = 1 /\ n = 1 BY <1>11 DEF AnswersAt
  <2>3. Asking(r)[n + 1] = Answers!Line("seed", SeedOf(r), Answers!KeyLen) BY <2>2, AskingIs
  <2>4. /\ Asking(r)[n + 1].tag = "seed" /\ Asking(r)[n + 1].val = SeedOf(r)
        /\ Asking(r)[n + 1].len = Answers!KeyLen
    BY ONLY <2>3 DEF Answers!Line
  <2>5. n + 1 \in 1..5 BY <2>2
  <2>6. k = Answers!Found("req", "seed") /\ k # 0 /\ files["req"][k] = Asking(r)[n + 1]
    BY <1>9, <2>4, <2>5
  <2>7. /\ files' = files /\ Answers!Advance /\ lines'["req"] = k
        /\ locals'["seed"] = IF files["req"][k].len = BytesOf("none") THEN files["req"][k].val
                             ELSE <<"part">>
    BY <1>2, <1>4, <1>5, <1>7, <2>1, <2>6, HexReads
  <2>8. todo' = From(Answers!Response, 4) /\ prog' = prog /\ ret' = ret BY <1>2, <1>11, <2>7
  <2>9. locals'["seed"] = SeedOf(r) BY <1>7, <2>4, <2>6, <2>7
  <2>10. AnswersAt(r, 4, 1, 2)'
    <3>1. /\ ReqRight(files["req"])' /\ Len(files["req"])' = 5 * Records
          /\ RspRight(files["rsp"])' /\ Len(files["rsp"])' = 8 * r - 7 + 1
          /\ lines["req"]' = 5 * r - 5 + 2
      BY <1>10, <2>2, <2>7
    <3> QED BY ONLY <1>1, <2>8, <2>9, <3>1 DEF AnswersAt
  <2>11. GenerateAt' BY <1>1, <2>10 DEF GenerateAt
  <2> QED BY <1>6, <2>7, <2>8, <2>11 DEF GenerateGoesOn
<1>12. CASE j = 6
  <2>1. Answers!Stmt = Answers!Number("req", "mlen", "mlen", "data") BY <1>2, <1>12, ResponseIs
  <2>2. c = 2 /\ n = 2 /\ SeededFor(r, 0) BY <1>12 DEF AnswersAt
  <2>3. Asking(r)[n + 1] = Answers!Line("mlen", 33 * r, Answers!KeyLen) BY <2>2, AskingIs
  <2>4. /\ Asking(r)[n + 1].tag = "mlen" /\ Asking(r)[n + 1].val = 33 * r
        /\ Asking(r)[n + 1].len = Answers!KeyLen
    BY ONLY <2>3 DEF Answers!Line
  <2>5. n + 1 \in 1..5 BY <2>2
  <2>6. k = Answers!Found("req", "mlen") /\ k # 0 /\ files["req"][k] = Asking(r)[n + 1]
    BY <1>9, <2>4, <2>5
  <2>7. /\ files' = files /\ drbg' = drbg /\ Answers!Advance /\ lines'["req"] = k
        /\ files["req"][k].len # 1 => locals'["mlen"] = files["req"][k].val
    BY <1>2, <1>4, <1>5, <2>1, <2>6, NumberReads
  <2>8. todo' = From(Answers!Response, 7) /\ prog' = prog /\ ret' = ret BY <1>2, <1>12, <2>7
  <2>9. locals'["mlen"] = 33 * r BY <1>7, <2>4, <2>6, <2>7
  <2>10. SeededFor(r, 0)' BY <2>2, <2>7 DEF SeededFor
  <2>11. AnswersAt(r, 7, 2, 3)'
    <3>1. /\ ReqRight(files["req"])' /\ Len(files["req"])' = 5 * Records
          /\ RspRight(files["rsp"])' /\ Len(files["rsp"])' = 8 * r - 7 + 2
          /\ lines["req"]' = 5 * r - 5 + 3
      BY <1>10, <2>2, <2>7
    <3> QED BY ONLY <1>1, <2>8, <2>9, <2>10, <3>1 DEF AnswersAt
  <2>12. GenerateAt' BY <1>1, <2>11 DEF GenerateAt
  <2> QED BY <1>6, <2>7, <2>8, <2>12 DEF GenerateGoesOn
<1>13. CASE j = 8
  <2>1. Answers!Stmt = Answers!Hex("req", "msg", "m", "mlen") BY <1>2, <1>13, ResponseIs
  <2>2. c = 3 /\ n = 3 /\ SeededFor(r, 0) /\ locals["mlen"] = 33 * r BY <1>13 DEF AnswersAt
  <2>3. Asking(r)[n + 1] = Answers!Line("msg", MsgOf(r), 33 * r) BY <2>2, AskingIs
  <2>4. /\ Asking(r)[n + 1].tag = "msg" /\ Asking(r)[n + 1].val = MsgOf(r)
        /\ Asking(r)[n + 1].len = 33 * r
    BY ONLY <2>3 DEF Answers!Line
  <2>5. n + 1 \in 1..5 /\ 33 * r # 0 BY <1>1, <2>2
  <2>6. k = Answers!Found("req", "msg") /\ k # 0 /\ files["req"][k] = Asking(r)[n + 1]
    BY <1>9, <2>4, <2>5
  <2>7. BytesOf("mlen") = 33 * r /\ BytesOf("mlen") # 0 BY <1>7, <2>2, <2>5
  <2>8. /\ files' = files /\ drbg' = drbg /\ Answers!Advance /\ lines'["req"] = k
        /\ \A y \in Locals : y # "m" => locals'[y] = locals[y]
        /\ locals'["m"] = IF files["req"][k].len = BytesOf("mlen") THEN files["req"][k].val
                          ELSE <<"part">>
    BY <1>2, <1>4, <1>5, <2>1, <2>6, <2>7, HexReads
  <2>9. todo' = From(Answers!Response, 9) /\ prog' = prog /\ ret' = ret BY <1>2, <1>13, <2>8
  <2>10. locals'["m"] = MsgOf(r) BY <2>4, <2>6, <2>7, <2>8
  <2>11. MsgRead(r)' BY <1>5, <2>2, <2>8, <2>10 DEF MsgRead
  <2>12. SeededFor(r, 0)' BY <2>2, <2>8 DEF SeededFor
  <2>13. AnswersAt(r, 9, 3, 4)'
    <3>1. /\ ReqRight(files["req"])' /\ Len(files["req"])' = 5 * Records
          /\ RspRight(files["rsp"])' /\ Len(files["rsp"])' = 8 * r - 7 + 3
          /\ lines["req"]' = 5 * r - 5 + 4
      BY <1>10, <2>2, <2>8
    <3> QED BY ONLY <1>1, <2>9, <2>11, <2>12, <3>1 DEF AnswersAt
  <2>14. GenerateAt' BY <1>1, <2>13 DEF GenerateAt
  <2> QED BY <1>6, <2>8, <2>9, <2>14 DEF GenerateGoesOn
<1> QED BY <1>11, <1>12, <1>13

(* The next line of the response is written. *)
LEMMA AnswerWritten ==
  ASSUME KatTypes, prog = "generate", Answers!Execute, NEW r \in 1..Records,
         NEW j \in {2, 4, 7, 9, 11, 12, 14, 15}, NEW c \in 0..8, NEW n \in 0..4,
         AnswersAt(r, j, c, n)
  PROVE  GenerateGoesOn
<1>1. Records \in Nat \ {0} /\ r # Records + 1 /\ r \in 1..(Records + 1)
  BY AnswersAssumption DEF Answers!SizesAssumption
<1>2. /\ todo # <<>> /\ Answers!Stmt = Answers!Response[j]
      /\ Answers!Advance => todo' = From(Answers!Response, j + 1) /\ prog' = prog /\ ret' = ret
  <2>1. j \in 1..18 /\ todo = From(Answers!Response, j) BY DEF AnswersAt
  <2> QED BY ONLY <2>1, TurnStmt
<1>3. /\ ReqRight(files["req"]) /\ Len(files["req"]) = 5 * Records
      /\ RspRight(files["rsp"]) /\ Len(files["rsp"]) = 8 * r - 7 + c
      /\ lines["req"] = 5 * r - 5 + n
  BY DEF AnswersAt
<1>4. "req" \in Answers!FileNames /\ "rsp" \in Answers!FileNames BY DEF Answers!FileNames
<1>5. PICK y : y = Answers!Expected(r)[c + 1] OBVIOUS
<1>6. \E t, w, k : /\ Answers!Stmt = Answers!Put("rsp", t, w, k)
                   /\ y = Answers!Line(t, locals[w], BytesOf(k))
  <2>1. CASE j = 2
    <3>1. Answers!Stmt = Answers!Put("rsp", "count", "count", "none") BY <1>2, <2>1, ResponseIs
    <3>2. c + 1 = 1 /\ locals["count"] = r - 1 BY <2>1 DEF AnswersAt
    <3>3. y = Answers!Line("count", r - 1, Answers!KeyLen) BY <1>5, <3>2, ExpectedIs
    <3> QED BY <3>1, <3>2, <3>3 DEF BytesOf
  <2>2. CASE j = 4
    <3>1. Answers!Stmt = Answers!Put("rsp", "seed", "seed", "none") BY <1>2, <2>2, ResponseIs
    <3>2. c + 1 = 2 /\ locals["seed"] = SeedOf(r) BY <2>2 DEF AnswersAt
    <3>3. y = Answers!Line("seed", SeedOf(r), Answers!KeyLen) BY <1>5, <3>2, ExpectedIs
    <3> QED BY <3>1, <3>2, <3>3 DEF BytesOf
  <2>3. CASE j = 7
    <3>1. Answers!Stmt = Answers!Put("rsp", "mlen", "mlen", "none") BY <1>2, <2>3, ResponseIs
    <3>2. c + 1 = 3 /\ locals["mlen"] = 33 * r BY <2>3 DEF AnswersAt
    <3>3. y = Answers!Line("mlen", 33 * r, Answers!KeyLen) BY <1>5, <3>2, ExpectedIs
    <3> QED BY <3>1, <3>2, <3>3 DEF BytesOf
  <2>4. CASE j = 9
    <3>1. Answers!Stmt = Answers!Put("rsp", "msg", "m", "mlen") BY <1>2, <2>4, ResponseIs
    <3>2. c + 1 = 4 /\ MsgRead(r) BY <2>4 DEF AnswersAt
    <3>3. y = Answers!Line("msg", MsgOf(r), 33 * r) BY <1>5, <3>2, ExpectedIs
    <3> QED BY <3>1, <3>2, <3>3 DEF BytesOf, MsgRead
  <2>5. CASE j = 11
    <3>1. Answers!Stmt = Answers!Put("rsp", "pk", "pk", "none") BY <1>2, <2>5, ResponseIs
    <3>2. c + 1 = 5 /\ PairRead(r, r) BY <2>5 DEF AnswersAt
    <3>3. y = Answers!Line("pk", <<"pk", KeyOf(r)>>, Answers!KeyLen) BY <1>5, <3>2, ExpectedIs
    <3> QED BY <3>1, <3>2, <3>3 DEF BytesOf, PairRead
  <2>6. CASE j = 12
    <3>1. Answers!Stmt = Answers!Put("rsp", "sk", "sk", "none") BY <1>2, <2>6, ResponseIs
    <3>2. c + 1 = 6 /\ PairRead(r, r) BY <2>6 DEF AnswersAt
    <3>3. y = Answers!Line("sk", <<"sk", KeyOf(r)>>, Answers!KeyLen) BY <1>5, <3>2, ExpectedIs
    <3> QED BY <3>1, <3>2, <3>3 DEF BytesOf, PairRead, SkRead
  <2>7. CASE j = 14
    <3>1. Answers!Stmt = Answers!Put("rsp", "smlen", "smlen", "none") BY <1>2, <2>7, ResponseIs
    <3>2. c + 1 = 7 /\ RecordSigned(r) BY <2>7 DEF AnswersAt
    <3>3. y = Answers!Line("smlen", SigBytes + 33 * r, Answers!KeyLen) BY <1>5, <3>2, ExpectedIs
    <3> QED BY <3>1, <3>2, <3>3 DEF BytesOf, RecordSigned
  <2>8. CASE j = 15
    <3>1. Answers!Stmt = Answers!Put("rsp", "sm", "sm", "smlen") BY <1>2, <2>8, ResponseIs
    <3>2. c + 1 = 8 /\ RecordSigned(r) BY <2>8 DEF AnswersAt
    <3>3. y = Answers!Line("sm", SignedOf(r), SigBytes + 33 * r) BY <1>5, <3>2, ExpectedIs
    <3> QED BY <3>1, <3>2, <3>3 DEF BytesOf, RecordSigned
  <2> QED BY <2>1, <2>2, <2>3, <2>4, <2>5, <2>6, <2>7, <2>8
<1>7. /\ UNCHANGED <<lines, locals, drbg>> /\ Answers!Advance
      /\ files'["rsp"] = Append(files["rsp"], y) /\ files'["req"] = files["req"]
  <2>1. /\ UNCHANGED <<lines, locals, drbg>> /\ Answers!Advance
        /\ files'["rsp"] = Append(files["rsp"], y)
        /\ \A g \in Answers!FileNames : g # "rsp" => files'[g] = files[g]
    BY <1>2, <1>4, <1>6, Writes
  <2> QED BY <1>4, <2>1
<1>8. PICK k : k = j + 1 OBVIOUS
<1>9. PICK d : d = c + 1 OBVIOUS
<1>10. d \in 1..8 /\ k \in 1..18 /\ k # 1 /\ c = d - 1
  <2>1. c # 8 BY DEF AnswersAt
  <2> QED BY <1>8, <1>9, <2>1
<1>11. RspRight(files'["rsp"]) /\ Len(files'["rsp"]) = 8 * r - 7 + d
  <2>1. OkFile(files["rsp"]) BY <1>4 DEF KatTypes, FilesOk
  <2> QED BY <1>3, <1>5, <1>7, <1>9, <1>10, <2>1, ExpectedNext
<1>12. todo' = From(Answers!Response, k) /\ prog' = prog /\ ret' = ret BY <1>2, <1>7, <1>8
<1>13. RspOk' BY <1>11, RightLines DEF RspOk, RspLines
<1>14. \/ k = 3 /\ d = 1 /\ n = 1
       \/ k = 5 /\ d = 2 /\ n = 2 /\ locals["seed"] = SeedOf(r)
       \/ k = 8 /\ d = 3 /\ n = 3 /\ SeededFor(r, 0) /\ locals["mlen"] = 33 * r
       \/ k = 10 /\ d = 4 /\ n = 4 /\ SeededFor(r, 0) /\ MsgRead(r)
       \/ k = 12 /\ d = 5 /\ n = 4 /\ SeededFor(r, 1) /\ PairRead(r, r)
       \/ k = 13 /\ d = 6 /\ n = 4 /\ SeededFor(r, 1) /\ PairRead(r, r)
       \/ k = 15 /\ d = 7 /\ n = 4 /\ RecordSigned(r)
       \/ k = 16 /\ d = 8 /\ n = 4
  BY <1>8, <1>9 DEF AnswersAt
<1>15. /\ MsgRead(r) => MsgRead(r)'
       /\ PairRead(r, r) => PairRead(r, r)'
       /\ RecordSigned(r) => RecordSigned(r)'
       /\ \A a : SeededFor(r, a) => SeededFor(r, a)'
  BY <1>7 DEF MsgRead, PairRead, SkRead, RecordSigned, SeededFor
<1>16. AnswersAt(r, k, d, n)'
  <2>1. \/ k = 3 /\ d = 1 /\ n = 1
        \/ k \in {4, 5} /\ d = k - 3 /\ n = 2 /\ locals'["seed"] = SeedOf(r)
        \/ k \in {7, 8} /\ d = k - 5 /\ n = 3 /\ SeededFor(r, 0)' /\ locals'["mlen"] = 33 * r
        \/ k \in {9, 10} /\ d = k - 6 /\ n = 4 /\ SeededFor(r, 0)' /\ MsgRead(r)'
        \/ k \in {11, 12, 13} /\ d = k - 7 /\ n = 4 /\ SeededFor(r, 1)' /\ PairRead(r, r)'
        \/ k \in {14, 15} /\ d = k - 8 /\ n = 4 /\ RecordSigned(r)'
        \/ k \in {16, 17, 18} /\ d = 8 /\ n = 4
    BY <1>7, <1>14, <1>15
  <2> QED BY <1>1, <1>3, <1>7, <1>10, <1>11, <1>12, <2>1 DEF AnswersAt, ReqRight
<1>17. GenerateAt' BY <1>1, <1>10, <1>16 DEF GenerateAt
<1> QED BY <1>12, <1>13, <1>17 DEF GenerateGoesOn

(* The keys are made from the seed of the record, and its message is signed. *)
LEMMA AnswerMade ==
  ASSUME KatTypes, prog = "generate", Answers!Execute, NEW r \in 1..Records,
         NEW j \in {5, 10, 13}, NEW c \in 0..8, NEW n \in 0..4, AnswersAt(r, j, c, n)
  PROVE  GenerateGoesOn
<1>1. Records \in Nat \ {0} /\ r # Records + 1 /\ r \in 1..(Records + 1)
  BY AnswersAssumption DEF Answers!SizesAssumption
<1>2. /\ todo # <<>> /\ Answers!Stmt = Answers!Response[j]
      /\ Answers!Advance => todo' = From(Answers!Response, j + 1) /\ prog' = prog /\ ret' = ret
  <2>1. j \in 1..18 /\ todo = From(Answers!Response, j) BY DEF AnswersAt
  <2> QED BY ONLY <2>1, TurnStmt
<1>3. /\ ReqRight(files["req"]) /\ Len(files["req"]) = 5 * Records
      /\ RspRight(files["rsp"]) /\ Len(files["rsp"]) = 8 * r - 7 + c
      /\ lines["req"] = 5 * r - 5 + n
  BY DEF AnswersAt
<1>4. {"seed", "mlen", "m", "pk", "sk", "sm", "smlen"} \subseteq Locals
  BY DEF Locals, Values, Numerals
<1>5. ASSUME files' = files, lines' = lines
      PROVE  /\ ReqRight(files["req"])' /\ Len(files["req"])' = 5 * Records
             /\ RspRight(files["rsp"])' /\ Len(files["rsp"])' = 8 * r - 7 + c
             /\ lines["req"]' = 5 * r - 5 + n
             /\ RspOk'
  <2>1. RspOk' BY <1>3, <1>5, RightLines DEF RspOk, RspLines
  <2> QED BY <1>3, <1>5, <2>1 DEF ReqRight, RspRight
<1>6. CASE j = 5
  <2>1. Answers!Stmt = Answers!Init256("seed") BY <1>2, <1>6, ResponseIs
  <2>2. c = 2 /\ n = 2 /\ locals["seed"] = SeedOf(r) BY <1>6 DEF AnswersAt
  <2>3. /\ files' = files /\ lines' = lines /\ Answers!Advance
        /\ drbg' = [seed |-> locals["seed"], draws |-> 0]
    BY <1>2, <2>1, SeedsAgain
  <2>4. todo' = From(Answers!Response, 6) /\ prog' = prog /\ ret' = ret BY <1>2, <1>6, <2>3
  <2>5. SeededFor(r, 0)' BY <2>2, <2>3 DEF SeededFor
  <2>6. /\ ReqRight(files["req"])' /\ Len(files["req"])' = 5 * Records
        /\ RspRight(files["rsp"])' /\ Len(files["rsp"])' = 8 * r - 7 + 2
        /\ lines["req"]' = 5 * r - 5 + 2
    BY <1>5, <2>2, <2>3
  <2>7. AnswersAt(r, 6, 2, 2)' BY ONLY <1>1, <2>4, <2>5, <2>6 DEF AnswersAt
  <2>8. GenerateAt' BY <1>1, <2>7 DEF GenerateAt
  <2> QED BY <1>5, <2>3, <2>4, <2>8 DEF GenerateGoesOn
<1>7. CASE j = 10
  <2>1. Answers!Stmt = Answers!Do("keypair") BY <1>2, <1>7, ResponseIs
  <2>2. c = 4 /\ n = 4 /\ SeededFor(r, 0) /\ MsgRead(r) BY <1>7 DEF AnswersAt
  <2>3. /\ files' = files /\ lines' = lines /\ Answers!Advance
        /\ drbg' = [seed |-> drbg.seed, draws |-> drbg.draws + 1]
        /\ locals'["pk"] = <<"pk", <<"rand", drbg.seed, drbg.draws>>>>
        /\ locals'["sk"] = <<"sk", <<"rand", drbg.seed, drbg.draws>>>>
        /\ \A y \in Locals : y \notin {"pk", "sk"} => locals'[y] = locals[y]
    BY <1>2, <2>1, KeysMade
  <2>4. todo' = From(Answers!Response, 11) /\ prog' = prog /\ ret' = ret BY <1>2, <1>7, <2>3
  <2>5. drbg.seed = SeedOf(r) /\ drbg.draws = 0 BY <2>2 DEF SeededFor
  <2>6. SeededFor(r, 1)' BY <2>3, <2>5 DEF SeededFor
  <2>7. locals'["pk"] = <<"pk", KeyOf(r)>> /\ locals'["sk"] = <<"sk", KeyOf(r)>>
    BY <2>3, <2>5 DEF KeyOf
  <2>8. locals'["mlen"] = locals["mlen"] /\ locals'["m"] = locals["m"] BY <1>4, <2>3
  <2>9. PairRead(r, r)' BY <2>2, <2>7, <2>8 DEF PairRead, SkRead, MsgRead
  <2>10. /\ ReqRight(files["req"])' /\ Len(files["req"])' = 5 * Records
         /\ RspRight(files["rsp"])' /\ Len(files["rsp"])' = 8 * r - 7 + 4
         /\ lines["req"]' = 5 * r - 5 + 4
    BY <1>5, <2>2, <2>3
  <2>11. AnswersAt(r, 11, 4, 4)'
    <3>1. 11 \in {11, 12, 13} /\ 4 = 11 - 7 /\ 11 # 1 OBVIOUS
    <3> QED BY ONLY <1>1, <2>4, <2>6, <2>9, <2>10, <3>1 DEF AnswersAt
  <2>12. GenerateAt' BY <1>1, <2>11 DEF GenerateAt
  <2> QED BY <1>5, <2>3, <2>4, <2>12 DEF GenerateGoesOn
<1>8. CASE j = 13
  <2>1. Answers!Stmt = Answers!Do("sign") BY <1>2, <1>8, ResponseIs
  <2>2. c = 6 /\ n = 4 /\ SeededFor(r, 1) /\ PairRead(r, r) BY <1>8 DEF AnswersAt
  <2>3. /\ files' = files /\ lines' = lines /\ Answers!Advance
        /\ locals'["sm"] = <<"sm", locals["sk"], locals["m"],
                             <<"rand", drbg.seed, drbg.draws>>, locals["mlen"]>>
        /\ locals'["smlen"] = SigBytes + locals["mlen"]
        /\ \A y \in Locals : y \notin {"sm", "smlen"} => locals'[y] = locals[y]
    BY <1>2, <2>1, Signs
  <2>4. todo' = From(Answers!Response, 14) /\ prog' = prog /\ ret' = ret BY <1>2, <1>8, <2>3
  <2>5. drbg.seed = SeedOf(r) /\ drbg.draws = 1 BY <2>2 DEF SeededFor
  <2>6. /\ locals["mlen"] = 33 * r /\ locals["m"] = MsgOf(r) /\ locals["sk"] = <<"sk", KeyOf(r)>>
    BY <2>2 DEF PairRead, SkRead, MsgRead
  <2>7. locals'["sm"] = SignedOf(r) BY <2>3, <2>5, <2>6 DEF SignedOf
  <2>8. locals'["mlen"] = locals["mlen"] BY <1>4, <2>3
  <2>9. RecordSigned(r)' BY <2>3, <2>6, <2>7, <2>8 DEF RecordSigned
  <2>10. /\ ReqRight(files["req"])' /\ Len(files["req"])' = 5 * Records
         /\ RspRight(files["rsp"])' /\ Len(files["rsp"])' = 8 * r - 7 + 6
         /\ lines["req"]' = 5 * r - 5 + 4
    BY <1>5, <2>2, <2>3
  <2>11. AnswersAt(r, 14, 6, 4)'
    <3>1. 14 \in {14, 15} /\ 6 = 14 - 8 /\ 14 # 1 OBVIOUS
    <3> QED BY ONLY <1>1, <2>4, <2>9, <2>10, <3>1 DEF AnswersAt
  <2>12. GenerateAt' BY <1>1, <2>11 DEF GenerateAt
  <2> QED BY <1>5, <2>3, <2>4, <2>12 DEF GenerateGoesOn
<1> QED BY <1>6, <1>7, <1>8

(* The signature is opened, and the next record looked for. *)
LEMMA AnswerOpened ==
  ASSUME KatTypes, prog = "generate", Answers!Execute, NEW r \in 1..Records,
         NEW j \in {16, 17, 18}, NEW c \in 0..8, NEW n \in 0..4, AnswersAt(r, j, c, n)
  PROVE  GenerateGoesOn
<1>1. Records \in Nat \ {0} /\ r # Records + 1 /\ r \in 1..(Records + 1)
  BY AnswersAssumption DEF Answers!SizesAssumption
<1>2. /\ todo # <<>> /\ Answers!Stmt = Answers!Response[j]
      /\ Answers!Advance => todo' = From(Answers!Response, j + 1) /\ prog' = prog /\ ret' = ret
  <2>1. j \in 1..18 /\ todo = From(Answers!Response, j) BY DEF AnswersAt
  <2> QED BY ONLY <2>1, TurnStmt
<1>3. /\ ReqRight(files["req"]) /\ Len(files["req"]) = 5 * Records
      /\ RspRight(files["rsp"]) /\ Len(files["rsp"]) = 8 * r - 7 + 8
      /\ lines["req"] = 5 * r - 5 + 4
  <2>1. c = 8 /\ n = 4 BY DEF AnswersAt
  <2> QED BY <2>1 DEF AnswersAt
<1>4. {"sm", "m1", "mlen1"} \subseteq Locals /\ "m1" # "mlen1" BY DEF Locals, Values
<1>5. ASSUME files' = files, lines' = lines
      PROVE  /\ ReqRight(files["req"])' /\ Len(files["req"])' = 5 * Records
             /\ RspRight(files["rsp"])' /\ Len(files["rsp"])' = 8 * r - 7 + 8
             /\ lines["req"]' = 5 * r - 5 + 4
             /\ RspOk'
  <2>1. RspOk' BY <1>3, <1>5, RightLines DEF RspOk, RspLines
  <2> QED BY <1>3, <1>5, <2>1 DEF ReqRight, RspRight
<1>6. CASE j \in {16, 17}
  <2>1. /\ files' = files /\ lines' = lines
        /\ Answers!Advance \/ Answers!Finish("crypto")
    <3>1. CASE j = 16
      <4>1. Answers!Stmt = Answers!Verify("sm", "m1", "mlen1") BY <1>2, <3>1, ResponseIs
      <4> QED BY <1>2, <1>4, <4>1, Verifies
    <3>2. CASE j = 17
      <4>1. Answers!Stmt = Answers!Same("mlen1", "m1") BY <1>2, <3>2, ResponseIs
      <4> QED BY <1>2, <4>1, Compares
    <3> QED BY <1>6, <3>1, <3>2
  <2>2. CASE Answers!Finish("crypto")
    <3>1. ResultsOk' /\ prog' = "none" BY <2>2, EndsWell
    <3> QED BY <1>5, <2>1, <3>1 DEF GenerateGoesOn
  <2>3. CASE Answers!Advance
    <3>1. PICK k : k = j + 1 OBVIOUS
    <3>2. k \in {16, 17, 18} /\ k # 1 /\ k \in 1..18 BY <1>6, <3>1
    <3>3. todo' = From(Answers!Response, k) /\ prog' = prog /\ ret' = ret BY <1>2, <2>3, <3>1
    <3>4. /\ ReqRight(files["req"])' /\ Len(files["req"])' = 5 * Records
          /\ RspRight(files["rsp"])' /\ Len(files["rsp"])' = 8 * r - 7 + 8
          /\ lines["req"]' = 5 * r - 5 + 4
      BY <1>5, <2>1
    <3>5. AnswersAt(r, k, 8, 4)' BY ONLY <1>1, <3>2, <3>3, <3>4 DEF AnswersAt
    <3>6. GenerateAt' BY <1>1, <3>2, <3>5 DEF GenerateAt
    <3> QED BY <1>5, <2>1, <3>3, <3>6 DEF GenerateGoesOn
  <2> QED BY <2>1, <2>2, <2>3
<1>7. CASE j = 18
  <2>1. Answers!Stmt = Answers!Do("again") BY <1>2, <1>7, ResponseIs
  <2>2. /\ files' = files /\ lines' = lines /\ prog' = prog /\ ret' = ret
        /\ todo' = Answers!Response
    BY <1>2, <2>1, Repeats
  <2>3. todo' = From(Answers!Response, 1)
    <3>1. PICK S : Answers!Response \in Seq(S) BY ResponseIs DEF AllFit
    <3> QED BY <2>2, <3>1, FromEnds
  <2>4. PICK q : q = r + 1 OBVIOUS
  <2>5. /\ q \in 1..(Records + 1) /\ 8 * r - 7 + 8 = 8 * q - 7 + 0
        /\ 5 * r - 5 + 4 = 5 * q - 6
    BY <1>1, <2>4
  <2>6. /\ ReqRight(files["req"])' /\ Len(files["req"])' = 5 * Records
        /\ RspRight(files["rsp"])' /\ Len(files["rsp"])' = 8 * q - 7 + 0
        /\ lines["req"]' = 5 * q - 6
    BY <1>5, <2>2, <2>5
  <2>7. AnswersAt(q, 1, 0, 0)' BY ONLY <2>3, <2>6 DEF AnswersAt
  <2>8. GenerateAt' BY <2>5, <2>7 DEF GenerateAt
  <2> QED BY <1>5, <2>2, <2>8 DEF GenerateGoesOn
<1> QED BY <1>6, <1>7

(* Whatever the program does next. *)
LEMMA GenerateSteps ==
  ASSUME KatTypes, RspOk, prog = "generate", Answers!Execute, GenerateAt
  PROVE  GenerateGoesOn
<1>1. Records \in Nat \ {0} BY AnswersAssumption DEF Answers!SizesAssumption
<1>2. ASSUME NEW l \in 1..4, OpensAt(l) PROVE GenerateGoesOn BY <1>2, GenerateOpens
<1>3. ASSUME NEW r \in 1..(Records + 1), NEW j \in 1..9, NEW c \in 0..4, NEW n \in 0..2,
             WritesAt(r, j, c, n)
      PROVE  GenerateGoesOn
  <2>1. CASE r = Records + 1
    <3>1. j = 1 BY <1>3, <2>1 DEF WritesAt
    <3>2. WritesAt(Records + 1, 1, c, n) BY <1>3, <2>1, <3>1
    <3> QED BY <3>2, GenerateReopens
  <2>2. CASE r # Records + 1
    <3>1. r \in 1..Records BY <1>1, <2>2
    <3>2. j \in {2, 4, 6, 8, 9} \/ j \in {1, 3, 5, 7} OBVIOUS
    <3> QED BY <1>3, <3>1, <3>2, RequestWritten, RequestDrawn
  <2> QED BY <2>1, <2>2
<1>4. ASSUME NEW l \in {6, 7}, ReopensAt(l) PROVE GenerateGoesOn BY <1>4, GenerateReopens
<1>5. ASSUME NEW r \in 1..(Records + 1), NEW j \in 1..18, NEW c \in 0..8, NEW n \in 0..4,
             AnswersAt(r, j, c, n)
      PROVE  GenerateGoesOn
  <2>1. CASE r = Records + 1
    <3>1. j = 1 BY <1>5, <2>1 DEF AnswersAt
    <3>2. AnswersAt(Records + 1, 1, c, n) BY <1>5, <2>1, <3>1
    <3> QED BY <3>2, NoCountLeft
  <2>2. CASE r # Records + 1
    <3>1. r \in 1..Records BY <1>1, <2>2
    <3>2. \/ j = 1 \/ j \in {3, 6, 8} \/ j \in {2, 4, 7, 9, 11, 12, 14, 15}
          \/ j \in {5, 10, 13} \/ j \in {16, 17, 18}
      OBVIOUS
    <3> QED BY <1>5, <3>1, <3>2, CountRead, AnswerRead, AnswerWritten, AnswerMade, AnswerOpened
  <2> QED BY <2>1, <2>2
<1> QED BY <1>2, <1>3, <1>4, <1>5 DEF GenerateAt

-----------------------------------------------------------------------------
\* All of the programs.

(* What the running program knows. *)
Knows ==
  /\ prog = "check_v1" => \E l \in 1..12 : FirstAt(l)
  /\ prog = "check" => \E l \in 1..28, r, u \in 1..Records : CheckAt(l, r, u)
  /\ prog = "generate" => GenerateAt

(* The files, however the programs before were killed, and what the one      *)
(* running now has read and written before the statement at hand.            *)
AnswersInv ==
  /\ KatTypes /\ RspOk /\ CopiedOk
  /\ prog # "none" => ret = Answers!None
  /\ ResultsOk /\ Knows

(* Nothing is claimed of a program that has only been started. *)
LEMMA UnfinishedNext == ASSUME ret' = Answers!None PROVE ResultsOk'
<1>1. ret'[1] = "none" /\ ret'[2] = "none" BY DEF Answers!None
<1>2. ret' \notin {<<"generate", "success">>, <<"check_v1", "success">>, <<"check", "success">>}
  BY <1>1
<1> QED BY <1>1, <1>2
     DEF ResultsOk, Answers!Reproducible, Answers!CompleteAccepted, Answers!VerifiedTogether

(* A statement is followed by the next one, or ends the program.             *)
LEMMA GoesOnOrEnds ==
  ASSUME KatTypes, Answers!Execute
  PROVE  prog # "none" /\ ((prog' = prog /\ ret' = ret) \/ \E r : Answers!Finish(r))
<1>1. prog # "none"
  <2>1. prog = "none" => todo = <<>> BY DEF KatTypes, ControlOk
  <2>2. CASE todo = <<>>
    BY <2>2 DEF Answers!Execute, Answers!At, Answers!OpenFile, Answers!CloseFile,
       Answers!ReadNumber, Answers!ReadHex, Answers!PutLine, Answers!PutBlank, Answers!StrayLine,
       Answers!SetVar, Answers!RandomBytesInit, Answers!DrawBytes, Answers!Keypair, Answers!Sign,
       Answers!VerifySig, Answers!Compare, Answers!Again, Answers!Return
  <2> QED BY <2>1, <2>2
<1>2. CASE Answers!OpenFile BY <1>1, <1>2 DEF Answers!OpenFile, Answers!Advance
<1>3. CASE Answers!ReadNumber
  <2>1. todo # <<>> /\ Answers!Stmt.op = "number" BY <1>3 DEF Answers!ReadNumber, Answers!At
  <2>2. Answers!Stmt.fail \in {"go", "data", "done"} BY <2>1, StmtFits DEF KatTypes, Fits
  <2>3. PICK k : k = Answers!Found(Answers!Stmt.file, Answers!Stmt.tag) OBVIOUS
  <2>4. CASE k # 0 BY <1>1, <1>3, <2>3, <2>4 DEF Answers!ReadNumber, Answers!Advance
  <2>5. CASE k = 0 /\ Answers!Stmt.fail = "go"
    BY <1>1, <1>3, <2>3, <2>5 DEF Answers!ReadNumber, Answers!Advance
  <2>6. CASE k = 0 /\ Answers!Stmt.fail = "data"
    BY <1>1, <1>3, <2>3, <2>6 DEF Answers!ReadNumber
  <2>7. CASE k = 0 /\ Answers!Stmt.fail = "done"
    BY <1>1, <1>3, <2>3, <2>7 DEF Answers!ReadNumber
  <2> QED BY <2>2, <2>4, <2>5, <2>6, <2>7
<1>4. CASE Answers!ReadHex BY <1>1, <1>4 DEF Answers!ReadHex, Answers!Advance
<1>5. CASE Answers!VerifySig BY <1>1, <1>5 DEF Answers!VerifySig, Answers!Advance
<1>6. CASE Answers!Compare BY <1>1, <1>6 DEF Answers!Compare, Answers!Advance
<1>7. CASE Answers!Return BY <1>1, <1>7 DEF Answers!Return
<1>8. CASE \/ Answers!CloseFile \/ Answers!PutLine \/ Answers!PutBlank \/ Answers!StrayLine
           \/ Answers!SetVar \/ Answers!RandomBytesInit \/ Answers!DrawBytes \/ Answers!Keypair
           \/ Answers!Sign \/ Answers!Again
  BY <1>1, <1>8 DEF Answers!CloseFile, Answers!PutLine, Answers!PutBlank, Answers!StrayLine,
     Answers!SetVar, Answers!RandomBytesInit, Answers!DrawBytes, Answers!Keypair,
     Answers!Sign, Answers!Again, Answers!Advance
<1> QED BY <1>1, <1>2, <1>3, <1>4, <1>5, <1>6, <1>7, <1>8 DEF Answers!Execute

(* Files that the program does not write say what they said. *)
LEMMA QuietFiles ==
  ASSUME KatTypes, RspOk, CopiedOk, OthersKept
  PROVE  CopiedOk' /\ (prog # "generate" => RspOk')
<1>1. {"msg", "sk", "pk", "rsp"} \subseteq Answers!FileNames BY DEF Answers!FileNames
<1>2. /\ {"msg", "sk", "pk"} \cap Outputs(prog) = {}
      /\ prog # "generate" => "rsp" \notin Outputs(prog)
  BY DEF Outputs
<1>3. files'["msg"] = files["msg"] /\ files'["sk"] = files["sk"] /\ files'["pk"] = files["pk"]
  BY <1>1, <1>2 DEF OthersKept
<1>4. CopiedOk' BY <1>3 DEF CopiedOk, CopiedFrom
<1>5. ASSUME prog # "generate" PROVE RspOk'
  <2>1. files'["rsp"] = files["rsp"] BY <1>1, <1>2, <1>5 DEF OthersKept
  <2> QED BY <2>1 DEF RspOk, RspLines
<1> QED BY <1>4, <1>5

(* A program executes a statement. *)
LEMMA AnswersExecute == ASSUME AnswersInv, Answers!Execute PROVE AnswersInv'
<1>1. KatTypes /\ RspOk /\ CopiedOk /\ Knows /\ (prog # "none" => ret = Answers!None)
  BY DEF AnswersInv
<1>2. KatTypes' /\ OthersKept BY <1>1, ExecuteKeeps
<1>3. CopiedOk' /\ (prog # "generate" => RspOk') BY <1>1, <1>2, QuietFiles
<1>4. prog # "none" /\ ret = Answers!None BY <1>1, GoesOnOrEnds
<1>5. ASSUME RspOk', prog' = prog, ret' = ret, Knows' PROVE AnswersInv'
  <2>1. ret' = Answers!None BY <1>4, <1>5
  <2> QED BY <1>2, <1>3, <1>5, <2>1, UnfinishedNext DEF AnswersInv
<1>6. ASSUME RspOk', prog' = "none", ResultsOk' PROVE AnswersInv'
  BY <1>2, <1>3, <1>6 DEF AnswersInv, Knows
<1>7. CASE prog = "check_v1"
  <2>1. PICK l \in 1..12 : FirstAt(l) BY <1>1, <1>7 DEF Knows
  <2>2. FirstGoesOn BY <1>1, <1>7, <2>1, FirstSteps
  <2>3. RspOk' BY <1>3, <1>7
  <2>4. CASE (\E k \in 1..12 : FirstAt(k)') /\ prog' = prog /\ ret' = ret
    <3>1. Knows' BY <1>7, <2>4 DEF Knows
    <3> QED BY <1>5, <2>3, <2>4, <3>1
  <2>5. CASE prog' = "none" /\ ResultsOk' BY <1>6, <2>3, <2>5
  <2> QED BY <2>2, <2>4, <2>5 DEF FirstGoesOn
<1>8. CASE prog = "check"
  <2>1. PICK l \in 1..28, r \in 1..Records, u \in 1..Records : CheckAt(l, r, u)
    BY <1>1, <1>8 DEF Knows
  <2>2. CheckGoesOn BY <1>1, <1>2, <1>8, <2>1, CheckSteps
  <2>3. RspOk' BY <1>3, <1>8
  <2>4. CASE (\E k \in 1..28, a, b \in 1..Records : CheckAt(k, a, b)') /\ prog' = prog /\ ret' = ret
    <3>1. Knows' BY <1>8, <2>4 DEF Knows
    <3> QED BY <1>5, <2>3, <2>4, <3>1
  <2>5. CASE prog' = "none" /\ ResultsOk' BY <1>6, <2>3, <2>5
  <2> QED BY <2>2, <2>4, <2>5 DEF CheckGoesOn
<1>9. CASE prog = "generate"
  <2>1. GenerateAt BY <1>1, <1>9 DEF Knows
  <2>2. GenerateGoesOn BY <1>1, <1>9, <2>1, GenerateSteps
  <2>3. CASE RspOk' /\ GenerateAt' /\ prog' = prog /\ ret' = ret
    <3>1. Knows' BY <1>9, <2>3 DEF Knows
    <3> QED BY <1>5, <2>3, <3>1
  <2>4. CASE RspOk' /\ prog' = "none" /\ ResultsOk' BY <1>6, <2>4
  <2> QED BY <2>2, <2>3, <2>4 DEF GenerateGoesOn
<1>10. CASE prog \notin {"check_v1", "check", "generate"}
  <2>1. RspOk' BY <1>3, <1>10
  <2>2. CASE prog' = prog /\ ret' = ret
    <3>1. Knows' BY <1>10, <2>2 DEF Knows
    <3> QED BY <1>5, <2>1, <2>2, <3>1
  <2>3. ASSUME NEW r, Answers!Finish(r) PROVE AnswersInv'
    <3>1. ResultsOk' /\ prog' = "none" BY <1>10, <2>3, EndsWell
    <3> QED BY <1>6, <2>1, <3>1
  <2> QED BY <1>1, <2>2, <2>3, GoesOnOrEnds
<1> QED BY <1>7, <1>8, <1>9, <1>10

(* It is killed. *)
LEMMA AnswersKill == ASSUME AnswersInv, Answers!Kill PROVE AnswersInv'
<1>1. KatTypes /\ RspOk /\ CopiedOk BY DEF AnswersInv
<1>2. KatTypes' /\ OthersKept /\ RspOk' BY <1>1, KillKeeps
<1>3. CopiedOk' BY <1>1, <1>2, QuietFiles
<1>4. Answers!Finish("killed") BY DEF Answers!Kill
<1>5. ResultsOk' /\ prog' = "none"
  <2>1. "killed" # "success" /\ "killed" \in {"success", "killed"} OBVIOUS
  <2> QED BY <1>4, <2>1, EndsWell
<1> QED BY <1>2, <1>3, <1>5 DEF AnswersInv, Knows

(* A program is started. *)
LEMMA AnswersStart ==
  ASSUME AnswersInv, NEW p \in Programs, NEW g \in Garbage, Answers!Start(p, g)
  PROVE  AnswersInv'
<1>1. KatTypes /\ RspOk /\ CopiedOk BY DEF AnswersInv
<1>2. KatTypes' BY <1>1, StartKeeps
<1>3. /\ prog' = p /\ todo' = Answers!Statements(p) /\ ret' = Answers!None /\ files' = files
  BY DEF Answers!Start
<1>4. RspOk' /\ CopiedOk' BY <1>1, <1>3 DEF RspOk, RspLines, CopiedOk, CopiedFrom
<1>5. ResultsOk' BY <1>3, UnfinishedNext
<1>6. ASSUME p = "check_v1" PROVE \E l \in 1..12 : FirstAt(l)'
  <2>1. PICK S : Answers!CheckV1 \in Seq(S) BY CheckV1Is DEF AllFit
  <2>2. todo' = From(Answers!CheckV1, 1) BY <1>3, <1>6, <2>1, FromEnds DEF Answers!Statements
  <2>3. FirstAt(1)' BY <2>2 DEF FirstAt
  <2> QED BY <2>3
<1>7. ASSUME p = "check" PROVE \E l \in 1..28, r, u \in 1..Records : CheckAt(l, r, u)'
  <2>1. PICK S : Answers!Check \in Seq(S) BY CheckIs DEF AllFit
  <2>2. todo' = From(Answers!Check, 1) BY <1>3, <1>7, <2>1, FromEnds DEF Answers!Statements
  <2>3. CheckAt(1, 1, 1)' BY <2>2 DEF CheckAt
  <2>4. 1 \in 1..Records BY AnswersAssumption DEF Answers!SizesAssumption
  <2> QED BY <2>3, <2>4
<1>8. ASSUME p = "generate" PROVE GenerateAt'
  <2>1. PICK S : Answers!Generate \in Seq(S) BY GenerateIs DEF AllFit
  <2>2. todo' = From(Answers!Generate, 1) BY <1>3, <1>8, <2>1, FromEnds DEF Answers!Statements
  <2>3. OpensAt(1)' BY <2>2 DEF OpensAt
  <2> QED BY <2>3 DEF GenerateAt
<1>9. Knows' BY <1>3, <1>6, <1>7, <1>8 DEF Knows
<1> QED BY <1>2, <1>3, <1>4, <1>5, <1>9 DEF AnswersInv

(* Lines of a record are copied. *)
LEMMA AnswersCopy ==
  ASSUME AnswersInv, NEW r \in 1..Records, NEW u \in 1..Records, Answers!Copy(r, u)
  PROVE  AnswersInv'
<1>1. KatTypes' /\ RspOk' /\ CopiedOk' BY CopyKeeps DEF AnswersInv
<1>2. prog' = "none" /\ ret' = Answers!None BY DEF Answers!Copy
<1>3. ResultsOk' BY <1>2, UnfinishedNext
<1> QED BY <1>1, <1>2, <1>3 DEF AnswersInv, Knows

(* Nothing happens to the programs. *)
LEMMA AnswersQuiet == ASSUME AnswersInv, UNCHANGED answersVars PROVE AnswersInv'
<1>1. /\ files' = files /\ lines' = lines /\ prog' = prog /\ todo' = todo /\ locals' = locals
      /\ drbg' = drbg /\ ret' = ret /\ runs' = runs
  BY DEF answersVars
<1>2. KatTypes'
  BY <1>1 DEF AnswersInv, KatTypes, FilesOk, LinesOk, ControlOk, LocalsOk, DrbgOk
<1>3. RspOk' /\ CopiedOk' BY <1>1 DEF AnswersInv, RspOk, RspLines, CopiedOk, CopiedFrom
<1>4. ResultsOk'
  BY <1>1 DEF AnswersInv, ResultsOk, Answers!Reproducible, Answers!CompleteAccepted,
     Answers!VerifiedTogether, Answers!Complete, Answers!Copied
<1>5. ASSUME NEW l \in 1..12, FirstAt(l) PROVE FirstAt(l)'
  BY <1>1, <1>5 DEF FirstAt, ReadTo, FirstRead, Together, Answers!Missing
<1>6. ASSUME NEW l \in 1..28, NEW r \in 1..Records, NEW u \in 1..Records, CheckAt(l, r, u)
      PROVE  CheckAt(l, r, u)'
  BY <1>1, <1>6
  DEF CheckAt, CopiedFrom, MsgRead, SkRead, PairRead, SignedAs, SigWritten, Together
<1>7. ASSUME GenerateAt PROVE GenerateAt'
  <2>1. ASSUME NEW l, OpensAt(l) PROVE OpensAt(l)' BY <1>1, <2>1 DEF OpensAt
  <2>2. ASSUME NEW r, NEW j, NEW c, NEW n, WritesAt(r, j, c, n) PROVE WritesAt(r, j, c, n)'
    BY <1>1, <2>2 DEF WritesAt, ReqRight, MsgRead
  <2>3. ASSUME NEW l, ReopensAt(l) PROVE ReopensAt(l)' BY <1>1, <2>3 DEF ReopensAt, ReqRight
  <2>4. ASSUME NEW r, NEW j, NEW c, NEW n, AnswersAt(r, j, c, n) PROVE AnswersAt(r, j, c, n)'
    BY <1>1, <2>4 DEF AnswersAt, ReqRight, RspRight, MsgRead, SkRead, PairRead, SeededFor,
       RecordSigned
  <2> QED BY <1>7, <2>1, <2>2, <2>3, <2>4 DEF GenerateAt
<1>8. Knows' BY <1>1, <1>5, <1>6, <1>7 DEF AnswersInv, Knows
<1> QED BY <1>1, <1>2, <1>3, <1>4, <1>8 DEF AnswersInv

(* Nothing was run yet. *)
LEMMA AnswersInit == Answers!Init => AnswersInv
<1> SUFFICES ASSUME Answers!Init PROVE AnswersInv OBVIOUS
<1>1. /\ files = [f \in Answers!FileNames |-> Answers!Absent]
      /\ lines = [f \in Answers!FileNames |-> 0]
      /\ prog = "none" /\ todo = <<>> /\ locals = Answers!Variables(0)
      /\ drbg = [seed |-> <<"zero">>, draws |-> 0] /\ ret = Answers!None /\ runs = 0
  BY DEF Answers!Init
<1>2. FilesOk BY <1>1, NotAbsent DEF FilesOk
<1>3. LinesOk BY <1>1, NotAbsent DEF LinesOk
<1>4. ControlOk
  <2>1. ret[2] = "none" BY <1>1 DEF Answers!None
  <2> QED BY <1>1, <2>1, NoneFit DEF ControlOk, Results
<1>5. LocalsOk
  <2>1. 0 \in Nat OBVIOUS
  <2> QED BY <1>1, <2>1, VariablesAre DEF LocalsOk
<1>6. DrbgOk BY <1>1 DEF DrbgOk
<1>7. runs \in 0..MaxRuns BY <1>1, AnswersAssumption DEF Answers!SizesAssumption
<1>8. RspOk /\ CopiedOk
  <2>1. {"msg", "sk", "pk", "rsp"} \subseteq Answers!FileNames BY DEF Answers!FileNames
  <2>2. \A f \in {"msg", "sk", "pk", "rsp"} : files[f] = Answers!Absent BY <1>1, <2>1
  <2> QED BY <2>2 DEF RspOk, CopiedOk
<1> QED BY <1>1, <1>2, <1>3, <1>4, <1>5, <1>6, <1>7, <1>8, Unfinished
     DEF AnswersInv, KatTypes, Knows

(* A step of any of the parts. *)
LEMMA AnswersStepKeeps ==
  ASSUME AnswersInv, [NextParts]_allVars
  PROVE  AnswersInv'
<1>1. CASE UNCHANGED answersVars BY <1>1, AnswersQuiet
<1>2. CASE Answers!Execute BY <1>2, AnswersExecute
<1>3. CASE Answers!Kill BY <1>3, AnswersKill
<1>4. ASSUME NEW p \in Programs, NEW g \in Garbage, Answers!Start(p, g) PROVE AnswersInv'
  BY <1>4, AnswersStart
<1>5. ASSUME NEW r \in 1..Records, NEW u \in 1..Records, Answers!Copy(r, u) PROVE AnswersInv'
  BY <1>5, AnswersCopy
<1>6. \/ UNCHANGED answersVars \/ Answers!Execute \/ Answers!Kill
      \/ \E p \in Programs, g \in Garbage : Answers!Start(p, g)
      \/ \E r \in 1..Records, u \in 1..Records : Answers!Copy(r, u)
  <2>1. CASE UNCHANGED allVars BY <2>1 DEF allVars
  <2>2. CASE NextParts
    BY <2>2
    DEF NextParts, DeviceStep, GeneratorStep, ExpanderStep, AnswersStep, Answers!Execute
  <2> QED BY <2>1, <2>2
<1> QED BY <1>1, <1>2, <1>3, <1>4, <1>5, <1>6

(* The programs' invariant holds in every reachable state. *)
LEMMA AnswersInvariant == SpecParts => []AnswersInv
<1>1. InitParts => AnswersInv BY AnswersInit DEF InitParts
<1>2. AnswersInv /\ [NextParts]_allVars => AnswersInv' BY AnswersStepKeeps
<1> QED BY <1>1, <1>2, PTL DEF SpecParts, allVars

(* Whatever was run and killed before, for any number of records: a          *)
(* response that PQCgenKAT_sign calls finished holds what the entropy        *)
(* determines, a check that succeeds has used one key pair that was read in  *)
(* full, and a check of complete files does not fail (PQCgenKAT_sign.c,      *)
(* PQCgenKAT_sign_check.c, PQCgenKAT_sign_check_v1.c).                       *)
THEOREM VerifiedTogetherHolds == SpecParts => []VerifiedTogether
<1>1. ASSUME AnswersInv PROVE Answers!TypeOK
  <2>1. KatTypes BY <1>1 DEF AnswersInv
  <2>2. ASSUME NEW f \in Answers!FileNames, NEW k \in DOMAIN files[f]
        PROVE  DOMAIN files[f][k] = {"tag", "val", "len"} /\ files[f][k].len \in Nat
    <3>1. OkFile(files[f]) BY <2>1 DEF KatTypes, FilesOk
    <3>2. DOMAIN files[f] = 1..Len(files[f]) /\ OkLine(files[f][k]) BY <2>2, <3>1, FileIs
    <3> QED BY <3>2 DEF OkLine
  <2>3. \A f \in Answers!FileNames : lines[f] \in 0..Len(files[f]) BY <2>1 DEF KatTypes, LinesOk
  <2>4. prog \in Programs \cup {"none"} /\ (prog = "none" => todo = <<>>) /\ ret[2] \in Results
    BY <2>1 DEF KatTypes, ControlOk
  <2>5. drbg.draws \in Nat /\ runs \in 0..MaxRuns BY <2>1 DEF KatTypes, DrbgOk
  <2> QED BY <2>2, <2>3, <2>4, <2>5 DEF Answers!TypeOK, Results
<1>2. AnswersInv => VerifiedTogether
  BY <1>1 DEF AnswersInv, ResultsOk, VerifiedTogether
<1> QED BY <1>2, AnswersInvariant, PTL
=============================================================================
