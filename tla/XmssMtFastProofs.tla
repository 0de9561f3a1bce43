-------------------------- MODULE XmssMtFastProofs --------------------------
(***************************************************************************)
(* The hypertree signer of xmss_core_fast.c, for every number of layers and *)
(* of calls.                                                               *)
(*                                                                         *)
(* First its one-time keys, for every parameter set and however many calls *)
(* are cut short: key number c of layer i comes into use with the call     *)
(* that takes the index to c * 2^(tree_height * i), whatever the traversal *)
(* states hold by then.                                                    *)
(*                                                                         *)
(* Then its traversal states, for every parameter set whose budget         *)
(* suffices: the share of the updates that reaches a layer completes its   *)
(* next tree and its instances in time, so that the paths and the          *)
(* signatures on the roots are those of the index (IInv).                  *)
(***************************************************************************)
EXTENDS XmssMtFast, TreeProofs

(* s is the state of the loop over the layers after n of them, x before it.  *)
Advancing(n, g, p, idx, x) ==
  g = [k \in 0..n |-> IF k = 0 THEN x ELSE LayerStep(p, idx, k - 1, g[k - 1])]

(* The recursion of that loop can be carried out over any number of layers.  *)
LEMMA AdvancingExists ==
  ASSUME NEW p, NEW idx, NEW x
  PROVE  \A n \in Nat : \E g : Advancing(n, g, p, idx, x)
<1> DEFINE S == {n \in Nat : \E g : Advancing(n, g, p, idx, x)}
<1>1. 0 \in S
  <2>1. Advancing(0, [k \in 0..0 |-> x], p, idx, x) BY DEF Advancing
  <2> QED BY <2>1
<1>2. ASSUME NEW n \in Nat, n \in S PROVE n + 1 \in S
  <2>1. PICK g : Advancing(n, g, p, idx, x) BY <1>2
  <2> DEFINE f == [k \in 0..(n + 1) |->
                     IF k = n + 1 THEN LayerStep(p, idx, n, g[n]) ELSE g[k]]
  <2>2. ASSUME NEW k \in 0..(n + 1)
        PROVE  f[k] = IF k = 0 THEN x ELSE LayerStep(p, idx, k - 1, f[k - 1])
    <3>1. CASE k = n + 1
      <4>1. k # 0 /\ k - 1 = n /\ n \in 0..(n + 1) /\ n # n + 1 BY <3>1
      <4>2. f[k] = LayerStep(p, idx, n, g[n]) BY <3>1
      <4>3. f[n] = g[n] BY <4>1
      <4> QED BY <4>1, <4>2, <4>3, <3>1
    <3>2. CASE k # n + 1
      <4>1. k \in 0..n BY <3>2
      <4>2. f[k] = g[k] BY <3>2
      <4>3. g[k] = IF k = 0 THEN x ELSE LayerStep(p, idx, k - 1, g[k - 1])
        BY <2>1, <4>1 DEF Advancing
      <4>4. k # 0 => f[k - 1] = g[k - 1] BY <4>1
      <4> QED BY <4>2, <4>3, <4>4
    <3> QED BY <3>1, <3>2
  <2>3. f = [k \in 0..(n + 1) |-> f[k]] OBVIOUS
  <2>4. Advancing(n + 1, f, p, idx, x)
    <3> HIDE DEF f
    <3> QED BY <2>2, <2>3 DEF Advancing
  <2> QED BY <2>4
<1>3. Nat \subseteq S
  <2> HIDE DEF S
  <2> QED BY <1>1, <1>2, SetInduction
<1> QED BY <1>3

(* The state the loop over the layers begins with. *)
AdvanceStart(p, idx, sts, ws) ==
  [states  |-> IF NextExists(p, idx, 0)
               THEN [sts EXCEPT ![p.d] =
                       BdsStateUpdate(p, <<0, TreeAt(p, idx, 0) + 1>>, @)]
               ELSE sts,
   wots    |-> ws,
   updates |-> Instances(p) \div 2,
   swapped |-> -1]

(* The end of xmssmt_core_sign in terms of its loop.                         *)
LEMMA AdvanceLoop ==
  ASSUME NEW p, p.d \in Nat, NEW idx, NEW sts, NEW ws
  PROVE  \E g : /\ g[0] = AdvanceStart(p, idx, sts, ws)
                /\ \A k \in 1..p.d : g[k] = LayerStep(p, idx, k - 1, g[k - 1])
                /\ Advance(p, idx, sts, ws) = g[p.d]
<1> DEFINE x == AdvanceStart(p, idx, sts, ws)
           g == CHOOSE g : Advancing(p.d, g, p, idx, x)
<1>0. \A n \in Nat : \E f : Advancing(n, f, p, idx, x)
  <2> HIDE DEF x
  <2> QED BY AdvancingExists
<1>1. Advancing(p.d, g, p, idx, x) BY <1>0
<1>2. \A k, z : (CHOOSE y \in {LayerStep(p, idx, k, v) : v \in {z}} : TRUE)
                  = LayerStep(p, idx, k, z)
  <2> TAKE k, z
  <2>1. {LayerStep(p, idx, k, v) : v \in {z}} = {LayerStep(p, idx, k, z)} OBVIOUS
  <2> QED BY <2>1
<1> DEFINE w == CHOOSE f :
                  f = [k \in 0..p.d |->
                         IF k = 0 THEN x
                         ELSE CHOOSE y \in {LayerStep(p, idx, k - 1, z) : z \in {f[k - 1]}} : TRUE]
<1>3. w = g
  <2> HIDE DEF x
  <2> QED BY <1>2 DEF Advancing
<1>5. Advance(p, idx, sts, ws) = w[p.d]
  BY Zenon DEF Advance, Loop, AdvanceStart
<1> HIDE DEF g
<1>6. g[0] = x BY <1>1 DEF Advancing
<1>7. ASSUME NEW k \in 1..p.d PROVE g[k] = LayerStep(p, idx, k - 1, g[k - 1])
  <2>1. k \in 0..p.d /\ k # 0 OBVIOUS
  <2> QED BY <2>1, <1>1 DEF Advancing
<1> QED BY <1>3, <1>5, <1>6, <1>7

-----------------------------------------------------------------------------
(* The shape of the state of that loop. *)
IsLoopState(s) ==
  s = [states |-> s.states, wots |-> s.wots, updates |-> s.updates, swapped |-> s.swapped]

(* A layer whose tree goes on changes no signature on a root.                *)
LEMMA StayFields ==
  ASSUME NEW p, NEW idx, NEW i, NEW s, IsLoopState(s)
  PROVE  LET t == StayInTree(p, idx, i, s) IN
         IsLoopState(t) /\ t.wots = s.wots /\ t.swapped = s.swapped
<1>1. \E u, v : StayInTree(p, idx, i, s) = [s EXCEPT !.states = u, !.updates = v]
  BY Zenon DEF StayInTree
<1>2. PICK t : t = StayInTree(p, idx, i, s) OBVIOUS
<1>3. PICK u, v : t = [s EXCEPT !.states = u, !.updates = v] BY <1>1, <1>2
<1>4. t = [states |-> u, wots |-> s.wots, updates |-> v, swapped |-> s.swapped]
  BY <1>3 DEF IsLoopState
<1>5. t.states = u /\ t.wots = s.wots /\ t.updates = v /\ t.swapped = s.swapped
  BY ONLY <1>4
<1> QED BY ONLY <1>2, <1>4, <1>5 DEF IsLoopState

(* A layer whose tree ends gets one signature on a root.                     *)
LEMMA SwapFields ==
  ASSUME NEW p, NEW idx, NEW i, NEW s, IsLoopState(s)
  PROVE  LET t == SwapIn(p, idx, i, s) IN
         /\ IsLoopState(t)
         /\ t.wots = [s.wots EXCEPT ![i] =
                        SignRoot(p, idx, i, s.states[p.d + i].stack[0])]
         /\ t.swapped = i
<1> DEFINE w == SignRoot(p, idx, i, s.states[p.d + i].stack[0])
<1>1. \E u, v : SwapIn(p, idx, i, s)
        = [s EXCEPT !.states = u, !.wots = [@ EXCEPT ![i] = w], !.updates = v, !.swapped = i]
  BY Zenon DEF SwapIn
<1> HIDE DEF w
<1>2. PICK t : t = SwapIn(p, idx, i, s) OBVIOUS
<1>3. PICK u, v : t = [s EXCEPT !.states = u, !.wots = [@ EXCEPT ![i] = w], !.updates = v,
                                !.swapped = i]
  BY <1>1, <1>2
<1>4. t = [states |-> u, wots |-> [s.wots EXCEPT ![i] = w], updates |-> v, swapped |-> i]
  BY <1>3 DEF IsLoopState
<1>5. t.states = u /\ t.wots = [s.wots EXCEPT ![i] = w] /\ t.updates = v /\ t.swapped = i
  BY ONLY <1>4
<1> QED BY ONLY <1>2, <1>4, <1>5 DEF IsLoopState, w

-----------------------------------------------------------------------------
(* ws has a signature on the root of every layer but the top one. *)
RootsSigned(p, ws) == ws = [i \in 0..(p.d - 2) |-> ws[i]]

(* A root is signed anew only when the tree below it has ended.              *)
LEMMA AdvanceWots ==
  ASSUME NEW p, p.d \in Nat, NEW idx, NEW sts, NEW ws, RootsSigned(p, ws)
  PROVE  LET after == Advance(p, idx, sts, ws).wots IN
         /\ RootsSigned(p, after)
         /\ \A i \in 0..(p.d - 2) :
              \/ after[i] = ws[i]
              \/ EndOfTree(p, idx, i) /\ \E root : after[i] = SignRoot(p, idx, i, root)
<1>1. PICK g : /\ g[0] = AdvanceStart(p, idx, sts, ws)
               /\ \A k \in 1..p.d : g[k] = LayerStep(p, idx, k - 1, g[k - 1])
               /\ Advance(p, idx, sts, ws) = g[p.d]
  <2>1. p.d \in Nat OBVIOUS
  <2> QED BY ONLY <2>1, AdvanceLoop
<1> DEFINE Good(s) ==
      /\ IsLoopState(s)
      /\ RootsSigned(p, s.wots)
      /\ \A i \in 0..(p.d - 2) :
           \/ s.wots[i] = ws[i]
           \/ EndOfTree(p, idx, i) /\ \E root : s.wots[i] = SignRoot(p, idx, i, root)
           S == {k \in Nat : k <= p.d => Good(g[k])}
<1>2. 0 \in S
  <2>1. \E u, v, w : AdvanceStart(p, idx, sts, ws)
          = [states |-> u, wots |-> ws, updates |-> v, swapped |-> w]
    BY Zenon DEF AdvanceStart
  <2>2. PICK u, v, w : g[0] = [states |-> u, wots |-> ws, updates |-> v, swapped |-> w]
    <3>1. g[0] = AdvanceStart(p, idx, sts, ws) BY <1>1
    <3> QED BY ONLY <2>1, <3>1
  <2>3. IsLoopState(g[0]) /\ g[0].wots = ws BY ONLY <2>2 DEF IsLoopState
  <2> QED BY <2>3
<1>3. ASSUME NEW k \in Nat, k \in S PROVE k + 1 \in S
  <2> SUFFICES ASSUME k + 1 <= p.d PROVE Good(g[k + 1])
    <3> HIDE DEF Good
    <3> QED OBVIOUS
  <2>1. Good(g[k])
    <3> HIDE DEF Good
    <3> QED BY <1>3
  <2>2. k + 1 \in 1..p.d /\ (k + 1) - 1 = k OBVIOUS
  <2>3. g[k + 1] = LayerStep(p, idx, k, g[k]) BY <1>1, <2>2
  <2>4. PICK s : s = g[k] OBVIOUS
  <2>5. PICK t : t = g[k + 1] OBVIOUS
  <2>6. Good(s) BY <2>1, <2>4
  <2>7. t = LayerStep(p, idx, k, s) BY <2>3, <2>4, <2>5
  <2>8. Good(t)
    <3>1. CASE ~EndOfTree(p, idx, k)
      <4>1. t = StayInTree(p, idx, k, s) BY <3>1, <2>7 DEF LayerStep
      <4>2. IsLoopState(t) /\ t.wots = s.wots BY <4>1, <2>6, StayFields
      <4> QED BY <4>2, <2>6
    <3>2. CASE EndOfTree(p, idx, k) /\ idx < Capacity(p) - 1
      <4>1. t = SwapIn(p, idx, k, s) BY <3>2, <2>7 DEF LayerStep
      <4>2. PICK w : w = SignRoot(p, idx, k, s.states[p.d + k].stack[0]) OBVIOUS
      <4>3. IsLoopState(t) /\ t.wots = [s.wots EXCEPT ![k] = w]
        <5>1. IsLoopState(s) BY <2>6
        <5> QED BY ONLY <4>1, <4>2, <5>1, SwapFields
      <4>4. t.wots = [i \in 0..(p.d - 2) |-> IF i = k THEN w ELSE s.wots[i]]
        BY <4>3, <2>6 DEF RootsSigned
      <4>5. \A i \in 0..(p.d - 2) : t.wots[i] = IF i = k THEN w ELSE s.wots[i]
        BY ONLY <4>4
      <4>6. RootsSigned(p, t.wots) BY ONLY <4>4 DEF RootsSigned
      <4>7. ASSUME NEW i \in 0..(p.d - 2)
            PROVE  \/ t.wots[i] = ws[i]
                   \/ EndOfTree(p, idx, i) /\ \E root : t.wots[i] = SignRoot(p, idx, i, root)
        <5>1. CASE i = k BY <5>1, <4>5, <4>2, <3>2
        <5>2. CASE i # k BY <5>2, <4>5, <2>6
        <5> QED BY <5>1, <5>2
      <4> QED BY <4>3, <4>6, <4>7
    <3>3. CASE EndOfTree(p, idx, k) /\ ~(idx < Capacity(p) - 1)
      <4>1. t = s BY <3>3, <2>7 DEF LayerStep
      <4> QED BY <4>1, <2>6
    <3> QED BY <3>1, <3>2, <3>3
  <2> QED BY <2>5, <2>8
<1>4. Good(g[p.d])
  <2>1. Nat \subseteq S
    <3> HIDE DEF S
    <3> QED BY <1>2, <1>3, SetInduction
  <2>2. p.d \in S BY <2>1
  <2> HIDE DEF Good
  <2> QED BY <2>2
<1> QED BY <1>1, <1>4

-----------------------------------------------------------------------------
\* The one-time keys.

(* The key with this number among all those of a layer. *)
KeyOf(p, l, n) == <<<<l, Shr(n, p.th)>>, n % Pow2[p.th]>>

(* It is the only one.                                                       *)
LEMMA KeyOfUnique ==
  ASSUME NEW p, p.th \in Nat, NEW l, NEW k, NEW m \in Nat, NEW n \in Nat,
         KeyOf(p, l, m) = KeyOf(p, k, n)
  PROVE  l = k /\ m = n
<1> DEFINE t == Pow2[p.th]
<1>1. l = k /\ Shr(m, p.th) = Shr(n, p.th) /\ m % t = n % t BY DEF KeyOf
<1>2. t \in Nat \ {0} BY Pow2Recursion
<1>3. m \div t = n \div t BY <1>1 DEF Shr
<1> HIDE DEF t
<1>4. m = (m \div t) * t + (m % t) BY <1>2, SplitAt
<1>5. n = (n \div t) * t + (n % t) BY <1>2, SplitAt
<1> QED BY ONLY <1>1, <1>3, <1>4, <1>5

(* The message is signed with the key whose number is the index.             *)
LEMMA LowestKey ==
  ASSUME NEW p, p.th \in Nat, p.d \in Nat \ {0}, NEW idx \in Nat, NEW m, NEW sts, NEW ws
  PROVE  Output(p, idx, m, sts, ws).wots[0].key = KeyOf(p, 0, idx)
<1>1. 0 \in 0..(p.d - 1) OBVIOUS
<1>2. Output(p, idx, m, sts, ws).wots[0]
        = WotsSign(<<0, TreeAt(p, idx, 0)>>, LeafAt(p, idx, 0), Digest(idx, idx, m))
  BY <1>1 DEF Output
<1>3. p.th * (0 + 1) = p.th /\ p.th * 0 = 0 OBVIOUS
<1>4. TreeAt(p, idx, 0) = Shr(idx, p.th) /\ LeafAt(p, idx, 0) = idx % Pow2[p.th]
  BY <1>3, ShrNone DEF TreeAt, LeafAt
<1> QED BY <1>2, <1>4 DEF WotsSign, KeyOf

(* A tree that ends is the last before a multiple of its size.               *)
LEMMA EndOfTreeIs ==
  ASSUME NEW p, p.th \in Nat, NEW idx \in Nat, NEW i \in Nat, EndOfTree(p, idx, i)
  PROVE  LET n == p.th * (i + 1) IN
         /\ n \in Nat /\ Pow2[n] \in Nat \ {0}
         /\ Shr(idx, n) \in Nat
         /\ idx + 1 = (Shr(idx, n) + 1) * Pow2[n]
         /\ Shr(idx + 1, n) = Shr(idx, n) + 1
<1> DEFINE n == p.th * (i + 1)
           t == Pow2[n]
           q == (idx + 1) \div t
<1>1. n \in Nat BY TimesNat
<1>2. t \in Nat \ {0} BY <1>1, Pow2Recursion
<1>3. (idx + 1) % t = 0 BY DEF EndOfTree
<1> HIDE DEF n
<1>4. q \in Nat /\ idx + 1 = q * t + ((idx + 1) % t)
  <2>1. idx + 1 \in Nat OBVIOUS
  <2> HIDE DEF t
  <2> QED BY ONLY <1>2, <2>1, SplitAt
<1> HIDE DEF q
<1>5. idx + 1 = q * t
  <2> HIDE DEF t
  <2>1. q * t \in Nat BY <1>2, <1>4, TimesNat
  <2> QED BY <1>3, <1>4, <2>1
<1>6. q # 0
  <2> HIDE DEF t
  <2> SUFFICES ASSUME q = 0 PROVE FALSE OBVIOUS
  <2>1. 0 * t = 0 BY <1>2
  <2> QED BY <1>5, <2>1
<1>7. q - 1 \in Nat /\ (q - 1) + 1 = q BY <1>4, <1>6
<1>8. (q - 1) * t + t = q * t /\ (q - 1) * t \in Int
  <2> HIDE DEF t
  <2>1. PICK r : r = q - 1 OBVIOUS
  <2>2. r \in Int /\ t \in Int /\ r + 1 = q BY <2>1, <1>7, <1>2
  <2>3. r * t \in Int /\ (r + 1) * t = r * t + t BY ONLY <2>2, TimesSucc
  <2> QED BY <2>1, <2>2, <2>3
<1>9. Shr(idx, n) = q - 1
  <2>1. (q - 1) * t <= idx /\ idx < ((q - 1) + 1) * t
    <3> HIDE DEF t
    <3>1. PICK u : u = (q - 1) * t OBVIOUS
    <3>2. u \in Int /\ u + t = idx + 1 BY <3>1, <1>8, <1>5
    <3>3. u <= idx BY ONLY <3>2, <1>2, idx \in Nat
    <3>4. idx < idx + 1 OBVIOUS
    <3> QED BY <3>1, <3>3, <3>4, <1>5, <1>7
  <2> QED BY <2>1, <1>1, <1>7, ShrUnique
<1>10. Shr(idx + 1, n) = q BY DEF Shr, q
<1> QED BY <1>1, <1>2, <1>5, <1>7, <1>9, <1>10 DEF n

(* key is the one of layer i + 1 that comes into use after index idx. *)
NextKey(p, idx, i, key) ==
  \E c \in Nat : key = KeyOf(p, i + 1, c) /\ c * Pow2[p.th * (i + 1)] = idx + 1

(* The root of a tree that takes over is signed with the next key of the     *)
(* layer above: the indices below it have reached that key.                  *)
LEMMA UpperKey ==
  ASSUME NEW p, p.th \in Nat, NEW idx \in Nat, NEW i \in Nat, EndOfTree(p, idx, i), NEW root
  PROVE  NextKey(p, idx, i, SignRoot(p, idx, i, root).key)
<1> DEFINE n == p.th * (i + 1)
           c == Shr(idx, n) + 1
<1>1. /\ n \in Nat /\ Pow2[n] \in Nat \ {0}
      /\ Shr(idx, n) \in Nat
      /\ idx + 1 = c * Pow2[n]
      /\ Shr(idx + 1, n) = c
  BY EndOfTreeIs
<1>2. p.th * (i + 2) = n + p.th
  <2>1. PICK k : k = i + 1 OBVIOUS
  <2>2. k \in Int /\ p.th \in Int /\ i + 2 = k + 1 BY <2>1
  <2>3. (k + 1) * p.th = k * p.th + p.th BY ONLY <2>2, TimesSucc
  <2>4. p.th * (k + 1) = p.th * k + p.th BY ONLY <2>2, <2>3
  <2> QED BY ONLY <2>1, <2>2, <2>4 DEF n
<1>3. Shr(idx + 1, n + p.th) = Shr(c, p.th)
  <2> HIDE DEF n
  <2>1. idx + 1 \in Nat OBVIOUS
  <2>2. p.th \in Nat OBVIOUS
  <2>3. Shr(Shr(idx + 1, n), p.th) = Shr(idx + 1, n + p.th)
    BY ONLY <2>1, <2>2, <1>1, ShrSum
  <2> QED BY ONLY <2>3, <1>1
<1>4. SignRoot(p, idx, i, root).key = KeyOf(p, i + 1, c)
  BY <1>2, <1>3 DEF SignRoot, WotsSign, KeyOf
<1>5. c \in Nat BY <1>1
<1> QED BY <1>1, <1>4, <1>5 DEF NextKey

-----------------------------------------------------------------------------
(* The keys that calls with an index below n have signed with, and key       *)
(* generation.                                                               *)
Spent(p, n, key) ==
  \/ \E m \in 0..(n - 1) : key = KeyOf(p, 0, m)
  \/ \E i \in 0..(p.d - 2) : \E c \in Nat :
       key = KeyOf(p, i + 1, c) /\ c * Pow2[p.th * (i + 1)] <= n

(* Before key generation there is no call. *)
NoCallsYet == pkRoot = Junk => calls = 0

(* The index in the secret key counts the calls until it wraps. *)
IndexCounts == calls < params.space => skIdx = calls

(* Until then a key that has signed has signed once, and for an index that   *)
(* is used up.                                                               *)
SpentOnce ==
  calls <= params.space =>
    \A key \in DOMAIN used : used[key] = 1 /\ Spent(params, calls, key)

(* The inductive invariant behind OneTimeKey. *)
KeysInv ==
  /\ params \in ParamSets
  /\ calls \in Nat
  /\ skIdx \in Nat
  /\ RootsSigned(params, wotsSigs)
  /\ NoCallsYet
  /\ IndexCounts
  /\ SpentOnce

(* What the parameters are.                                                  *)
LEMMA MtSizes ==
  ASSUME NEW p \in ParamSets
  PROVE  /\ TreeParams(p)
         /\ p.th \in Nat /\ p.th # 0 /\ p.d \in Nat /\ p.d >= 2
         /\ Capacity(p) \in Nat \ {0} /\ p.space \in Nat /\ Capacity(p) <= p.space
<1>1. /\ p.th \in Nat \ {0} /\ p.d \in Nat \ {0, 1}
      /\ p.k \in 0..p.th
      /\ p.space \in Nat /\ Capacity(p) <= p.space
  BY FastParamSetsAssumption
<1>2. p.th * p.d \in Nat
  <2>1. p.th \in Nat /\ p.d \in Nat BY <1>1
  <2> QED BY ONLY <2>1, TimesNat
<1>3. Capacity(p) \in Nat \ {0} BY <1>2, Pow2Recursion DEF Capacity
<1> QED BY <1>1, <1>3 DEF TreeParams

(* Key generation signs with the first key of every layer above 0.           *)
LEMMA KeypairKeys == KeysInv /\ Keypair => KeysInv'
<1> SUFFICES ASSUME KeysInv, Keypair PROVE KeysInv' OBVIOUS
<1> DEFINE built == [i \in 0..(params.d - 1) |-> TreehashInit(params, <<i, 0>>, states[i])]
<1>1. /\ pkRoot = Junk /\ skIdx' = 0 /\ params' = params /\ calls' = calls
      /\ wotsSigs' = [i \in DOMAIN wotsSigs |-> WotsSign(<<i + 1, 0>>, 0, built[i].root)]
      /\ used' = SetToBag({wotsSigs'[i].key : i \in DOMAIN wotsSigs})
  BY Zenon DEF Keypair
<1> HIDE DEF built
<1>2. calls = 0 /\ params \in ParamSets BY <1>1 DEF KeysInv, NoCallsYet
<1>3. params.th \in Nat /\ params.d \in Nat BY <1>2, MtSizes
<1>4. DOMAIN wotsSigs = 0..(params.d - 2)
  <2>1. RootsSigned(params, wotsSigs) BY DEF KeysInv
  <2> QED BY ONLY <2>1 DEF RootsSigned
<1>5. PICK b : wotsSigs' = [i \in 0..(params.d - 2) |-> WotsSign(<<i + 1, 0>>, 0, b[i].root)]
  BY <1>1, <1>4
<1>6. RootsSigned(params', wotsSigs')
  <2>1. \A d, f : (\E g : f = [i \in 0..(d - 2) |-> g[i]]) => f = [i \in 0..(d - 2) |-> f[i]]
    OBVIOUS
  <2> QED BY <1>1, <1>5 DEF RootsSigned
<1>7. ASSUME NEW key \in DOMAIN used'
      PROVE  used'[key] = 1 /\ Spent(params', calls', key)
  <2>1. used' = [k \in {wotsSigs'[i].key : i \in 0..(params.d - 2)} |-> 1]
    BY <1>1, <1>4 DEF SetToBag
  <2>2. PICK i \in 0..(params.d - 2) : key = wotsSigs'[i].key BY <2>1, <1>7
  <2>3. key = <<<<i + 1, 0>>, 0>> BY <2>2, <1>5 DEF WotsSign
  <2>4. Shr(0, params.th) = 0 /\ 0 % Pow2[params.th] = 0
    <3>1. Pow2[params.th] \in Nat \ {0} BY <1>3, Pow2Recursion
    <3>2. 0 < Pow2[params.th] BY <3>1
    <3>3. 0 \in Nat OBVIOUS
    <3>4. Shr(0, params.th) = 0 BY ONLY <3>2, <3>3, <1>3, ShrZero
    <3>5. \A t \in Nat \ {0} : 0 % t = 0 OBVIOUS
    <3> QED BY <3>1, <3>4, <3>5
  <2>5. key = KeyOf(params, i + 1, 0) BY <2>3, <2>4 DEF KeyOf
  <2>6. 0 * Pow2[params.th * (i + 1)] <= 0
    <3>1. params.th * (i + 1) \in Nat
      <4>1. i + 1 \in Nat OBVIOUS
      <4> QED BY ONLY <4>1, <1>3, TimesNat
    <3>2. Pow2[params.th * (i + 1)] \in Nat BY <3>1, Pow2Recursion
    <3> QED BY <3>2
  <2>7. Spent(params, calls, key) BY <2>5, <2>6, <1>2 DEF Spent
  <2> QED BY <2>1, <2>7, <1>1, <1>7
<1>8. SpentOnce' BY <1>7 DEF SpentOnce
<1>9. NoCallsYet' BY <1>1, <1>2 DEF NoCallsYet
<1>10. IndexCounts' BY <1>1, <1>2 DEF IndexCounts
<1> QED BY <1>1, <1>2, <1>6, <1>8, <1>9, <1>10 DEF KeysInv

(* The keys of a call are new.                                               *)
LEMMA CallKeysNew ==
  ASSUME KeysInv, NEW m, calls + 1 <= params.space
  PROVE  LET next == Advance(params, skIdx, states, wotsSigs)
             keys == KeysSpent(Output(params, skIdx, m, states, wotsSigs), wotsSigs, next.wots)
         IN  \A key \in keys : key \notin DOMAIN used /\ Spent(params, calls + 1, key)
<1> DEFINE next == Advance(params, skIdx, states, wotsSigs)
           after == next.wots
           lowest == Output(params, skIdx, m, states, wotsSigs).wots[0].key
<1>1. /\ params \in ParamSets /\ calls \in Nat
      /\ RootsSigned(params, wotsSigs)
  BY DEF KeysInv
<1>2. params.th \in Nat /\ params.d \in Nat /\ params.d >= 2 /\ params.space \in Nat
  BY <1>1, MtSizes
<1>3. skIdx = calls BY <1>1, <1>2 DEF KeysInv, IndexCounts
<1>4. lowest = KeyOf(params, 0, calls)
  <2>1. params.d \in Nat \ {0} BY <1>2
  <2> QED BY ONLY <1>1, <1>2, <1>3, <2>1, LowestKey DEF lowest
<1>5. /\ RootsSigned(params, after)
      /\ \A i \in 0..(params.d - 2) :
           \/ after[i] = wotsSigs[i]
           \/ EndOfTree(params, skIdx, i)
              /\ \E root : after[i] = SignRoot(params, skIdx, i, root)
  <2>1. PICK w : w = Advance(params, skIdx, states, wotsSigs).wots OBVIOUS
  <2>2. /\ RootsSigned(params, w)
        /\ \A i \in 0..(params.d - 2) :
             \/ w[i] = wotsSigs[i]
             \/ EndOfTree(params, skIdx, i) /\ \E root : w[i] = SignRoot(params, skIdx, i, root)
    BY ONLY <2>1, <1>1, <1>2, AdvanceWots
  <2> QED BY <2>1, <2>2
<1> HIDE DEF lowest, after
<1>6. SUFFICES ASSUME NEW key \in {lowest} \cup
                        {after[i].key : i \in {j \in DOMAIN after : after[j] # wotsSigs[j]}}
               PROVE  key \notin DOMAIN used /\ Spent(params, calls + 1, key)
  BY DEF KeysSpent, lowest, after
<1>7. \A k \in DOMAIN used : Spent(params, calls, k)
  BY <1>1, <1>2 DEF KeysInv, SpentOnce
<1>8. ASSUME NEW n \in Nat, NEW i \in 0..(params.d - 2)
      PROVE  params.th * (i + 1) \in Nat /\ n * Pow2[params.th * (i + 1)] \in Nat
  <2>1. i + 1 \in Nat OBVIOUS
  <2>2. params.th * (i + 1) \in Nat BY ONLY <2>1, <1>2, TimesNat
  <2>3. Pow2[params.th * (i + 1)] \in Nat BY <2>2, Pow2Recursion
  <2> QED BY <2>2, <2>3, TimesNat
<1>9. CASE key = lowest
  <2>1. key = KeyOf(params, 0, calls) BY <1>9, <1>4
  <2>2. Spent(params, calls + 1, key)
    <3>1. calls \in 0..((calls + 1) - 1) BY <1>1
    <3> QED BY <2>1, <3>1 DEF Spent
  <2>3. ASSUME Spent(params, calls, key) PROVE FALSE
    <3>1. CASE \E n \in 0..(calls - 1) : key = KeyOf(params, 0, n)
      <4>1. PICK n \in 0..(calls - 1) : key = KeyOf(params, 0, n) BY <3>1
      <4>2. n \in Nat /\ n # calls BY <4>1, <1>1
      <4>3. KeyOf(params, 0, n) = KeyOf(params, 0, calls) BY <4>1, <2>1
      <4> QED BY ONLY <4>2, <4>3, <1>1, <1>2, KeyOfUnique
    <3>2. CASE \E i \in 0..(params.d - 2) : \E c \in Nat : key = KeyOf(params, i + 1, c)
      <4>1. PICK i \in 0..(params.d - 2), c \in Nat : key = KeyOf(params, i + 1, c) BY <3>2
      <4>2. PICK l : l = i + 1 OBVIOUS
      <4>3. c \in Nat /\ l # 0 BY <4>1, <4>2
      <4>4. KeyOf(params, l, c) = KeyOf(params, 0, calls) BY <4>1, <4>2, <2>1
      <4> QED BY ONLY <4>3, <4>4, <1>1, <1>2, KeyOfUnique
    <3> QED BY <2>3, <3>1, <3>2 DEF Spent
  <2> QED BY <2>2, <2>3, <1>7
<1>10. CASE key # lowest
  <2>1. PICK i \in 0..(params.d - 2) : key = after[i].key /\ after[i] # wotsSigs[i]
    <3>1. DOMAIN after = 0..(params.d - 2)
      <4>1. RootsSigned(params, after) BY <1>5
      <4> QED BY ONLY <4>1 DEF RootsSigned
    <3> QED BY ONLY <3>1, <1>6, <1>10
  <2>2. PICK root : EndOfTree(params, calls, i) /\ after[i] = SignRoot(params, calls, i, root)
    BY <2>1, <1>3, <1>5
  <2>3. i \in Nat BY <2>1
  <2>4. PICK c \in Nat : /\ SignRoot(params, calls, i, root).key = KeyOf(params, i + 1, c)
                         /\ c * Pow2[params.th * (i + 1)] = calls + 1
    <3>1. NextKey(params, calls, i, SignRoot(params, calls, i, root).key)
      BY ONLY <2>2, <2>3, <1>1, <1>2, UpperKey
    <3> QED BY ONLY <3>1 DEF NextKey
  <2>5. key = KeyOf(params, i + 1, c) BY <2>1, <2>2, <2>4
  <2>6. Spent(params, calls + 1, key)
    <3>1. c * Pow2[params.th * (i + 1)] <= calls + 1 BY <2>4, <1>1
    <3> QED BY <3>1, <2>5 DEF Spent
  <2>7. ASSUME Spent(params, calls, key) PROVE FALSE
    <3>1. CASE \E n \in 0..(calls - 1) : key = KeyOf(params, 0, n)
      <4>1. PICK n \in 0..(calls - 1) : key = KeyOf(params, 0, n) BY <3>1
      <4>2. PICK l : l = i + 1 OBVIOUS
      <4>3. n \in Nat /\ c \in Nat /\ l # 0 BY <4>1, <4>2
      <4>4. KeyOf(params, l, c) = KeyOf(params, 0, n) BY <4>1, <4>2, <2>5
      <4> QED BY ONLY <4>3, <4>4, <1>2, KeyOfUnique
    <3>2. CASE \E j \in 0..(params.d - 2) : \E b \in Nat :
                 key = KeyOf(params, j + 1, b) /\ b * Pow2[params.th * (j + 1)] <= calls
      <4>1. PICK j \in 0..(params.d - 2), b \in Nat :
              key = KeyOf(params, j + 1, b) /\ b * Pow2[params.th * (j + 1)] <= calls
        BY <3>2
      <4>2. PICK l : l = i + 1 OBVIOUS
      <4>3. PICK k : k = j + 1 OBVIOUS
      <4>4. KeyOf(params, l, c) = KeyOf(params, k, b) BY <4>1, <4>2, <4>3, <2>5
      <4>5. l = k /\ c = b BY ONLY <4>4, <4>1, <2>4, <1>2, KeyOfUnique
      <4>6. b * Pow2[params.th * (j + 1)] = calls + 1 BY <4>2, <4>3, <4>5, <2>4
      <4> QED BY <4>1, <4>6, <1>1
    <3> QED BY <2>7, <3>1, <3>2 DEF Spent
  <2> QED BY <2>6, <2>7, <1>7
<1> QED BY <1>9, <1>10

-----------------------------------------------------------------------------
(* A key stays spent.                                                        *)
LEMMA SpentGrows ==
  ASSUME NEW p \in ParamSets, NEW n \in Nat, NEW key, Spent(p, n, key)
  PROVE  Spent(p, n + 1, key)
<1>1. p.th \in Nat /\ p.d \in Nat BY MtSizes
<1>2. CASE \E m \in 0..(n - 1) : key = KeyOf(p, 0, m)
  <2>1. PICK m \in 0..(n - 1) : key = KeyOf(p, 0, m) BY <1>2
  <2>2. m \in 0..((n + 1) - 1) BY <2>1
  <2> QED BY <2>1, <2>2 DEF Spent
<1>3. CASE \E i \in 0..(p.d - 2) : \E c \in Nat :
             key = KeyOf(p, i + 1, c) /\ c * Pow2[p.th * (i + 1)] <= n
  <2>1. PICK i \in 0..(p.d - 2), c \in Nat :
          key = KeyOf(p, i + 1, c) /\ c * Pow2[p.th * (i + 1)] <= n
    BY <1>3
  <2>2. PICK k : k = i + 1 OBVIOUS
  <2>3. k \in Nat BY <2>1, <2>2, <1>1
  <2>4. p.th * k \in Nat BY ONLY <2>3, <1>1, TimesNat
  <2>5. Pow2[p.th * k] \in Nat BY <2>4, Pow2Recursion
  <2>6. PICK t : t = c * Pow2[p.th * k] OBVIOUS
  <2>7. t \in Nat BY ONLY <2>1, <2>5, <2>6, TimesNat
  <2>8. t <= n BY <2>1, <2>2, <2>6
  <2>9. t <= n + 1 BY <2>7, <2>8
  <2>10. c * Pow2[p.th * (i + 1)] <= n + 1 BY <2>2, <2>6, <2>9
  <2> QED BY <2>1, <2>10 DEF Spent
<1> QED BY <1>2, <1>3 DEF Spent

(* A bag of distinct keys that gets keys it does not hold.                   *)
LEMMA AddNewKeys ==
  ASSUME NEW bag, NEW keys, \A k \in DOMAIN bag : bag[k] = 1, keys \cap DOMAIN bag = {}
  PROVE  /\ DOMAIN (bag (+) SetToBag(keys)) = DOMAIN bag \cup keys
         /\ \A k \in DOMAIN bag \cup keys : (bag (+) SetToBag(keys))[k] = 1
<1>1. SetToBag(keys) = [k \in keys |-> 1] BY DEF SetToBag
<1>2. PICK sum : sum = bag (+) SetToBag(keys) OBVIOUS
<1>3. DOMAIN SetToBag(keys) = keys /\ \A k \in keys : SetToBag(keys)[k] = 1 BY <1>1
<1>4. sum = [e \in DOMAIN bag \cup keys |->
                (IF e \in DOMAIN bag THEN bag[e] ELSE 0)
                + (IF e \in keys THEN SetToBag(keys)[e] ELSE 0)]
  BY <1>2, <1>3 DEF (+)
<1>5. ASSUME NEW k \in DOMAIN bag \cup keys PROVE sum[k] = 1
  <2>1. CASE k \in keys
    <3>1. k \notin DOMAIN bag BY <2>1
    <3>2. sum[k] = 0 + 1 BY <1>4, <1>3, <2>1, <3>1
    <3> QED BY <3>2
  <2>2. CASE k \notin keys
    <3>1. sum[k] = 1 + 0 BY <1>4, <2>2, <1>5
    <3> QED BY <3>1
  <2> QED BY <2>1, <2>2
<1> QED BY <1>2, <1>4, <1>5

(* Nothing has been signed before key generation.                            *)
LEMMA InitKeys == Init => KeysInv
<1> SUFFICES ASSUME Init PROVE KeysInv OBVIOUS
<1>1. /\ params \in ParamSets /\ skIdx = 0 /\ calls = 0 /\ used = EmptyBag
      /\ wotsSigs = [i \in 0..(params.d - 2) |-> Junk]
  BY DEF Init
<1>2. RootsSigned(params, wotsSigs) BY <1>1 DEF RootsSigned
<1>3. DOMAIN used = {} BY <1>1 DEF EmptyBag, SetToBag
<1> QED BY <1>1, <1>2, <1>3 DEF KeysInv, NoCallsYet, IndexCounts, SpentOnce

(* What a call leaves in the secret key and in the history of the keys,      *)
(* whether it returns or is cut short.                                       *)
CallCounted(m) ==
  /\ pkRoot # Junk /\ pkRoot' = pkRoot /\ params' = params
  /\ calls' = calls + 1
  /\ skIdx' = (skIdx + 1) % params.space
  /\ used' = used (+) SetToBag(KeysSpent(Output(params, skIdx, m, states, wotsSigs), wotsSigs,
                                  Advance(params, skIdx, states, wotsSigs).wots))

(* A call that returns, or is cut short, keeps the invariant.                *)
LEMMA CallKeys ==
  ASSUME KeysInv, NEW m, CallCounted(m), RootsSigned(params', wotsSigs')
  PROVE  KeysInv'
<1> DEFINE keys == KeysSpent(Output(params, skIdx, m, states, wotsSigs), wotsSigs,
                             Advance(params, skIdx, states, wotsSigs).wots)
<1>1. /\ pkRoot' # Junk /\ params' = params /\ calls' = calls + 1
      /\ skIdx' = (skIdx + 1) % params.space
      /\ used' = used (+) SetToBag(keys)
  BY DEF CallCounted
<1>2. params \in ParamSets /\ calls \in Nat /\ skIdx \in Nat BY DEF KeysInv
<1>3. params.space \in Nat \ {0}
  <2>1. /\ Capacity(params) \in Nat \ {0} /\ params.space \in Nat
        /\ Capacity(params) <= params.space
    BY <1>2, MtSizes
  <2> QED BY <2>1
<1>4. skIdx' \in Nat BY <1>1, <1>2, <1>3
<1>5. IndexCounts'
  <2> SUFFICES ASSUME calls + 1 < params.space PROVE skIdx' = calls + 1 BY <1>1 DEF IndexCounts
  <2>1. skIdx = calls BY <1>2, <1>3 DEF KeysInv, IndexCounts
  <2> QED BY <2>1, <1>1, <1>2, <1>3
<1>6. ASSUME calls + 1 <= params.space
      PROVE  \A key \in DOMAIN used' : used'[key] = 1 /\ Spent(params, calls + 1, key)
  <2>1. \A key \in keys : key \notin DOMAIN used /\ Spent(params, calls + 1, key)
    BY <1>6, CallKeysNew
  <2>2. \A key \in DOMAIN used : used[key] = 1 /\ Spent(params, calls, key)
    BY <1>2, <1>3, <1>6 DEF KeysInv, SpentOnce
  <2> HIDE DEF keys
  <2>3. PICK bag : bag = used OBVIOUS
  <2>4. (\A k \in DOMAIN bag : bag[k] = 1) /\ keys \cap DOMAIN bag = {} BY <2>1, <2>2, <2>3
  <2>5. PICK sum : sum = bag (+) SetToBag(keys) OBVIOUS
  <2>6. DOMAIN sum = DOMAIN bag \cup keys /\ \A k \in DOMAIN bag \cup keys : sum[k] = 1
    BY ONLY <2>4, <2>5, AddNewKeys
  <2>7. used' = sum BY <1>1, <2>3, <2>5
  <2> SUFFICES ASSUME NEW key \in DOMAIN used'
               PROVE  used'[key] = 1 /\ Spent(params, calls + 1, key)
    OBVIOUS
  <2>8. key \in DOMAIN used \/ key \in keys BY <2>3, <2>6, <2>7
  <2>9. Spent(params, calls + 1, key)
    <3>1. CASE key \in keys BY <3>1, <2>1
    <3>2. CASE key \in DOMAIN used
      <4>1. Spent(params, calls, key) BY <3>2, <2>2
      <4> QED BY ONLY <4>1, <1>2, SpentGrows
    <3> QED BY <2>8, <3>1, <3>2
  <2> QED BY <2>6, <2>7, <2>9
<1>7. SpentOnce' BY <1>1, <1>6 DEF SpentOnce
<1>8. NoCallsYet' BY <1>1 DEF NoCallsYet
<1>9. calls' \in Nat BY <1>1, <1>2
<1> QED BY <1>1, <1>2, <1>4, <1>5, <1>7, <1>8, <1>9 DEF KeysInv

(* A call that returns keeps the invariant.                                  *)
LEMMA SignKeys == ASSUME KeysInv, NEW m \in Messages, Sign(m) PROVE KeysInv'
<1>1. CallCounted(m) /\ params' = params
      /\ wotsSigs' = Advance(params, skIdx, states, wotsSigs).wots
  <2>1. /\ Callable /\ calls' = calls + 1 /\ skIdx' = (skIdx + 1) % params.space
        /\ out' = Output(params, skIdx, m, states, wotsSigs)
        /\ wotsSigs' = Advance(params, skIdx, states, wotsSigs).wots
        /\ used' = used (+) SetToBag(KeysSpent(out', wotsSigs, wotsSigs'))
        /\ params' = params /\ pkRoot' = pkRoot
    BY Zenon DEF Sign
  <2>2. used' = used (+) SetToBag(KeysSpent(Output(params, skIdx, m, states, wotsSigs),
                            wotsSigs, Advance(params, skIdx, states, wotsSigs).wots))
    BY ONLY <2>1, Zenon
  <2> QED BY ONLY <2>1, <2>2, Zenon DEF CallCounted, Callable
<1>2. params \in ParamSets /\ RootsSigned(params, wotsSigs) BY DEF KeysInv
<1>3. params.th \in Nat /\ params.d \in Nat /\ params.d >= 2 BY <1>2, MtSizes
<1>4. RootsSigned(params', wotsSigs')
  <2>1. PICK w : w = Advance(params, skIdx, states, wotsSigs).wots OBVIOUS
  <2>2. RootsSigned(params, w) BY ONLY <2>1, <1>2, <1>3, AdvanceWots
  <2>3. wotsSigs' = w BY ONLY <1>1, <2>1, Zenon
  <2> QED BY ONLY <1>1, <2>2, <2>3, Zenon
<1> QED BY <1>1, <1>4, CallKeys

(* So does one that is cut short: it leaves the signatures on the roots.     *)
LEMMA CrashKeys == ASSUME KeysInv, NEW m \in Messages, Crash(m) PROVE KeysInv'
<1>1. CallCounted(m) /\ params' = params /\ wotsSigs' = wotsSigs
  <2>1. /\ Callable /\ calls' = calls + 1 /\ skIdx' = (skIdx + 1) % params.space
        /\ used' = used (+) SetToBag(KeysSpent(Output(params, skIdx, m, states, wotsSigs),
                             wotsSigs, Advance(params, skIdx, states, wotsSigs).wots))
        /\ params' = params /\ pkRoot' = pkRoot /\ wotsSigs' = wotsSigs
    BY Zenon DEF Crash
  <2> QED BY ONLY <2>1, Zenon DEF CallCounted, Callable
<1>2. RootsSigned(params', wotsSigs')
  <2>1. RootsSigned(params, wotsSigs) BY DEF KeysInv
  <2> QED BY ONLY <1>1, <2>1, Zenon
<1> QED BY <1>1, <1>2, CallKeys

(* KeysInv is about the variables.                                           *)
LEMMA StutterKeys == KeysInv /\ UNCHANGED vars => KeysInv'
BY DEF KeysInv, NoCallsYet, IndexCounts, SpentOnce, vars

(* KeysInv is inductive, whichever calls are cut short.                      *)
LEMMA KeysInvariance == CrashSpec => []KeysInv
<1>1. Init => KeysInv BY InitKeys
<1>2. KeysInv /\ [CrashNext]_vars => KeysInv'
  BY KeypairKeys, SignKeys, CrashKeys, StutterKeys DEF CrashNext, Next
<1> QED BY <1>1, <1>2, PTL DEF CrashSpec

(* No one-time key on any layer of a hypertree signs twice until the index   *)
(* bytes wrap, for every shape and any number of calls, whichever of them    *)
(* are cut short after the new index was stored (xmss_core_fast.c:816).      *)
THEOREM OneTimeKeyHolds == CrashSpec => []OneTimeKey
<1>1. KeysInv => OneTimeKey BY DEF KeysInv, SpentOnce, OneTimeKey, BagToSet
<1> QED BY <1>1, KeysInvariance, PTL

-----------------------------------------------------------------------------
\* The index, layer by layer.

(* Division with remainder of the number that follows.                       *)
LEMMA OneMore ==
  ASSUME NEW x \in Nat, NEW t \in Nat \ {0}
  PROVE  /\ x % t = t - 1 => (x + 1) \div t = (x \div t) + 1 /\ (x + 1) % t = 0
         /\ x % t # t - 1 => (x + 1) \div t = x \div t /\ (x + 1) % t = (x % t) + 1
<1> DEFINE q == x \div t
           r == x % t
           y == x + 1
           a == y \div t
           b == y % t
<1>1. q \in Nat /\ r \in 0..(t - 1) /\ x = q * t + r BY ONLY SplitAt
<1>2. a \in Nat /\ b \in 0..(t - 1) /\ y = a * t + b
  <2>1. y \in Nat OBVIOUS
  <2> HIDE DEF y
  <2> QED BY ONLY <2>1, SplitAt
<1>3. y = x + 1 OBVIOUS
<1> HIDE DEF q, r, y, a, b
<1>4. (q + 1) * t = q * t + t /\ q * t \in Int BY <1>1, TimesSucc
<1>5. CASE r = t - 1
  <2>1. y = (q + 1) * t + 0 BY <1>1, <1>3, <1>4, <1>5
  <2>2. q + 1 \in Nat /\ 0 \in 0..(t - 1) BY <1>1
  <2>3. a * t + b = (q + 1) * t + 0 BY <2>1, <1>2
  <2>4. a = q + 1 /\ b = 0
    <3>1. PICK v, z : v = q + 1 /\ z = 0 OBVIOUS
    <3>2. v \in Nat /\ z \in 0..(t - 1) /\ a * t + b = v * t + z BY <2>2, <2>3, <3>1
    <3>3. a = v /\ b = z BY ONLY <3>2, <1>2, t \in Nat \ {0}, SplitUnique
    <3> QED BY <3>1, <3>3
  <2> QED BY <2>4, <1>5 DEF a, b, q, r, y
<1>6. CASE r # t - 1
  <2>1. r + 1 \in 0..(t - 1) BY <1>1, <1>6
  <2>2. y = q * t + (r + 1) BY <1>1, <1>3, <1>4
  <2>3. a * t + b = q * t + (r + 1) BY <2>2, <1>2
  <2>4. a = q /\ b = r + 1
    BY ONLY <2>1, <2>3, <1>1, <1>2, t \in Nat \ {0}, SplitUnique
  <2> QED BY <2>4, <1>6 DEF a, b, q, r, y
<1> QED BY <1>5, <1>6

(* The multiples of a product.                                               *)
LEMMA TwiceDivides ==
  ASSUME NEW y \in Nat, NEW s \in Nat \ {0}, NEW t \in Nat \ {0}
  PROVE  y % (s * t) = 0 <=> y % s = 0 /\ (y \div s) % t = 0
<1> DEFINE a == y \div s
           b == y % s
           c == a \div t
           e == a % t
           m == s * t
<1>1. a \in Nat /\ b \in 0..(s - 1) /\ y = a * s + b BY ONLY SplitAt
<1>2. c \in Nat /\ e \in 0..(t - 1) /\ a = c * t + e
  <2> HIDE DEF a
  <2> QED BY ONLY <1>1, SplitAt
<1>3. m \in Nat \ {0}
  <2>1. PICK i : i = s - 1 OBVIOUS
  <2>2. i \in Nat /\ s = i + 1 BY <2>1
  <2>3. (i + 1) * t = i * t + t /\ i * t \in Nat BY ONLY <2>2, TimesSucc, TimesNat
  <2> QED BY <2>2, <2>3
<1>4. y \div m \in Nat /\ y % m \in 0..(m - 1) /\ y = (y \div m) * m + (y % m)
  <2> HIDE DEF m
  <2> QED BY ONLY <1>3, SplitAt
<1> HIDE DEF a, b, c, e
<1>5. y = c * m + (e * s + b)
  <2>1. (c * t + e) * s = c * (s * t) + e * s BY ONLY <1>2, s \in Nat, t \in Nat
  <2>2. e * s \in Int /\ c * (s * t) \in Int BY ONLY <1>2, s \in Nat, t \in Nat
  <2>3. a * s = c * m + e * s BY <2>1, <1>2
  <2> HIDE DEF m
  <2> QED BY <2>2, <2>3, <1>1, <1>2, <1>3
<1>6. e * s + b \in 0..(m - 1)
  <2>1. PICK k : k = t - (e + 1) OBVIOUS
  <2>2. k \in Nat /\ t = (e + 1) + k BY <2>1, <1>2
  <2>3. s * ((e + 1) + k) = (e * s + s) + k * s /\ e * s \in Nat /\ k * s \in Nat
    BY ONLY <2>2, <1>2
  <2>4. m = (e * s + s) + k * s BY <2>2, <2>3
  <2> HIDE DEF m
  <2> QED BY <2>3, <2>4, <1>1
<1> HIDE DEF m
<1>7. y % m = e * s + b
  <2>1. PICK u, v, w : u = y \div m /\ v = y % m /\ w = e * s + b OBVIOUS
  <2>2. /\ u \in Nat /\ v \in 0..(m - 1) /\ w \in 0..(m - 1)
        /\ u * m + v = c * m + w
    BY <2>1, <1>4, <1>5, <1>6
  <2>3. v = w BY ONLY <2>2, <1>2, <1>3, SplitUnique
  <2> QED BY <2>1, <2>3
<1>8. e * s + b = 0 <=> b = 0 /\ e = 0
  <2>1. CASE e = 0 BY <2>1, <1>1
  <2>2. CASE e # 0
    <3>1. PICK i : i = e - 1 OBVIOUS
    <3>2. i \in Nat /\ e = i + 1 BY <3>1, <2>2, <1>2
    <3>3. (i + 1) * s = i * s + s /\ i * s \in Nat BY ONLY <3>2, TimesSucc, TimesNat
    <3> QED BY <3>2, <3>3, <1>1
  <2> QED BY <2>1, <2>2
<1> QED BY <1>7, <1>8 DEF a, b, e, m

(* Every tree below layer i ends with index n. *)
Ended(p, n, i) == (n + 1) % Pow2[p.th * i] = 0

(* Layer 0 has no trees below it, and a tree of layer i is below layer i + 1. *)
LEMMA EndedBelow ==
  ASSUME NEW p, p.th \in Nat, NEW n \in Nat, NEW i \in Nat
  PROVE  Ended(p, n, 0) /\ (Ended(p, n, i + 1) <=> EndOfTree(p, n, i))
<1>1. p.th * 0 = 0 /\ Pow2[0] = 1 BY Pow2Recursion
<1>2. (n + 1) % 1 = 0 OBVIOUS
<1> QED BY <1>1, <1>2 DEF Ended, EndOfTree

(* The leaf and the tree of layer i, for an index and the one that follows.  *)
LEMMA NextLeafAt ==
  ASSUME NEW p, p.th \in Nat, NEW n \in Nat, NEW i \in Nat
  PROVE  /\ LeafAt(p, n, i) \in 0..(Pow2[p.th] - 1) /\ TreeAt(p, n, i) \in Nat
         /\ EndOfTree(p, n, i) <=> Ended(p, n, i) /\ LeafAt(p, n, i) = Pow2[p.th] - 1
         /\ ~Ended(p, n, i) => /\ LeafAt(p, n + 1, i) = LeafAt(p, n, i)
                               /\ TreeAt(p, n + 1, i) = TreeAt(p, n, i)
         /\ Ended(p, n, i) /\ ~EndOfTree(p, n, i)
              => /\ LeafAt(p, n + 1, i) = LeafAt(p, n, i) + 1
                 /\ TreeAt(p, n + 1, i) = TreeAt(p, n, i)
         /\ EndOfTree(p, n, i) => /\ LeafAt(p, n + 1, i) = 0
                                  /\ TreeAt(p, n + 1, i) = TreeAt(p, n, i) + 1
<1> DEFINE s == p.th * i
           P == Pow2[s]
           N == Pow2[p.th]
           q == n \div P
           y == (n + 1) \div P
<1>1. s \in Nat BY TimesNat
<1>2. P \in Nat \ {0} /\ N \in Nat \ {0} BY <1>1, Pow2Recursion
<1>3. p.th * (i + 1) = s + p.th
  <2>1. PICK t : t = p.th OBVIOUS
  <2>2. t \in Nat BY <2>1
  <2>3. t * (i + 1) = t * i + t BY ONLY <2>2, i \in Nat
  <2> QED BY <2>1, <2>3
<1>4. Pow2[p.th * (i + 1)] = P * N
  <2> HIDE DEF s
  <2>1. Pow2[s + p.th] = Pow2[s] * Pow2[p.th] BY <1>1, Pow2Sum
  <2> QED BY <2>1, <1>3
<1>5. \A x \in Nat : LeafAt(p, x, i) = (x \div P) % N /\ TreeAt(p, x, i) = (x \div P) \div N
  <2> TAKE x \in Nat
  <2> HIDE DEF s
  <2>1. Shr(Shr(x, s), p.th) = Shr(x, s + p.th) BY <1>1, ShrSum
  <2>2. TreeAt(p, x, i) = Shr(x, s + p.th) BY <1>3 DEF TreeAt
  <2>3. LeafAt(p, x, i) = Shr(x, s) % N BY DEF LeafAt, s
  <2> QED BY <2>1, <2>2, <2>3 DEF Shr
<1>6. LeafAt(p, n, i) = q % N /\ TreeAt(p, n, i) = q \div N BY <1>5
<1>7. LeafAt(p, n + 1, i) = y % N /\ TreeAt(p, n + 1, i) = y \div N
  <2>1. n + 1 \in Nat OBVIOUS
  <2> HIDE DEF P, N
  <2> QED BY <2>1, <1>5
<1>8. Ended(p, n, i) <=> (n + 1) % P = 0 BY DEF Ended
<1>9. EndOfTree(p, n, i) <=> (n + 1) % P = 0 /\ y % N = 0
  <2>1. EndOfTree(p, n, i) <=> (n + 1) % (P * N) = 0 BY <1>4 DEF EndOfTree
  <2>2. n + 1 \in Nat OBVIOUS
  <2> HIDE DEF P, N
  <2> QED BY <2>1, <2>2, <1>2, TwiceDivides
<1>10. /\ n % P = P - 1 => y = q + 1 /\ (n + 1) % P = 0
       /\ n % P # P - 1 => y = q /\ (n + 1) % P = (n % P) + 1
       /\ n % P \in 0..(P - 1) /\ q \in Nat
  <2> HIDE DEF P
  <2> QED BY <1>2, OneMore, SplitAt
<1> HIDE DEF P, N, q, y
<1>11. /\ q % N = N - 1 => (q + 1) \div N = (q \div N) + 1 /\ (q + 1) % N = 0
       /\ q % N # N - 1 => (q + 1) \div N = q \div N /\ (q + 1) % N = (q % N) + 1
       /\ q % N \in 0..(N - 1) /\ q \div N \in Nat
  BY <1>2, <1>10, OneMore, SplitAt
<1>12. ~Ended(p, n, i) => y = q BY <1>8, <1>10
<1>13. Ended(p, n, i) => y = q + 1 BY <1>8, <1>10, <1>2
<1> QED BY <1>6, <1>7, <1>8, <1>9, <1>11, <1>12, <1>13 DEF N

(* There is a tree to the right when the layer has one.                      *)
LEMMA NextExistsIs ==
  ASSUME NEW p, p.th \in Nat, p.d \in Nat, NEW n \in Nat, NEW i \in 0..(p.d - 1)
  PROVE  LET K == Pow2[p.th * (p.d - i - 1)]
             Q == Pow2[p.th * (i + 1)] IN
         /\ K \in Nat \ {0} /\ Q \in Nat \ {0} /\ Capacity(p) = K * Q
         /\ NextExists(p, n, i) <=> TreeAt(p, n, i) + 1 < K
<1> DEFINE c == p.d - i - 1
           K == Pow2[p.th * c]
           Q == Pow2[p.th * (i + 1)]
           N == Pow2[p.th]
           T == TreeAt(p, n, i)
           x == LeafAt(p, n, i)
<1>1. c \in Nat /\ i \in Nat /\ i + 1 \in Nat /\ p.d = c + (i + 1) /\ p.d - i = c + 1 OBVIOUS
<1> HIDE DEF c
<1>2. PICK t : t = p.th OBVIOUS
<1>3. t * c \in Nat /\ t * (i + 1) \in Nat /\ t \in Nat
  <2>1. t \in Nat BY <1>2
  <2> QED BY ONLY <2>1, <1>1, TimesNat
<1>4. K \in Nat \ {0} /\ Q \in Nat \ {0} /\ N \in Nat \ {0}
  BY <1>2, <1>3, Pow2Recursion
<1>5. p.th * p.d = t * c + t * (i + 1)
  <2>1. t * (c + (i + 1)) = t * c + t * (i + 1) BY ONLY <1>1, <1>3
  <2> QED BY <2>1, <1>1, <1>2
<1>6. Capacity(p) = K * Q
  <2>1. Pow2[t * c + t * (i + 1)] = Pow2[t * c] * Pow2[t * (i + 1)] BY <1>3, Pow2Sum
  <2> QED BY <2>1, <1>2, <1>5 DEF Capacity
<1>7. Pow2[p.th * p.d - p.th * i] = K * N
  <2>1. t * (i + 1) = t * i + t /\ t * i \in Nat BY ONLY <1>1, <1>3
  <2>2. p.th * p.d - p.th * i = t * c + t BY <2>1, <1>2, <1>3, <1>5
  <2>3. Pow2[t * c + t] = Pow2[t * c] * Pow2[t] BY <1>3, Pow2Sum
  <2> QED BY <2>2, <2>3, <1>2
<1>8. T \in Nat /\ x \in 0..(N - 1) BY <1>1, NextLeafAt
<1>9. NextExists(p, n, i) <=> (1 + T) * N + x < K * N BY <1>7 DEF NextExists
<1> HIDE DEF T, x, N, K, Q
<1>10. (1 + T) * N + x < K * N <=> T + 1 < K
  <2>1. CASE T + 1 < K
    <3>1. PICK j : j = K - (T + 2) OBVIOUS
    <3>2. j \in Nat /\ K = (1 + T) + (j + 1) BY <3>1, <2>1, <1>4, <1>8
    <3>3. ((1 + T) + (j + 1)) * N = (1 + T) * N + (j * N + N) /\ j * N \in Nat
          /\ (1 + T) * N \in Nat
      BY ONLY <3>2, <1>4, <1>8
    <3>4. K * N = (1 + T) * N + (j * N + N) BY <3>2, <3>3
    <3> QED BY <3>3, <3>4, <2>1, <1>8, <1>4
  <2>2. CASE ~(T + 1 < K)
    <3>1. PICK j : j = (1 + T) - K OBVIOUS
    <3>2. j \in Nat /\ 1 + T = K + j BY <3>1, <2>2, <1>4, <1>8
    <3>3. (K + j) * N = K * N + j * N /\ j * N \in Nat /\ K * N \in Nat
      BY ONLY <3>2, <1>4
    <3>4. (1 + T) * N = K * N + j * N BY <3>2, <3>3
    <3> QED BY <3>3, <3>4, <2>2, <1>8, <1>4
  <2> QED BY <2>1, <2>2
<1> QED BY <1>4, <1>6, <1>9, <1>10 DEF c, K, Q, T

(* The top layer has one tree, there is none after the last of a layer, and  *)
(* a tree that ends before the last index is not the last.                   *)
LEMMA NextExistsWhen ==
  ASSUME NEW p, p.th \in Nat, p.d \in Nat, NEW n \in Nat, NEW i \in 0..(p.d - 1)
  PROVE  /\ i = p.d - 1 => ~NextExists(p, n, i)
         /\ Capacity(p) - 1 <= n => ~NextExists(p, n, i)
         /\ n = Capacity(p) - 1 => EndOfTree(p, n, i)
         /\ EndOfTree(p, n, i) /\ n < Capacity(p) - 1 => NextExists(p, n, i)
         /\ ~EndOfTree(p, n, i) => (NextExists(p, n + 1, i) <=> NextExists(p, n, i))
<1> DEFINE K == Pow2[p.th * (p.d - i - 1)]
           Q == Pow2[p.th * (i + 1)]
           T == TreeAt(p, n, i)
<1>1. /\ K \in Nat \ {0} /\ Q \in Nat \ {0} /\ Capacity(p) = K * Q
      /\ NextExists(p, n, i) <=> T + 1 < K
  BY NextExistsIs
<1>2. n + 1 \in Nat /\ i \in Nat OBVIOUS
<1>3. NextExists(p, n + 1, i) <=> TreeAt(p, n + 1, i) + 1 < K BY <1>2, NextExistsIs
<1>4. T = n \div Q /\ T \in Nat /\ n % Q \in 0..(Q - 1) /\ n = T * Q + (n % Q)
  <2>1. T = n \div Q BY DEF TreeAt, Shr
  <2> HIDE DEF Q
  <2>2. n \div Q \in Nat /\ n % Q \in 0..(Q - 1) /\ n = (n \div Q) * Q + (n % Q)
    BY ONLY <1>1, n \in Nat, SplitAt
  <2> QED BY <2>1, <2>2
<1>5. EndOfTree(p, n, i) <=> (n + 1) % Q = 0 BY DEF EndOfTree
<1>6. n % Q = Q - 1 <=> (n + 1) % Q = 0
  <2> HIDE DEF Q
  <2>1. /\ n % Q = Q - 1 => (n + 1) % Q = 0
        /\ n % Q # Q - 1 => (n + 1) % Q = (n % Q) + 1
    BY <1>1, OneMore
  <2> QED BY <2>1, <1>4
<1>7. i = p.d - 1 => K = 1
  <2>1. ASSUME i = p.d - 1 PROVE K = 1
    <3>1. p.th * (p.d - i - 1) = 0
      <4>1. p.d - i - 1 = 0 BY <2>1
      <4>2. p.th * 0 = 0 OBVIOUS
      <4> QED BY <4>1, <4>2
    <3> QED BY <3>1, Pow2Recursion
  <2> QED BY <2>1
<1>8. ~EndOfTree(p, n, i) => TreeAt(p, n + 1, i) = T
  BY <1>2, NextLeafAt
<1> HIDE DEF K, Q, T
<1>9. (T + 1) * Q = T * Q + Q /\ T * Q \in Nat
  <2>1. T \in Nat /\ Q \in Nat BY <1>1, <1>4
  <2> QED BY ONLY <2>1
<1>10. Capacity(p) \in Nat BY <1>1, TimesNat
<1>11. ASSUME Capacity(p) - 1 <= n PROVE K <= T + 1
  <2> SUFFICES ASSUME T + 1 < K PROVE FALSE BY <1>1, <1>4
  <2>1. PICK j : j = K - (T + 2) OBVIOUS
  <2>2. j \in Nat /\ K = (T + 1) + (j + 1) BY <2>1, <1>1, <1>4
  <2>3. ((T + 1) + (j + 1)) * Q = (T + 1) * Q + (j * Q + Q) /\ j * Q \in Nat
    BY ONLY <2>2, <1>1, <1>4
  <2>4. Capacity(p) = (T + 1) * Q + (j * Q + Q) BY <2>2, <2>3, <1>1
  <2> QED BY <2>3, <2>4, <1>1, <1>4, <1>9, <1>11
<1>12. ASSUME EndOfTree(p, n, i), n < Capacity(p) - 1 PROVE T + 1 < K
  <2> SUFFICES ASSUME K <= T + 1 PROVE FALSE BY <1>1, <1>4
  <2>1. PICK j : j = (T + 1) - K OBVIOUS
  <2>2. j \in Nat /\ T + 1 = K + j BY <2>1, <1>1, <1>4
  <2>3. K \in Nat /\ Q \in Nat /\ j \in Nat BY <1>1, <2>2
  <2>6. (K + j) * Q = K * Q + j * Q /\ j * Q \in Nat BY ONLY <2>3
  <2>4. (T + 1) * Q = Capacity(p) + j * Q BY <2>2, <2>6, <1>1
  <2>5. n + 1 = (T + 1) * Q BY <1>4, <1>5, <1>6, <1>9, <1>12, <1>1
  <2> QED BY <2>6, <2>4, <2>5, <1>10, <1>12
<1>13. ASSUME n = Capacity(p) - 1 PROVE EndOfTree(p, n, i)
  <2>1. n + 1 = K * Q BY <1>1, <1>10, <1>13
  <2>2. (n + 1) % Q = 0
    <3>1. PICK y : y = n + 1 OBVIOUS
    <3>2. y \in Nat /\ y = K * Q BY <2>1, <3>1
    <3>3. y \div Q \in Nat /\ y % Q \in 0..(Q - 1) /\ y = (y \div Q) * Q + (y % Q)
      BY ONLY <1>1, <3>2, SplitAt
    <3>4. PICK u, v, z : u = y \div Q /\ v = y % Q /\ z = 0 OBVIOUS
    <3>5. u \in Nat /\ v \in 0..(Q - 1) /\ z \in 0..(Q - 1) /\ u * Q + v = K * Q + z
      <4>1. K * Q \in Nat BY <1>1, TimesNat
      <4> QED BY <3>2, <3>3, <3>4, <4>1, <1>1
    <3>6. v = z BY ONLY <3>5, <1>1, SplitUnique
    <3> QED BY <3>1, <3>4, <3>6
  <2> QED BY <2>2, <1>5
<1> QED BY <1>1, <1>3, <1>4, <1>7, <1>8, <1>11, <1>12, <1>13

-----------------------------------------------------------------------------
\* The calls that leave a layer nothing but its own work.

(* All trees below layer i + 1 are at one of their last two leaves, in calls *)
(* that follow each other: so many more of them with layer i.                *)
CalmStep(p, n, i, c) ==
  IF LeafAt(p, n, i) = Pow2[p.th] - 1 THEN c + 1
  ELSE IF LeafAt(p, n, i) = Pow2[p.th] - 2 /\ Ended(p, n, i) THEN 1 ELSE 0

(* g counts them for the layers up to m. *)
Calming(m, g, p, n) ==
  g = [i \in 0..m |-> IF i = 0 THEN 1 ELSE CalmStep(p, n, i - 1, g[i - 1])]

(* Calm(p, n)[i]: of the calls since layer i took its last step, index n      *)
(* included, those that found the layers below it at their last two leaves.  *)
Calm(p, n) == CHOOSE g : Calming(p.d, g, p, n)

(* They can be counted over any number of layers.                            *)
LEMMA CalmingExists ==
  ASSUME NEW p, NEW n
  PROVE  \A m \in Nat : \E g : Calming(m, g, p, n)
<1> DEFINE S == {m \in Nat : \E g : Calming(m, g, p, n)}
<1>1. 0 \in S
  <2>1. Calming(0, [i \in 0..0 |-> 1], p, n) BY DEF Calming
  <2> QED BY <2>1
<1>2. ASSUME NEW m \in Nat, m \in S PROVE m + 1 \in S
  <2>1. PICK g : Calming(m, g, p, n) BY <1>2
  <2> DEFINE f == [i \in 0..(m + 1) |-> IF i = m + 1 THEN CalmStep(p, n, m, g[m]) ELSE g[i]]
  <2>2. ASSUME NEW i \in 0..(m + 1)
        PROVE  f[i] = IF i = 0 THEN 1 ELSE CalmStep(p, n, i - 1, f[i - 1])
    <3>1. CASE i = m + 1
      <4>1. i # 0 /\ i - 1 = m /\ m \in 0..(m + 1) /\ m # m + 1 BY <3>1
      <4>2. f[i] = CalmStep(p, n, m, g[m]) BY <3>1
      <4>3. f[m] = g[m] BY <4>1
      <4> QED BY <4>1, <4>2, <4>3, <3>1
    <3>2. CASE i # m + 1
      <4>1. i \in 0..m BY <3>2
      <4>2. f[i] = g[i] BY <3>2
      <4>3. g[i] = IF i = 0 THEN 1 ELSE CalmStep(p, n, i - 1, g[i - 1])
        BY <2>1, <4>1 DEF Calming
      <4>4. i # 0 => f[i - 1] = g[i - 1] BY <4>1
      <4> QED BY <4>2, <4>3, <4>4
    <3> QED BY <3>1, <3>2
  <2>3. f = [i \in 0..(m + 1) |-> f[i]] OBVIOUS
  <2>4. Calming(m + 1, f, p, n)
    <3> HIDE DEF f
    <3> QED BY <2>2, <2>3 DEF Calming
  <2> QED BY <2>4
<1>3. Nat \subseteq S
  <2> HIDE DEF S
  <2> QED BY <1>1, <1>2, SetInduction
<1> QED BY <1>3

(* The count of a layer follows from that of the layer below.                *)
LEMMA CalmIs ==
  ASSUME NEW p, p.d \in Nat, NEW n
  PROVE  /\ Calm(p, n)[0] = 1
         /\ \A i \in 0..(p.d - 1) : Calm(p, n)[i + 1] = CalmStep(p, n, i, Calm(p, n)[i])
         /\ \A i \in 0..p.d : Calm(p, n)[i] \in Nat
<1> DEFINE g == Calm(p, n)
<1>1. Calming(p.d, g, p, n) BY CalmingExists DEF Calm
<1> HIDE DEF g
<1>2. g[0] = 1 BY <1>1 DEF Calming
<1>3. ASSUME NEW i \in 0..(p.d - 1) PROVE g[i + 1] = CalmStep(p, n, i, g[i])
  <2>1. i + 1 \in 0..p.d /\ i + 1 # 0 /\ (i + 1) - 1 = i OBVIOUS
  <2> QED BY <2>1, <1>1 DEF Calming
<1> DEFINE S == {i \in Nat : i <= p.d => g[i] \in Nat}
<1>4. 0 \in S BY <1>2
<1>5. ASSUME NEW i \in Nat, i \in S PROVE i + 1 \in S
  <2> SUFFICES ASSUME i + 1 <= p.d PROVE g[i + 1] \in Nat OBVIOUS
  <2>1. g[i] \in Nat /\ i \in 0..(p.d - 1) BY <1>5
  <2>2. g[i + 1] = CalmStep(p, n, i, g[i]) BY <2>1, <1>3
  <2> QED BY <2>1, <2>2 DEF CalmStep
<1>6. Nat \subseteq S
  <2> HIDE DEF S
  <2> QED BY <1>4, <1>5, SetInduction
<1>7. \A i \in 0..p.d : g[i] \in Nat
  <2> TAKE i \in 0..p.d
  <2>1. i \in S BY <1>6
  <2> QED BY <2>1
<1> QED BY <1>2, <1>3, <1>7 DEF g

(* When all trees below a layer end, they are at their last leaf.            *)
LEMMA EndedLeaves ==
  ASSUME NEW p, p.th \in Nat, NEW n \in Nat
  PROVE  \A i \in Nat : Ended(p, n, i) =>
           \A j \in 0..(i - 1) : Ended(p, n, j) /\ LeafAt(p, n, j) = Pow2[p.th] - 1
<1> DEFINE S == {i \in Nat : Ended(p, n, i) =>
                   \A j \in 0..(i - 1) : Ended(p, n, j) /\ LeafAt(p, n, j) = Pow2[p.th] - 1}
<1>1. 0 \in S OBVIOUS
<1>2. ASSUME NEW i \in Nat, i \in S PROVE i + 1 \in S
  <2> SUFFICES ASSUME Ended(p, n, i + 1), NEW j \in 0..((i + 1) - 1)
               PROVE  Ended(p, n, j) /\ LeafAt(p, n, j) = Pow2[p.th] - 1
    OBVIOUS
  <2>1. EndOfTree(p, n, i) BY EndedBelow
  <2>2. Ended(p, n, i) /\ LeafAt(p, n, i) = Pow2[p.th] - 1 BY <2>1, NextLeafAt
  <2>3. CASE j = i BY <2>2, <2>3
  <2>4. CASE j # i
    <3>1. j \in 0..(i - 1) BY <2>4
    <3> QED BY <3>1, <2>2, <1>2
  <2> QED BY <2>3, <2>4
<1>3. Nat \subseteq S
  <2> HIDE DEF S
  <2> QED BY <1>1, <1>2, SetInduction
<1> QED BY <1>3

(* Each of the trees has had its turn when they all end.                     *)
LEMMA EndedCalm ==
  ASSUME NEW p, p.th \in Nat, p.d \in Nat, NEW n \in Nat
  PROVE  \A i \in 0..p.d : Ended(p, n, i) => Calm(p, n)[i] = i + 1
<1> DEFINE g == Calm(p, n)
           S == {i \in Nat : i <= p.d /\ Ended(p, n, i) => g[i] = i + 1}
<1>1. /\ g[0] = 1
      /\ \A i \in 0..(p.d - 1) : g[i + 1] = CalmStep(p, n, i, g[i])
  BY CalmIs
<1> HIDE DEF g
<1>2. 0 \in S BY <1>1
<1>3. ASSUME NEW i \in Nat, i \in S PROVE i + 1 \in S
  <2> SUFFICES ASSUME i + 1 <= p.d, Ended(p, n, i + 1) PROVE g[i + 1] = (i + 1) + 1
    OBVIOUS
  <2>1. EndOfTree(p, n, i) BY EndedBelow
  <2>2. Ended(p, n, i) /\ LeafAt(p, n, i) = Pow2[p.th] - 1 BY <2>1, NextLeafAt
  <2>3. g[i] = i + 1 BY <2>2, <1>3
  <2>4. i \in 0..(p.d - 1) OBVIOUS
  <2>5. g[i + 1] = CalmStep(p, n, i, g[i]) BY <2>4, <1>1
  <2> QED BY <2>2, <2>3, <2>5 DEF CalmStep
<1>4. Nat \subseteq S
  <2> HIDE DEF S
  <2> QED BY <1>2, <1>3, SetInduction
<1>5. ASSUME NEW i \in 0..p.d, Ended(p, n, i) PROVE g[i] = i + 1
  <2>1. i \in S BY <1>4
  <2> QED BY <2>1, <1>5
<1> QED BY <1>5 DEF g

(* Then the count begins again.                                              *)
LEMMA CalmOver ==
  ASSUME NEW p, p.th \in Nat, p.d \in Nat, NEW n \in Nat, 4 <= Pow2[p.th],
         NEW i \in 1..p.d, Ended(p, n, i)
  PROVE  Calm(p, n + 1)[i] = 0
<1>1. PICK j : j = i - 1 OBVIOUS
<1>2. j \in Nat /\ j \in 0..(p.d - 1) /\ i = j + 1 BY <1>1
<1>3. EndOfTree(p, n, j) BY <1>2, EndedBelow
<1>4. LeafAt(p, n + 1, j) = 0 BY <1>2, <1>3, NextLeafAt
<1>5. Calm(p, n + 1)[j + 1] = CalmStep(p, n + 1, j, Calm(p, n + 1)[j]) BY <1>2, CalmIs
<1>6. Pow2[p.th] \in Nat BY Pow2Recursion
<1>7. CalmStep(p, n + 1, j, Calm(p, n + 1)[j]) = 0 BY <1>4, <1>6 DEF CalmStep
<1> QED BY <1>2, <1>5, <1>7

(* The trees below layer i are all at their last two leaves. *)
Quiet(p, n, i) == \A j \in 0..(i - 1) : Pow2[p.th] - 2 <= LeafAt(p, n, j)

(* No call counts that does not leave those layers so.                       *)
LEMMA CalmGrows ==
  ASSUME NEW p, p.th \in Nat, p.d \in Nat, NEW n \in Nat, 4 <= Pow2[p.th]
  PROVE  \A i \in 0..p.d : ~Ended(p, n, i) =>
           Calm(p, n + 1)[i] <= Calm(p, n)[i] + (IF Quiet(p, n + 1, i) THEN 1 ELSE 0)
<1> DEFINE g == Calm(p, n)
           f == Calm(p, n + 1)
           N == Pow2[p.th]
           Grown(i) == f[i] <= g[i] + (IF Quiet(p, n + 1, i) THEN 1 ELSE 0)
           S == {i \in Nat : i <= p.d /\ ~Ended(p, n, i) => Grown(i)}
<1>1. /\ g[0] = 1 /\ f[0] = 1
      /\ \A i \in 0..(p.d - 1) : /\ g[i + 1] = CalmStep(p, n, i, g[i])
                                 /\ f[i + 1] = CalmStep(p, n + 1, i, f[i])
      /\ \A i \in 0..p.d : g[i] \in Nat /\ f[i] \in Nat
  BY CalmIs
<1>2. N \in Nat BY Pow2Recursion
<1>3. \A i \in 1..p.d : Ended(p, n, i) => f[i] = 0 BY CalmOver
<1>4. \A i \in Nat :
        /\ LeafAt(p, n, i) \in 0..(N - 1) /\ LeafAt(p, n + 1, i) \in 0..(N - 1)
        /\ Ended(p, n, i + 1) <=> Ended(p, n, i) /\ LeafAt(p, n, i) = N - 1
        /\ ~Ended(p, n, i) => LeafAt(p, n + 1, i) = LeafAt(p, n, i)
        /\ Ended(p, n, i) /\ ~Ended(p, n, i + 1) => LeafAt(p, n + 1, i) = LeafAt(p, n, i) + 1
  <2> TAKE i \in Nat
  <2>1. n + 1 \in Nat OBVIOUS
  <2>2. Ended(p, n, i + 1) <=> EndOfTree(p, n, i) BY EndedBelow
  <2>3. LeafAt(p, n + 1, i) \in 0..(N - 1) BY <2>1, NextLeafAt
  <2> QED BY <2>2, <2>3, NextLeafAt
<1>5. \A i \in Nat : Ended(p, n + 1, i) => \A j \in 0..(i - 1) : LeafAt(p, n + 1, j) = N - 1
  <2>1. n + 1 \in Nat OBVIOUS
  <2> QED BY <2>1, EndedLeaves
<1>6. Ended(p, n, 0) BY EndedBelow
<1>8. N >= 4 OBVIOUS
<1> HIDE DEF g, f, N
<1>7. ASSUME NEW i \in Nat, i \in S, i + 1 <= p.d, ~Ended(p, n, i + 1) PROVE Grown(i + 1)
  <2>1. /\ i \in 0..(p.d - 1) /\ i \in 0..p.d /\ i + 1 \in 0..p.d /\ i <= p.d BY <1>7
  <2>2. /\ g[i + 1] = CalmStep(p, n, i, g[i]) /\ f[i + 1] = CalmStep(p, n + 1, i, f[i])
        /\ g[i] \in Nat /\ f[i] \in Nat /\ g[i + 1] \in Nat /\ f[i + 1] \in Nat
    BY <2>1, <1>1
  <2>3. Quiet(p, n + 1, i + 1) <=> Quiet(p, n + 1, i) /\ N - 2 <= LeafAt(p, n + 1, i)
    <3>1. 0..((i + 1) - 1) = 0..(i - 1) \cup {i} OBVIOUS
    <3> QED BY <3>1 DEF Quiet, N
  <2>4. CASE LeafAt(p, n + 1, i) = N - 1 /\ Ended(p, n, i)
    <3>1. LeafAt(p, n, i) = N - 2
      <4>1. /\ LeafAt(p, n + 1, i) = LeafAt(p, n, i) + 1
            /\ LeafAt(p, n, i) \in 0..(N - 1)
        BY <2>4, <1>4, <1>7
      <4> QED BY <4>1, <2>4, <1>2
    <3>2. g[i + 1] = 1
      <4>1. N - 2 # N - 1 BY <1>2
      <4> QED BY <2>2, <2>4, <3>1, <4>1 DEF CalmStep, N
    <3>3. f[i + 1] = f[i] + 1 BY <2>2, <2>4 DEF CalmStep, N
    <3>4. CASE i = 0
      <4>1. Quiet(p, n + 1, i) BY <3>4 DEF Quiet
      <4>2. Quiet(p, n + 1, i + 1) BY <4>1, <2>3, <2>4, <1>2
      <4> QED BY <3>2, <3>3, <3>4, <4>2, <1>1
    <3>5. CASE i # 0
      <4>1. f[i] = 0 BY <3>5, <2>1, <2>4, <1>3
      <4> QED BY <4>1, <3>2, <3>3
    <3> QED BY <3>4, <3>5
  <2>5. CASE LeafAt(p, n + 1, i) = N - 1 /\ ~Ended(p, n, i)
    <3>1. LeafAt(p, n, i) = N - 1 BY <2>5, <1>4
    <3>2. g[i + 1] = g[i] + 1 /\ f[i + 1] = f[i] + 1 BY <2>2, <2>5, <3>1 DEF CalmStep, N
    <3>3. Grown(i)
      <4> HIDE DEF Grown
      <4> QED BY <1>7, <2>1, <2>5
    <3>4. Quiet(p, n + 1, i + 1) <=> Quiet(p, n + 1, i) BY <2>3, <2>5, <1>2
    <3> QED BY <3>2, <3>3, <3>4, <2>2
  <2>6. CASE LeafAt(p, n + 1, i) = N - 2 /\ Ended(p, n + 1, i)
    <3>1. N - 2 # N - 1 BY <1>2
    <3>2. f[i + 1] = 1 BY <2>2, <2>6, <3>1 DEF CalmStep, N
    <3>3. Quiet(p, n + 1, i)
      <4>1. \A j \in 0..(i - 1) : N - 2 <= LeafAt(p, n + 1, j)
        <5> TAKE j \in 0..(i - 1)
        <5>1. LeafAt(p, n + 1, j) = N - 1 BY <2>6, <1>5
        <5> QED BY <5>1, <1>2
      <4> QED BY <4>1 DEF Quiet, N
    <3>4. Quiet(p, n + 1, i + 1) BY <3>3, <2>3, <2>6, <1>2
    <3> QED BY <3>2, <3>4, <2>2
  <2>7. CASE LeafAt(p, n + 1, i) # N - 1 /\ ~(LeafAt(p, n + 1, i) = N - 2 /\ Ended(p, n + 1, i))
    <3>1. f[i + 1] = 0 BY <2>2, <2>7 DEF CalmStep, N
    <3> QED BY <3>1, <2>2
  <2> QED BY <2>4, <2>5, <2>6, <2>7
<1> HIDE DEF Grown
<1>9. 0 \in S BY <1>6
<1>10. ASSUME NEW i \in Nat, i \in S PROVE i + 1 \in S
  <2> SUFFICES ASSUME i + 1 <= p.d, ~Ended(p, n, i + 1) PROVE Grown(i + 1) OBVIOUS
  <2> QED BY <1>7, <1>10
<1>11. Nat \subseteq S
  <2> HIDE DEF S
  <2> QED BY <1>9, <1>10, SetInduction
<1>12. ASSUME NEW i \in 0..p.d, ~Ended(p, n, i) PROVE Grown(i)
  <2>1. i \in S BY <1>11
  <2> QED BY <2>1, <1>12
<1> QED BY <1>12 DEF Grown, g, f

-----------------------------------------------------------------------------
\* The layers between two calls.

(* What is left of them for layer i, when the layers below it need none and  *)
(* each of them but layer 0 adds a leaf to its next tree.                    *)
Offer(p, i) == Budget(p) - i + 1

(* What the instances of layer i have been given since the layer's last leaf *)
(* was taken, at least.  The lowest layer gets all of the last call, and the *)
(* top one, where there is nothing left to give, more than it needs.         *)
Served(p, n, i) ==
  IF i = 0 \/ i > Budget(p) THEN Budget(p) ELSE Offer(p, i) * Calm(p, n)[i]

(* The current tree of layer i before the call with index n.  first: it is    *)
(* one of the calls before the index wraps.                                  *)
Current(p, n, i, st, first) ==
  /\ FullState(p, st)
  /\ Serving(p, <<i, TreeAt(p, n, i)>>, st, LeafAt(p, n, i), Served(p, n, i))
  /\ Capacity(p) <= n /\ (i # 0 \/ LeafAt(p, n, i) = 0) => AllDone(p, st)
  /\ first /\ n < Capacity(p) => Path(p, <<i, TreeAt(p, n, i)>>, st, LeafAt(p, n, i))

(* The instances of layer i and its next tree, together, still need no more   *)
(* than the calls up to the end of the current tree offer.                   *)
Fed(p, n, i, st, next) ==
  \/ next.nextLeaf = Pow2[p.th]
  \/ Demanded(p, st, LeafAt(p, n, i)) + Offer(p, i) * (Pow2[p.th] - next.nextLeaf)
       <= Offer(p, i) * ((i + 1) * (Pow2[p.th] - LeafAt(p, n, i)) - Calm(p, n)[i])

(* The next tree of layer i, beside the current one.  c: the call with index  *)
(* n has added its leaf to the next tree of layer 0.                         *)
Coming(p, n, i, st, next, c) ==
  /\ next.nextLeaf \in 0..Pow2[p.th]
  /\ Built(p, <<i, TreeAt(p, n, i) + 1>>, next, next.nextLeaf)
  /\ next.peak \in 0..(p.th + 1)
  /\ ~NextExists(p, n, i) => next.nextLeaf = 0
  /\ NextExists(p, n, i) /\ i = 0 => next.nextLeaf = LeafAt(p, n, i) + c
  /\ NextExists(p, n, i) /\ i # 0 => Fed(p, n, i, st, next)

(* The signature on the root of the current tree of layer i. *)
RootSignature(p, n, i) ==
  WotsSign(<<i + 1, TreeAt(p, n, i + 1)>>, LeafAt(p, n, i + 1),
           TreeRoot(p.th, <<i, TreeAt(p, n, i)>>))

(* All of a layer. *)
Layer(p, n, i, st, next, sig, first, c) ==
  /\ Current(p, n, i, st, first)
  /\ i < p.d - 1 => /\ Coming(p, n, i, st, next, c)
                    /\ first /\ n < Capacity(p) => sig = RootSignature(p, n, i)

(* The numbers of a parameter set.                                           *)
LEMMA BudgetSizes ==
  ASSUME NEW p \in ParamSets, Suffices(p)
  PROVE  /\ TreeParams(p) /\ EnoughUpdates(p)
         /\ p.th \in Nat /\ p.th # 0 /\ p.d \in Nat /\ p.d >= 2
         /\ Capacity(p) \in Nat \ {0} /\ p.space \in Nat /\ Capacity(p) <= p.space
         /\ Budget(p) \in 0..127 /\ p.d - 2 <= Budget(p)
         /\ Pow2[p.th] \in Nat /\ 2 <= Pow2[p.th]
         /\ Budget(p) # 0 => 4 <= Pow2[p.th]
<1>1. /\ TreeParams(p)
      /\ p.th \in Nat /\ p.th # 0 /\ p.d \in Nat /\ p.d >= 2
      /\ Capacity(p) \in Nat \ {0} /\ p.space \in Nat /\ Capacity(p) <= p.space
  BY MtSizes
<1>2. Instances(p) \in Nat /\ Instances(p) <= p.th BY <1>1 DEF TreeParams, Instances
<1>3. Budget(p) \in Nat BY <1>2 DEF Budget
<1>4. Pow2[1] = 2 /\ Pow2[2] = 4
  <2>1. Pow2[0] = 1 /\ Pow2[0 + 1] = 2 * Pow2[0] /\ Pow2[1 + 1] = 2 * Pow2[1]
    BY Pow2Recursion
  <2> QED BY <2>1
<1>5. Pow2[p.th] \in Nat BY <1>1, Pow2Recursion
<1>6. 2 <= Pow2[p.th]
  <2>1. 1 \in Nat /\ 1 <= p.th BY <1>1
  <2>2. Pow2[1] <= Pow2[p.th] BY <2>1, <1>1, Pow2Monotone
  <2> QED BY <2>2, <1>4
<1>7. ASSUME Budget(p) # 0 PROVE 4 <= Pow2[p.th]
  <2>1. 2 \in Nat /\ 2 <= p.th BY <1>2, <1>1, <1>7 DEF Budget
  <2>2. Pow2[2] <= Pow2[p.th] BY <2>1, <1>1, Pow2Monotone
  <2> QED BY <2>2, <1>4
<1> QED BY <1>1, <1>3, <1>5, <1>6, <1>7 DEF Suffices

(* The calls of layers 1 to i offer layer i as much as one call gives.       *)
LEMMA OfferFits ==
  ASSUME NEW b \in Nat, NEW i \in 1..b
  PROVE  /\ b - i + 1 \in Nat \ {0}
         /\ b <= (b - i + 1) * i
         /\ (b - i + 1) * (i + 1) = (b - i + 1) * i + (b - i + 1)
         /\ (b - i + 1) * i \in Nat
<1>1. PICK j, k : j = i - 1 /\ k = b - i OBVIOUS
<1>2. j \in Nat /\ k \in Nat /\ i = j + 1 /\ b = k + (j + 1) /\ b - i + 1 = k + 1 BY <1>1
<1>3. (k + 1) * (j + 1) = (k * j + k) + (j + 1) /\ k * j \in Nat BY ONLY <1>2
<1>4. (k + 1) * ((j + 1) + 1) = (k + 1) * (j + 1) + (k + 1) BY ONLY <1>2
<1>5. (b - i + 1) * i = (k * j + k) + (j + 1) BY <1>2, <1>3
<1>6. (b - i + 1) * (i + 1) = (b - i + 1) * i + (b - i + 1) BY <1>2, <1>4
<1> QED BY <1>2, <1>3, <1>5, <1>6

(* What is served is a number, and when the trees below end it is all that    *)
(* the next leaf of the layer needs.                                         *)
LEMMA ServedReady ==
  ASSUME NEW p \in ParamSets, Suffices(p), NEW n \in Nat, NEW i \in 0..(p.d - 1)
  PROVE  /\ Served(p, n, i) \in Int
         /\ Ended(p, n, i) => Budget(p) <= Served(p, n, i)
<1> DEFINE B == Budget(p)
<1>1. B \in Nat /\ p.d \in Nat /\ p.th \in Nat BY BudgetSizes
<1>2. CASE i = 0 \/ i > B BY <1>1, <1>2 DEF Served
<1>3. CASE ~(i = 0 \/ i > B)
  <2>1. i \in 1..B /\ i \in 0..p.d BY <1>1, <1>3
  <2>2. /\ Offer(p, i) \in Nat \ {0}
        /\ B <= Offer(p, i) * i
        /\ Offer(p, i) * (i + 1) = Offer(p, i) * i + Offer(p, i)
        /\ Offer(p, i) * i \in Nat
    BY <1>1, <2>1, OfferFits DEF Offer
  <2>3. Served(p, n, i) = Offer(p, i) * Calm(p, n)[i] BY <1>3 DEF Served
  <2>4. Calm(p, n)[i] \in Nat BY <1>1, <2>1, CalmIs
  <2>5. Ended(p, n, i) => Calm(p, n)[i] = i + 1 BY <1>1, <2>1, EndedCalm
  <2>6. Offer(p, i) * Calm(p, n)[i] \in Int BY <2>2, <2>4, TimesNat
  <2> QED BY <1>1, <2>2, <2>3, <2>5, <2>6
<1> QED BY <1>2, <1>3 DEF B

(* A tree that has just begun leaves the calls to come for the next one.      *)
LEMMA FreshFed ==
  ASSUME NEW p \in ParamSets, Suffices(p), NEW n \in Nat, NEW i \in 1..(p.d - 2),
         LeafAt(p, n, i) = 0, Calm(p, n)[i] = 0,
         NEW st, Counted(p, st), NEW next, next.nextLeaf = 0
  PROVE  Fed(p, n, i, st, next)
<1> DEFINE B == Budget(p)
           N == Pow2[p.th]
           o == Offer(p, i)
           t == Demanded(p, st, LeafAt(p, n, i))
<1>1. B \in Nat /\ p.d \in Nat /\ p.d - 2 <= B /\ N \in Nat /\ TreeParams(p) /\ EnoughUpdates(p)
  BY BudgetSizes
<1>2. i \in 1..B BY <1>1
<1>3. o \in Nat \ {0} /\ B <= o * i /\ o * i \in Nat
  <2> HIDE DEF B
  <2> QED BY <1>1, <1>2, OfferFits DEF Offer, B
<1>4. t \in Nat /\ t <= B * N
  <2>1. LeafAt(p, n, i) \in Nat OBVIOUS
  <2>2. Demanded(p, st, LeafAt(p, n, i)) \in Nat BY <1>1, <2>1, TotalRange
  <2>3. Demanded(p, st, LeafAt(p, n, i)) <= (Instances(p) \div 2) * Pow2[p.th]
    BY <1>1, <2>1, TotalFits
  <2> QED BY <2>2, <2>3 DEF Budget
<1> HIDE DEF B, N, o, t
<1>5. B * N <= (o * i) * N /\ B * N \in Nat
  <2>1. PICK j, k : k = o * i /\ j = k - B OBVIOUS
  <2>2. j \in Nat /\ k = B + j BY <2>1, <1>1, <1>3
  <2>3. (B + j) * N = B * N + j * N /\ j * N \in Nat /\ B * N \in Nat BY ONLY <2>2, <1>1
  <2>4. k * N = B * N + j * N BY <2>2, <2>3
  <2> QED BY <2>1, <2>3, <2>4
<1>6. o * ((i + 1) * (N - 0) - 0) = (o * i) * N + o * (N - 0)
      /\ (o * i) * N \in Nat /\ o * (N - 0) \in Nat
  <2>1. i \in Nat /\ o \in Nat /\ N \in Nat BY <1>1, <1>2, <1>3
  <2>2. o * ((i + 1) * N) = (o * i) * N + o * N /\ (o * i) * N \in Nat /\ o * N \in Nat
    BY ONLY <2>1
  <2>3. N - 0 = N /\ (i + 1) * N - 0 = (i + 1) * N
    <3>1. (i + 1) * N \in Nat BY ONLY <2>1
    <3> QED BY <3>1, <2>1
  <2> QED BY <2>2, <2>3
<1>7. t + o * (N - 0) <= o * ((i + 1) * (N - 0) - 0) BY <1>4, <1>5, <1>6
<1> QED BY <1>7 DEF Fed, t, o, N

(* The state of a tree that has ended is an empty next tree.                 *)
LEMMA EmptiedBuilt ==
  ASSUME NEW p, TreeParams(p), NEW a, NEW st, FullState(p, st)
  PROVE  LET t == Emptied(st) IN
         Built(p, a, t, 0) /\ t.nextLeaf = 0 /\ t.peak = st.peak
<1>1. PICK u : u = Emptied(st) OBVIOUS
<1>2. st = [stack |-> st.stack, levels |-> st.levels, offset |-> st.offset,
            auth |-> st.auth, keep |-> st.keep, inst |-> st.inst,
            retain |-> st.retain, nextLeaf |-> st.nextLeaf, peak |-> st.peak]
  BY DEF FullState, IsState
<1>3. u = [stack |-> st.stack, levels |-> st.levels, offset |-> 0,
           auth |-> st.auth, keep |-> st.keep, inst |-> st.inst,
           retain |-> st.retain, nextLeaf |-> 0, peak |-> st.peak]
  BY ONLY <1>1, <1>2 DEF Emptied
<1>4. /\ u.stack = st.stack /\ u.levels = st.levels /\ u.offset = 0
      /\ u.auth = st.auth /\ u.keep = st.keep /\ u.inst = st.inst
      /\ u.retain = st.retain /\ u.nextLeaf = 0 /\ u.peak = st.peak
  BY ONLY <1>3
<1>5. u = [stack |-> u.stack, levels |-> u.levels, offset |-> u.offset,
           auth |-> u.auth, keep |-> u.keep, inst |-> u.inst,
           retain |-> u.retain, nextLeaf |-> u.nextLeaf, peak |-> u.peak]
  BY ONLY <1>3
<1>6. FullState(p, u)
  <2>1. IsState(p, u) BY <1>4, <1>5 DEF FullState, IsState
  <2> QED BY <2>1, <1>4 DEF FullState
<1>7. Built(p, a, u, 0) BY <1>4, <1>6, NothingBuilt
<1> QED BY <1>1, <1>4, <1>7

(* An empty next tree is one of any address.                                 *)
LEMMA EmptyBuilt ==
  ASSUME NEW p, TreeParams(p), NEW a, NEW st, Built(p, a, st, 0), NEW b
  PROVE  Built(p, b, st, 0)
<1>1. FullState(p, st) /\ st.offset \in Nat
      /\ \A x \in 0..(st.offset - 1) : st.levels[x] \in Nat /\ Bit(0, st.levels[x]) = 1
  BY DEF Built
<1>2. \A l \in Nat : Bit(0, l) = 0
  <2> TAKE l \in Nat
  <2>1. PICK x : x = 0 OBVIOUS
  <2>2. x \in Nat BY <2>1
  <2>3. Pow2[l] \in Nat \ {0} BY Pow2Recursion
  <2>4. Shr(x, l) = 0 BY <2>1, <2>2, <2>3, ShrZero
  <2> QED BY <2>1, <2>4 DEF Bit
<1>3. st.offset = 0
  <2> SUFFICES ASSUME st.offset # 0 PROVE FALSE OBVIOUS
  <2>1. 0 \in 0..(st.offset - 1) BY <1>1
  <2>2. st.levels[0] \in Nat /\ Bit(0, st.levels[0]) = 1 BY <1>1, <2>1
  <2> QED BY <2>2, <1>2
<1> QED BY <1>1, <1>3, NothingBuilt

(* A layer that begins a tree, its next tree being empty.                    *)
LEMMA FreshLayer ==
  ASSUME NEW p \in ParamSets, Suffices(p), NEW n \in Nat, NEW i \in 0..(p.d - 1),
         LeafAt(p, n, i) = 0, i # 0 /\ i <= Budget(p) => Calm(p, n)[i] = 0,
         NEW st, FullState(p, st), AllDone(p, st), \A b, y, r : Serving(p, b, st, y, r),
         NEW first,
         first /\ n < Capacity(p) => Path(p, <<i, TreeAt(p, n, i)>>, st, LeafAt(p, n, i)),
         NEW next, NEW a, Built(p, a, next, 0), next.nextLeaf = 0,
         next.peak \in 0..(p.th + 1),
         NEW sig, i < p.d - 1 /\ first /\ n < Capacity(p) => sig = RootSignature(p, n, i)
  PROVE  Layer(p, n, i, st, next, sig, first, 0)
<1>1. TreeParams(p) /\ p.d \in Nat /\ p.d - 2 <= Budget(p) /\ Budget(p) \in Nat
      /\ Pow2[p.th] \in Nat
  BY BudgetSizes
<1>2. Current(p, n, i, st, first) BY DEF Current
<1>3. ASSUME i < p.d - 1 PROVE Coming(p, n, i, st, next, 0)
  <2>1. Built(p, <<i, TreeAt(p, n, i) + 1>>, next, 0) BY <1>1, EmptyBuilt
  <2>2. i # 0 => Fed(p, n, i, st, next)
    <3> SUFFICES ASSUME i # 0 PROVE Fed(p, n, i, st, next) OBVIOUS
    <3>1. i \in 1..(p.d - 2) /\ i <= Budget(p) BY <1>1, <1>3
    <3>2. Counted(p, st)
      <4>1. Serving(p, a, st, 0, 0) OBVIOUS
      <4> QED BY <4>1, ServingCounted
    <3> QED BY <3>1, <3>2, FreshFed
  <2> QED BY <2>1, <2>2, <1>1 DEF Coming
<1> QED BY <1>2, <1>3 DEF Layer

(* A tree of layer i ends before the last index: the next one is complete,   *)
(* takes over, and is signed by the next leaf of the layer above.            *)
LEMMA SwapLayer ==
  ASSUME NEW p \in ParamSets, Suffices(p), NEW n \in Nat, n < Capacity(p) - 1,
         NEW i \in 0..(p.d - 1), EndOfTree(p, n, i),
         NEW st, NEW next, NEW sig, NEW first, Layer(p, n, i, st, next, sig, first, 1)
  PROVE  /\ i <= p.d - 2
         /\ next.nextLeaf = Pow2[p.th]
         /\ Layer(p, n + 1, i, TakenOver(next), Emptied(st),
                  SignRoot(p, n, i, next.stack[0]), first, 0)
<1> DEFINE N == Pow2[p.th]
           B == Budget(p)
           o == Offer(p, i)
           T == TreeAt(p, n, i)
           new == TakenOver(next)
           old == Emptied(st)
<1>1. /\ TreeParams(p) /\ p.d \in Nat /\ p.d >= 2 /\ p.d - 2 <= B /\ B \in Nat
      /\ N \in Nat /\ 2 <= N /\ p.th \in Nat /\ Capacity(p) \in Nat
      /\ B # 0 => 4 <= N
  BY BudgetSizes
<1>2. /\ NextExists(p, n, i) /\ i # p.d - 1
  BY <1>1, NextExistsWhen
<1>3. i <= p.d - 2 /\ i \in Nat /\ i < p.d - 1 BY <1>1, <1>2
<1>4. /\ Ended(p, n, i) /\ LeafAt(p, n, i) = N - 1 /\ T \in Nat
      /\ LeafAt(p, n + 1, i) = 0 /\ TreeAt(p, n + 1, i) = T + 1
  BY <1>1, <1>3, NextLeafAt
<1>5. Current(p, n, i, st, first) /\ Coming(p, n, i, st, next, 1) BY <1>3 DEF Layer
<1> HIDE DEF N, B, o, T
<1>6. next.nextLeaf = N
  <2>1. CASE i = 0
    <3>1. next.nextLeaf = LeafAt(p, n, i) + 1 BY <2>1, <1>2, <1>5 DEF Coming
    <3> QED BY <3>1, <1>1, <1>4
  <2>2. CASE i # 0
    <3>1. Fed(p, n, i, st, next) BY <2>2, <1>2, <1>5 DEF Coming
    <3>2. next.nextLeaf \in 0..N BY <1>5 DEF Coming, N
    <3>3. i \in 1..B BY <1>1, <1>3, <2>2
    <3>4. o \in Nat \ {0} BY <1>1, <3>3, OfferFits DEF o, Offer, B
    <3>5. Calm(p, n)[i] = i + 1
      <4>1. i \in 0..p.d BY <1>1, <1>3
      <4> QED BY <4>1, <1>1, <1>4, EndedCalm
    <3> DEFINE t == Demanded(p, st, LeafAt(p, n, i))
               m == next.nextLeaf
    <3>6. t \in Nat
      <4>1. Counted(p, st) BY <1>5, ServingCounted DEF Current
      <4>2. LeafAt(p, n, i) \in Nat BY <1>1, <1>4
      <4> QED BY <4>1, <4>2, <1>1, TotalRange
    <3>7. SUFFICES ASSUME m # N PROVE FALSE OBVIOUS
    <3>8. t + o * (N - m) <= o * ((i + 1) * (N - LeafAt(p, n, i)) - Calm(p, n)[i])
      BY <3>1, <3>7 DEF Fed, N, o
    <3> HIDE DEF t, m
    <3>9. (i + 1) * (N - LeafAt(p, n, i)) - Calm(p, n)[i] = 0
      <4>1. N - LeafAt(p, n, i) = 1 BY <1>1, <1>4
      <4>2. (i + 1) * 1 = i + 1 BY <1>3
      <4> QED BY <4>1, <4>2, <3>5, <1>3
    <3>10. o * 0 = 0 BY <3>4
    <3>11. PICK k : k = N - m - 1 OBVIOUS
    <3>12. k \in Nat /\ N - m = k + 1 BY <3>2, <3>7, <3>11, <1>1 DEF m
    <3>13. o * (k + 1) = o * k + o /\ o * k \in Nat BY ONLY <3>4, <3>12
    <3>14. t + o * (k + 1) <= 0 BY <3>8, <3>9, <3>10, <3>12
    <3> QED BY <3>4, <3>6, <3>13, <3>14
  <2> QED BY <2>1, <2>2
<1>7. Built(p, <<i, T + 1>>, next, N) /\ next.peak \in 0..(p.th + 1)
  BY <1>5, <1>6 DEF Coming, T
<1>8. /\ FullState(p, new) /\ AllDone(p, new)
      /\ Path(p, <<i, T + 1>>, new, 0)
      /\ \A b, y, r : Serving(p, b, new, y, r)
      /\ next.stack[0] = TreeRoot(p.th, <<i, T + 1>>)
  BY <1>1, <1>7, TakenOverReady DEF N
<1>9. FullState(p, st) /\ st.peak \in 0..(p.th + 1) BY <1>5 DEF Current, Serving
<1>10. /\ Built(p, <<i, T>>, old, 0) /\ old.nextLeaf = 0 /\ old.peak \in 0..(p.th + 1)
  BY <1>1, <1>9, EmptiedBuilt
<1>11. SignRoot(p, n, i, next.stack[0]) = RootSignature(p, n + 1, i)
  <2>1. (Shr(n, p.th * (i + 1)) + 1) % Pow2[p.th] = LeafAt(p, n + 1, i + 1)
    <3>1. Shr(n + 1, p.th * (i + 1)) = Shr(n, p.th * (i + 1)) + 1
      BY <1>1, <1>3, EndOfTreeIs
    <3> QED BY <3>1 DEF LeafAt
  <2>2. Shr(n + 1, p.th * (i + 2)) = TreeAt(p, n + 1, i + 1)
    <3>1. (i + 1) + 1 = i + 2 BY <1>3
    <3> QED BY <3>1 DEF TreeAt
  <2>3. next.stack[0] = TreeRoot(p.th, <<i, TreeAt(p, n + 1, i)>>) BY <1>4, <1>8
  <2> QED BY <2>1, <2>2, <2>3 DEF SignRoot, RootSignature
<1>12. i # 0 /\ i <= B => Calm(p, n + 1)[i] = 0
  <2> SUFFICES ASSUME i # 0, i <= B PROVE Calm(p, n + 1)[i] = 0 OBVIOUS
  <2>1. i \in 1..p.d /\ 4 <= N BY <1>1, <1>3
  <2> QED BY <2>1, <1>1, <1>4, CalmOver DEF N
<1> HIDE DEF new, old
<1>13. n + 1 \in Nat OBVIOUS
<1>14. Path(p, <<i, TreeAt(p, n + 1, i)>>, new, LeafAt(p, n + 1, i)) BY <1>4, <1>8
<1>15. Layer(p, n + 1, i, new, old, SignRoot(p, n, i, next.stack[0]), first, 0)
  BY <1>4, <1>8, <1>10, <1>11, <1>12, <1>13, <1>14, FreshLayer DEF B
<1> QED BY <1>3, <1>6, <1>15 DEF new, old, N

(* The next tree of a layer whose tree goes on, and the updates left then. *)
Feeds(p, n, i, left_) == NextExists(p, n, i) /\ i > 0 /\ left_ # 0
FeedNext(p, n, i, next, left_) ==
  IF Feeds(p, n, i, left_) THEN BdsStateUpdate(p, <<i, TreeAt(p, n, i) + 1>>, next) ELSE next
LeftOver(p, n, i, left_) == IF Feeds(p, n, i, left_) THEN left_ - 1 ELSE left_

(* It gets a leaf, unless it is complete or nothing is left.                 *)
LEMMA FeedNextResult ==
  ASSUME NEW p \in ParamSets, Suffices(p), NEW n \in Nat, NEW i \in 0..(p.d - 1),
         ~EndOfTree(p, n, i), NEW st, NEW next, Coming(p, n, i, st, next, 1), NEW l
  PROVE  LET t == FeedNext(p, n, i, next, l) IN
         /\ ~Feeds(p, n, i, l) => t.nextLeaf = next.nextLeaf
         /\ Feeds(p, n, i, l) /\ next.nextLeaf = Pow2[p.th] => t.nextLeaf = Pow2[p.th]
         /\ Feeds(p, n, i, l) /\ next.nextLeaf # Pow2[p.th]
              => t.nextLeaf = next.nextLeaf + 1
         /\ t.nextLeaf \in 0..Pow2[p.th]
         /\ Built(p, <<i, TreeAt(p, n + 1, i) + 1>>, t, t.nextLeaf)
         /\ t.peak \in 0..(p.th + 1)
         /\ ~NextExists(p, n + 1, i) => t.nextLeaf = 0
         /\ NextExists(p, n + 1, i) <=> NextExists(p, n, i)
         /\ NextExists(p, n, i) /\ i = 0 => t.nextLeaf = LeafAt(p, n + 1, i)
<1> DEFINE N == Pow2[p.th]
           t == FeedNext(p, n, i, next, l)
           a == <<i, TreeAt(p, n, i) + 1>>
<1>1. TreeParams(p) /\ p.th \in Nat /\ p.d \in Nat /\ N \in Nat /\ i \in Nat BY BudgetSizes
<1>2. /\ next.nextLeaf \in 0..N /\ Built(p, a, next, next.nextLeaf)
      /\ next.peak \in 0..(p.th + 1)
      /\ ~NextExists(p, n, i) => next.nextLeaf = 0
      /\ NextExists(p, n, i) /\ i = 0 => next.nextLeaf = LeafAt(p, n, i) + 1
  BY DEF Coming
<1>3. TreeAt(p, n + 1, i) = TreeAt(p, n, i)
      /\ (Ended(p, n, i) => LeafAt(p, n + 1, i) = LeafAt(p, n, i) + 1)
  BY <1>1, NextLeafAt
<1>4. NextExists(p, n + 1, i) <=> NextExists(p, n, i) BY <1>1, NextExistsWhen
<1>5. i = 0 => Ended(p, n, i) BY <1>1, EndedBelow
<1>6. CASE Feeds(p, n, i, l)
  <2>1. t = BdsStateUpdate(p, a, next) BY <1>6 DEF FeedNext
  <2> HIDE DEF a, t
  <2>2. /\ t.nextLeaf = (IF next.nextLeaf = N THEN N ELSE next.nextLeaf + 1)
        /\ Built(p, a, t, t.nextLeaf)
        /\ t.peak \in 0..(p.th + 1)
    BY <2>1, <1>1, <1>2, LeafGrown
  <2>3. NextExists(p, n, i) /\ i # 0 BY <1>6 DEF Feeds
  <2>4. t.nextLeaf \in 0..N BY <2>2, <1>1, <1>2
  <2> QED BY <2>2, <2>3, <2>4, <1>3, <1>4, <1>6 DEF a, t
<1>7. CASE ~Feeds(p, n, i, l)
  <2>1. t = next BY <1>7 DEF FeedNext
  <2> HIDE DEF a, t
  <2> QED BY <2>1, <1>2, <1>3, <1>4, <1>5, <1>7 DEF a, t
<1> QED BY <1>6, <1>7

(* The signature on the root of a tree that goes on stays the right one.     *)
LEMMA SameSignature ==
  ASSUME NEW p, p.th \in Nat, NEW n \in Nat, NEW i \in Nat, ~EndOfTree(p, n, i)
  PROVE  RootSignature(p, n + 1, i) = RootSignature(p, n, i)
<1>1. ~Ended(p, n, i + 1) BY EndedBelow
<1>2. i + 1 \in Nat OBVIOUS
<1>3. /\ LeafAt(p, n + 1, i + 1) = LeafAt(p, n, i + 1)
      /\ TreeAt(p, n + 1, i + 1) = TreeAt(p, n, i + 1)
  BY <1>1, <1>2, NextLeafAt
<1>4. TreeAt(p, n + 1, i) = TreeAt(p, n, i) BY NextLeafAt
<1> QED BY <1>3, <1>4 DEF RootSignature

(* The layer after a step that keeps its tree, from its parts.               *)
LEMMA StayLayer ==
  ASSUME NEW p \in ParamSets, Suffices(p), NEW n \in Nat, NEW i \in 0..(p.d - 1),
         ~EndOfTree(p, n, i), NEW st, NEW next, NEW sig, NEW first,
         Layer(p, n, i, st, next, sig, first, 1), NEW l, NEW t,
         Current(p, n + 1, i, t, first),
         i < p.d - 1 /\ NextExists(p, n, i) /\ i # 0
           => Fed(p, n + 1, i, t, FeedNext(p, n, i, next, l))
  PROVE  Layer(p, n + 1, i, t, FeedNext(p, n, i, next, l), sig, first, 0)
<1>1. p.th \in Nat /\ p.d \in Nat /\ i \in Nat BY BudgetSizes
<1> SUFFICES ASSUME i < p.d - 1
             PROVE  /\ Coming(p, n + 1, i, t, FeedNext(p, n, i, next, l), 0)
                    /\ first /\ n + 1 < Capacity(p) => sig = RootSignature(p, n + 1, i)
  BY DEF Layer
<1> DEFINE z == FeedNext(p, n, i, next, l)
<1>2. Coming(p, n, i, st, next, 1) BY DEF Layer
<1>3. /\ z.nextLeaf \in 0..Pow2[p.th]
      /\ Built(p, <<i, TreeAt(p, n + 1, i) + 1>>, z, z.nextLeaf)
      /\ z.peak \in 0..(p.th + 1)
      /\ ~NextExists(p, n + 1, i) => z.nextLeaf = 0
      /\ NextExists(p, n + 1, i) <=> NextExists(p, n, i)
      /\ NextExists(p, n, i) /\ i = 0 => z.nextLeaf = LeafAt(p, n + 1, i)
  BY <1>2, FeedNextResult
<1> HIDE DEF z
<1>4. LeafAt(p, n + 1, i) + 0 = LeafAt(p, n + 1, i)
  <2>1. n + 1 \in Nat OBVIOUS
  <2>2. LeafAt(p, n + 1, i) \in Int
    <3>1. LeafAt(p, n + 1, i) \in 0..(Pow2[p.th] - 1) BY <1>1, <2>1, NextLeafAt
    <3>2. Pow2[p.th] \in Nat BY BudgetSizes
    <3> QED BY <3>1, <3>2
  <2> QED BY <2>2
<1>5. Coming(p, n + 1, i, t, z, 0) BY <1>3, <1>4 DEF Coming, z
<1>6. ASSUME first, n + 1 < Capacity(p) PROVE sig = RootSignature(p, n + 1, i)
  <2>1. n < Capacity(p)
    <3>1. Capacity(p) \in Nat BY BudgetSizes
    <3> QED BY <3>1, <1>6
  <2>2. sig = RootSignature(p, n, i) BY <2>1, <1>6 DEF Layer
  <2> QED BY <2>2, <1>1, SameSignature
<1> QED BY <1>5, <1>6 DEF z

(* Before the loop the next tree of layer 0 has got its leaf.                *)
LEMMA FirstFed ==
  ASSUME NEW p \in ParamSets, Suffices(p), NEW n \in Nat, NEW st, NEW next, NEW sig, NEW first,
         Layer(p, n, 0, st, next, sig, first, 0)
  PROVE  Layer(p, n, 0, st,
               IF NextExists(p, n, 0) THEN BdsStateUpdate(p, <<0, TreeAt(p, n, 0) + 1>>, next)
               ELSE next, sig, first, 1)
<1> DEFINE N == Pow2[p.th]
           a == <<0, TreeAt(p, n, 0) + 1>>
           t == BdsStateUpdate(p, a, next)
<1>1. TreeParams(p) /\ p.th \in Nat /\ p.d \in Nat /\ p.d >= 2 /\ N \in Nat BY BudgetSizes
<1>2. Coming(p, n, 0, st, next, 0) BY <1>1 DEF Layer
<1>3. LeafAt(p, n, 0) \in 0..(N - 1)
  <2>1. 0 \in Nat OBVIOUS
  <2> QED BY <2>1, <1>1, NextLeafAt
<1>4. CASE NextExists(p, n, 0)
  <2>1. /\ next.nextLeaf = LeafAt(p, n, 0) /\ Built(p, a, next, next.nextLeaf)
        /\ next.peak \in 0..(p.th + 1)
    BY <1>2, <1>3, <1>4 DEF Coming
  <2> HIDE DEF a
  <2>2. /\ t.nextLeaf = LeafAt(p, n, 0) + 1
        /\ Built(p, a, t, t.nextLeaf)
        /\ t.peak \in 0..(p.th + 1)
    <3>1. next.nextLeaf \in 0..N /\ next.nextLeaf # N BY <2>1, <1>1, <1>3
    <3> QED BY <2>1, <3>1, <1>1, LeafGrown
  <2> HIDE DEF t
  <2>3. t.nextLeaf \in 0..N BY <2>2, <1>1, <1>3
  <2>4. Coming(p, n, 0, st, t, 1) BY <2>2, <2>3, <1>4 DEF Coming, a
  <2> QED BY <2>4, <1>4 DEF Layer, t, a
<1>5. CASE ~NextExists(p, n, 0)
  <2>1. Coming(p, n, 0, st, next, 1) BY <1>2, <1>5 DEF Coming
  <2> QED BY <2>1, <1>5 DEF Layer
<1> QED BY <1>4, <1>5

(* The last tree of a layer ends, or a later one that is not there.          *)
LEMMA EndLayer ==
  ASSUME NEW p \in ParamSets, Suffices(p), NEW n \in Nat, Capacity(p) - 1 <= n,
         NEW i \in 0..(p.d - 1), EndOfTree(p, n, i),
         NEW st, NEW next, NEW sig, NEW first, Layer(p, n, i, st, next, sig, first, 1)
  PROVE  Layer(p, n + 1, i, st, next, sig, first, 0)
<1>1. /\ TreeParams(p) /\ p.th \in Nat /\ p.d \in Nat /\ Capacity(p) \in Nat /\ i \in Nat
      /\ Pow2[p.th] \in Nat
  BY BudgetSizes
<1>2. n + 1 \in Nat /\ Capacity(p) - 1 <= n + 1 /\ Capacity(p) <= n + 1 BY <1>1
<1>3. ~NextExists(p, n, i) /\ ~NextExists(p, n + 1, i) BY <1>1, <1>2, NextExistsWhen
<1>4. LeafAt(p, n, i) = Pow2[p.th] - 1 BY <1>1, NextLeafAt
<1>5. Current(p, n, i, st, first) BY DEF Layer
<1>6. Serving(p, <<i, TreeAt(p, n, i)>>, st, LeafAt(p, n, i), Served(p, n, i))
  BY <1>5 DEF Current
<1>7. AllDone(p, st)
  <2>1. LeafAt(p, n, i) \in Nat BY <1>1, NextLeafAt
  <2>2. Pow2[p.th] - 2 <= LeafAt(p, n, i) BY <1>1, <1>4
  <2>3. Work(p, st, LeafAt(p, n, i)) BY <1>6 DEF Serving
  <2> QED BY <2>1, <2>2, <2>3, <1>1, QuietWork
<1>8. \A b, y, r : Serving(p, b, st, y, r) BY <1>1, <1>6, <1>7, DoneServing
<1>9. ~(n + 1 < Capacity(p)) BY <1>1, <1>2
<1>10. Current(p, n + 1, i, st, first) BY <1>5, <1>7, <1>8, <1>9 DEF Current
<1>11. ASSUME i < p.d - 1 PROVE Coming(p, n + 1, i, st, next, 0)
  <2>1. Coming(p, n, i, st, next, 1) BY <1>11 DEF Layer
  <2>2. next.nextLeaf = 0 /\ next.peak \in 0..(p.th + 1) BY <2>1, <1>3 DEF Coming
  <2>3. Built(p, <<i, TreeAt(p, n, i) + 1>>, next, 0) BY <2>1, <2>2 DEF Coming
  <2>4. Built(p, <<i, TreeAt(p, n + 1, i) + 1>>, next, 0) BY <2>3, <1>1, EmptyBuilt
  <2>5. 0 \in 0..Pow2[p.th] BY <1>1
  <2> QED BY <2>2, <2>4, <2>5, <1>3 DEF Coming
<1> QED BY <1>9, <1>10, <1>11 DEF Layer

(* After the last tree of layer 0 the others have nothing left to do.        *)
LEMMA LateLayer ==
  ASSUME NEW p \in ParamSets, Suffices(p), NEW n \in Nat, Capacity(p) <= n,
         NEW i \in 1..(p.d - 1), ~EndOfTree(p, n, i),
         NEW st, NEW next, NEW sig, NEW first, Layer(p, n, i, st, next, sig, first, 1),
         NEW u \in 0..Budget(p)
  PROVE  LET r == BdsTreehashUpdate(p, <<i, TreeAt(p, n, i)>>, st, u) IN
         /\ Layer(p, n + 1, i, r.st, FeedNext(p, n, i, next, r.left), sig, first, 0)
         /\ LeftOver(p, n, i, r.left) = u
<1> DEFINE a == <<i, TreeAt(p, n, i)>>
           x == LeafAt(p, n, i)
           r == BdsTreehashUpdate(p, a, st, u)
           s == Served(p, n, i)
<1>1. /\ TreeParams(p) /\ p.th \in Nat /\ p.d \in Nat /\ Capacity(p) \in Nat /\ i \in Nat
      /\ Budget(p) \in 0..127 /\ i \in 0..(p.d - 1)
  BY BudgetSizes
<1>2. x \in Nat /\ s \in Int /\ u \in 0..127
  <2>1. x \in 0..(Pow2[p.th] - 1) BY <1>1, NextLeafAt
  <2>2. s \in Int BY <1>1, ServedReady
  <2> HIDE DEF x, s
  <2>3. x \in Nat BY <2>1
  <2>4. u \in 0..127 BY <1>1
  <2> QED BY <2>2, <2>3, <2>4
<1>3. Current(p, n, i, st, first) BY DEF Layer
<1>4. Serving(p, a, st, x, s) /\ AllDone(p, st) /\ FullState(p, st) BY <1>3 DEF Current
<1> HIDE DEF a, x, s
<1>5. /\ \E e \in 0..u : r.left = u - e /\ GivenOut(p, st, r.st, x, u, e)
      /\ Updated(p, a, st, r.st, x, u)
      /\ Serving(p, a, r.st, x, s + u)
  BY <1>1, <1>2, <1>4, UpdatesServe
<1> DEFINE t == r.st
<1> HIDE DEF r
<1>6. r.left = u BY <1>4, <1>5 DEF GivenOut
<1>7. AllDone(p, t) BY <1>4, <1>5 DEF AllDone, Updated
<1>8. FullState(p, t) BY <1>4, <1>5, UpdatedFull
<1>9. \A b, y, v : Serving(p, b, t, y, v) BY <1>1, <1>5, <1>7, DoneServing
<1>10. ~(n + 1 < Capacity(p)) /\ ~NextExists(p, n, i)
  <2>1. Capacity(p) - 1 <= n BY <1>1
  <2> QED BY <2>1, <1>1, NextExistsWhen
<1>11. Current(p, n + 1, i, t, first) BY <1>7, <1>8, <1>9, <1>10 DEF Current
<1>12. Layer(p, n + 1, i, t, FeedNext(p, n, i, next, r.left), sig, first, 0)
  BY <1>1, <1>10, <1>11, StayLayer
<1>13. LeftOver(p, n, i, r.left) = u BY <1>6, <1>10 DEF LeftOver, Feeds
<1> QED BY <1>12, <1>13 DEF r, a

(* The traversal state of layer i after the step that moves its path on: it  *)
(* has B - i updates, and one that has spent all of them in the swaps below  *)
(* runs until all its instances are done.                                    *)
LEMMA RoundCurrent ==
  ASSUME NEW p \in ParamSets, Suffices(p), NEW n \in Nat, NEW i \in 0..(p.d - 1),
         ~EndOfTree(p, n, i), i = 0 \/ (n < Capacity(p) - 1 /\ Ended(p, n, i)),
         NEW st, NEW first, Current(p, n, i, st, first)
  PROVE  LET a == <<i, TreeAt(p, n, i)>>
             s == BdsRound(p, a, st, LeafAt(p, n, i))
             r == BdsTreehashUpdate(p, a, s, Budget(p) - i)
         IN  /\ Current(p, n + 1, i, r.st, first)
             /\ i <= Budget(p) =>
                  \E e \in 0..(Budget(p) - i) :
                    /\ r.left = Budget(p) - i - e
                    /\ Demanded(p, r.st, LeafAt(p, n, i) + 1) + e <= Demanded(p, st, LeafAt(p, n, i))
                    /\ Pow2[p.th] - 2 <= LeafAt(p, n, i) + 1 => e = 0
<1> DEFINE a == <<i, TreeAt(p, n, i)>>
           x == LeafAt(p, n, i)
           s == BdsRound(p, a, st, x)
           u == Budget(p) - i
           r == BdsTreehashUpdate(p, a, s, u)
           N == Pow2[p.th]
<1>1. /\ TreeParams(p) /\ EnoughUpdates(p) /\ p.th \in Nat /\ p.d \in Nat
      /\ Capacity(p) \in Nat \ {0} /\ i \in Nat /\ N \in Nat /\ 2 <= N
      /\ Budget(p) \in 0..127 /\ p.d - 2 <= Budget(p)
  BY BudgetSizes
<1>2. Ended(p, n, i) BY <1>1, EndedBelow
<1>3. /\ x \in 0..(N - 1) /\ x # N - 1
      /\ LeafAt(p, n + 1, i) = x + 1 /\ TreeAt(p, n + 1, i) = TreeAt(p, n, i)
  BY <1>1, <1>2, NextLeafAt
<1>4. Served(p, n, i) \in Int /\ Budget(p) <= Served(p, n, i) BY <1>2, ServedReady
<1>5. FullState(p, st) /\ Serving(p, a, st, x, Served(p, n, i)) BY DEF Current
<1>6. first /\ n < Capacity(p) => Path(p, a, st, x) BY DEF Current
<1> HIDE DEF x
<1>7. x \in Nat /\ x < N - 1 /\ x + 1 \in Nat BY <1>1, <1>3
<1>8. Ready(p, a, st, x)
  <2> HIDE DEF a
  <2>1. Instances(p) \div 2 <= Served(p, n, i) BY <1>4 DEF Budget
  <2> QED BY <2>1, <1>1, <1>4, <1>5, <1>7, ServingReady
<1> HIDE DEF a
<1>9. FullState(p, s) BY <1>1, <1>5, <1>7, RoundFull
<1>10. Serving(p, a, s, x + 1, 0) /\ Demanded(p, s, x + 1) <= Demanded(p, st, x)
  BY <1>1, <1>7, <1>8, RoundServes
<1>11. first /\ n + 1 < Capacity(p) => Path(p, a, s, x + 1)
  <2>1. n + 1 < Capacity(p) => n < Capacity(p) BY <1>1
  <2> QED BY <2>1, <1>1, <1>6, <1>7, <1>8, RoundPath
<1>12. Capacity(p) <= n + 1 /\ (i # 0 \/ x + 1 = 0) => FALSE BY <1>1, <1>7
<1> HIDE DEF s, u, N
<1>13. \A j \in Insts(p) : s.inst[j].completed \in BOOLEAN
  BY <1>10, ServingCounted DEF Counted
<1>14. ASSUME NEW t, NEW m, Updated(p, a, s, t, x + 1, m),
              Serving(p, a, t, x + 1, Served(p, n + 1, i))
       PROVE  Current(p, n + 1, i, t, first)
  <2>1. FullState(p, t) BY <1>9, <1>14, UpdatedFull
  <2>2. first /\ n + 1 < Capacity(p) => Path(p, a, t, x + 1)
    BY <1>11, <1>13, <1>14, UpdatedPath
  <2>3. Serving(p, <<i, TreeAt(p, n + 1, i)>>, t, LeafAt(p, n + 1, i), Served(p, n + 1, i))
    BY <1>3, <1>14 DEF a
  <2>4. first /\ n + 1 < Capacity(p)
          => Path(p, <<i, TreeAt(p, n + 1, i)>>, t, LeafAt(p, n + 1, i))
    BY <1>3, <2>2 DEF a
  <2>5. Capacity(p) <= n + 1 /\ (i # 0 \/ LeafAt(p, n + 1, i) = 0) => AllDone(p, t)
    BY <1>3, <1>12
  <2> QED BY <2>1, <2>3, <2>4, <2>5 DEF Current
<1>15. CASE i <= Budget(p)
  <2>1. u \in 0..127 /\ u \in Int /\ 0 \in Int /\ 0 + u = u BY <1>1, <1>15 DEF u
  <2>2. /\ \E e \in 0..u : r.left = u - e /\ GivenOut(p, s, r.st, x + 1, u, e)
        /\ Updated(p, a, s, r.st, x + 1, u)
        /\ Serving(p, a, r.st, x + 1, 0 + u)
    BY <2>1, <1>1, <1>7, <1>10, UpdatesServe
  <2> HIDE DEF r
  <2>3. Served(p, n + 1, i) \in Int /\ Served(p, n + 1, i) <= u
    <3>1. CASE i = 0
      BY <3>1, <1>1 DEF Served, u
    <3>2. CASE i # 0
      <4>1. i \in 1..p.d BY <1>1, <3>2
      <4>2. 4 <= N BY <1>1, <1>15, <3>2, BudgetSizes DEF N
      <4>3. Calm(p, n + 1)[i] = 0 BY <4>1, <4>2, <1>1, <1>2, CalmOver DEF N
      <4>4. Offer(p, i) \in Int BY <1>1 DEF Offer
      <4>5. Offer(p, i) * Calm(p, n + 1)[i] = 0 BY <4>3, <4>4
      <4> QED BY <3>2, <4>5, <2>1, <1>1, <1>15 DEF Served
    <3> QED BY <3>1, <3>2
  <2>4. Serving(p, a, r.st, x + 1, Served(p, n + 1, i))
    BY <2>1, <2>2, <2>3, <1>1, <1>7, SpentLess
  <2>5. Current(p, n + 1, i, r.st, first) BY <1>14, <2>2, <2>4
  <2>6. PICK e \in 0..u : r.left = u - e /\ GivenOut(p, s, r.st, x + 1, u, e) BY <2>2
  <2>7. Demanded(p, r.st, x + 1) + e <= Demanded(p, st, x)
    <3>1. Counted(p, s) /\ Counted(p, st) BY <1>5, <1>10, ServingCounted
    <3>2. Demanded(p, s, x + 1) \in Nat /\ Demanded(p, st, x) \in Nat
      BY <3>1, <1>1, <1>7, TotalRange
    <3>3. Demanded(p, r.st, x + 1) = Demanded(p, s, x + 1) - e BY <2>6 DEF GivenOut
    <3> QED BY <3>2, <3>3, <1>10, <2>1
  <2>8. N - 2 <= x + 1 => e = 0
    <3>1. Work(p, s, x + 1) BY <1>10 DEF Serving
    <3>2. N - 2 <= x + 1 => AllDone(p, s) BY <3>1, <1>1, <1>7, QuietWork DEF N
    <3> QED BY <3>2, <2>6 DEF GivenOut
  <2>9. e \in 0..(Budget(p) - i) /\ r.left = Budget(p) - i - e BY <2>6 DEF u
  <2> QED BY <2>5, <2>7, <2>8, <2>9 DEF r, a, x, s, u, N
<1>16. CASE ~(i <= Budget(p))
  <2>1. u = -1 BY <1>1, <1>16 DEF u
  <2>2. /\ Updated(p, a, s, r.st, x + 1, p.th * Pow2[p.th])
        /\ \A b, y, v : Serving(p, b, r.st, y, v)
    BY <2>1, <1>1, <1>7, <1>10, UpdatesFinish
  <2> HIDE DEF r
  <2>3. Current(p, n + 1, i, r.st, first) BY <1>14, <2>2
  <2> QED BY <2>3, <1>16 DEF r, a, x, s, u
<1> QED BY <1>15, <1>16

(* What is left to do for the next tree fits the steps still to come, when   *)
(* the path has moved on.                                                    *)
LEMMA RoundFits ==
  ASSUME NEW o \in Nat, NEW m \in Nat, NEW i \in Nat, NEW x \in Nat, NEW y \in 0..m,
         NEW z \in 0..m, y <= z, NEW old \in Nat, NEW new \in Nat, new <= old,
         old + o * (m - y) <= o * ((i + 1) * (m - x) - (i + 1))
  PROVE  new + o * (m - z) <= o * ((i + 1) * (m - (x + 1)) - 0)
<1>1. (i + 1) * (m - x) - (i + 1) = (i + 1) * (m - (x + 1)) - 0 OBVIOUS
<1>2. PICK v \in Nat : v = m - z OBVIOUS
<1>3. PICK w \in Nat : w = m - y OBVIOUS
<1>4. PICK c \in Nat : w = v + c
  <2>1. w - v \in Nat /\ w = v + (w - v) BY <1>2, <1>3
  <2> QED BY <2>1
<1>5. o * w = o * v + o * c /\ o * c \in Nat /\ o * v \in Nat /\ o * w \in Nat
  BY ONLY <1>4, o \in Nat, v \in Nat, c \in Nat
<1>6. PICK q : q = o * ((i + 1) * (m - x) - (i + 1)) OBVIOUS
<1>7. q \in Int
  <2>1. (i + 1) * (m - x) - (i + 1) \in Int OBVIOUS
  <2>2. PICK g \in Int : g = (i + 1) * (m - x) - (i + 1) BY <2>1
  <2>3. o * g \in Int BY <2>2
  <2> QED BY <2>2, <2>3, <1>6
<1>8. PICK ov \in Nat : ov = o * v BY <1>5
<1>9. PICK ow \in Nat : ow = o * w BY <1>5
<1>10. ov <= ow
  <2>1. PICK oc \in Nat : oc = o * c BY <1>5
  <2> QED BY <2>1, <1>5, <1>8, <1>9
<1>11. old + ow <= q BY <1>3, <1>6, <1>9
<1>12. new + ov <= q BY ONLY <1>7, <1>10, <1>11, new <= old, new \in Nat, old \in Nat,
                              ov \in Nat, ow \in Nat
<1> QED BY <1>1, <1>2, <1>6, <1>8, <1>12

(* A layer whose path moves on, and what it leaves to the next.              *)
LEMMA RoundLayer ==
  ASSUME NEW p \in ParamSets, Suffices(p), NEW n \in Nat, NEW i \in 0..(p.d - 1),
         ~EndOfTree(p, n, i), i = 0 \/ (n < Capacity(p) - 1 /\ Ended(p, n, i)),
         NEW st, NEW next, NEW sig, NEW first, Layer(p, n, i, st, next, sig, first, 1)
  PROVE  LET a == <<i, TreeAt(p, n, i)>>
             r == BdsTreehashUpdate(p, a, BdsRound(p, a, st, LeafAt(p, n, i)), Budget(p) - i)
         IN  /\ Layer(p, n + 1, i, r.st, FeedNext(p, n, i, next, r.left), sig, first, 0)
             /\ i <= p.d - 2 =>
                  /\ LeftOver(p, n, i, r.left) \in 0..Budget(p)
                  /\ Quiet(p, n + 1, i + 1) =>
                       i = 0 /\ LeftOver(p, n, i, r.left) = Budget(p)
<1> DEFINE a == <<i, TreeAt(p, n, i)>>
           x == LeafAt(p, n, i)
           b == Budget(p)
           r == BdsTreehashUpdate(p, a, BdsRound(p, a, st, x), b - i)
           N == Pow2[p.th]
<1>1. /\ TreeParams(p) /\ p.th \in Nat /\ p.d \in Nat /\ p.d >= 2 /\ i \in Nat /\ N \in Nat
      /\ 2 <= N /\ b \in 0..127 /\ p.d - 2 <= b /\ (b # 0 => 4 <= N)
  BY BudgetSizes
<1>2. Ended(p, n, i) BY <1>1, EndedBelow
<1>3. /\ x \in 0..(N - 1) /\ x # N - 1 /\ LeafAt(p, n + 1, i) = x + 1
  BY <1>1, <1>2, NextLeafAt
<1>4. Current(p, n, i, st, first) BY DEF Layer
<1>5. /\ Current(p, n + 1, i, r.st, first)
      /\ i <= b => \E e \in 0..(b - i) :
                    /\ r.left = b - i - e
                    /\ Demanded(p, r.st, x + 1) + e <= Demanded(p, st, x)
                    /\ N - 2 <= x + 1 => e = 0
  BY <1>4, RoundCurrent
<1>6. FullState(p, st) /\ Counted(p, st) /\ Counted(p, r.st)
  BY <1>4, <1>5, ServingCounted DEF Current
<1> HIDE DEF x, r
<1>7. x \in Nat /\ x + 1 \in Nat BY <1>1, <1>3
<1>8. Demanded(p, st, x) \in Nat /\ Demanded(p, r.st, x + 1) \in Nat
  BY <1>1, <1>6, <1>7, TotalRange
<1>9. ASSUME i < p.d - 1, NextExists(p, n, i), i # 0
      PROVE  Fed(p, n + 1, i, r.st, FeedNext(p, n, i, next, r.left))
  <2> DEFINE z == FeedNext(p, n, i, next, r.left)
  <2>1. Coming(p, n, i, st, next, 1) BY <1>9 DEF Layer
  <2>2. /\ ~Feeds(p, n, i, r.left) => z.nextLeaf = next.nextLeaf
        /\ Feeds(p, n, i, r.left) /\ next.nextLeaf = N => z.nextLeaf = N
        /\ Feeds(p, n, i, r.left) /\ next.nextLeaf # N => z.nextLeaf = next.nextLeaf + 1
        /\ z.nextLeaf \in 0..Pow2[p.th]
        /\ Built(p, <<i, TreeAt(p, n + 1, i) + 1>>, z, z.nextLeaf)
        /\ z.peak \in 0..(p.th + 1)
        /\ ~NextExists(p, n + 1, i) => z.nextLeaf = 0
        /\ NextExists(p, n + 1, i) <=> NextExists(p, n, i)
    BY <2>1, FeedNextResult
  <2>3. next.nextLeaf \in 0..N /\ Fed(p, n, i, st, next) BY <2>1, <1>9 DEF Coming
  <2> HIDE DEF z
  <2>4. CASE next.nextLeaf = N
    BY <2>2, <2>4 DEF Fed, z
  <2>5. CASE next.nextLeaf # N
    <3> DEFINE o == Offer(p, i)
    <3>1. o \in Nat BY <1>1, <1>9 DEF Offer
    <3>2. Calm(p, n)[i] = i + 1
      <4>1. i \in 0..p.d BY <1>1
      <4> QED BY <4>1, <1>1, <1>2, EndedCalm
    <3>3. i \in 1..p.d /\ 4 <= N BY <1>1, <1>9
    <3>4. Calm(p, n + 1)[i] = 0 BY <3>3, <1>1, <1>2, CalmOver
    <3>5. Demanded(p, st, x) + o * (N - next.nextLeaf) <= o * ((i + 1) * (N - x) - (i + 1))
      BY <2>3, <2>5, <3>2 DEF Fed, x
    <3> HIDE DEF o, N
    <3>6. next.nextLeaf <= z.nextLeaf BY <2>2, <2>3, <1>1
    <3>7. Demanded(p, r.st, x + 1) <= Demanded(p, st, x)
      <4>1. PICK e \in 0..(b - i) : Demanded(p, r.st, x + 1) + e <= Demanded(p, st, x)
        BY <1>1, <1>5, <1>9
      <4>2. e \in Nat BY <4>1, <1>1, <1>9
      <4> QED BY <4>1, <4>2, <1>8
    <3>8. Demanded(p, r.st, x + 1) + o * (N - z.nextLeaf) <= o * ((i + 1) * (N - (x + 1)) - 0)
      BY ONLY <1>1, <1>7, <1>8, <2>2, <2>3, <3>1, <3>5, <3>6, <3>7, RoundFits
    <3> QED BY <3>8, <3>4, <1>3 DEF Fed, z, o, N
  <2> QED BY <2>4, <2>5 DEF z
<1>10. Layer(p, n + 1, i, r.st, FeedNext(p, n, i, next, r.left), sig, first, 0)
  BY <1>5, <1>9, StayLayer
<1>11. ASSUME i <= p.d - 2
       PROVE  /\ LeftOver(p, n, i, r.left) \in 0..b
              /\ Quiet(p, n + 1, i + 1) => i = 0 /\ LeftOver(p, n, i, r.left) = b
  <2>1. i <= b BY <1>1, <1>11
  <2>2. PICK e \in 0..(b - i) : r.left = b - i - e /\ (N - 2 <= x + 1 => e = 0)
    BY <1>5, <2>1
  <2>3. LeftOver(p, n, i, r.left) \in 0..b
    BY <1>1, <2>1, <2>2 DEF LeftOver, Feeds
  <2>4. CASE i = 0
    <3>1. Quiet(p, n + 1, i + 1) => N - 2 <= x + 1
      <4>1. i \in 0..((i + 1) - 1) BY <1>1
      <4> QED BY <4>1, <1>3 DEF Quiet
    <3>2. ~Feeds(p, n, i, r.left) BY <2>4 DEF Feeds
    <3>3. LeftOver(p, n, i, r.left) = r.left BY <3>2 DEF LeftOver
    <3> QED BY <2>2, <2>3, <2>4, <3>1, <3>3, <1>1
  <2>5. CASE i # 0
    <3>1. 0 \in 0..(i - 1) /\ 0 \in 0..((i + 1) - 1) /\ 0 \in Nat BY <1>1, <2>5
    <3>2. Ended(p, n, 0) /\ LeafAt(p, n, 0) = N - 1 BY <3>1, <1>1, <1>2, EndedLeaves
    <3>3. LeafAt(p, n + 1, 0) = 0
      BY <3>1, <3>2, <1>1, NextLeafAt
    <3>4. ~Quiet(p, n + 1, i + 1)
      <4>1. 4 <= N BY <1>1, <2>1, <2>5
      <4>2. ~(N - 2 <= 0) BY <1>1, <4>1
      <4> QED BY <4>2, <3>1, <3>3 DEF Quiet
    <3> QED BY <2>3, <3>4
  <2> QED BY <2>4, <2>5
<1> QED BY <1>10, <1>11 DEF r, a, x

(* What is left to do for the next tree fits the steps still to come, when   *)
(* the layer has been given its share in a quiet step or nothing in another. *)
LEMMA ShareFits ==
  ASSUME NEW o \in Nat, NEW k \in Int, NEW c \in Nat, NEW d \in Nat, NEW q \in {0, 1},
         d <= c + q, NEW v \in Nat, NEW w \in Nat, NEW old \in Nat, NEW new \in Nat,
         new + o * w + o * q <= old + o * v,
         old + o * v <= o * (k - c)
  PROVE  new + o * w <= o * (k - d)
<1>1. PICK g \in Nat : c + q = d + g
  <2>1. c + q - d \in Nat /\ c + q = d + (c + q - d) OBVIOUS
  <2> QED BY <2>1
<1>2. k - d = (k - c) - q + g BY <1>1
<1>3. PICK h \in Int : h = k - c OBVIOUS
<1>4. o * (h - q + g) = o * h - o * q + o * g
      /\ o * h \in Int /\ o * q \in Nat /\ o * g \in Nat /\ o * w \in Nat /\ o * v \in Nat
  <2>1. q \in Nat OBVIOUS
  <2> QED BY ONLY <2>1, o \in Nat, h \in Int, g \in Nat, w \in Nat, v \in Nat
<1>5. PICK oh \in Int : oh = o * h BY <1>4
<1>6. PICK oq \in Nat : oq = o * q BY <1>4
<1>7. PICK og \in Nat : og = o * g BY <1>4
<1>8. PICK ow \in Nat : ow = o * w BY <1>4
<1>9. PICK ov \in Nat : ov = o * v BY <1>4
<1>10. new + ow + oq <= old + ov /\ old + ov <= oh BY <1>3, <1>5, <1>6, <1>8, <1>9
<1>11. new + ow <= oh - oq + og
  BY ONLY <1>10, new \in Nat, old \in Nat, oh \in Int, oq \in Nat, og \in Nat, ow \in Nat,
          ov \in Nat
<1>12. o * (k - d) = oh - oq + og BY <1>2, <1>3, <1>4, <1>5, <1>6, <1>7
<1> QED BY <1>8, <1>11, <1>12

(* The traversal state of a layer above the lowest whose leaf stays in use.  *)
LEMMA LowerCurrent ==
  ASSUME NEW p \in ParamSets, Suffices(p), NEW n \in Nat, n < Capacity(p) - 1,
         NEW i \in 1..(p.d - 1), ~Ended(p, n, i), NEW st, NEW first,
         Current(p, n, i, st, first), NEW u \in 0..Budget(p),
         Quiet(p, n + 1, i) => Offer(p, i) <= u
  PROVE  LET r == BdsTreehashUpdate(p, <<i, TreeAt(p, n, i)>>, st, u) IN
         /\ Current(p, n + 1, i, r.st, first)
         /\ \E e \in 0..u :
              /\ r.left = u - e
              /\ Demanded(p, r.st, LeafAt(p, n, i)) = Demanded(p, st, LeafAt(p, n, i)) - e
              /\ Pow2[p.th] - 2 <= LeafAt(p, n, i) => e = 0
<1> DEFINE a == <<i, TreeAt(p, n, i)>>
           x == LeafAt(p, n, i)
           r == BdsTreehashUpdate(p, a, st, u)
           v == Served(p, n, i)
           w == Served(p, n + 1, i)
<1>1. /\ TreeParams(p) /\ p.th \in Nat /\ p.d \in Nat /\ Capacity(p) \in Nat /\ i \in Nat
      /\ i # 0 /\ Budget(p) \in 0..127 /\ i \in 0..(p.d - 1) /\ i \in 0..p.d
      /\ n + 1 \in Nat /\ Pow2[p.th] \in Nat
  BY BudgetSizes
<1>2. /\ x \in 0..(Pow2[p.th] - 1)
      /\ LeafAt(p, n + 1, i) = x /\ TreeAt(p, n + 1, i) = TreeAt(p, n, i)
  BY <1>1, NextLeafAt
<1>3. FullState(p, st) /\ Serving(p, a, st, x, v) BY DEF Current
<1>4. first /\ n < Capacity(p) => Path(p, a, st, x) BY DEF Current
<1>5. v \in Int /\ w \in Int BY <1>1, ServedReady
<1>6. w <= v + u
  <2>1. CASE i > Budget(p)
    <3>1. v = Budget(p) /\ w = Budget(p) BY <2>1 DEF Served
    <3> HIDE DEF v, w
    <3> QED BY <3>1, <1>1
  <2>2. CASE ~(i > Budget(p))
    <3> DEFINE c == Calm(p, n)[i]
               d == Calm(p, n + 1)[i]
               o == Offer(p, i)
    <3>1. v = o * c /\ w = o * d BY <2>2, <1>1 DEF Served
    <3>2. c \in Nat /\ d \in Nat BY <1>1, CalmIs
    <3>3. o \in Nat BY <1>1, <2>2 DEF Offer
    <3>4. 4 <= Pow2[p.th] BY <1>1, <2>2, BudgetSizes
    <3>5. d <= c + (IF Quiet(p, n + 1, i) THEN 1 ELSE 0) BY <1>1, <3>4, CalmGrows
    <3> HIDE DEF c, d, o, v, w
    <3>6. CASE Quiet(p, n + 1, i)
      <4>1. o <= u /\ d <= c + 1 BY <3>5, <3>6 DEF o
      <4>2. PICK g \in Nat : c + 1 = d + g
        <5>1. c + 1 - d \in Nat /\ c + 1 = d + (c + 1 - d) BY <4>1, <3>2
        <5> QED BY <5>1
      <4>3. o * (c + 1) = o * c + o /\ o * (d + g) = o * d + o * g /\ o * g \in Nat
            /\ o * c \in Nat /\ o * d \in Nat
        BY ONLY <3>2, <3>3, g \in Nat
      <4>4. PICK og \in Nat : og = o * g BY <4>3
      <4>5. v + o = w + og BY <4>2, <4>3, <4>4, <3>1
      <4> QED BY ONLY <4>1, <4>5, <3>3, <1>5, <1>1, u \in 0..Budget(p), og \in Nat
    <3>7. CASE ~Quiet(p, n + 1, i)
      <4>1. d <= c BY <3>2, <3>5, <3>7
      <4>2. PICK g \in Nat : c = d + g
        <5>1. c - d \in Nat /\ c = d + (c - d) BY <4>1, <3>2
        <5> QED BY <5>1
      <4>3. o * (d + g) = o * d + o * g /\ o * g \in Nat BY ONLY <3>2, <3>3, g \in Nat
      <4>4. PICK og \in Nat : og = o * g BY <4>3
      <4>5. v = w + og BY <4>2, <4>3, <4>4, <3>1
      <4> QED BY ONLY <4>5, <1>5, <1>1, u \in 0..Budget(p), og \in Nat
    <3> QED BY <3>6, <3>7
  <2> QED BY <2>1, <2>2
<1>7. u \in 0..127 BY <1>1
<1>8. Work(p, st, x) BY <1>3 DEF Serving
<1> HIDE DEF a, x, v, w
<1>9. x \in Nat BY <1>1, <1>2
<1>10. /\ \E e \in 0..u : r.left = u - e /\ GivenOut(p, st, r.st, x, u, e)
       /\ Updated(p, a, st, r.st, x, u)
       /\ Serving(p, a, r.st, x, v + u)
  BY <1>1, <1>3, <1>5, <1>7, <1>9, UpdatesServe
<1> HIDE DEF r
<1>11. FullState(p, r.st) BY <1>3, <1>10, UpdatedFull
<1>12. Serving(p, a, r.st, x, w)
  <2>1. v + u \in Int BY <1>1, <1>5
  <2> QED BY <2>1, <1>1, <1>5, <1>6, <1>9, <1>10, SpentLess
<1>13. first /\ n + 1 < Capacity(p) => Path(p, a, r.st, x)
  <2>1. \A j \in Insts(p) : st.inst[j].completed \in BOOLEAN
    BY <1>3, ServingCounted DEF Counted
  <2>2. n < Capacity(p) BY <1>1
  <2> QED BY <2>1, <2>2, <1>4, <1>10, UpdatedPath
<1>14. ~(Capacity(p) <= n + 1) BY <1>1
<1>15. Current(p, n + 1, i, r.st, first)
  BY <1>2, <1>11, <1>12, <1>13, <1>14 DEF Current, a, x, w
<1>16. PICK e \in 0..u : r.left = u - e /\ GivenOut(p, st, r.st, x, u, e) BY <1>10
<1>17. Pow2[p.th] - 2 <= x => AllDone(p, st) BY <1>1, <1>8, <1>9, QuietWork
<1>18. /\ Demanded(p, r.st, x) = Demanded(p, st, x) - e
       /\ Pow2[p.th] - 2 <= x => e = 0
  BY <1>16, <1>17 DEF GivenOut
<1> QED BY <1>15, <1>16, <1>18 DEF r, a, x

(* A layer above the lowest whose leaf stays in use, and what it leaves to   *)
(* the next: in a quiet step, enough for its share.                          *)
LEMMA LowerLayer ==
  ASSUME NEW p \in ParamSets, Suffices(p), NEW n \in Nat, n < Capacity(p) - 1,
         NEW i \in 1..(p.d - 1), ~Ended(p, n, i),
         NEW st, NEW next, NEW sig, NEW first, Layer(p, n, i, st, next, sig, first, 1),
         NEW u \in 0..Budget(p), Quiet(p, n + 1, i) => Offer(p, i) <= u
  PROVE  LET r == BdsTreehashUpdate(p, <<i, TreeAt(p, n, i)>>, st, u) IN
         /\ Layer(p, n + 1, i, r.st, FeedNext(p, n, i, next, r.left), sig, first, 0)
         /\ i <= p.d - 2 =>
              /\ LeftOver(p, n, i, r.left) \in 0..Budget(p)
              /\ Quiet(p, n + 1, i + 1) => Offer(p, i + 1) <= LeftOver(p, n, i, r.left)
<1> DEFINE a == <<i, TreeAt(p, n, i)>>
           x == LeafAt(p, n, i)
           b == Budget(p)
           r == BdsTreehashUpdate(p, a, st, u)
           N == Pow2[p.th]
<1>1. /\ TreeParams(p) /\ p.th \in Nat /\ p.d \in Nat /\ i \in Nat /\ i # 0 /\ N \in Nat
      /\ b \in 0..127 /\ p.d - 2 <= b /\ (b # 0 => 4 <= N) /\ u \in 0..127
      /\ i \in 0..(p.d - 1) /\ i \in 0..p.d /\ n + 1 \in Nat
  BY BudgetSizes
<1>2. /\ x \in 0..(N - 1) /\ LeafAt(p, n + 1, i) = x /\ ~EndOfTree(p, n, i)
  BY <1>1, NextLeafAt
<1>3. Current(p, n, i, st, first) BY DEF Layer
<1>4. Current(p, n + 1, i, r.st, first)
      /\ \E e \in 0..u : /\ r.left = u - e
                         /\ Demanded(p, r.st, x) = Demanded(p, st, x) - e
                         /\ N - 2 <= x => e = 0
  BY <1>3, LowerCurrent
<1>5. PICK e \in 0..u : /\ r.left = u - e
                        /\ Demanded(p, r.st, x) = Demanded(p, st, x) - e
                        /\ N - 2 <= x => e = 0
  BY <1>4
<1>6. Counted(p, st) /\ Counted(p, r.st) BY <1>3, <1>4, ServingCounted DEF Current
<1> HIDE DEF x, r
<1>7. x \in Nat BY <1>1, <1>2
<1>8. Demanded(p, st, x) \in Nat /\ Demanded(p, r.st, x) \in Nat BY <1>1, <1>6, <1>7, TotalRange
<1>9. ASSUME i < p.d - 1, NextExists(p, n, i)
      PROVE  Fed(p, n + 1, i, r.st, FeedNext(p, n, i, next, r.left))
  <2> DEFINE z == FeedNext(p, n, i, next, r.left)
             o == Offer(p, i)
             c == Calm(p, n)[i]
             d == Calm(p, n + 1)[i]
             q == IF Quiet(p, n + 1, i) THEN 1 ELSE 0
             k == (i + 1) * (N - x)
  <2>1. Coming(p, n, i, st, next, 1) BY <1>9 DEF Layer
  <2>2. /\ ~Feeds(p, n, i, r.left) => z.nextLeaf = next.nextLeaf
        /\ Feeds(p, n, i, r.left) /\ next.nextLeaf = N => z.nextLeaf = N
        /\ Feeds(p, n, i, r.left) /\ next.nextLeaf # N => z.nextLeaf = next.nextLeaf + 1
        /\ z.nextLeaf \in 0..Pow2[p.th]
        /\ Built(p, <<i, TreeAt(p, n + 1, i) + 1>>, z, z.nextLeaf)
        /\ z.peak \in 0..(p.th + 1)
        /\ ~NextExists(p, n + 1, i) => z.nextLeaf = 0
        /\ NextExists(p, n + 1, i) <=> NextExists(p, n, i)
    BY <1>1, <1>2, <2>1, FeedNextResult
  <2>3. next.nextLeaf \in 0..N /\ Fed(p, n, i, st, next) BY <2>1, <1>1, <1>9 DEF Coming
  <2> HIDE DEF z
  <2>4. CASE next.nextLeaf = N
    BY <2>2, <2>4 DEF Fed, z
  <2>5. CASE next.nextLeaf # N
    <3>1. o \in Nat /\ 4 <= N BY <1>1, <1>9 DEF Offer
    <3>2. c \in Nat /\ d \in Nat BY <1>1, CalmIs
    <3>3. d <= c + q BY <3>1, <1>1, CalmGrows
    <3>4. Demanded(p, st, x) + o * (N - next.nextLeaf) <= o * (k - c) BY <2>3, <2>5 DEF Fed, x
    <3>5. k \in Int BY ONLY <1>1, <1>7, i \in Nat
    <3>6. Quiet(p, n + 1, i) => o <= u OBVIOUS
    <3> HIDE DEF o, c, d, q, k, N
    <3>7. PICK v \in Nat : v = N - next.nextLeaf BY <1>1, <2>3
    <3>8. PICK w \in Nat : w = N - z.nextLeaf BY <1>1, <2>2 DEF N
    <3>9. Demanded(p, r.st, x) + o * w + o * q <= Demanded(p, st, x) + o * v
      <4>1. PICK old \in Nat : old = Demanded(p, st, x) BY <1>8
      <4>2. PICK new \in Nat : new = Demanded(p, r.st, x) BY <1>8
      <4>3. new = old - e BY <1>5, <4>1, <4>2
      <4>4. e \in Nat BY <1>1
      <4>5. CASE Feeds(p, n, i, r.left)
        <5>1. v = w + 1 BY <4>5, <2>2, <2>3, <2>5, <3>7, <3>8, <1>1
        <5>2. q \in {0, 1} BY DEF q
        <5>3. o * v = o * w + o /\ o * w \in Nat /\ o * v \in Nat
          BY ONLY <5>1, <3>1, v \in Nat, w \in Nat
        <5>4. o * q <= o /\ o * q \in Nat
          <6>1. CASE q = 0
            <7>1. o * q = 0 BY <6>1, <3>1
            <7> QED BY <7>1, <3>1
          <6>2. CASE q = 1
            <7>1. o * q = o BY <6>2, <3>1
            <7> QED BY <7>1, <3>1
          <6> QED BY <5>2, <6>1, <6>2
        <5>5. PICK ow \in Nat : ow = o * w BY <5>3
        <5>6. PICK oq \in Nat : oq = o * q BY <5>4
        <5>7. PICK ov \in Nat : ov = o * v BY <5>3
        <5>8. ov = ow + o /\ oq <= o BY <5>3, <5>4, <5>5, <5>6, <5>7
        <5>9. new + ow + oq <= old + ov
          BY ONLY <5>8, <4>3, <4>4, <3>1, new \in Nat, old \in Nat, ow \in Nat, oq \in Nat,
                  ov \in Nat
        <5> QED BY <5>9, <5>5, <5>6, <5>7, <4>1, <4>2
      <4>6. CASE ~Feeds(p, n, i, r.left)
        <5>1. v = w BY <4>6, <2>2, <3>7, <3>8
        <5>2. r.left = 0 BY <4>6, <1>1, <1>9 DEF Feeds
        <5>3. e = u BY <5>2, <1>5, <1>1
        <5>4. o * q <= e /\ o * q \in Nat
          <6>1. CASE Quiet(p, n + 1, i)
            <7>1. q = 1 BY <6>1 DEF q
            <7>2. o * q = o BY <7>1, <3>1
            <7> QED BY <7>2, <6>1, <3>6, <5>3, <3>1
          <6>2. CASE ~Quiet(p, n + 1, i)
            <7>1. q = 0 BY <6>2 DEF q
            <7>2. o * q = 0 BY <7>1, <3>1
            <7> QED BY <7>2, <4>4
          <6> QED BY <6>1, <6>2
        <5>5. o * w \in Nat BY ONLY <3>1, w \in Nat
        <5>6. PICK ow \in Nat : ow = o * w BY <5>5
        <5>7. PICK oq \in Nat : oq = o * q BY <5>4
        <5>8. new + ow + oq <= old + ow
          BY ONLY <5>4, <5>7, <4>3, <4>4, new \in Nat, old \in Nat, ow \in Nat, oq \in Nat
        <5> QED BY <5>1, <5>6, <5>7, <5>8, <4>1, <4>2
      <4> QED BY <4>5, <4>6
    <3>10. q \in {0, 1} BY DEF q
    <3>11. Demanded(p, st, x) + o * v <= o * (k - c) BY <3>4, <3>7
    <3>12. Demanded(p, r.st, x) + o * w <= o * (k - d)
      BY ONLY <3>1, <3>2, <3>3, <3>5, <3>9, <3>10, <3>11, <1>8, v \in Nat, w \in Nat,
              ShareFits
    <3> QED BY <3>12, <3>8, <1>2 DEF Fed, z, o, d, k, N
  <2> QED BY <2>4, <2>5 DEF z
<1>10. Layer(p, n + 1, i, r.st, FeedNext(p, n, i, next, r.left), sig, first, 0)
  BY <1>1, <1>2, <1>4, <1>9, StayLayer
<1>11. ASSUME i <= p.d - 2
       PROVE  /\ LeftOver(p, n, i, r.left) \in 0..b
              /\ Quiet(p, n + 1, i + 1) => Offer(p, i + 1) <= LeftOver(p, n, i, r.left)
  <2>1. LeftOver(p, n, i, r.left) \in 0..b BY <1>1, <1>5 DEF LeftOver, Feeds
  <2>2. ASSUME Quiet(p, n + 1, i + 1) PROVE Offer(p, i + 1) <= LeftOver(p, n, i, r.left)
    <3>1. N - 2 <= x
      <4>1. i \in 0..((i + 1) - 1) BY <1>1
      <4> QED BY <4>1, <2>2, <1>2 DEF Quiet
    <3>2. Quiet(p, n + 1, i)
      <4>1. \A j \in 0..(i - 1) : j \in 0..((i + 1) - 1) BY <1>1
      <4> QED BY <4>1, <2>2 DEF Quiet
    <3>3. r.left = u BY <3>1, <1>1, <1>5
    <3>4. Offer(p, i) <= u BY <3>2
    <3> QED BY <3>3, <3>4, <1>1 DEF LeftOver, Offer
  <2> QED BY <2>1, <2>2
<1> QED BY <1>10, <1>11 DEF r, a

-----------------------------------------------------------------------------
(* sts has a traversal state for every current tree and every next one. *)
IsStates(p, sts) == sts = [k \in 0..(2 * p.d - 2) |-> sts[k]]

(* sts with another state of tree i. *)
Replaced(sts, i, v) == [sts EXCEPT ![i] = v]

(* Replacing the state of one tree leaves the others as they were.           *)
LEMMA OneStateReplaced ==
  ASSUME NEW p, NEW sts, IsStates(p, sts), NEW i \in 0..(2 * p.d - 2), NEW v
  PROVE  LET t == Replaced(sts, i, v) IN
         /\ IsStates(p, t)
         /\ t[i] = v
         /\ \A k \in 0..(2 * p.d - 2) : k # i => t[k] = sts[k]
<1> DEFINE D == 0..(2 * p.d - 2)
           t == Replaced(sts, i, v)
<1>1. sts = [k \in D |-> sts[k]] BY DEF IsStates
<1> HIDE DEF D
<1>2. t = [k \in D |-> IF k = i THEN v ELSE sts[k]] BY <1>1 DEF Replaced
<1>3. i \in D BY DEF D
<1> HIDE DEF t
<1>4. t[i] = v /\ \A k \in D : k # i => t[k] = sts[k] BY <1>2, <1>3
<1>5. t = [k \in D |-> t[k]] BY <1>2
<1> QED BY <1>4, <1>5 DEF t, D, IsStates

(* A complete tree of one layer is never as large as the hypertree, so that  *)
(* the comparison of next_leaf with 2^full_height always holds.              *)
LEMMA MayFeedIs ==
  ASSUME NEW p \in ParamSets, NEW n \in Nat, NEW i \in 0..(p.d - 2), NEW sts,
         sts[p.d + i].nextLeaf \in 0..Pow2[p.th], NEW l
  PROVE  MayFeedNext(p, n, i, sts, l) <=> Feeds(p, n, i, l)
<1>1. p.th \in Nat /\ p.th # 0 /\ p.d \in Nat /\ p.d >= 2 BY MtSizes
<1>2. p.th + 1 <= p.th * p.d /\ p.th * p.d \in Nat
  <2>1. PICK c \in Nat : p.d = 2 + c
    <3>1. p.d - 2 \in Nat /\ p.d = 2 + (p.d - 2) BY <1>1
    <3> QED BY <3>1
  <2>2. PICK t \in Nat : t = p.th BY <1>1
  <2>3. t * (2 + c) = t + t + t * c /\ t * c \in Nat BY ONLY c \in Nat, t \in Nat
  <2>4. PICK tc \in Nat : tc = t * c BY <2>3
  <2>5. t * p.d = t + t + tc BY <2>1, <2>3, <2>4
  <2> QED BY <2>2, <2>5, <1>1
<1>3. p.th + 1 \in Nat BY <1>1
<1>4. Pow2[p.th + 1] <= Pow2[p.th * p.d] BY <1>2, <1>3, Pow2Monotone
<1>5. Pow2[p.th + 1] = 2 * Pow2[p.th] /\ Pow2[p.th] \in Nat \ {0} BY <1>1, Pow2Recursion
<1>6. Pow2[p.th * p.d] \in Nat BY <1>2, Pow2Recursion
<1>7. sts[p.d + i].nextLeaf < Pow2[p.th * p.d] BY <1>4, <1>5, <1>6
<1> QED BY <1>7 DEF MayFeedNext, Feeds

(* The loop body for a layer whose tree ends, field by field.                *)
LEMMA SwapInResult ==
  ASSUME NEW p \in ParamSets, NEW n, NEW i \in 0..(p.d - 2), NEW s, IsLoopState(s),
         IsStates(p, s.states), RootsSigned(p, s.wots)
  PROVE  LET t == SwapIn(p, n, i, s) IN
         /\ IsLoopState(t) /\ IsStates(p, t.states) /\ RootsSigned(p, t.wots)
         /\ t.states[i] = TakenOver(s.states[p.d + i])
         /\ t.states[p.d + i] = Emptied(s.states[i])
         /\ \A k \in 0..(2 * p.d - 2) : k # i /\ k # p.d + i => t.states[k] = s.states[k]
         /\ t.wots[i] = SignRoot(p, n, i, s.states[p.d + i].stack[0])
         /\ \A k \in 0..(p.d - 2) : k # i => t.wots[k] = s.wots[k]
         /\ t.updates = s.updates - 1 /\ t.swapped = i
<1> DEFINE t == SwapIn(p, n, i, s)
           w == SignRoot(p, n, i, s.states[p.d + i].stack[0])
           v == TakenOver(s.states[p.d + i])
           e == Emptied(s.states[i])
<1>1. p.d \in Nat /\ p.d >= 2 BY MtSizes
<1>2. t = [s EXCEPT !.states = [@ EXCEPT ![i] = v, ![p.d + i] = e],
                    !.wots = [@ EXCEPT ![i] = w], !.updates = @ - 1, !.swapped = i]
  BY Zenon DEF SwapIn, TakenOver
<1> HIDE DEF t, v, e, w
<1> DEFINE one == [s.states EXCEPT ![i] = v]
           two == [one EXCEPT ![p.d + i] = e]
<1>3. t = [states |-> two, wots |-> [s.wots EXCEPT ![i] = w],
           updates |-> s.updates - 1, swapped |-> i]
  BY <1>2 DEF IsLoopState
<1> HIDE DEF one, two
<1>4. /\ t.states = two /\ t.wots = [s.wots EXCEPT ![i] = w]
      /\ t.updates = s.updates - 1 /\ t.swapped = i
  BY ONLY <1>3
<1>5. IsLoopState(t) BY ONLY <1>3, <1>4 DEF IsLoopState
<1>6. i \in 0..(2 * p.d - 2) /\ p.d + i \in 0..(2 * p.d - 2) /\ p.d + i # i BY <1>1
<1>7. /\ IsStates(p, one) /\ one[i] = v
      /\ \A k \in 0..(2 * p.d - 2) : k # i => one[k] = s.states[k]
  <2>1. one = Replaced(s.states, i, v) BY DEF one, Replaced
  <2> QED BY <1>6, <2>1, OneStateReplaced
<1>8. /\ IsStates(p, two) /\ two[p.d + i] = e
      /\ \A k \in 0..(2 * p.d - 2) : k # p.d + i => two[k] = one[k]
  <2>1. two = Replaced(one, p.d + i, e) BY DEF two, Replaced
  <2> QED BY <1>6, <1>7, <2>1, OneStateReplaced
<1>9. /\ RootsSigned(p, t.wots) /\ t.wots[i] = w
      /\ \A k \in 0..(p.d - 2) : k # i => t.wots[k] = s.wots[k]
  <2> DEFINE D == 0..(p.d - 2)
             x == [s.wots EXCEPT ![i] = w]
  <2>1. s.wots = [k \in D |-> s.wots[k]] BY DEF RootsSigned
  <2>2. i \in D OBVIOUS
  <2> HIDE DEF D
  <2>3. x = [k \in D |-> IF k = i THEN w ELSE s.wots[k]] BY <2>1
  <2> HIDE DEF x
  <2>4. x[i] = w /\ \A k \in D : k # i => x[k] = s.wots[k] BY <2>2, <2>3
  <2>5. x = [k \in D |-> x[k]] BY <2>3
  <2>6. t.wots = x BY <1>4 DEF x
  <2> QED BY <2>4, <2>5, <2>6 DEF D, RootsSigned
<1>10. \A k \in 0..(2 * p.d - 2) : k # i /\ k # p.d + i => t.states[k] = s.states[k]
  BY <1>4, <1>7, <1>8
<1>11. t.states[i] = v /\ t.states[p.d + i] = e BY <1>4, <1>6, <1>7, <1>8
<1> QED BY <1>4, <1>5, <1>8, <1>9, <1>10, <1>11 DEF t, v, e, w

(* The loop body for a layer whose tree goes on, field by field.             *)
LEMMA StayResult ==
  ASSUME NEW p \in ParamSets, NEW n \in Nat, NEW i \in 0..(p.d - 1), NEW s, IsLoopState(s),
         IsStates(p, s.states),
         i < p.d - 1 => s.states[p.d + i].nextLeaf \in 0..Pow2[p.th],
         NEW st, st = (IF RoundDue(i, s)
                       THEN BdsRound(p, <<i, TreeAt(p, n, i)>>, s.states[i], LeafAt(p, n, i))
                       ELSE s.states[i])
  PROVE  LET t == StayInTree(p, n, i, s)
             r == BdsTreehashUpdate(p, <<i, TreeAt(p, n, i)>>, st, s.updates)
         IN  /\ IsLoopState(t) /\ IsStates(p, t.states)
             /\ t.wots = s.wots /\ t.swapped = s.swapped
             /\ t.states[i] = r.st
             /\ i < p.d - 1 =>
                  /\ t.states[p.d + i] = FeedNext(p, n, i, s.states[p.d + i], r.left)
                  /\ t.updates = LeftOver(p, n, i, r.left)
             /\ \A k \in 0..(2 * p.d - 2) : k # i /\ k # p.d + i => t.states[k] = s.states[k]
<1> DEFINE t == StayInTree(p, n, i, s)
           a == <<i, TreeAt(p, n, i)>>
           r == BdsTreehashUpdate(p, a, st, s.updates)
           sts == [s.states EXCEPT ![i] = r.st]
           D == 0..(2 * p.d - 2)
<1>1. p.d \in Nat /\ p.d >= 2 /\ p.th \in Nat BY MtSizes
<1>2. IsLoopState(t) /\ t.wots = s.wots /\ t.swapped = s.swapped BY StayFields
<1>3. i \in D BY <1>1
<1>4. IsStates(p, sts) /\ sts[i] = r.st /\ \A k \in D : k # i => sts[k] = s.states[k]
  <2>1. PICK v : v = r.st OBVIOUS
  <2>2. sts = Replaced(s.states, i, v) BY <2>1 DEF Replaced
  <2> HIDE DEF r, sts
  <2> QED BY <2>1, <2>2, <1>3, OneStateReplaced
<1>5. t = IF MayFeedNext(p, n, i, sts, r.left)
          THEN [s EXCEPT !.states = [sts EXCEPT ![p.d + i] =
                                       BdsStateUpdate(p, <<i, a[2] + 1>>, @)],
                         !.updates = r.left - 1]
          ELSE [s EXCEPT !.states = sts, !.updates = r.left]
  BY Zenon DEF StayInTree
<1>6. a[2] = TreeAt(p, n, i) OBVIOUS
<1> HIDE DEF t, a, r, sts
<1>7. CASE MayFeedNext(p, n, i, sts, r.left)
  <2> DEFINE z == BdsStateUpdate(p, <<i, TreeAt(p, n, i) + 1>>, sts[p.d + i])
             two == [sts EXCEPT ![p.d + i] = z]
  <2>1. t = [s EXCEPT !.states = two, !.updates = r.left - 1] BY <1>5, <1>6, <1>7
  <2> HIDE DEF two, z
  <2>2. t = [states |-> two, wots |-> s.wots, updates |-> r.left - 1,
             swapped |-> s.swapped]
    BY <2>1 DEF IsLoopState
  <2>3. t.states = two /\ t.updates = r.left - 1 BY ONLY <2>2
  <2>4. i # p.d - 1
    <3>1. i = p.d - 1 => ~NextExists(p, n, i) BY <1>1, NextExistsWhen
    <3> QED BY <3>1, <1>7 DEF MayFeedNext
  <2>5. i \in 0..(p.d - 2) /\ p.d + i \in D /\ p.d + i # i BY <1>1, <2>4
  <2>6. IsStates(p, two) /\ two[p.d + i] = z /\ \A k \in D : k # p.d + i => two[k] = sts[k]
    <3>1. two = Replaced(sts, p.d + i, z) BY DEF two, Replaced
    <3> QED BY <3>1, <1>4, <2>5, OneStateReplaced
  <2>7. sts[p.d + i] = s.states[p.d + i] BY <1>4, <2>5
  <2>8. Feeds(p, n, i, r.left)
    <3>1. sts[p.d + i].nextLeaf \in 0..Pow2[p.th] BY <2>5, <2>7, <1>1
    <3> QED BY <3>1, <2>5, <1>7, MayFeedIs
  <2>9. /\ t.states[p.d + i] = FeedNext(p, n, i, s.states[p.d + i], r.left)
        /\ t.updates = LeftOver(p, n, i, r.left)
    BY <2>3, <2>6, <2>7, <2>8 DEF FeedNext, LeftOver, z
  <2>10. t.states[i] = r.st BY <2>3, <2>5, <2>6, <1>3, <1>4
  <2>11. \A k \in D : k # i /\ k # p.d + i => t.states[k] = s.states[k]
    BY <2>3, <2>6, <1>4
  <2> QED BY <1>2, <2>3, <2>6, <2>9, <2>10, <2>11 DEF t, r, a
<1>8. CASE ~MayFeedNext(p, n, i, sts, r.left)
  <2>1. t = [s EXCEPT !.states = sts, !.updates = r.left] BY <1>5, <1>8
  <2>2. t = [states |-> sts, wots |-> s.wots, updates |-> r.left, swapped |-> s.swapped]
    BY <2>1 DEF IsLoopState
  <2>3. t.states = sts /\ t.updates = r.left BY ONLY <2>2
  <2>4. ASSUME i < p.d - 1
        PROVE  /\ t.states[p.d + i] = FeedNext(p, n, i, s.states[p.d + i], r.left)
               /\ t.updates = LeftOver(p, n, i, r.left)
    <3>1. i \in 0..(p.d - 2) /\ p.d + i \in D /\ p.d + i # i BY <1>1, <2>4
    <3>2. sts[p.d + i] = s.states[p.d + i] BY <1>4, <3>1
    <3>3. ~Feeds(p, n, i, r.left)
      <4>1. sts[p.d + i].nextLeaf \in 0..Pow2[p.th] BY <3>2, <2>4
      <4> QED BY <4>1, <3>1, <1>8, MayFeedIs
    <3> QED BY <2>3, <3>2, <3>3 DEF FeedNext, LeftOver
  <2>5. t.states[i] = r.st BY <2>3, <1>4
  <2>6. \A k \in D : k # i /\ k # p.d + i => t.states[k] = s.states[k] BY <2>3, <1>4
  <2>7. IsStates(p, t.states) BY <2>3, <1>4
  <2> QED BY <1>2, <2>4, <2>5, <2>6, <2>7 DEF t, r, a
<1> QED BY <1>7, <1>8

(* Layer i of the hypertree, with all it has for call n.                     *)
At(p, n, i, sts, ws, first, c) == Layer(p, n, i, sts[i], sts[p.d + i], ws[i], first, c)

(* A layer keeps what it has when only other layers change.                  *)
LEMMA LayerKept ==
  ASSUME NEW p \in ParamSets, NEW n, NEW i \in 0..(p.d - 1), NEW j \in 0..(p.d - 1), j # i,
         NEW sts, NEW ws, NEW first, NEW c, NEW new, NEW nws,
         \A k \in 0..(2 * p.d - 2) : k # i /\ k # p.d + i => new[k] = sts[k],
         \A k \in 0..(p.d - 2) : k # i => nws[k] = ws[k],
         At(p, n, j, sts, ws, first, c)
  PROVE  At(p, n, j, new, nws, first, c)
<1>1. p.d \in Nat /\ p.d >= 2 BY MtSizes
<1>2. j \in 0..(2 * p.d - 2) /\ j # p.d + i BY <1>1
<1>3. new[j] = sts[j] BY <1>2
<1>4. CASE j < p.d - 1
  <2>1. p.d + j \in 0..(2 * p.d - 2) /\ p.d + j # i /\ p.d + j # p.d + i BY <1>1, <1>4
  <2>2. new[p.d + j] = sts[p.d + j] BY <2>1
  <2>3. j \in 0..(p.d - 2) BY <1>1, <1>4
  <2>4. nws[j] = ws[j] BY <2>3
  <2> QED BY <1>3, <2>2, <2>4 DEF At
<1>5. CASE ~(j < p.d - 1)
  BY <1>3, <1>5 DEF At, Layer
<1> QED BY <1>4, <1>5

(* The path of layer k moves on when every tree below it has just ended and  *)
(* given way to the next one.                                                *)
Due(p, n, k) == k = 0 \/ (n < Capacity(p) - 1 /\ Ended(p, n, k))

(* What the loop has left when it comes to layer k.                          *)
Left(p, n, k, s) ==
  /\ Due(p, n, k) => s.updates = Budget(p) - k /\ s.swapped = k - 1
  /\ ~Due(p, n, k) => /\ s.updates \in 0..Budget(p)
                      /\ s.swapped \in Int /\ s.swapped < k - 1
  /\ ~Due(p, n, k) /\ n < Capacity(p) - 1 /\ Quiet(p, n + 1, k) => Offer(p, k) <= s.updates

(* The layers below k have what call n + 1 needs, the others what call n did. *)
Halfway(p, n, k, s, first) ==
  /\ IsLoopState(s) /\ IsStates(p, s.states) /\ RootsSigned(p, s.wots)
  /\ \A i \in 0..(p.d - 1) : IF i < k THEN At(p, n + 1, i, s.states, s.wots, first, 0)
                             ELSE At(p, n, i, s.states, s.wots, first, 1)
  /\ k < p.d => Left(p, n, k, s)

(* The loop body for a layer whose tree ends and gives way to the next.      *)
LEMMA SwapTurn ==
  ASSUME NEW p \in ParamSets, Suffices(p), NEW n \in Nat, NEW k \in 0..(p.d - 1),
         NEW s, NEW first, Halfway(p, n, k, s, first),
         EndOfTree(p, n, k), n < Capacity(p) - 1
  PROVE  Halfway(p, n, k + 1, LayerStep(p, n, k, s), first)
<1> DEFINE t == SwapIn(p, n, k, s)
<1>1. /\ p.th \in Nat /\ p.d \in Nat /\ p.d >= 2 /\ k \in Nat /\ Budget(p) \in 0..127
      /\ Capacity(p) \in Nat
  BY BudgetSizes
<1>2. At(p, n, k, s.states, s.wots, first, 1) BY <1>1 DEF Halfway
<1>3. /\ k <= p.d - 2
      /\ Layer(p, n + 1, k, TakenOver(s.states[p.d + k]), Emptied(s.states[k]),
               SignRoot(p, n, k, s.states[p.d + k].stack[0]), first, 0)
  BY <1>2, SwapLayer DEF At
<1>4. k \in 0..(p.d - 2) BY <1>1, <1>3
<1>5. /\ IsLoopState(t) /\ IsStates(p, t.states) /\ RootsSigned(p, t.wots)
      /\ t.states[k] = TakenOver(s.states[p.d + k])
      /\ t.states[p.d + k] = Emptied(s.states[k])
      /\ \A j \in 0..(2 * p.d - 2) : j # k /\ j # p.d + k => t.states[j] = s.states[j]
      /\ t.wots[k] = SignRoot(p, n, k, s.states[p.d + k].stack[0])
      /\ \A j \in 0..(p.d - 2) : j # k => t.wots[j] = s.wots[j]
      /\ t.updates = s.updates - 1 /\ t.swapped = k
  BY <1>4, SwapInResult DEF Halfway
<1> HIDE DEF t
<1>6. At(p, n + 1, k, t.states, t.wots, first, 0) BY <1>3, <1>5 DEF At
<1>7. ASSUME NEW i \in 0..(p.d - 1)
      PROVE  IF i < k + 1 THEN At(p, n + 1, i, t.states, t.wots, first, 0)
             ELSE At(p, n, i, t.states, t.wots, first, 1)
  <2>1. CASE i = k
    <3>1. i < k + 1 BY <2>1, <1>1
    <3> QED BY <3>1, <2>1, <1>6
  <2>2. CASE i # k
    <3>1. IF i < k THEN At(p, n + 1, i, s.states, s.wots, first, 0)
          ELSE At(p, n, i, s.states, s.wots, first, 1)
      BY DEF Halfway
    <3>2. i < k + 1 <=> i < k BY <2>2, <1>1
    <3>3. \A m, c : At(p, m, i, s.states, s.wots, first, c)
                      => At(p, m, i, t.states, t.wots, first, c)
      BY <2>2, <1>5, LayerKept
    <3> QED BY <3>1, <3>2, <3>3
  <2> QED BY <2>1, <2>2
<1>8. ASSUME k + 1 < p.d PROVE Left(p, n, k + 1, t)
  <2>1. Ended(p, n, k) /\ Ended(p, n, k + 1)
    BY <1>1, EndedBelow, NextLeafAt
  <2>2. Due(p, n, k) /\ Due(p, n, k + 1) BY <2>1 DEF Due
  <2>3. s.updates = Budget(p) - k BY <2>2, <1>1, <1>8 DEF Halfway, Left
  <2>4. t.updates = Budget(p) - (k + 1) /\ t.swapped = (k + 1) - 1 BY <2>3, <1>1, <1>5
  <2> QED BY <2>2, <2>4 DEF Left
<1>9. LayerStep(p, n, k, s) = t BY DEF LayerStep, t
<1> QED BY <1>5, <1>7, <1>8, <1>9 DEF Halfway

(* The loop body for the last tree of a layer: nothing is left to prepare.   *)
LEMMA EndTurn ==
  ASSUME NEW p \in ParamSets, Suffices(p), NEW n \in Nat, NEW k \in 0..(p.d - 1),
         NEW s, NEW first, Halfway(p, n, k, s, first),
         EndOfTree(p, n, k), ~(n < Capacity(p) - 1)
  PROVE  Halfway(p, n, k + 1, LayerStep(p, n, k, s), first)
<1>1. /\ p.th \in Nat /\ p.d \in Nat /\ p.d >= 2 /\ k \in Nat /\ Budget(p) \in 0..127
      /\ Capacity(p) \in Nat /\ Capacity(p) - 1 <= n
  BY BudgetSizes
<1>2. At(p, n, k, s.states, s.wots, first, 1) BY <1>1 DEF Halfway
<1>3. At(p, n + 1, k, s.states, s.wots, first, 0) BY <1>1, <1>2, EndLayer DEF At
<1>4. ASSUME NEW i \in 0..(p.d - 1)
      PROVE  IF i < k + 1 THEN At(p, n + 1, i, s.states, s.wots, first, 0)
             ELSE At(p, n, i, s.states, s.wots, first, 1)
  <2>1. CASE i = k
    <3>1. i < k + 1 BY <2>1, <1>1
    <3> QED BY <3>1, <2>1, <1>3
  <2>2. CASE i # k
    <3>1. i < k + 1 <=> i < k BY <2>2, <1>1
    <3> QED BY <3>1 DEF Halfway
  <2> QED BY <2>1, <2>2
<1>5. ASSUME k + 1 < p.d PROVE Left(p, n, k + 1, s)
  <2>1. ~Due(p, n, k + 1) BY <1>1 DEF Due
  <2>2. Left(p, n, k, s) BY <1>1, <1>5 DEF Halfway
  <2>3. k = 0 <=> Due(p, n, k) BY DEF Due
  <2>4. s.updates \in 0..Budget(p) /\ s.swapped \in Int /\ s.swapped < (k + 1) - 1
    <3>1. CASE k = 0
      BY <3>1, <2>2, <2>3, <1>1 DEF Left
    <3>2. CASE k # 0
      BY <3>2, <2>2, <2>3, <1>1 DEF Left
    <3> QED BY <3>1, <3>2
  <2> QED BY <2>1, <2>4 DEF Left
<1>6. LayerStep(p, n, k, s) = s BY DEF LayerStep
<1> QED BY <1>4, <1>5, <1>6 DEF Halfway

(* The loop body for a layer whose tree goes on, when the layer then has     *)
(* what the next call needs and leaves the others enough.                    *)
LEMMA StayTurnFrom ==
  ASSUME NEW p \in ParamSets, Suffices(p), NEW n \in Nat, NEW k \in 0..(p.d - 1),
         NEW s, NEW first, Halfway(p, n, k, s, first), ~EndOfTree(p, n, k),
         NEW st, st = (IF RoundDue(k, s)
                       THEN BdsRound(p, <<k, TreeAt(p, n, k)>>, s.states[k], LeafAt(p, n, k))
                       ELSE s.states[k]),
         NEW r, r = BdsTreehashUpdate(p, <<k, TreeAt(p, n, k)>>, st, s.updates),
         Layer(p, n + 1, k, r.st, FeedNext(p, n, k, s.states[p.d + k], r.left), s.wots[k],
               first, 0),
         k <= p.d - 2 =>
           /\ LeftOver(p, n, k, r.left) \in 0..Budget(p)
           /\ n < Capacity(p) - 1 /\ Quiet(p, n + 1, k + 1)
                => Offer(p, k + 1) <= LeftOver(p, n, k, r.left)
  PROVE  Halfway(p, n, k + 1, LayerStep(p, n, k, s), first)
<1> DEFINE t == StayInTree(p, n, k, s)
<1>1. /\ p.th \in Nat /\ p.d \in Nat /\ p.d >= 2 /\ k \in Nat /\ Budget(p) \in 0..127
      /\ Capacity(p) \in Nat
  BY BudgetSizes
<1>2. At(p, n, k, s.states, s.wots, first, 1) BY <1>1 DEF Halfway
<1>3. k < p.d - 1 => s.states[p.d + k].nextLeaf \in 0..Pow2[p.th]
  BY <1>2 DEF At, Layer, Coming
<1>4. /\ IsLoopState(t) /\ IsStates(p, t.states)
      /\ t.wots = s.wots /\ t.swapped = s.swapped
      /\ t.states[k] = r.st
      /\ k < p.d - 1 =>
           /\ t.states[p.d + k] = FeedNext(p, n, k, s.states[p.d + k], r.left)
           /\ t.updates = LeftOver(p, n, k, r.left)
      /\ \A j \in 0..(2 * p.d - 2) : j # k /\ j # p.d + k => t.states[j] = s.states[j]
  BY <1>3, StayResult DEF Halfway
<1> HIDE DEF t
<1>5. At(p, n + 1, k, t.states, t.wots, first, 0)
  <2>1. CASE k < p.d - 1 BY <2>1, <1>4 DEF At
  <2>2. CASE ~(k < p.d - 1) BY <2>2, <1>4 DEF At, Layer
  <2> QED BY <2>1, <2>2
<1>6. ASSUME NEW i \in 0..(p.d - 1)
      PROVE  IF i < k + 1 THEN At(p, n + 1, i, t.states, t.wots, first, 0)
             ELSE At(p, n, i, t.states, t.wots, first, 1)
  <2>1. CASE i = k
    <3>1. i < k + 1 BY <2>1, <1>1
    <3> QED BY <3>1, <2>1, <1>5
  <2>2. CASE i # k
    <3>1. IF i < k THEN At(p, n + 1, i, s.states, s.wots, first, 0)
          ELSE At(p, n, i, s.states, s.wots, first, 1)
      BY DEF Halfway
    <3>2. i < k + 1 <=> i < k BY <2>2, <1>1
    <3>3. \A m, c : At(p, m, i, s.states, s.wots, first, c)
                      => At(p, m, i, t.states, t.wots, first, c)
      BY <2>2, <1>4, LayerKept
    <3> QED BY <3>1, <3>2, <3>3
  <2> QED BY <2>1, <2>2
<1>7. ASSUME k + 1 < p.d PROVE Left(p, n, k + 1, t)
  <2>1. ~Ended(p, n, k + 1) BY <1>1, EndedBelow
  <2>2. ~Due(p, n, k + 1) BY <2>1, <1>1 DEF Due
  <2>3. s.swapped \in Int /\ s.swapped < (k + 1) - 1
    <3>1. CASE Due(p, n, k)
      <4>1. s.swapped = k - 1 BY <3>1, <1>1, <1>7 DEF Halfway, Left
      <4> QED BY <4>1, <1>1
    <3>2. CASE ~Due(p, n, k)
      <4>1. s.swapped \in Int /\ s.swapped < k - 1 BY <3>2, <1>1, <1>7 DEF Halfway, Left
      <4> QED BY <4>1, <1>1
    <3> QED BY <3>1, <3>2
  <2>4. k <= p.d - 2 /\ k < p.d - 1 BY <1>1, <1>7
  <2>5. t.updates = LeftOver(p, n, k, r.left) /\ t.swapped = s.swapped BY <2>4, <1>4
  <2> QED BY <2>2, <2>3, <2>4, <2>5 DEF Left
<1>8. LayerStep(p, n, k, s) = t BY DEF LayerStep, t
<1>9. RootsSigned(p, t.wots) BY <1>4 DEF Halfway
<1> QED BY <1>4, <1>6, <1>7, <1>8, <1>9 DEF Halfway

(* The loop body for a layer whose tree goes on.                             *)
LEMMA StayTurn ==
  ASSUME NEW p \in ParamSets, Suffices(p), NEW n \in Nat, NEW k \in 0..(p.d - 1),
         NEW s, NEW first, Halfway(p, n, k, s, first), ~EndOfTree(p, n, k)
  PROVE  Halfway(p, n, k + 1, LayerStep(p, n, k, s), first)
<1> DEFINE a == <<k, TreeAt(p, n, k)>>
<1>1. /\ p.th \in Nat /\ p.d \in Nat /\ p.d >= 2 /\ k \in Nat /\ Budget(p) \in 0..127
      /\ Capacity(p) \in Nat /\ p.d - 2 <= Budget(p) /\ k < p.d
  BY BudgetSizes
<1>2. Layer(p, n, k, s.states[k], s.states[p.d + k], s.wots[k], first, 1)
  BY <1>1 DEF Halfway, At
<1>3. Left(p, n, k, s) BY <1>1 DEF Halfway
<1> HIDE DEF a
<1>4. CASE Due(p, n, k)
  <2> DEFINE st == BdsRound(p, a, s.states[k], LeafAt(p, n, k))
             r == BdsTreehashUpdate(p, a, st, Budget(p) - k)
  <2>1. s.updates = Budget(p) - k /\ s.swapped = k - 1 BY <1>3, <1>4 DEF Left
  <2>2. RoundDue(k, s) BY <2>1, <1>1 DEF RoundDue
  <2>3. /\ Layer(p, n + 1, k, r.st, FeedNext(p, n, k, s.states[p.d + k], r.left), s.wots[k],
                 first, 0)
        /\ k <= p.d - 2 =>
             /\ LeftOver(p, n, k, r.left) \in 0..Budget(p)
             /\ Quiet(p, n + 1, k + 1) => k = 0 /\ LeftOver(p, n, k, r.left) = Budget(p)
    BY <1>2, <1>4, RoundLayer DEF Due, a
  <2>4. st = (IF RoundDue(k, s)
              THEN BdsRound(p, <<k, TreeAt(p, n, k)>>, s.states[k], LeafAt(p, n, k))
              ELSE s.states[k])
    BY <2>2 DEF a
  <2>5. r = BdsTreehashUpdate(p, <<k, TreeAt(p, n, k)>>, st, s.updates) BY <2>1 DEF a
  <2> HIDE DEF r, st
  <2>6. k = 0 => Offer(p, k + 1) = Budget(p) BY <1>1 DEF Offer
  <2>7. k <= p.d - 2 =>
          /\ LeftOver(p, n, k, r.left) \in 0..Budget(p)
          /\ n < Capacity(p) - 1 /\ Quiet(p, n + 1, k + 1)
               => Offer(p, k + 1) <= LeftOver(p, n, k, r.left)
    BY <2>3, <2>6, <1>1
  <2> QED BY <2>3, <2>4, <2>5, <2>7, StayTurnFrom
<1>5. CASE ~Due(p, n, k)
  <2> DEFINE st == s.states[k]
             r == BdsTreehashUpdate(p, a, st, s.updates)
  <2>1. s.updates \in 0..Budget(p) /\ s.swapped \in Int /\ s.swapped < k - 1
    BY <1>3, <1>5 DEF Left
  <2>2. ~RoundDue(k, s) BY <2>1, <1>1 DEF RoundDue
  <2>3. k \in 1..(p.d - 1) BY <1>1, <1>5 DEF Due
  <2>4. /\ Layer(p, n + 1, k, r.st, FeedNext(p, n, k, s.states[p.d + k], r.left), s.wots[k],
                 first, 0)
        /\ k <= p.d - 2 =>
             /\ LeftOver(p, n, k, r.left) \in 0..Budget(p)
             /\ n < Capacity(p) - 1 /\ Quiet(p, n + 1, k + 1)
                  => Offer(p, k + 1) <= LeftOver(p, n, k, r.left)
    <3>1. CASE n < Capacity(p) - 1
      <4>1. ~Ended(p, n, k) BY <3>1, <1>5 DEF Due
      <4>2. Quiet(p, n + 1, k) => Offer(p, k) <= s.updates BY <3>1, <1>3, <1>5 DEF Left
      <4> QED BY <4>1, <4>2, <2>1, <2>3, <1>2, <3>1, LowerLayer DEF a
    <3>2. CASE ~(n < Capacity(p) - 1)
      <4>1. n # Capacity(p) - 1 BY <1>1, NextExistsWhen
      <4>2. Capacity(p) <= n BY <4>1, <3>2, <1>1
      <4>3. /\ Layer(p, n + 1, k, r.st, FeedNext(p, n, k, s.states[p.d + k], r.left),
                     s.wots[k], first, 0)
            /\ LeftOver(p, n, k, r.left) = s.updates
        BY <4>2, <2>1, <2>3, <1>2, LateLayer DEF a
      <4> QED BY <4>3, <3>2, <2>1
    <3> QED BY <3>1, <3>2
  <2>5. st = (IF RoundDue(k, s)
              THEN BdsRound(p, <<k, TreeAt(p, n, k)>>, s.states[k], LeafAt(p, n, k))
              ELSE s.states[k])
    BY <2>2
  <2>6. r = BdsTreehashUpdate(p, <<k, TreeAt(p, n, k)>>, st, s.updates) BY DEF a
  <2> HIDE DEF r, st
  <2> QED BY <2>4, <2>5, <2>6, StayTurnFrom
<1> QED BY <1>4, <1>5

(* The loop over the layers prepares call n + 1.                             *)
LEMMA LayersAdvance ==
  ASSUME NEW p \in ParamSets, Suffices(p), NEW n \in Nat, NEW sts, NEW ws, NEW first,
         IsStates(p, sts), RootsSigned(p, ws),
         \A i \in 0..(p.d - 1) : At(p, n, i, sts, ws, first, 0)
  PROVE  LET t == Advance(p, n, sts, ws) IN
         /\ IsStates(p, t.states) /\ RootsSigned(p, t.wots)
         /\ \A i \in 0..(p.d - 1) : At(p, n + 1, i, t.states, t.wots, first, 0)
<1> DEFINE t == Advance(p, n, sts, ws)
           s == AdvanceStart(p, n, sts, ws)
           z == IF NextExists(p, n, 0)
                THEN BdsStateUpdate(p, <<0, TreeAt(p, n, 0) + 1>>, sts[p.d]) ELSE sts[p.d]
<1>1. /\ p.th \in Nat /\ p.d \in Nat /\ p.d >= 2 /\ Budget(p) \in 0..127
      /\ Capacity(p) \in Nat \ {0}
  BY BudgetSizes
<1>2. 0 \in 0..(p.d - 1) /\ 0 < p.d - 1 /\ p.d + 0 = p.d /\ p.d \in 0..(2 * p.d - 2) BY <1>1
<1>3. /\ IsLoopState(s) /\ s.wots = ws
      /\ s.updates = Budget(p) /\ s.swapped = -1
      /\ s.states = IF NextExists(p, n, 0) THEN Replaced(sts, p.d, z) ELSE sts
  BY DEF AdvanceStart, IsLoopState, Budget, Replaced
<1>4. Layer(p, n, 0, sts[0], z, ws[0], first, 1)
  <2>1. Layer(p, n, 0, sts[0], sts[p.d], ws[0], first, 0) BY <1>2 DEF At
  <2> QED BY <2>1, FirstFed
<1> HIDE DEF z, s, t
<1>5. /\ IsStates(p, s.states) /\ s.states[p.d] = z
      /\ \A k \in 0..(2 * p.d - 2) : k # p.d => s.states[k] = sts[k]
  <2>1. CASE NextExists(p, n, 0)
    <3>1. s.states = Replaced(sts, p.d, z) BY <2>1, <1>3
    <3> QED BY <3>1, <1>2, OneStateReplaced
  <2>2. CASE ~NextExists(p, n, 0)
    BY <2>2, <1>3 DEF z
  <2> QED BY <2>1, <2>2
<1>6. Halfway(p, n, 0, s, first)
  <2>1. ASSUME NEW i \in 0..(p.d - 1) PROVE At(p, n, i, s.states, s.wots, first, 1)
    <3>1. CASE i = 0
      <4>1. s.states[0] = sts[0] BY <1>2, <1>5, <1>1
      <4> QED BY <4>1, <3>1, <1>2, <1>3, <1>4, <1>5 DEF At
    <3>2. CASE i # 0
      <4>1. At(p, n, i, sts, ws, first, 1)
        <5>1. At(p, n, i, sts, ws, first, 0) OBVIOUS
        <5> QED BY <5>1, <3>2 DEF At, Layer, Coming
      <4>2. \A k \in 0..(2 * p.d - 2) : k # 0 /\ k # p.d + 0 => s.states[k] = sts[k]
        BY <1>2, <1>5
      <4> QED BY <4>1, <4>2, <3>2, <1>2, <1>3, LayerKept
    <3> QED BY <3>1, <3>2
  <2>2. \A i \in 0..(p.d - 1) : ~(i < 0) BY <1>1
  <2>3. Left(p, n, 0, s)
    <3>1. Due(p, n, 0) BY DEF Due
    <3> QED BY <3>1, <1>1, <1>3 DEF Left
  <2> QED BY <2>1, <2>2, <2>3, <1>3, <1>5 DEF Halfway
<1>7. PICK g : /\ g[0] = s
               /\ \A k \in 1..p.d : g[k] = LayerStep(p, n, k - 1, g[k - 1])
               /\ t = g[p.d]
  BY <1>1, AdvanceLoop DEF s, t
<1> DEFINE S == {k \in Nat : k <= p.d => Halfway(p, n, k, g[k], first)}
<1>8. 0 \in S BY <1>6, <1>7
<1>9. ASSUME NEW k \in Nat, k \in S PROVE k + 1 \in S
  <2>1. CASE k + 1 <= p.d
    <3>1. k \in 0..(p.d - 1) /\ k + 1 \in 1..p.d /\ (k + 1) - 1 = k /\ k <= p.d
      BY <2>1, <1>1
    <3>2. Halfway(p, n, k, g[k], first) BY <3>1, <1>9
    <3>3. g[k + 1] = LayerStep(p, n, k, g[k]) BY <3>1, <1>7
    <3>4. Halfway(p, n, k + 1, g[k + 1], first)
      <4>1. PICK y : y = g[k] OBVIOUS
      <4>2. Halfway(p, n, k, y, first) BY <4>1, <3>2
      <4>3. Halfway(p, n, k + 1, LayerStep(p, n, k, y), first)
        <5>1. CASE ~EndOfTree(p, n, k) BY <5>1, <4>2, <3>1, StayTurn
        <5>2. CASE EndOfTree(p, n, k) /\ n < Capacity(p) - 1
          BY <5>2, <4>2, <3>1, SwapTurn
        <5>3. CASE EndOfTree(p, n, k) /\ ~(n < Capacity(p) - 1)
          BY <5>3, <4>2, <3>1, EndTurn
        <5> QED BY <5>1, <5>2, <5>3
      <4> QED BY <4>1, <4>3, <3>3
    <3> QED BY <3>4
  <2>2. CASE ~(k + 1 <= p.d) BY <2>2
  <2> QED BY <2>1, <2>2
<1>10. Nat \subseteq S
  <2> HIDE DEF S
  <2> QED BY <1>8, <1>9, SetInduction
<1>11. Halfway(p, n, p.d, t, first) BY <1>1, <1>7, <1>10
<1>12. \A i \in 0..(p.d - 1) : i < p.d BY <1>1
<1> QED BY <1>11, <1>12 DEF Halfway, t

-----------------------------------------------------------------------------
(* Before key generation nothing has happened. *)
Fresh ==
  pkRoot = Junk => /\ calls = 0 /\ skIdx = 0 /\ out = NoOutput
                   /\ states = [i \in 0..(2 * params.d - 2) |-> NewState(params)]

(* The index in the secret key counts the calls until it wraps. *)
Numbered == calls < params.space => skIdx = calls

(* Every layer has what the next call needs; once the index has wrapped the  *)
(* paths and the signatures on the roots are those of the last trees.        *)
LayersReady ==
  pkRoot # Junk =>
    \A i \in 0..(params.d - 1) :
      At(params, skIdx, i, states, wotsSigs, calls < params.space, 0)

(* What was put out last has the index before; if the index has a leaf, it   *)
(* is the signature that this index determines.                              *)
Returned ==
  out # NoOutput /\ calls <= params.space =>
    /\ calls # 0 /\ out.idx = calls - 1
    /\ out.idx < Capacity(params) => Honest(params, out)

(* The inductive invariant behind the theorems below.                        *)
IInv ==
  /\ params \in ParamSets
  /\ skIdx \in 0..(params.space - 1)
  /\ calls \in Nat
  /\ pkRoot # Junk => pkRoot = TreeRoot(params.th, <<params.d - 1, 0>>)
  /\ IsStates(params, states)
  /\ RootsSigned(params, wotsSigs)
  /\ Fresh
  /\ Numbered
  /\ LayersReady
  /\ Returned

(* Before key generation IInv holds.                                         *)
LEMMA InitIInv == Init => IInv
<1> SUFFICES ASSUME Init PROVE IInv OBVIOUS
<1>1. /\ params \in ParamSets /\ pkRoot = Junk /\ skIdx = 0 /\ calls = 0 /\ out = NoOutput
      /\ states = [i \in 0..(2 * params.d - 2) |-> NewState(params)]
      /\ wotsSigs = [i \in 0..(params.d - 2) |-> Junk]
  BY DEF Init
<1>2. skIdx \in 0..(params.space - 1)
  <2>1. params.space \in Nat /\ Capacity(params) \in Nat \ {0} /\ Capacity(params) <= params.space
    BY <1>1, MtSizes
  <2> QED BY <2>1, <1>1
<1>3. IsStates(params, states) /\ RootsSigned(params, wotsSigs)
  BY <1>1 DEF IsStates, RootsSigned
<1> QED BY <1>1, <1>2, <1>3 DEF IInv, Fresh, Numbered, LayersReady, Returned

(* Index 0 selects the first leaf of the first tree on every layer.          *)
LEMMA FirstIndex ==
  ASSUME NEW p \in ParamSets, Suffices(p), NEW i \in 0..(p.d - 1)
  PROVE  /\ LeafAt(p, 0, i) = 0 /\ TreeAt(p, 0, i) = 0
         /\ i # 0 /\ i <= Budget(p) => Calm(p, 0)[i] = 0
<1>1. /\ p.th \in Nat /\ p.d \in Nat /\ i \in Nat /\ Pow2[p.th] \in Nat /\ 2 <= Pow2[p.th]
      /\ Budget(p) \in 0..127 /\ (Budget(p) # 0 => 4 <= Pow2[p.th])
  BY BudgetSizes
<1>2. \A j \in Nat : LeafAt(p, 0, j) = 0 /\ TreeAt(p, 0, j) = 0
  <2> SUFFICES ASSUME NEW j \in Nat PROVE LeafAt(p, 0, j) = 0 /\ TreeAt(p, 0, j) = 0
    OBVIOUS
  <2>1. p.th * j \in Nat /\ p.th * (j + 1) \in Nat
    <3>1. j + 1 \in Nat OBVIOUS
    <3> QED BY ONLY <3>1, <1>1, TimesNat, j \in Nat
  <2>2. \A n \in Nat : Shr(0, n) = 0
    <3>1. \A n \in Nat : 0 < Pow2[n] BY Pow2Recursion
    <3> QED BY <3>1, ShrZero
  <2>3. 0 % Pow2[p.th] = 0
    <3>1. PICK m \in Nat : m = Pow2[p.th] /\ 2 <= m BY <1>1
    <3> QED BY <3>1
  <2> QED BY <2>1, <2>2, <2>3 DEF LeafAt, TreeAt
<1>3. ASSUME i # 0, i <= Budget(p) PROVE Calm(p, 0)[i] = 0
  <2>1. PICK j \in 0..(p.d - 1) : j + 1 = i /\ j \in Nat
    <3>1. i - 1 \in 0..(p.d - 1) /\ (i - 1) + 1 = i /\ i - 1 \in Nat BY <1>1, <1>3
    <3> QED BY <3>1
  <2>2. Calm(p, 0)[j + 1] = CalmStep(p, 0, j, Calm(p, 0)[j]) BY <1>1, CalmIs
  <2>3. LeafAt(p, 0, j) = 0 BY <1>2, <2>1
  <2>4. 4 <= Pow2[p.th] BY <1>1, <1>3
  <2>5. 0 # Pow2[p.th] - 1 /\ 0 # Pow2[p.th] - 2 BY <2>4, <1>1
  <2> QED BY <2>1, <2>2, <2>3, <2>5 DEF CalmStep
<1> QED BY <1>1, <1>2, <1>3

(* The state of a tree as key generation leaves it.                          *)
LEMMA GeneratedState ==
  ASSUME NEW p \in ParamSets, NEW a
  PROVE  LET built == TreehashInit(p, a, NewState(p)) IN
         /\ built.root = TreeRoot(p.th, a)
         /\ FullState(p, built.state) /\ AllDone(p, built.state)
         /\ Path(p, a, built.state, 0)
         /\ \A b, y, r : Serving(p, b, built.state, y, r)
<1> DEFINE built == TreehashInit(p, a, NewState(p))
<1>1. TreeParams(p) BY MtSizes
<1>2. /\ FullState(p, NewState(p)) /\ NewState(p).peak = 0 /\ NewState(p).offset = 0
  BY <1>1, NewStateFull
<1>3. Generated(p, a, NewState(p), built.root, built.state)
  <2>1. PICK st : st = NewState(p) OBVIOUS
  <2>2. FullState(p, st) BY <1>2, <2>1
  <2>3. LET b == TreehashInit(p, a, st) IN Generated(p, a, st, b.root, b.state)
    BY <1>1, <2>2, TreehashInitResult
  <2> QED BY <2>1, <2>3
<1> DEFINE t == built.state
<1>4. /\ FullState(p, t) /\ t.offset = 0 /\ t.peak = 0
      /\ \A j \in Insts(p) : t.inst[j].completed = TRUE
      /\ \A h \in 0..(p.th - 1) : \A q \in Right(p, h) : Saved(p, a, t, h, q)
      /\ built.root = TreeRoot(p.th, a)
  BY <1>2, <1>3 DEF Generated
<1> HIDE DEF built
<1>5. AllDone(p, t) BY <1>4 DEF AllDone
<1>6. IsState(p, t) BY <1>4 DEF FullState
<1>7. Serving(p, a, t, 0, Instances(p) \div 2)
  <2>1. \E b : Shared(p, a, t, b) BY <1>1, <1>4, NothingShared
  <2>2. t.peak \in 0..(p.th + 1) BY <1>1, <1>4 DEF TreeParams
  <2>3. \A j \in Insts(p) : t.inst[j].completed BY <1>4
  <2>4. Ready(p, a, t, 0) BY <1>1, <1>6, <2>1, <2>2, <2>3, FinishedReady
  <2> QED BY <2>4 DEF Ready, Serving
<1>8. \A b, y, r : Serving(p, b, t, y, r) BY <1>1, <1>5, <1>7, DoneServing
<1>9. Path(p, a, t, 0) BY <1>1, <1>4, FirstPath
<1> QED BY <1>4, <1>5, <1>8, <1>9 DEF built

(* Key generation gives every layer what the first call needs.               *)
LEMMA KeypairIInv == ASSUME BudgetSuffices, IInv, Keypair PROVE IInv'
<1> DEFINE p == params
           D == 0..(2 * p.d - 2)
           built == [i \in 0..(p.d - 1) |-> TreehashInit(p, <<i, 0>>, states[i])]
<1>1. /\ pkRoot = Junk /\ pkRoot' = built[p.d - 1].root /\ skIdx' = 0
      /\ states' = [i \in DOMAIN states |-> IF i < p.d THEN built[i].state ELSE states[i]]
      /\ wotsSigs' = [i \in DOMAIN wotsSigs |-> WotsSign(<<i + 1, 0>>, 0, built[i].root)]
      /\ params' = params /\ out' = out /\ calls' = calls
  BY Zenon DEF Keypair
<1>2. /\ p \in ParamSets /\ calls = 0 /\ out = NoOutput
      /\ states = [i \in D |-> NewState(p)]
      /\ wotsSigs = [i \in 0..(p.d - 2) |-> wotsSigs[i]]
  BY <1>1 DEF IInv, Fresh, RootsSigned
<1>3. Suffices(p) BY <1>2 DEF BudgetSuffices
<1>4. /\ TreeParams(p) /\ p.th \in Nat /\ p.d \in Nat /\ p.d >= 2
      /\ Capacity(p) \in Nat \ {0} /\ p.space \in Nat /\ Capacity(p) <= p.space
  BY <1>2, MtSizes
<1>5. \A i \in 0..(p.d - 1) :
        built[i] = TreehashInit(p, <<i, 0>>, NewState(p)) /\ i \in D
  <2>1. \A i \in 0..(p.d - 1) : i \in D BY <1>4
  <2>2. \A i \in D : states[i] = NewState(p) BY <1>2
  <2> HIDE DEF D
  <2> QED BY <2>1, <2>2
<1>6. DOMAIN states = D /\ DOMAIN wotsSigs = 0..(p.d - 2) BY <1>2
<1> HIDE DEF built
<1>7. \A i \in 0..(p.d - 1) :
        /\ built[i].root = TreeRoot(p.th, <<i, 0>>)
        /\ FullState(p, built[i].state) /\ AllDone(p, built[i].state)
        /\ Path(p, <<i, 0>>, built[i].state, 0)
        /\ \A b, y, r : Serving(p, b, built[i].state, y, r)
  BY <1>2, <1>5, GeneratedState
<1>8. IsStates(p, states') /\ RootsSigned(p, wotsSigs')
  BY <1>1, <1>6 DEF IsStates, RootsSigned
<1> HIDE DEF p
<1>9. ASSUME NEW i \in 0..(p.d - 1)
      PROVE  At(p, 0, i, states', wotsSigs', TRUE, 0)
  <2>1. states'[i] = built[i].state BY <1>1, <1>4, <1>5, <1>6
  <2>2. /\ LeafAt(p, 0, i) = 0 /\ TreeAt(p, 0, i) = 0
        /\ i # 0 /\ i <= Budget(p) => Calm(p, 0)[i] = 0
    BY <1>2, <1>3, FirstIndex DEF p
  <2>3. Path(p, <<i, TreeAt(p, 0, i)>>, states'[i], LeafAt(p, 0, i)) BY <1>7, <2>1, <2>2
  <2>4. /\ FullState(p, states'[i]) /\ AllDone(p, states'[i])
        /\ \A b, y, r : Serving(p, b, states'[i], y, r)
    BY <1>7, <2>1
  <2>5. i < p.d - 1 => wotsSigs'[i] = RootSignature(p, 0, i)
    <3> SUFFICES ASSUME i < p.d - 1 PROVE wotsSigs'[i] = RootSignature(p, 0, i) OBVIOUS
    <3>1. i \in 0..(p.d - 2) /\ i + 1 \in 0..(p.d - 1) BY <1>4
    <3>2. wotsSigs'[i] = WotsSign(<<i + 1, 0>>, 0, built[i].root) BY <1>1, <1>6, <3>1
    <3>3. LeafAt(p, 0, i + 1) = 0 /\ TreeAt(p, 0, i + 1) = 0
      BY <3>1, <1>2, <1>3, FirstIndex DEF p
    <3>4. built[i].root = TreeRoot(p.th, <<i, 0>>) BY <1>7
    <3> QED BY <2>2, <3>2, <3>3, <3>4 DEF RootSignature
  <2>6. PICK new : new = NewState(p) OBVIOUS
  <2>7. /\ Built(p, <<i, 1>>, new, 0) /\ new.nextLeaf = 0 /\ new.peak \in 0..(p.th + 1)
    <3>1. /\ FullState(p, new) /\ new.peak = 0 /\ new.offset = 0 /\ new.nextLeaf = 0
      BY <2>6, <1>4, NewStateFull
    <3> QED BY <3>1, <1>4, NothingBuilt
  <2>8. Layer(p, 0, i, states'[i], new, wotsSigs'[i], TRUE, 0)
    <3>1. 0 \in Nat /\ p \in ParamSets BY <1>2 DEF p
    <3> QED BY <3>1, <1>3, <2>2, <2>3, <2>4, <2>5, <2>7, FreshLayer
  <2>9. CASE i < p.d - 1
    <3>1. p.d + i \in D /\ ~(p.d + i < p.d) BY <1>4, <2>9 DEF p
    <3>2. states'[p.d + i] = states[p.d + i] BY <1>1, <1>6, <3>1 DEF p
    <3>3. states'[p.d + i] = new BY <3>1, <3>2, <2>6, <1>2 DEF p
    <3> QED BY <2>8, <3>3 DEF At
  <2>10. CASE ~(i < p.d - 1)
    BY <2>8, <2>10 DEF At, Layer
  <2> QED BY <2>9, <2>10
<1>10. pkRoot' = TreeRoot(p.th, <<p.d - 1, 0>>) /\ pkRoot' # Junk
  <2>1. p.d - 1 \in 0..(p.d - 1) BY <1>4
  <2>2. pkRoot' = TreeRoot(p.th, <<p.d - 1, 0>>) BY <2>1, <1>1, <1>7 DEF p
  <2> QED BY <2>2, NodeIsNotJunk DEF TreeRoot
<1>11. (calls' < params'.space) = TRUE BY <1>1, <1>2, <1>4 DEF p
<1>12. LayersReady'
  <2>1. \A i \in 0..(params'.d - 1) :
          At(params', skIdx', i, states', wotsSigs', calls' < params'.space, 0)
    BY <1>1, <1>9, <1>11 DEF p
  <2> QED BY <2>1 DEF LayersReady
<1>13. /\ params' \in ParamSets /\ skIdx' \in 0..(params'.space - 1) /\ calls' \in Nat
  BY <1>1, <1>2, <1>4 DEF p
<1>14. Fresh' /\ Numbered' /\ Returned' BY <1>1, <1>2, <1>10 DEF Fresh, Numbered, Returned
<1>15. IsStates(params', states') /\ RootsSigned(params', wotsSigs') BY <1>1, <1>8 DEF p
<1>16. pkRoot' = TreeRoot(params'.th, <<params'.d - 1, 0>>) BY <1>1, <1>10 DEF p
<1> QED BY <1>12, <1>13, <1>14, <1>15, <1>16 DEF IInv

(* When the index wraps all trees have ended, and the layers are as if a     *)
(* first tree had begun, but for the paths and the signatures on the roots.  *)
LEMMA WrapLayer ==
  ASSUME NEW p \in ParamSets, Suffices(p), NEW i \in 0..(p.d - 1),
         NEW sts, NEW ws, NEW first, At(p, p.space, i, sts, ws, first, 0)
  PROVE  At(p, 0, i, sts, ws, FALSE, 0)
<1> DEFINE n == p.space
           st == sts[i]
<1>1. /\ TreeParams(p) /\ p.th \in Nat /\ p.d \in Nat /\ p.d >= 2 /\ i \in Nat
      /\ Capacity(p) \in Nat \ {0} /\ n \in Nat /\ Capacity(p) <= n
      /\ Pow2[p.th] \in Nat
  BY BudgetSizes
<1>2. Layer(p, n, i, st, sts[p.d + i], ws[i], first, 0) BY DEF At
<1>3. Current(p, n, i, st, first) BY <1>2 DEF Layer
<1>4. LeafAt(p, n, 0) = 0
  <2>1. PICK m : m = n - 1 OBVIOUS
  <2>2. m \in Nat /\ m + 1 = n BY <2>1, <1>1
  <2>3. Ended(p, m, p.d)
    <3>1. n % Capacity(p) = 0 BY DEF Suffices
    <3> QED BY <3>1, <2>2 DEF Ended, Capacity
  <2>4. 0 \in 0..(p.d - 1) /\ 0 \in Nat BY <1>1
  <2>5. Ended(p, m, 0) /\ LeafAt(p, m, 0) = Pow2[p.th] - 1
    BY <2>2, <2>3, <2>4, <1>1, EndedLeaves
  <2>6. LeafAt(p, m + 1, 0) = 0
    <3>1. EndOfTree(p, m, 0) BY <2>2, <2>4, <2>5, <1>1, NextLeafAt
    <3> QED BY <3>1, <2>2, <2>4, <1>1, NextLeafAt
  <2> QED BY <2>2, <2>6
<1>5. AllDone(p, st) /\ FullState(p, st)
  <2>1. i # 0 \/ LeafAt(p, n, i) = 0 BY <1>4
  <2> QED BY <2>1, <1>1, <1>3 DEF Current
<1>6. Serving(p, <<i, TreeAt(p, n, i)>>, st, LeafAt(p, n, i), Served(p, n, i))
  BY <1>3 DEF Current
<1>7. \A b, y, r : Serving(p, b, st, y, r) BY <1>1, <1>5, <1>6, DoneServing
<1>8. /\ LeafAt(p, 0, i) = 0
      /\ i # 0 /\ i <= Budget(p) => Calm(p, 0)[i] = 0
  BY FirstIndex
<1>9. st.peak \in 0..(p.th + 1) BY <1>6 DEF Serving
<1>10. CASE i < p.d - 1
  <2> DEFINE next == sts[p.d + i]
  <2>1. Coming(p, n, i, st, next, 0) BY <1>2, <1>10 DEF Layer
  <2>2. ~NextExists(p, n, i)
    <3>1. Capacity(p) - 1 <= n BY <1>1
    <3> QED BY <3>1, <1>1, NextExistsWhen
  <2>3. next.nextLeaf = 0 /\ next.peak \in 0..(p.th + 1) BY <2>1, <2>2 DEF Coming
  <2>4. Built(p, <<i, TreeAt(p, n, i) + 1>>, next, 0) BY <2>1, <2>3 DEF Coming
  <2> HIDE DEF next, st
  <2>5. 0 \in Nat OBVIOUS
  <2>6. Layer(p, 0, i, st, next, ws[i], FALSE, 0)
    BY <1>5, <1>7, <1>8, <2>3, <2>4, <2>5, FreshLayer
  <2> QED BY <2>6 DEF At, next, st
<1>11. CASE ~(i < p.d - 1)
  <2> DEFINE e == Emptied(st)
  <2> HIDE DEF st
  <2>1. Built(p, <<i, 0>>, e, 0) /\ e.nextLeaf = 0 /\ e.peak = st.peak
    BY <1>1, <1>5, EmptiedBuilt
  <2>2. e.peak \in 0..(p.th + 1) BY <2>1, <1>9
  <2> HIDE DEF e
  <2>3. 0 \in Nat OBVIOUS
  <2>4. Layer(p, 0, i, st, e, ws[i], FALSE, 0)
    BY <1>5, <1>7, <1>8, <2>1, <2>2, <2>3, FreshLayer
  <2> QED BY <2>4, <1>11 DEF At, Layer, st
<1> QED BY <1>10, <1>11

(* What a call puts out for one of the indices the key pair was made for.    *)
LEMMA OutputHonest ==
  ASSUME NEW p \in ParamSets, NEW n \in Nat, n < Capacity(p), NEW sts, NEW ws, NEW m,
         \A i \in 0..(p.d - 1) : At(p, n, i, sts, ws, TRUE, 0)
  PROVE  Honest(p, Output(p, n, m, sts, ws))
<1> DEFINE sm == Output(p, n, m, sts, ws)
<1>1. p.th \in Nat /\ p.d \in Nat /\ p.d >= 2 BY MtSizes
<1>2. /\ sm.idx = n /\ sm.r = n /\ sm.msg = m
      /\ \A i \in 0..(p.d - 1) :
           /\ sm.wots[i] = IF i = 0 THEN WotsSign(<<0, TreeAt(p, n, 0)>>, LeafAt(p, n, 0),
                                                  Digest(n, n, m))
                           ELSE ws[i - 1]
           /\ sm.auth[i] = sts[i].auth
  BY DEF Output
<1> HIDE DEF sm
<1>3. ASSUME NEW l \in 0..(p.d - 1)
      PROVE  /\ sm.wots[l] = WotsSign(Place(p, n, l), LeafAt(p, n, l), Signed(p, sm, l))
             /\ sm.auth[l] = TreeAuth(p.th, Place(p, n, l), LeafAt(p, n, l))
  <2>1. sm.auth[l] = TreeAuth(p.th, Place(p, n, l), LeafAt(p, n, l))
    <3>1. Path(p, <<l, TreeAt(p, n, l)>>, sts[l], LeafAt(p, n, l))
      BY DEF At, Layer, Current
    <3>2. sts[l].auth = TreeAuth(p.th, <<l, TreeAt(p, n, l)>>, LeafAt(p, n, l))
      BY <3>1, PathIsTreeAuth
    <3> QED BY <3>2, <1>2 DEF Place
  <2>2. CASE l = 0
    BY <2>1, <2>2, <1>2 DEF Signed, Place
  <2>3. CASE l # 0
    <3>1. PICK k : k = l - 1 OBVIOUS
    <3>2. k \in 0..(p.d - 1) /\ k < p.d - 1 /\ k + 1 = l BY <3>1, <2>3, <1>1
    <3>3. ws[k] = RootSignature(p, n, k) BY <3>2 DEF At, Layer
    <3>4. sm.wots[l] = RootSignature(p, n, k) BY <3>1, <3>3, <2>3, <1>2
    <3>5. Signed(p, sm, l) = TreeRoot(p.th, Place(p, n, k)) BY <3>1, <2>3, <1>2 DEF Signed
    <3> QED BY <3>2, <3>4, <3>5, <2>1 DEF RootSignature, Place
  <2> QED BY <2>2, <2>3
<1>4. Honest(p, sm) BY <1>2, <1>3 DEF Honest
<1> QED BY <1>4 DEF sm

(* A call that returns leaves every layer with what the next one needs.      *)
LEMMA SignIInv == ASSUME BudgetSuffices, IInv, NEW m \in Messages, Sign(m) PROVE IInv'
<1> DEFINE p == params
           n == skIdx
           t == Advance(p, n, states, wotsSigs)
           first == calls < p.space
<1>1. /\ pkRoot # Junk /\ pkRoot' = pkRoot /\ params' = p /\ calls' = calls + 1
      /\ skIdx' = (n + 1) % p.space
      /\ out' = Output(p, n, m, states, wotsSigs)
      /\ states' = t.states /\ wotsSigs' = t.wots
  BY Zenon DEF Sign, Callable
<1>2. /\ p \in ParamSets /\ calls \in Nat /\ n \in 0..(p.space - 1) /\ (first => n = calls)
      /\ pkRoot = TreeRoot(p.th, <<p.d - 1, 0>>)
      /\ IsStates(p, states) /\ RootsSigned(p, wotsSigs)
      /\ \A i \in 0..(p.d - 1) : At(p, n, i, states, wotsSigs, first, 0)
  BY <1>1 DEF IInv, Numbered, LayersReady
<1>3. Suffices(p) BY <1>2 DEF BudgetSuffices
<1>4. /\ p.d \in Nat /\ p.d >= 2 /\ p.space \in Nat /\ p.space # 0
      /\ Capacity(p) \in Nat /\ Capacity(p) <= p.space /\ n \in Nat
  <2>1. /\ p.d \in Nat /\ p.d >= 2 /\ Capacity(p) \in Nat \ {0} /\ p.space \in Nat
        /\ Capacity(p) <= p.space
    BY <1>2, MtSizes
  <2> HIDE DEF p, n
  <2>2. n \in Nat BY <2>1, <1>2
  <2> QED BY <2>1, <2>2
<1> HIDE DEF p, n, t, first
<1>5. /\ IsStates(p, t.states) /\ RootsSigned(p, t.wots)
      /\ \A i \in 0..(p.d - 1) : At(p, n + 1, i, t.states, t.wots, first, 0)
  BY <1>2, <1>3, <1>4, LayersAdvance DEF t
<1>6. skIdx' \in 0..(p.space - 1) BY <1>1, <1>2, <1>4
<1>7. calls + 1 < p.space => first /\ n + 1 < p.space /\ skIdx' = calls + 1
  <2> SUFFICES ASSUME calls + 1 < p.space
               PROVE  first /\ n + 1 < p.space /\ skIdx' = calls + 1
    OBVIOUS
  <2>1. first BY <1>2, <1>4 DEF first
  <2>2. n = calls BY <1>2, <2>1
  <2> QED BY <2>1, <2>2, <1>1, <1>2, <1>4
<1>8. \A i \in 0..(p.d - 1) :
        At(p, skIdx', i, t.states, t.wots, calls + 1 < p.space, 0)
  <2> SUFFICES ASSUME NEW i \in 0..(p.d - 1)
               PROVE  At(p, skIdx', i, t.states, t.wots, calls + 1 < p.space, 0)
    OBVIOUS
  <2>1. At(p, n + 1, i, t.states, t.wots, first, 0) BY <1>5
  <2>2. CASE n + 1 < p.space
    <3>1. skIdx' = n + 1 BY <2>2, <1>1, <1>4
    <3>2. At(p, n + 1, i, t.states, t.wots, calls + 1 < p.space, 0)
      <4>1. PICK k : k = n + 1 OBVIOUS
      <4>2. At(p, k, i, t.states, t.wots, first, 0) BY <4>1, <2>1
      <4>3. CASE calls + 1 < p.space
        <5>1. first /\ (calls + 1 < p.space) BY <4>3, <1>7
        <5>2. At(p, k, i, t.states, t.wots, TRUE, 0)
          BY <4>2, <5>1, Zenon DEF At, Layer, Current
        <5> QED BY <4>1, <5>1, <5>2, Zenon DEF At, Layer, Current
      <4>4. CASE ~(calls + 1 < p.space)
        <5>1. At(p, k, i, t.states, t.wots, FALSE, 0)
          BY <4>2, Zenon DEF At, Layer, Current
        <5> QED BY <4>1, <4>4, <5>1, Zenon DEF At, Layer, Current
      <4> QED BY <4>3, <4>4
    <3> QED BY <3>1, <3>2
  <2>3. CASE ~(n + 1 < p.space)
    <3>1. n + 1 = p.space BY <2>3, <1>2, <1>4
    <3>2. skIdx' = 0 BY <3>1, <1>1, <1>4
    <3>3. At(p, 0, i, t.states, t.wots, FALSE, 0)
      BY <3>1, <2>1, <1>2, <1>3, WrapLayer
    <3>4. ~(calls + 1 < p.space) BY <2>3, <1>7
    <3> QED BY <3>2, <3>3, <3>4, Zenon DEF At, Layer, Current
  <2> QED BY <2>2, <2>3
<1>9. LayersReady'
  <2>1. \A i \in 0..(params'.d - 1) :
          At(params', skIdx', i, states', wotsSigs', calls' < params'.space, 0)
    BY <1>1, <1>8, Zenon DEF p
  <2> QED BY <2>1 DEF LayersReady
<1>10. Returned'
  <2> DEFINE sm == Output(p, n, m, states, wotsSigs)
  <2>1. sm.idx = n BY DEF Output
  <2> HIDE DEF sm
  <2>2. ASSUME calls + 1 <= p.space
        PROVE  /\ calls + 1 # 0 /\ sm.idx = (calls + 1) - 1
               /\ sm.idx < Capacity(p) => Honest(p, sm)
    <3>1. first BY <2>2, <1>2, <1>4 DEF first
    <3>2. n = calls BY <3>1, <1>2
    <3>3. \A i \in 0..(p.d - 1) : At(p, n, i, states, wotsSigs, TRUE, 0)
      BY <3>1, <1>2, Zenon DEF At, Layer, Current
    <3>4. n < Capacity(p) => Honest(p, sm)
      BY <3>3, <1>2, <1>4, OutputHonest DEF sm
    <3> QED BY <3>2, <3>4, <2>1, <1>2
  <2> QED BY <2>2, <1>1 DEF Returned, sm, p
<1>11. Numbered'
  <2>1. calls + 1 < p.space => skIdx' = calls + 1 BY <1>7
  <2> QED BY <2>1, <1>1 DEF Numbered, p
<1>12. Fresh' BY <1>1 DEF Fresh
<1>13. calls' \in Nat BY <1>1, <1>2
<1>14. /\ params' \in ParamSets /\ skIdx' \in 0..(params'.space - 1)
       /\ pkRoot' = TreeRoot(params'.th, <<params'.d - 1, 0>>)
       /\ IsStates(params', states') /\ RootsSigned(params', wotsSigs')
  BY <1>1, <1>2, <1>5, <1>6 DEF p
<1> QED BY <1>9, <1>10, <1>11, <1>12, <1>13, <1>14 DEF IInv

(* IInv is about the variables.                                              *)
LEMMA StutterIInv == IInv /\ UNCHANGED vars => IInv'
BY DEF IInv, Fresh, Numbered, LayersReady, Returned, vars

(* IInv is inductive.                                                        *)
LEMMA LayersInvariance == ASSUME BudgetSuffices PROVE Spec => []IInv
<1>1. Init => IInv BY InitIInv
<1>2. IInv /\ [Next]_vars => IInv' BY KeypairIInv, SignIInv, StutterIInv DEF Next
<1> QED BY <1>1, <1>2, PTL DEF Spec

(* For every hypertree whose budget suffices and any number of calls, the    *)
(* stack of every state stays within its tree_height + 1 slots, also after a *)
(* swap that leaves the root of the tree at the bottom of it.                *)
THEOREM StackBoundHolds == ASSUME BudgetSuffices PROVE Spec => []StackBound
<1>1. IInv => StackBound
  <2> SUFFICES ASSUME IInv, NEW i \in DOMAIN states PROVE states[i].peak <= params.th + 1
    BY DEF StackBound
  <2>1. /\ params \in ParamSets /\ params.th \in Nat /\ params.d \in Nat /\ params.d >= 2
        /\ TreeParams(params)
    BY MtSizes DEF IInv
  <2>2. i \in 0..(2 * params.d - 2) BY DEF IInv, IsStates
  <2>3. CASE pkRoot = Junk
    <3>1. states[i] = NewState(params) BY <2>2, <2>3 DEF IInv, Fresh
    <3>2. states[i].peak = 0 BY <3>1, <2>1, NewStateFull
    <3> QED BY <3>2, <2>1
  <2>4. CASE pkRoot # Junk
    <3>1. \A j \in 0..(params.d - 1) :
            At(params, skIdx, j, states, wotsSigs, calls < params.space, 0)
      BY <2>4 DEF IInv, LayersReady
    <3>2. CASE i < params.d
      <4>1. i \in 0..(params.d - 1) BY <3>2, <2>1, <2>2
      <4>2. states[i].peak \in 0..(params.th + 1)
        BY <3>1, <4>1, Zenon DEF At, Layer, Current, Serving
      <4> QED BY <4>2, <2>1
    <3>3. CASE ~(i < params.d)
      <4>1. PICK j : j = i - params.d OBVIOUS
      <4>2. j \in 0..(params.d - 1) /\ j < params.d - 1 /\ params.d + j = i
        BY <4>1, <3>3, <2>1, <2>2
      <4>3. states[params.d + j].peak \in 0..(params.th + 1)
        BY <3>1, <4>2, Zenon DEF At, Layer, Coming
      <4> QED BY <4>2, <4>3, <2>1
    <3> QED BY <3>2, <3>3
  <2> QED BY <2>3, <2>4
<1> QED BY <1>1, LayersInvariance, PTL

(* For every hypertree whose budget suffices, whenever a tree of a layer is  *)
(* used up and another follows, the next one is complete: no call signs the  *)
(* root of an unfinished tree (xmss_core_fast.c:938), however many layers    *)
(* compete for the updates of one signature.                                 *)
THEOREM NextTreeReadyHolds == ASSUME BudgetSuffices PROVE Spec => []NextTreeReady
<1>1. IInv => NextTreeReady
  <2> SUFFICES ASSUME IInv, NEW i \in 0..(params.d - 2), pkRoot # Junk,
                      EndOfTree(params, skIdx, i), skIdx < Capacity(params) - 1
               PROVE  states[params.d + i].nextLeaf
                        = Pow2[params.th] - (IF i = 0 THEN 1 ELSE 0)
    BY DEF NextTreeReady
  <2> DEFINE next == states[params.d + i]
             first == calls < params.space
  <2>1. /\ params \in ParamSets /\ params.th \in Nat /\ params.d \in Nat /\ params.d >= 2
        /\ params.space \in Nat /\ Pow2[params.th] \in Nat
    <3>1. params \in ParamSets BY DEF IInv
    <3> QED BY <3>1, MtSizes, Pow2Recursion
  <2>2. Suffices(params) BY <2>1 DEF BudgetSuffices
  <2>3. skIdx \in Nat /\ i \in Nat /\ i \in 0..(params.d - 1) /\ i < params.d - 1
    BY <2>1 DEF IInv
  <2>4. Layer(params, skIdx, i, states[i], next, wotsSigs[i], first, 0)
    BY <2>3 DEF IInv, LayersReady, At
  <2> HIDE DEF next, first
  <2>5. CASE i = 0
    <3>1. NextExists(params, skIdx, i) BY <2>1, <2>3, NextExistsWhen
    <3>2. next.nextLeaf = LeafAt(params, skIdx, i) + 0
      BY <2>3, <2>4, <2>5, <3>1 DEF Layer, Coming
    <3>3. LeafAt(params, skIdx, i) = Pow2[params.th] - 1 BY <2>1, <2>3, NextLeafAt
    <3> QED BY <3>2, <3>3, <2>1, <2>5 DEF next
  <2>6. CASE i # 0
    <3>1. Layer(params, skIdx, i, states[i], next, wotsSigs[i], first, 1)
      BY <2>4, <2>6 DEF Layer, Coming
    <3>2. next.nextLeaf = Pow2[params.th] BY <3>1, <2>1, <2>2, <2>3, SwapLayer
    <3> QED BY <3>2, <2>1, <2>6 DEF next
  <2> QED BY <2>5, <2>6
<1> QED BY <1>1, LayersInvariance, PTL

(* For every hypertree whose budget suffices and any number of calls, what a *)
(* call puts out for one of the 2^full_height indices is accepted by         *)
(* xmssmt_core_sign_open: the paths and the signatures on the roots, all     *)
(* prepared by earlier calls, are those of the index.                        *)
THEOREM SignaturesOpenHolds == ASSUME BudgetSuffices PROVE Spec => []SignaturesOpen
<1>1. IInv => SignaturesOpen
  <2> SUFFICES ASSUME IInv, out # NoOutput, out.idx < Capacity(params), calls <= params.space
               PROVE  SignOpen(params, pkRoot, out)
    BY DEF SignaturesOpen
  <2>1. params.th \in Nat /\ params.d \in Nat \ {0}
    <3>1. params \in ParamSets BY DEF IInv
    <3>2. params.th \in Nat /\ params.d \in Nat /\ params.d >= 2 BY <3>1, MtSizes
    <3> QED BY <3>2
  <2>2. Honest(params, out) /\ calls # 0 BY DEF IInv, Returned
  <2>3. pkRoot = TreeRoot(params.th, <<params.d - 1, 0>>) BY <2>2 DEF IInv, Fresh
  <2> QED BY <2>1, <2>2, <2>3, HonestOpens
<1> QED BY <1>1, LayersInvariance, PTL

-----------------------------------------------------------------------------
(* The out of a key pair that has not signed is not a signature.             *)
NoOutputIsNone ==
  \A idx, r, m, wots, auth :
    [idx |-> idx, r |-> r, msg |-> m, wots |-> wots, auth |-> auth] # NoOutput

(* The abstract signer's copies of the operators of HashTree are the same.   *)
LEMMA SameTrees ==
  ASSUME NEW p, NEW idx, NEW l, NEW a, NEW leaf, NEW m
  PROVE  /\ AbstractSigner!TreeAt(p, idx, l) = TreeAt(p, idx, l)
         /\ AbstractSigner!LeafAt(p, idx, l) = LeafAt(p, idx, l)
         /\ AbstractSigner!Capacity(p) = Capacity(p)
         /\ AbstractSigner!TreeRoot(p.th, a) = TreeRoot(p.th, a)
         /\ AbstractSigner!TreeAuth(p.th, a, leaf) = TreeAuth(p.th, a, leaf)
         /\ AbstractSigner!WotsSign(a, leaf, m) = WotsSign(a, leaf, m)
         /\ AbstractSigner!Digest(idx, idx, m) = Digest(idx, idx, m)
<1>1. AbstractSigner!Pow2 = Pow2 BY DEF AbstractSigner!Pow2, Pow2
<1>2. \A x, n : AbstractSigner!Shr(x, n) = Shr(x, n) BY <1>1 DEF AbstractSigner!Shr, Shr
<1>3. \A b, h, i : AbstractSigner!Node(b, h, i) = Node(b, h, i)
  BY DEF AbstractSigner!Node, Node
<1>4. \A x : AbstractSigner!Sibling(x) = Sibling(x) BY DEF AbstractSigner!Sibling, Sibling
<1>5. AbstractSigner!TreeAt(p, idx, l) = TreeAt(p, idx, l)
  BY <1>2 DEF AbstractSigner!TreeAt, TreeAt
<1>6. AbstractSigner!LeafAt(p, idx, l) = LeafAt(p, idx, l)
  BY <1>1, <1>2 DEF AbstractSigner!LeafAt, LeafAt
<1>7. AbstractSigner!Capacity(p) = Capacity(p)
  BY <1>1 DEF AbstractSigner!Capacity, Capacity
<1>8. AbstractSigner!TreeRoot(p.th, a) = TreeRoot(p.th, a)
  BY <1>3 DEF AbstractSigner!TreeRoot, TreeRoot
<1>9. AbstractSigner!TreeAuth(p.th, a, leaf) = TreeAuth(p.th, a, leaf)
  BY <1>2, <1>3, <1>4 DEF AbstractSigner!TreeAuth, TreeAuth
<1>10. AbstractSigner!WotsSign(a, leaf, m) = WotsSign(a, leaf, m)
  BY DEF AbstractSigner!WotsSign, WotsSign
<1>11. AbstractSigner!Digest(idx, idx, m) = Digest(idx, idx, m)
  BY DEF AbstractSigner!Digest, Digest
<1> QED BY <1>5, <1>6, <1>7, <1>8, <1>9, <1>10, <1>11

(* So is its sign_open.                                                      *)
LEMMA SameOpening ==
  ASSUME NEW p, NEW root, NEW sm
  PROVE  AbstractSigner!SignOpen(p, root, sm) <=> SignOpen(p, root, sm)
BY DEF AbstractSigner!SignOpen, SignOpen, AbstractSigner!ComputeRoot, ComputeRoot,
       AbstractSigner!HashPair, HashPair, AbstractSigner!Node, Node,
       AbstractSigner!Junk, Junk, AbstractSigner!Bit, Bit, AbstractSigner!Shr, Shr,
       AbstractSigner!Pow2, Pow2, AbstractSigner!LeafFromSig, LeafFromSig,
       AbstractSigner!GenLeaf, GenLeaf, AbstractSigner!WotsSign, WotsSign,
       AbstractSigner!Digest, Digest, AbstractSigner!TreeAt, TreeAt,
       AbstractSigner!LeafAt, LeafAt

(* A signature made from one of the indices of the key pair is the one that  *)
(* the abstract signer promises.                                             *)
LEMMA HonestCanonical ==
  ASSUME NEW p \in ParamSets, NEW n \in Nat, NEW m, NEW sts, NEW ws,
         Honest(p, Output(p, n, m, sts, ws))
  PROVE  Output(p, n, m, sts, ws) = AbstractSigner!Canonical(p, n, m)
<1> DEFINE sm == Output(p, n, m, sts, ws)
           D == 0..(p.d - 1)
           a(l)    == <<l, AbstractSigner!TreeAt(p, n, l)>>
           msg(l)  == IF l = 0 THEN AbstractSigner!Digest(n, n, m)
                               ELSE AbstractSigner!TreeRoot(p.th, a(l - 1))
           leaf(l) == AbstractSigner!LeafAt(p, n, l)
           wots(l) == AbstractSigner!WotsSign(a(l), leaf(l), msg(l))
           auth(l) == AbstractSigner!TreeAuth(p.th, a(l), leaf(l))
<1>1. AbstractSigner!Canonical(p, n, m) =
        [idx |-> n, r |-> n, msg |-> m,
         wots |-> [l \in D |-> wots(l)], auth |-> [l \in D |-> auth(l)]]
  BY DEF AbstractSigner!Canonical
<1> DEFINE W(l) == IF l = 0 THEN WotsSign(<<0, TreeAt(p, n, 0)>>, LeafAt(p, n, 0), Digest(n, n, m))
                            ELSE ws[l - 1]
           U(l) == sts[l].auth
           w == [l \in D |-> W(l)]
           u == [l \in D |-> U(l)]
<1>2. sm = [idx |-> n, r |-> n, msg |-> m, wots |-> w, auth |-> u] BY DEF Output
<1>6. w = [l \in D |-> w[l]] /\ u = [l \in D |-> u[l]]
  <2> HIDE DEF D, W, U
  <2> QED OBVIOUS
<1> HIDE DEF W, U, w, u
<1>3. sm.idx = n /\ sm.r = n /\ sm.msg = m /\ sm.wots = w /\ sm.auth = u BY ONLY <1>2
<1>4. ASSUME NEW l \in D PROVE w[l] = wots(l) /\ u[l] = auth(l)
  <2>1. /\ sm.wots[l] = WotsSign(Place(p, n, l), LeafAt(p, n, l), Signed(p, sm, l))
        /\ sm.auth[l] = TreeAuth(p.th, Place(p, n, l), LeafAt(p, n, l))
    BY <1>3 DEF Honest, sm
  <2>2. \A j : a(j) = Place(p, n, j) BY SameTrees DEF Place
  <2>3. leaf(l) = LeafAt(p, n, l) BY SameTrees
  <2>4. msg(l) = Signed(p, sm, l)
    <3>1. CASE l = 0 BY <3>1, <1>3, SameTrees DEF Signed
    <3>2. CASE l # 0
      <4>1. msg(l) = AbstractSigner!TreeRoot(p.th, a(l - 1)) BY <3>2
      <4>2. AbstractSigner!TreeRoot(p.th, a(l - 1)) = TreeRoot(p.th, Place(p, n, l - 1))
        <5> HIDE DEF a
        <5> QED BY <2>2, SameTrees
      <4> QED BY <4>1, <4>2, <3>2, <1>3 DEF Signed
    <3> QED BY <3>1, <3>2
  <2>5. wots(l) = WotsSign(a(l), leaf(l), msg(l)) /\ auth(l) = TreeAuth(p.th, a(l), leaf(l))
    <3> HIDE DEF a, leaf, msg
    <3> QED BY SameTrees
  <2>6. a(l) = Place(p, n, l) BY <2>2
  <2> HIDE DEF a, leaf, msg, wots, auth
  <2> QED BY <2>1, <2>3, <2>4, <2>5, <2>6, <1>3
<1> HIDE DEF wots, auth, D
<1>5. w = [l \in D |-> wots(l)] /\ u = [l \in D |-> auth(l)] BY <1>6, <1>4
<1> QED BY <1>1, <1>2, <1>5 DEF sm

(* A call issues the signature of its index or, past the last one the key    *)
(* pair was made for, something that nobody accepts.                         *)
LEMMA SignImplements ==
  ASSUME BudgetSuffices, NoOutputIsNone, IInv, IInv', NEW m \in Messages, Sign(m)
  PROVE  AbstractSigner!Issue(m) \/ AbstractSigner!Overrun
<1>1. /\ params' = params /\ pkRoot # Junk /\ calls' = calls + 1
      /\ out' = Output(params, skIdx, m, states, wotsSigs)
  BY Zenon DEF Sign, Callable
<1>2. /\ params \in ParamSets /\ calls \in Nat /\ skIdx \in Nat
      /\ (calls < params.space => skIdx = calls)
      /\ \A i \in 0..(params.d - 1) :
           At(params, skIdx, i, states, wotsSigs, calls < params.space, 0)
  <2>1. skIdx \in 0..(params.space - 1) /\ params \in ParamSets BY DEF IInv
  <2>2. params.space \in Nat BY <2>1, MtSizes
  <2>3. skIdx \in Nat BY <2>1, <2>2
  <2> QED BY <2>3, <1>1 DEF IInv, Numbered, LayersReady
<1>3. /\ params.th \in Nat \ {0} /\ params.d \in Nat \ {0}
      /\ params.space \in Nat /\ Capacity(params) \in Nat /\ Capacity(params) <= params.space
  <2>1. /\ params.th \in Nat /\ params.th # 0 /\ params.d \in Nat /\ params.d >= 2
        /\ Capacity(params) \in Nat \ {0} /\ params.space \in Nat
        /\ Capacity(params) <= params.space
    BY <1>2, MtSizes
  <2> QED BY <2>1
<1>4. AbstractSigner!Capacity(params) = Capacity(params) BY SameTrees
<1>5. CASE calls < Capacity(params)
  <2>1. skIdx = calls /\ calls < params.space BY <1>2, <1>3, <1>5
  <2>2. \A i \in 0..(params.d - 1) : At(params, calls, i, states, wotsSigs, TRUE, 0)
    BY <2>1, <1>2, Zenon DEF At, Layer, Current
  <2>3. Honest(params, Output(params, calls, m, states, wotsSigs))
    BY <2>2, <1>2, <1>5, OutputHonest
  <2>4. out' = AbstractSigner!Canonical(params, calls, m)
    BY <2>1, <2>3, <1>1, <1>2, HonestCanonical
  <2>5. AbstractSigner!Issue(m) BY <2>4, <1>1, <1>4, <1>5 DEF AbstractSigner!Issue
  <2> QED BY <2>5
<1>6. CASE ~(calls < Capacity(params))
  <2>1. calls >= Capacity(params) BY <1>2, <1>3, <1>6
  <2>2. out' # NoOutput BY <1>1 DEF NoOutputIsNone, Output
  <2>3. ASSUME calls < params.space
        PROVE  ~AbstractSigner!SignOpen(params,
                  AbstractSigner!TreeRoot(params.th, <<params.d - 1, 0>>), out')
    <3>1. out'.idx = calls BY <2>3, <1>1, <1>2 DEF Output
    <3>2. PICK sm : sm = out' OBVIOUS
    <3>3. sm.idx \in Nat /\ ~(sm.idx < Capacity(params)) BY <3>1, <3>2, <1>2, <1>6
    <3>4. ~SignOpen(params, TreeRoot(params.th, <<params.d - 1, 0>>), sm)
      BY <3>3, <1>3, OverrunRejected
    <3> QED BY <3>2, <3>4, SameOpening, SameTrees
  <2>4. AbstractSigner!Overrun
    BY <1>1, <1>4, <2>1, <2>2, <2>3 DEF AbstractSigner!Overrun
  <2> QED BY <2>4
<1> QED BY <1>5, <1>6

(* For every hypertree whose budget suffices and any number of calls, the    *)
(* signer with traversal state implements the abstract signer, as the one    *)
(* without it does: call number i of a key pair yields the same signature.   *)
THEOREM ImplementsSignerHolds ==
  ASSUME BudgetSuffices, NoOutputIsNone PROVE Spec => ImplementsSigner
<1>1. Init => AbstractSigner!Init BY DEF Init, AbstractSigner!Init
<1>2. IInv /\ IInv' /\ [Next]_vars => [AbstractSigner!Next]_(AbstractSigner!vars)
  <2> SUFFICES ASSUME IInv, IInv', [Next]_vars
               PROVE  [AbstractSigner!Next]_(AbstractSigner!vars)
    OBVIOUS
  <2>1. CASE Keypair
    <3>1. UNCHANGED <<params, calls, out>> BY <2>1, Zenon DEF Keypair
    <3> QED BY <3>1 DEF AbstractSigner!vars
  <2>2. CASE \E m \in Messages : Sign(m)
    BY <2>2, SignImplements DEF AbstractSigner!Next
  <2>3. CASE UNCHANGED vars BY <2>3 DEF vars, AbstractSigner!vars
  <2> QED BY <2>1, <2>2, <2>3 DEF Next
<1> QED BY <1>1, <1>2, LayersInvariance, PTL DEF Spec, ImplementsSigner, AbstractSigner!Spec
=============================================================================
