-------------------------- MODULE XmssFastProofs ----------------------------
(***************************************************************************)
(* The single-tree signer of xmss_core_fast.c, for trees of every height   *)
(* and any number of calls: its traversal state is in order and on time,   *)
(* and what it puts out is what the signer without such a state puts out.  *)
(***************************************************************************)
EXTENDS XmssFast, TreeProofs

(* The updates of one signature, half the treehash instances rounded down,   *)
(* are as many as can be unfinished. The standard parameter sets have bds_k  *)
(* = 0 (params.c:233, 438).                                                  *)
BudgetSuffices == \A p \in ParamSets : EnoughUpdates(p)

(* What stands for no output is not a signature. *)
NoOutputIsNone ==
  \A idx, r, m, wots, auth :
    [idx |-> idx, r |-> r, msg |-> m, wots |-> wots, auth |-> auth] # NoOutput

(* The number of leaves of the tree.                                         *)
Leaves == Pow2[params.th]

(* Before key generation nothing has happened. *)
Fresh ==
  pkRoot = Junk => calls = 0 /\ skIdx = 0 /\ out = NoOutput /\ state = NewState(params)

(* The index in the secret key counts the calls until it wraps. *)
Numbered == calls < params.space => skIdx = calls

(* The state stays behind at the last leaf. *)
AtLeaf == IF skIdx < Leaves THEN skIdx ELSE Leaves - 1

(* What the treehash instances have done by then is in order.                *)
TreehashReady == pkRoot # Junk => Ready(params, Tree, state, AtLeaf)

(* What lies on the stack belongs to the instances. *)
OnlyInstances == pkRoot # Junk => Rootless(params, state)

(* Up to the last leaf the path is that of the next one.                     *)
PathReady == pkRoot # Junk /\ calls < Leaves => Path(params, Tree, state, calls)

(* The signature with this index. *)
Issued(idx, m, auth) ==
  [idx |-> idx, r |-> idx, msg |-> m, wots |-> [l \in {0} |-> SignDigest(idx, m)],
   auth |-> [l \in {0} |-> auth]]

(* What was put out last has the index before, and the path of its leaf.     *)
Returned ==
  out # NoOutput /\ calls <= params.space =>
    /\ calls # 0
    /\ \E m \in Messages : \E auth :
         /\ out = Issued(calls - 1, m, auth)
         /\ calls - 1 < Leaves => auth = TreeAuth(params.th, Tree, calls - 1)

(* The inductive invariant behind the theorems below.                        *)
IInv ==
  /\ params \in ParamSets
  /\ skIdx \in 0..(params.space - 1)
  /\ calls \in Nat
  /\ pkRoot # Junk => pkRoot = TreeRoot(params.th, Tree)
  /\ Fresh
  /\ Numbered
  /\ TreehashReady
  /\ OnlyInstances
  /\ PathReady
  /\ Returned

(* The sizes that a parameter set gives.                                     *)
LEMMA Sizes ==
  ASSUME NEW p \in ParamSets
  PROVE  /\ TreeParams(p)
         /\ p.th \in Nat /\ p.th # 0 /\ p.d = 1 /\ Capacity(p) = Pow2[p.th]
         /\ p.space \in Nat /\ Pow2[p.th] \in Nat \ {0} /\ Pow2[p.th] <= p.space
<1>1. /\ p.th \in Nat \ {0} /\ p.d = 1 /\ p.k \in 0..p.th
      /\ p.space \in Nat /\ Capacity(p) <= p.space
  BY SingleTreeAssumption
<1>2. p.th * p.d = p.th BY <1>1
<1>3. Capacity(p) = Pow2[p.th] BY <1>2 DEF Capacity
<1>4. Pow2[p.th] \in Nat \ {0} BY <1>1, Pow2Recursion
<1> QED BY <1>1, <1>3, <1>4 DEF TreeParams

(* Before key generation IInv holds.                                         *)
LEMMA InitIInv == Init => IInv
<1> SUFFICES ASSUME Init PROVE IInv OBVIOUS
<1>1. params \in ParamSets /\ pkRoot = Junk /\ skIdx = 0 /\ calls = 0 /\ out = NoOutput
      /\ state = NewState(params)
  BY DEF Init
<1>2. params.space \in Nat /\ params.space # 0 BY <1>1, Sizes
<1> QED BY <1>1, <1>2 DEF IInv, Fresh, Numbered, TreehashReady, OnlyInstances, PathReady,
                     Returned

(* Key generation leaves the state ready for leaf 0.                         *)
LEMMA KeypairIInv == IInv /\ Keypair => IInv'
<1> SUFFICES ASSUME IInv, Keypair PROVE IInv' OBVIOUS
<1> DEFINE built == TreehashInit(params, Tree, state)
<1>1. /\ pkRoot = Junk /\ pkRoot' = built.root /\ skIdx' = 0 /\ state' = built.state
      /\ params' = params /\ out' = out /\ calls' = calls
  BY DEF Keypair
<1>2. /\ params \in ParamSets /\ calls = 0 /\ out = NoOutput /\ state = NewState(params)
  BY <1>1 DEF IInv, Fresh
<1>3. /\ TreeParams(params) /\ params.space \in Nat /\ Leaves \in Nat \ {0}
      /\ Leaves <= params.space
  BY <1>2, Sizes DEF Leaves
<1>4. Generated(params, Tree, state, pkRoot', state')
  <2>1. FullState(params, state) BY <1>2, <1>3, NewStateFull
  <2> QED BY <2>1, <1>1, <1>3, TreehashInitResult
<1>5. pkRoot' = TreeRoot(params.th, Tree) /\ pkRoot' # Junk
  BY <1>4, NodeIsNotJunk DEF Generated, TreeRoot
<1>6. /\ IsState(params, state') /\ state'.offset = 0 /\ state'.peak = 0
      /\ \A j \in Insts(params) : state'.inst[j].usage = 0 /\ state'.inst[j].completed = TRUE
  BY <1>2, <1>3, <1>4, NewStateFull DEF Generated, FullState
<1>7. Ready(params, Tree, state', 0)
  <2>1. \E b : Shared(params, Tree, state', b) BY <1>3, <1>6, NothingShared
  <2>2. state'.peak \in 0..(params.th + 1) BY <1>3, <1>6 DEF TreeParams
  <2> QED BY <1>3, <1>6, <2>1, <2>2, FinishedReady
<1>8. Path(params, Tree, state', 0) BY <1>3, <1>4, FirstPath DEF Generated
<1>9. AtLeaf' = 0 BY <1>1, <1>3 DEF AtLeaf, Leaves
<1>10. TreehashReady' BY <1>1, <1>7, <1>9 DEF TreehashReady
<1>11. PathReady' BY <1>1, <1>2, <1>8 DEF PathReady
<1>12. Fresh' /\ Numbered' /\ Returned' BY <1>1, <1>2, <1>5 DEF Fresh, Numbered, Returned
<1>13. params' \in ParamSets /\ skIdx' \in 0..(params'.space - 1) /\ calls' \in Nat
  BY <1>1, <1>2, <1>3
<1>14. pkRoot' = TreeRoot(params'.th, Tree') BY <1>1, <1>5 DEF Tree
<1>15. OnlyInstances' BY <1>1, <1>6 DEF OnlyInstances, Rootless
<1> QED BY <1>10, <1>11, <1>12, <1>13, <1>14, <1>15 DEF IInv

(* Every bit of the last leaf of a tree is one. *)
LEMMA LastLeafOnes ==
  ASSUME NEW h \in Nat, NEW n \in 0..(h - 1)
  PROVE  Bit(Pow2[h] - 1, n) = 1
<1> DEFINE x == Pow2[h] - 1
           z == Pow2[h - (n + 1)]
           b == Pow2[n]
<1>1. n \in Nat /\ n + 1 \in Nat /\ h - (n + 1) \in Nat /\ (h - (n + 1)) + n = h - 1
      /\ h - 1 \in Nat /\ (h - 1) + 1 = h
  OBVIOUS
<1>2. z \in Nat \ {0} /\ b \in Nat \ {0} BY <1>1, Pow2Recursion
<1>3. Pow2[h] = 2 * (z * b)
  <2>1. Pow2[h] = 2 * Pow2[h - 1] BY <1>1, Pow2Recursion
  <2>2. Pow2[(h - (n + 1)) + n] = z * b BY <1>1, Pow2Sum
  <2> QED BY <2>1, <2>2, <1>1
<1>4. x \in Nat /\ x = 2 * (z * b) - 1
  <2>1. Pow2[h] \in Nat \ {0} BY Pow2Recursion
  <2> QED BY <2>1, <1>3
<1> DEFINE q == 2 * z - 1
<1>5. q \in Nat /\ q % 2 = 1 /\ q + 1 = 2 * z
  <2> HIDE DEF z
  <2> QED BY <1>2
<1>6. q * b + b = 2 * (z * b)
  <2>1. (q + 1) * b = q * b + b /\ q * b \in Int
    <3> HIDE DEF q, b
    <3>1. q \in Int /\ b \in Int BY <1>2, <1>5
    <3> QED BY ONLY <3>1, TimesSucc
  <2>2. (2 * z) * b = 2 * (z * b)
    <3> HIDE DEF z, b
    <3> QED BY ONLY <1>2
  <2> QED BY <2>1, <2>2, <1>5
<1>7. Shr(x, n) = q
  <2>1. q * b \in Nat
    <3> HIDE DEF q, b
    <3> QED BY <1>2, <1>5, TimesNat
  <2>2. (q + 1) * b = q * b + b
    <3> HIDE DEF q, b
    <3>1. q \in Int /\ b \in Int BY <1>2, <1>5
    <3> QED BY ONLY <3>1, TimesSucc
  <2>3. q * b <= x /\ x < (q + 1) * b
    <3> DEFINE w == q * b
               v == z * b
    <3>1. w \in Nat /\ w + b = 2 * v /\ x = 2 * v - 1 BY <2>1, <1>6, <1>4
    <3>2. v \in Nat
      <4> HIDE DEF z, b
      <4> QED BY <1>2, TimesNat
    <3>3. w <= x /\ x < w + b
      <4> HIDE DEF w, v, b, x
      <4> QED BY ONLY <3>1, <3>2, <1>2
    <3> QED BY <3>3, <2>2
  <2> HIDE DEF x, q
  <2> QED BY <2>3, <1>1, <1>4, <1>5, ShrUnique DEF b
<1> QED BY <1>5, <1>7 DEF Bit

(* The index after a call, and the leaf the state is at. *)
LEMMA NextIndex ==
  ASSUME IInv, pkRoot # Junk, UNCHANGED params, skIdx' = (skIdx + 1) % params.space
  PROVE  /\ skIdx' \in 0..(params.space - 1)
         /\ skIdx < Leaves - 1 => AtLeaf = skIdx /\ skIdx' = skIdx + 1 /\ AtLeaf' = skIdx + 1
         /\ ~(skIdx < Leaves - 1) => AtLeaf = Leaves - 1 /\ AtLeaf' \in {Leaves - 1, 0}
         /\ calls + 1 < params.space => skIdx' = calls + 1
<1> DEFINE L == Pow2[params.th]
           sp == params.space
           x == skIdx
           y == skIdx'
<1>1. sp \in Nat /\ L \in Nat \ {0} /\ L <= sp /\ x \in 0..(sp - 1) /\ calls \in Nat
  BY Sizes DEF IInv
<1>2. y = (x + 1) % sp OBVIOUS
<1>3. AtLeaf = (IF x < L THEN x ELSE L - 1) /\ AtLeaf' = (IF y < L THEN y ELSE L - 1)
      /\ Leaves = L
  BY DEF AtLeaf, Leaves
<1>4. calls < sp => x = calls BY DEF IInv, Numbered
<1> HIDE DEF L, sp, x, y
<1>5. x + 1 < sp => y = x + 1 BY <1>1, <1>2
<1>6. ~(x + 1 < sp) => y = 0
  <2>1. SUFFICES ASSUME ~(x + 1 < sp) PROVE y = 0 OBVIOUS
  <2>2. x + 1 = sp BY <2>1, <1>1
  <2>3. sp % sp = 0 BY <1>1
  <2> QED BY <2>2, <2>3, <1>2
<1>7. y \in 0..(sp - 1) BY <1>1, <1>5, <1>6
<1>8. x < L - 1 => AtLeaf = x /\ y = x + 1 /\ AtLeaf' = x + 1
  <2>1. SUFFICES ASSUME x < L - 1 PROVE AtLeaf = x /\ y = x + 1 /\ AtLeaf' = x + 1 OBVIOUS
  <2>2. x + 1 < sp /\ x < L /\ x + 1 < L BY <2>1, <1>1
  <2> QED BY <2>2, <1>3, <1>5
<1>9. ~(x < L - 1) => AtLeaf = L - 1 /\ AtLeaf' \in {L - 1, 0}
  <2>1. SUFFICES ASSUME ~(x < L - 1) PROVE AtLeaf = L - 1 /\ AtLeaf' \in {L - 1, 0} OBVIOUS
  <2>2. AtLeaf = L - 1 BY <2>1, <1>1, <1>3
  <2>3. AtLeaf' = L - 1 \/ AtLeaf' = 0
    <3>1. CASE x + 1 < sp
      <4>1. ~(x + 1 < L) BY <2>1, <1>1
      <4> QED BY <4>1, <3>1, <1>3, <1>5
    <3>2. CASE ~(x + 1 < sp) BY <3>2, <1>1, <1>3, <1>6
    <3> QED BY <3>1, <3>2
  <2> QED BY <2>2, <2>3
<1>10. calls + 1 < sp => y = calls + 1 BY <1>1, <1>4, <1>5
<1> QED BY <1>3, <1>7, <1>8, <1>9, <1>10 DEF L, sp, x, y

(* At the last leaf every instance is finished. *)
LEMMA LastLeafFinished ==
  ASSUME NEW p, TreeParams(p), NEW a, NEW st, Ready(p, a, st, Pow2[p.th] - 1)
  PROVE  Ready(p, a, st, 0)
<1>1. p.th \in Nat /\ Pow2[p.th] \in Nat \ {0} BY Pow2Recursion DEF TreeParams
<1>2. PICK x \in Nat : x = Pow2[p.th] - 1 BY <1>1
<1>3. Ready(p, a, st, x) BY <1>2
<1>4. \A n \in 0..(p.th - 1) : Bit(x, n) = 1 BY <1>1, <1>2, LastLeafOnes
<1>5. ASSUME NEW j \in Insts(p) PROVE st.inst[j].completed
  <2>1. j < p.th BY <1>1 DEF Insts, TreeParams, Instances
  <2> QED BY <2>1, <1>1, <1>3, <1>4, ReadyOnTime
<1>6. /\ IsState(p, st) /\ \E b : Shared(p, a, st, b) /\ st.peak \in 0..(p.th + 1)
  BY DEF Ready
<1> QED BY <1>5, <1>6, FinishedReady

(* A signature leaves the state ready for the next leaf; after the last one  *)
(* the state is left alone.                                                  *)
LEMMA SignIInv ==
  ASSUME BudgetSuffices, NEW m \in Messages
  PROVE  IInv /\ Sign(m) => IInv'
<1> SUFFICES ASSUME IInv, Sign(m) PROVE IInv' OBVIOUS
<1>1. /\ pkRoot # Junk /\ pkRoot' = pkRoot /\ params' = params
      /\ calls' = calls + 1 /\ skIdx' = (skIdx + 1) % params.space
      /\ state' = Advance(params, skIdx, state)
      /\ out' = Issued(skIdx, m, state.auth)
  BY DEF Sign, Issued
<1>2. /\ params \in ParamSets /\ calls \in Nat /\ skIdx \in 0..(params.space - 1)
      /\ calls < params.space => skIdx = calls
      /\ Ready(params, Tree, state, AtLeaf)
      /\ calls < Leaves => Path(params, Tree, state, calls)
  BY <1>1 DEF IInv, Numbered, TreehashReady, PathReady
<1>3. /\ TreeParams(params) /\ EnoughUpdates(params)
      /\ params.space \in Nat /\ Leaves \in Nat \ {0} /\ Leaves <= params.space
      /\ Leaves = Pow2[params.th] /\ skIdx \in Nat
  BY <1>2, Sizes DEF Leaves, BudgetSuffices
<1>4. /\ skIdx' \in 0..(params.space - 1)
      /\ skIdx < Leaves - 1 => AtLeaf = skIdx /\ skIdx' = skIdx + 1 /\ AtLeaf' = skIdx + 1
      /\ ~(skIdx < Leaves - 1) => AtLeaf = Leaves - 1 /\ AtLeaf' \in {Leaves - 1, 0}
      /\ calls + 1 < params.space => skIdx' = calls + 1
  BY <1>1, NextIndex
<1>5. Ready(params, Tree, state', AtLeaf')
  <2>1. CASE skIdx < Leaves - 1
    <3>1. state' = BdsTreehashUpdate(params, Tree, BdsRound(params, Tree, state, skIdx),
                                     Instances(params) \div 2).st
      BY <2>1, <1>1, <1>3 DEF Advance
    <3>2. skIdx \in Nat /\ skIdx < Pow2[params.th] - 1 /\ Ready(params, Tree, state, skIdx)
      BY <2>1, <1>2, <1>3, <1>4
    <3>3. Ready(params, Tree, state', skIdx + 1) BY <3>1, <3>2, <1>3, ReadyAfterSign
    <3> QED BY <3>3, <2>1, <1>4
  <2>2. CASE ~(skIdx < Leaves - 1)
    <3>1. state' = state BY <2>2, <1>1, <1>3 DEF Advance
    <3>2. Ready(params, Tree, state, Leaves - 1) BY <2>2, <1>2, <1>4
    <3>3. Ready(params, Tree, state, 0) BY <3>2, <1>3, LastLeafFinished
    <3> QED BY <3>1, <3>2, <3>3, <2>2, <1>4
  <2> QED BY <2>1, <2>2
<1>6. ASSUME calls + 1 < Leaves PROVE Path(params, Tree, state', calls + 1)
  <2>1. skIdx = calls /\ skIdx < Leaves - 1 BY <1>6, <1>2, <1>3
  <2>2. state' = BdsTreehashUpdate(params, Tree, BdsRound(params, Tree, state, skIdx),
                                   Instances(params) \div 2).st
    BY <2>1, <1>1, <1>3 DEF Advance
  <2>3. /\ skIdx \in Nat /\ skIdx < Pow2[params.th] - 1
        /\ Ready(params, Tree, state, skIdx) /\ Path(params, Tree, state, skIdx)
    BY <2>1, <1>2, <1>3, <1>4, <1>6
  <2>4. Path(params, Tree, state', skIdx + 1) BY <2>2, <2>3, <1>3, PathAfterSign
  <2> QED BY <2>1, <2>4
<1>7. Leaves' = Leaves /\ Tree' = Tree BY <1>1 DEF Leaves, Tree
<1>8. TreehashReady' BY <1>1, <1>5, <1>7 DEF TreehashReady
<1>9. PathReady' BY <1>1, <1>6, <1>7 DEF PathReady
<1>10. Numbered' BY <1>1, <1>4 DEF Numbered
<1>11. Fresh' BY <1>1 DEF Fresh
<1>12. Returned'
  <2> SUFFICES ASSUME calls + 1 <= params.space
               PROVE  /\ calls + 1 # 0
                      /\ \E n \in Messages : \E auth :
                           /\ out' = Issued((calls + 1) - 1, n, auth)
                           /\ (calls + 1) - 1 < Leaves
                                => auth = TreeAuth(params.th, Tree, (calls + 1) - 1)
    BY <1>1, <1>7 DEF Returned, Issued, SignDigest, Tree
  <2>1. (calls + 1) - 1 = calls /\ calls + 1 # 0 /\ calls < params.space BY <1>2, <1>3
  <2>2. out' = Issued(calls, m, state.auth) BY <2>1, <1>1, <1>2
  <2>3. calls < Leaves => state.auth = TreeAuth(params.th, Tree, calls) BY <1>2, PathIsTreeAuth
  <2> QED BY <2>1, <2>2, <2>3
<1>13. params' \in ParamSets /\ skIdx' \in 0..(params'.space - 1) /\ calls' \in Nat
       /\ pkRoot' = TreeRoot(params'.th, Tree')
  BY <1>1, <1>2, <1>4, <1>7 DEF IInv
<1>14. OnlyInstances'
  <2>1. Rootless(params, state) BY <1>1 DEF IInv, OnlyInstances
  <2>2. CASE skIdx < Leaves - 1
    <3> DEFINE s == BdsRound(params, Tree, state, skIdx)
    <3>1. state' = BdsTreehashUpdate(params, Tree, s, Instances(params) \div 2).st
      BY <2>2, <1>1, <1>3 DEF Advance
    <3>2. skIdx \in Nat /\ skIdx < Pow2[params.th] - 1 /\ Ready(params, Tree, state, skIdx)
      BY <2>2, <1>2, <1>3, <1>4
    <3>3. Updated(params, Tree, s, state', skIdx + 1, Instances(params) \div 2)
      BY <3>1, <3>2, <1>3, ReadyAfterSign
    <3>4. s.levels = state.levels /\ s.offset = state.offset
      <4>1. Rounded(params, Tree, state, skIdx, s)
        BY <3>2, RoundFields DEF Ready
      <4> QED BY <4>1 DEF Rounded
    <3>5. Rootless(params, s) BY <2>1, <3>4 DEF Rootless
    <3>6. Rootless(params, state') BY <3>3, <3>5 DEF Updated
    <3> QED BY <3>6, <1>1 DEF OnlyInstances
  <2>3. CASE ~(skIdx < Leaves - 1)
    <3>1. state' = state BY <2>3, <1>1, <1>3 DEF Advance
    <3> QED BY <3>1, <2>1, <1>1 DEF OnlyInstances
  <2> QED BY <2>2, <2>3
<1> QED BY <1>8, <1>9, <1>10, <1>11, <1>12, <1>13, <1>14 DEF IInv

(* IInv is an invariant of the signer.                                       *)
LEMMA FastInvariance == ASSUME BudgetSuffices PROVE Spec => []IInv
<1>1. IInv /\ [Next]_vars => IInv'
  <2> SUFFICES ASSUME IInv, [Next]_vars PROVE IInv' OBVIOUS
  <2>1. CASE Keypair BY <2>1, KeypairIInv
  <2>2. CASE \E m \in Messages : Sign(m) BY <2>2, SignIInv
  <2>3. CASE UNCHANGED vars
    BY <2>3 DEF vars, IInv, Fresh, Numbered, TreehashReady, OnlyInstances, PathReady, Returned,
                AtLeaf, Leaves, Tree, Issued, SignDigest
  <2> QED BY <2>1, <2>2, <2>3 DEF Next
<1> QED BY InitIInv, <1>1, PTL DEF Spec

(* For every parameter set whose budget suffices and any number of calls,    *)
(* the stack the treehash instances share stays within its tree_height + 1   *)
(* slots.                                                                    *)
THEOREM StackBoundHolds == ASSUME BudgetSuffices PROVE Spec => []StackBound
<1>1. IInv => StackBound
  <2> SUFFICES ASSUME IInv PROVE StackBound OBVIOUS
  <2>1. params.th \in Nat /\ TreeParams(params) BY Sizes DEF IInv
  <2>2. CASE pkRoot = Junk
    <3>1. state.peak = 0 BY <2>1, <2>2, NewStateFull DEF IInv, Fresh
    <3> QED BY <2>1, <3>1 DEF StackBound
  <2>3. CASE pkRoot # Junk
    <3>1. state.peak \in 0..(params.th + 1) BY <2>3 DEF IInv, TreehashReady, Ready
    <3> QED BY <2>1, <3>1 DEF StackBound
  <2> QED BY <2>2, <2>3
<1> QED BY <1>1, FastInvariance, PTL

(* A sum whose terms are the steps of a chain that falls to 0. *)
LEMMA SumOfSteps ==
  ASSUME NEW n \in Nat, NEW b \in [0..n -> Nat], b[n] = 0, NEW f,
         \A j \in 0..(n - 1) : f[j] \in Nat /\ b[j] = b[j + 1] + f[j]
  PROVE  SumTo(f, n) = b[0]
<1> DEFINE S == {i \in Nat : i <= n => SumTo(f, i) = b[0] - b[i]}
<1>1. 0 \in S
  <2>1. b[0] \in Nat OBVIOUS
  <2>2. SumTo(f, 0) = 0 BY SumRecursion
  <2> QED BY <2>1, <2>2
<1>2. ASSUME NEW i \in Nat, i \in S PROVE i + 1 \in S
  <2> SUFFICES ASSUME i + 1 <= n PROVE SumTo(f, i + 1) = b[0] - b[i + 1] OBVIOUS
  <2>1. i \in 0..(n - 1) /\ i \in 0..n /\ i + 1 \in 0..n /\ 0 \in 0..n OBVIOUS
  <2>2. SumTo(f, i + 1) = SumTo(f, i) + f[i] BY SumRecursion
  <2>3. SumTo(f, i) = b[0] - b[i] BY <1>2, <2>1
  <2>4. f[i] \in Nat /\ b[i] = b[i + 1] + f[i] BY <2>1
  <2>5. b[0] \in Nat /\ b[i] \in Nat /\ b[i + 1] \in Nat BY <2>1
  <2> QED BY ONLY <2>2, <2>3, <2>4, <2>5
<1>3. Nat \subseteq S
  <2> HIDE DEF S
  <2> QED BY <1>1, <1>2, SetInduction
<1>4. SumTo(f, n) = b[0] - b[n] /\ b[0] \in Nat BY <1>3
<1> QED BY <1>4

(* For every parameter set whose budget suffices, the shared stack holds the *)
(* unfinished nodes of the treehash instances, and nothing else.             *)
THEOREM StackAccountedHolds == ASSUME BudgetSuffices PROVE Spec => []StackAccounted
<1>1. IInv => StackAccounted
  <2> DEFINE f == [j \in DOMAIN state.inst |->
                     IF state.inst[j].completed THEN 0 ELSE state.inst[j].usage]
             n == Instances(params)
  <2> SUFFICES ASSUME IInv, pkRoot # Junk PROVE state.offset = SumTo(f, n)
    BY DEF StackAccounted
  <2>1. IsState(params, state) /\ \E b : Shared(params, Tree, state, b)
    BY DEF IInv, TreehashReady, Ready
  <2>2. PICK b : Shared(params, Tree, state, b) BY <2>1
  <2>3. n \in Nat
    <3>1. TreeParams(params) BY Sizes DEF IInv
    <3> QED BY <3>1, ContendersRange
  <2>4. DOMAIN state.inst = Insts(params) BY <2>1 DEF IsState
  <2>5. /\ b \in [0..n -> Nat] /\ b[0] = state.offset
        /\ \A j \in Insts(params) : /\ Held(state, j) \in Nat
                                    /\ b[j] = b[j + 1] + Held(state, j)
        /\ \A y \in 0..(b[n] - 1) : state.levels[y] >= n
        /\ \A y \in 0..(state.offset - 1) : state.levels[y] \in Nat
    BY <2>2 DEF Shared, Chain
  <2>6. \A j \in 0..(n - 1) : f[j] \in Nat /\ b[j] = b[j + 1] + f[j]
    <3> SUFFICES ASSUME NEW j \in Insts(params) PROVE f[j] \in Nat /\ b[j] = b[j + 1] + f[j]
      BY DEF Insts
    <3>1. f[j] = Held(state, j) BY <2>4 DEF Held
    <3> QED BY <3>1, <2>5
  <2>8. b[n] = 0
    <3>1. b[n] \in Nat /\ b[0] \in Nat BY <2>3, <2>5
    <3>2. b[n] <= state.offset
      <4>1. 0 \in 0..n /\ n \in 0..n /\ 0 <= n BY <2>3
      <4>2. TreeParams(params) /\ Chain(params, state, b) BY <2>2, Sizes DEF IInv, Shared
      <4>3. b[n] <= b[0] BY <4>1, <4>2, ChainFalls
      <4> QED BY <4>3, <2>5
    <3>3. SUFFICES ASSUME b[n] # 0 PROVE FALSE OBVIOUS
    <3>4. 0 \in 0..(b[n] - 1) /\ 0 \in 0..(state.offset - 1)
      <4> HIDE DEF n
      <4> QED BY <3>1, <3>2, <3>3, <2>5
    <3>5. state.levels[0] >= n /\ state.levels[0] \in Nat BY <3>4, <2>5
    <3>6. state.levels[0] < n BY <3>4 DEF IInv, OnlyInstances, Rootless
    <3> QED BY <3>5, <3>6, <2>3
  <2> HIDE DEF f, n
  <2>7. SumTo(f, n) = b[0] BY <2>3, <2>5, <2>6, <2>8, SumOfSteps
  <2> QED BY <2>5, <2>7
<1> QED BY <1>1, FastInvariance, PTL

(* For every parameter set whose budget suffices, bds_round finds every      *)
(* treehash instance finished whose node it takes into the path.             *)
THEOREM InstancesOnTimeHolds == ASSUME BudgetSuffices PROVE Spec => []InstancesOnTime
<1>1. IInv => InstancesOnTime
  <2> SUFFICES ASSUME IInv, pkRoot # Junk, skIdx < Capacity(params) - 1,
                      NEW j \in DOMAIN state.inst, j < Tau(params, skIdx)
               PROVE  state.inst[j].completed
    BY DEF InstancesOnTime
  <2>1. /\ TreeParams(params) /\ params.th \in Nat /\ params.space \in Nat
        /\ Capacity(params) = Pow2[params.th]
        /\ Pow2[params.th] \in Nat
    BY Sizes DEF IInv
  <2>2. skIdx \in Nat /\ skIdx < Pow2[params.th] - 1 BY <2>1 DEF IInv
  <2>3. Ready(params, Tree, state, skIdx)
    <3>1. AtLeaf = skIdx BY <2>1, <2>2 DEF AtLeaf, Leaves
    <3> QED BY <3>1 DEF IInv, TreehashReady
  <2>4. j \in Insts(params) BY <2>3 DEF Ready, IsState
  <2> DEFINE t == Tau(params, skIdx)
  <2>5. t \in 0..(params.th - 1) /\ \A n \in 0..(t - 1) : Bit(skIdx, n) = 1
    BY <2>1, <2>2, TauIs
  <2>6. t \in Nat BY <2>5
  <2> HIDE DEF t
  <2>7. j < t BY DEF t
  <2> QED BY <2>1, <2>2, <2>3, <2>4, <2>5, <2>6, <2>7, ReadyOnTime
<1> QED BY <1>1, FastInvariance, PTL

(* In the only tree, the leaf is the index.                                  *)
LEMMA OnlyTree ==
  ASSUME NEW p \in ParamSets, NEW n \in Nat
  PROVE  /\ LeafAt(p, n, 0) \in 0..(Pow2[p.th] - 1)
         /\ n < Pow2[p.th] => Place(p, n, 0) = Tree /\ LeafAt(p, n, 0) = n
<1>1. p.th \in Nat /\ Pow2[p.th] \in Nat \ {0} BY Sizes
<1> DEFINE L == Pow2[p.th]
<1>2. p.th * 0 = 0 /\ p.th * (0 + 1) = p.th BY <1>1
<1>3. LeafAt(p, n, 0) = n % L BY <1>2, ShrNone DEF LeafAt
<1>4. TreeAt(p, n, 0) = Shr(n, p.th) BY <1>2 DEF TreeAt
<1>5. n < L => Shr(n, p.th) = 0 BY <1>1, ShrZero
<1>6. n % L \in 0..(L - 1) /\ (n < L => n % L = n)
  <2>1. L \in Nat \ {0} BY <1>1
  <2> HIDE DEF L
  <2> QED BY <2>1
<1> QED BY <1>3, <1>4, <1>5, <1>6 DEF Place, Tree

(* What is put out opens exactly if its index has a leaf.                    *)
LEMMA IssuedOpens ==
  ASSUME NEW p \in ParamSets, NEW n \in Nat, NEW m, NEW auth,
         n < Pow2[p.th] => auth = TreeAuth(p.th, Tree, n)
  PROVE  SignOpen(p, TreeRoot(p.th, Tree), Issued(n, m, auth)) <=> n < Pow2[p.th]
<1> DEFINE sm == Issued(n, m, auth)
<1>1. /\ p.th \in Nat /\ p.d = 1 /\ p.d \in Nat /\ p.d \in Nat \ {0}
      /\ Capacity(p) = Pow2[p.th] /\ Pow2[p.th] \in Nat \ {0}
  BY Sizes
<1>2. /\ sm.idx = n /\ sm.r = n /\ sm.msg = m
      /\ sm.wots[0] = WotsSign(Tree, n, Digest(n, n, m)) /\ sm.auth[0] = auth
  BY DEF Issued, SignDigest
<1> HIDE DEF sm
<1>3. ASSUME n < Pow2[p.th] PROVE SignOpen(p, TreeRoot(p.th, Tree), sm)
  <2>1. Place(p, n, 0) = Tree /\ LeafAt(p, n, 0) = n BY <1>3, OnlyTree
  <2>2. \A l \in 0..(p.d - 1) : l = 0 BY <1>1
  <2>3. Signed(p, sm, 0) = Digest(n, n, m) BY <1>2 DEF Signed
  <2>4. Honest(p, sm) BY <1>2, <1>3, <2>1, <2>2, <2>3 DEF Honest
  <2>5. <<p.d - 1, 0>> = Tree BY <1>1 DEF Tree
  <2>6. sm.idx < Capacity(p) BY <1>1, <1>2, <1>3
  <2>7. SignOpen(p, TreeRoot(p.th, <<p.d - 1, 0>>), sm) BY <1>1, <2>4, <2>6, HonestOpens
  <2> QED BY <2>5, <2>7
<1>4. ASSUME ~(n < Pow2[p.th]) PROVE ~SignOpen(p, TreeRoot(p.th, Tree), sm)
  <2>1. PICK root : /\ Opening(p, sm, root)
                    /\ SignOpen(p, TreeRoot(p.th, Tree), sm)
                         <=> root[p.d] = TreeRoot(p.th, Tree)
    BY <1>1, SignOpenRecursion
  <2>2. LeafAt(p, n, 0) # n BY <1>1, <1>4, OnlyTree
  <2>3. sm.wots[0] # WotsSign(Place(p, sm.idx, 0), LeafAt(p, sm.idx, 0), root[0])
    <3>1. \A a, leaf, x : WotsSign(a, leaf, x).key = <<a, leaf>> BY DEF WotsSign
    <3>2. <<Tree, n>> # <<Place(p, n, 0), LeafAt(p, n, 0)>> BY <2>2
    <3> QED BY <1>2, <3>1, <3>2
  <2>4. PICK l \in 0..(p.d - 1) : l = 0 BY <1>1
  <2>5. root[l + 1] = Junk
    <3>1. sm.wots[l] # WotsSign(Place(p, sm.idx, l), LeafAt(p, sm.idx, l), root[l])
      BY <2>3, <2>4
    <3> QED BY ONLY <1>1, <2>1, <3>1, UnsignedLayer
  <2>6. root[p.d] = Junk
    <3>1. l + 1 = p.d BY <2>4, <1>1
    <3> QED BY <2>5, <3>1
  <2>7. TreeRoot(p.th, Tree) # Junk BY NodeIsNotJunk DEF TreeRoot
  <2> QED BY <2>1, <2>6, <2>7
<1> QED BY <1>3, <1>4 DEF sm

(* For every parameter set whose budget suffices and any number of calls,    *)
(* xmss_core_sign_open accepts a signature exactly if its index has a leaf.  *)
THEOREM OpensIffInRangeHolds == ASSUME BudgetSuffices PROVE Spec => []OpensIffInRange
<1>1. IInv => OpensIffInRange
  <2> SUFFICES ASSUME IInv, out # NoOutput, calls <= params.space
               PROVE  SignOpen(params, pkRoot, out) <=> out.idx < Capacity(params)
    BY DEF OpensIffInRange
  <2>1. /\ params \in ParamSets /\ calls \in Nat /\ calls # 0
        /\ pkRoot = TreeRoot(params.th, Tree)
    BY DEF IInv, Returned, Fresh
  <2>2. PICK m, auth : /\ out = Issued(calls - 1, m, auth)
                       /\ calls - 1 < Leaves => auth = TreeAuth(params.th, Tree, calls - 1)
    BY DEF IInv, Returned
  <2>3. PICK n : n = calls - 1 OBVIOUS
  <2>4. n \in Nat BY <2>1, <2>3
  <2>5. SignOpen(params, TreeRoot(params.th, Tree), Issued(n, m, auth)) <=> n < Pow2[params.th]
    <3>1. n < Pow2[params.th] => auth = TreeAuth(params.th, Tree, n) BY <2>2, <2>3 DEF Leaves
    <3> QED BY ONLY <2>1, <2>4, <3>1, IssuedOpens
  <2>6. Issued(n, m, auth).idx = n BY DEF Issued
  <2>7. Capacity(params) = Pow2[params.th] BY <2>1, Sizes
  <2> QED BY <2>1, <2>2, <2>3, <2>5, <2>6, <2>7
<1> QED BY <1>1, FastInvariance, PTL

(* The abstract signer's copies of the operators of HashTree are the same.   *)
LEMMA SameTrees ==
  ASSUME NEW p, NEW idx, NEW l, NEW a, NEW leaf, NEW m
  PROVE  /\ AbstractSigner!TreeAt(p, idx, l) = TreeAt(p, idx, l)
         /\ AbstractSigner!LeafAt(p, idx, l) = LeafAt(p, idx, l)
         /\ AbstractSigner!Capacity(p) = Capacity(p)
         /\ AbstractSigner!TreeRoot(p.th, a) = TreeRoot(p.th, a)
         /\ AbstractSigner!TreeAuth(p.th, a, leaf) = TreeAuth(p.th, a, leaf)
         /\ AbstractSigner!WotsSign(a, leaf, m) = WotsSign(a, leaf, m)
         /\ AbstractSigner!Digest(idx, idx, m) = Digest(idx, idx, m)
<1>1. AbstractSigner!Pow2 = Pow2 BY DEF AbstractSigner!Pow2, Pow2
<1>2. \A x, n : AbstractSigner!Shr(x, n) = Shr(x, n) BY <1>1 DEF AbstractSigner!Shr, Shr
<1>3. \A b, h, i : AbstractSigner!Node(b, h, i) = Node(b, h, i)
  BY DEF AbstractSigner!Node, Node
<1>4. \A x : AbstractSigner!Sibling(x) = Sibling(x) BY DEF AbstractSigner!Sibling, Sibling
<1>5. AbstractSigner!TreeAt(p, idx, l) = TreeAt(p, idx, l)
  BY <1>2 DEF AbstractSigner!TreeAt, TreeAt
<1>6. AbstractSigner!LeafAt(p, idx, l) = LeafAt(p, idx, l)
  BY <1>1, <1>2 DEF AbstractSigner!LeafAt, LeafAt
<1>7. AbstractSigner!Capacity(p) = Capacity(p)
  BY <1>1 DEF AbstractSigner!Capacity, Capacity
<1>8. AbstractSigner!TreeRoot(p.th, a) = TreeRoot(p.th, a)
  BY <1>3 DEF AbstractSigner!TreeRoot, TreeRoot
<1>9. AbstractSigner!TreeAuth(p.th, a, leaf) = TreeAuth(p.th, a, leaf)
  BY <1>2, <1>3, <1>4 DEF AbstractSigner!TreeAuth, TreeAuth
<1>10. AbstractSigner!WotsSign(a, leaf, m) = WotsSign(a, leaf, m)
  BY DEF AbstractSigner!WotsSign, WotsSign
<1>11. AbstractSigner!Digest(idx, idx, m) = Digest(idx, idx, m)
  BY DEF AbstractSigner!Digest, Digest
<1> QED BY <1>5, <1>6, <1>7, <1>8, <1>9, <1>10, <1>11

(* So is its sign_open.                                                      *)
LEMMA SameOpening ==
  ASSUME NEW p, NEW root, NEW sm
  PROVE  AbstractSigner!SignOpen(p, root, sm) <=> SignOpen(p, root, sm)
BY DEF AbstractSigner!SignOpen, SignOpen, AbstractSigner!ComputeRoot, ComputeRoot,
       AbstractSigner!HashPair, HashPair, AbstractSigner!Node, Node,
       AbstractSigner!Junk, Junk, AbstractSigner!Bit, Bit, AbstractSigner!Shr, Shr,
       AbstractSigner!Pow2, Pow2, AbstractSigner!LeafFromSig, LeafFromSig,
       AbstractSigner!GenLeaf, GenLeaf, AbstractSigner!WotsSign, WotsSign,
       AbstractSigner!Digest, Digest, AbstractSigner!TreeAt, TreeAt,
       AbstractSigner!LeafAt, LeafAt

(* What is issued for a leaf of the tree is what the abstract signer         *)
(* promises.                                                                 *)
LEMMA IssuedCanonical ==
  ASSUME NEW p \in ParamSets, NEW n \in Nat, n < Pow2[p.th], NEW m
  PROVE  AbstractSigner!Canonical(p, n, m) = Issued(n, m, TreeAuth(p.th, Tree, n))
<1> DEFINE a(l)    == <<l, AbstractSigner!TreeAt(p, n, l)>>
           msg(l)  == IF l = 0 THEN AbstractSigner!Digest(n, n, m)
                               ELSE AbstractSigner!TreeRoot(p.th, a(l - 1))
           leaf(l) == AbstractSigner!LeafAt(p, n, l)
           wots(l) == AbstractSigner!WotsSign(a(l), leaf(l), msg(l))
           auth(l) == AbstractSigner!TreeAuth(p.th, a(l), leaf(l))
<1>1. AbstractSigner!Canonical(p, n, m) =
        [idx |-> n, r |-> n, msg |-> m,
         wots |-> [l \in 0..(p.d - 1) |-> wots(l)],
         auth |-> [l \in 0..(p.d - 1) |-> auth(l)]]
  BY DEF AbstractSigner!Canonical
<1>2. 0..(p.d - 1) = {0}
  <2>1. p.d = 1 BY Sizes
  <2> QED BY <2>1
<1>3. a(0) = Tree /\ leaf(0) = n /\ msg(0) = Digest(n, n, m)
  <2>1. Place(p, n, 0) = Tree /\ LeafAt(p, n, 0) = n BY OnlyTree
  <2>2. a(0) = Place(p, n, 0) /\ leaf(0) = LeafAt(p, n, 0) BY SameTrees DEF Place
  <2>3. msg(0) = Digest(n, n, m) BY SameTrees
  <2> QED BY <2>1, <2>2, <2>3
<1>4. wots(0) = SignDigest(n, m)
  <2> HIDE DEF a, leaf, msg
  <2> QED BY <1>3, SameTrees DEF SignDigest
<1>5. auth(0) = TreeAuth(p.th, Tree, n)
  <2> HIDE DEF a, leaf
  <2> QED BY <1>3, SameTrees
<1> HIDE DEF wots, auth
<1>6. /\ [l \in 0..(p.d - 1) |-> wots(l)] = [l \in {0} |-> SignDigest(n, m)]
      /\ [l \in 0..(p.d - 1) |-> auth(l)] = [l \in {0} |-> TreeAuth(p.th, Tree, n)]
  BY <1>2, <1>4, <1>5
<1> QED BY <1>1, <1>6 DEF Issued

(* A call issues the signature of its index or, past the last leaf,          *)
(* something that nobody accepts.                                            *)
LEMMA SignImplements ==
  ASSUME BudgetSuffices, NoOutputIsNone, IInv, IInv', NEW m \in Messages, Sign(m)
  PROVE  AbstractSigner!Issue(m) \/ AbstractSigner!Overrun
<1>1. /\ params' = params /\ pkRoot # Junk /\ calls' = calls + 1
      /\ out' = Issued(skIdx, m, state.auth)
  BY DEF Sign, Issued
<1>2. /\ params \in ParamSets /\ calls \in Nat /\ (calls < params.space => skIdx = calls)
      /\ (calls < Leaves => Path(params, Tree, state, calls))
  BY <1>1 DEF IInv, Numbered, PathReady
<1>3. /\ params.space \in Nat /\ Leaves \in Nat /\ Leaves <= params.space
      /\ Leaves = Pow2[params.th] /\ Capacity(params) = Leaves /\ params.d = 1
  BY <1>2, Sizes DEF Leaves
<1>4. AbstractSigner!Capacity(params) = Leaves BY <1>3, SameTrees
<1>5. CASE calls < Leaves
  <2>1. skIdx = calls /\ state.auth = TreeAuth(params.th, Tree, calls)
    BY <1>2, <1>3, <1>5, PathIsTreeAuth
  <2>2. out' = AbstractSigner!Canonical(params, calls, m)
    BY <2>1, <1>1, <1>2, <1>3, <1>5, IssuedCanonical
  <2>3. AbstractSigner!Issue(m) BY <2>2, <1>1, <1>4, <1>5 DEF AbstractSigner!Issue
  <2> QED BY <2>3
<1>6. CASE ~(calls < Leaves)
  <2>1. calls >= Leaves BY <1>2, <1>3, <1>6
  <2>2. out' # NoOutput BY <1>1 DEF NoOutputIsNone, Issued
  <2>3. ASSUME calls < params.space
        PROVE  ~AbstractSigner!SignOpen(params,
                  AbstractSigner!TreeRoot(params.th, <<params.d - 1, 0>>), out')
    <3>1. out' = Issued(calls, m, state.auth) BY <2>3, <1>1, <1>2
    <3>2. ~SignOpen(params, TreeRoot(params.th, Tree), Issued(calls, m, state.auth))
      BY <1>2, <1>3, <1>6, IssuedOpens
    <3>3. <<params.d - 1, 0>> = Tree BY <1>3 DEF Tree
    <3> QED BY <3>1, <3>2, <3>3, SameOpening, SameTrees
  <2>4. AbstractSigner!Overrun
    BY <1>1, <1>4, <2>1, <2>2, <2>3 DEF AbstractSigner!Overrun
  <2> QED BY <2>4
<1> QED BY <1>5, <1>6

(* For every parameter set whose budget suffices and any number of calls,    *)
(* the signer with traversal state implements the abstract signer, as the    *)
(* one without it does: call number i of a key pair yields the same          *)
(* signature.                                                                *)
THEOREM ImplementsSignerHolds ==
  ASSUME BudgetSuffices, NoOutputIsNone PROVE Spec => ImplementsSigner
<1>1. Init => AbstractSigner!Init BY DEF Init, AbstractSigner!Init
<1>2. IInv /\ IInv' /\ [Next]_vars => [AbstractSigner!Next]_(AbstractSigner!vars)
  <2> SUFFICES ASSUME IInv, IInv', [Next]_vars
               PROVE  [AbstractSigner!Next]_(AbstractSigner!vars)
    OBVIOUS
  <2>1. CASE Keypair
    <3>1. UNCHANGED <<params, calls, out>> BY <2>1 DEF Keypair
    <3> QED BY <3>1 DEF AbstractSigner!vars
  <2>2. CASE \E m \in Messages : Sign(m)
    BY <2>2, SignImplements DEF AbstractSigner!Next
  <2>3. CASE UNCHANGED vars BY <2>3 DEF vars, AbstractSigner!vars
  <2> QED BY <2>1, <2>2, <2>3 DEF Next
<1> QED BY <1>1, <1>2, FastInvariance, PTL DEF Spec, ImplementsSigner, AbstractSigner!Spec

-----------------------------------------------------------------------------
(* Until the index wraps, a leaf that has signed has signed once and has an  *)
(* index that is used up.                                                    *)
SpentOnce ==
  calls <= params.space =>
    \A key \in DOMAIN used : used[key] = 1 /\ \E n \in 0..(calls - 1) : key = <<Tree, n>>

(* The inductive invariant behind OneTimeKey.                                *)
KeysInv ==
  /\ params \in ParamSets /\ calls \in Nat /\ skIdx \in Nat
  /\ pkRoot = Junk => calls = 0
  /\ Numbered
  /\ SpentOnce

(* A call, whether it returns or is cut short, signs with the next leaf.     *)
LEMMA CallKeys ==
  ASSUME KeysInv, NEW m, pkRoot # Junk, pkRoot' = pkRoot, params' = params,
         calls' = calls + 1, skIdx' = (skIdx + 1) % params.space,
         used' = used (+) SetToBag({SignDigest(skIdx, m).key})
  PROVE  KeysInv'
<1>1. params \in ParamSets /\ calls \in Nat /\ skIdx \in Nat BY DEF KeysInv
<1>2. params.space \in Nat \ {0}
  <2>1. params.space \in Nat /\ Pow2[params.th] \in Nat \ {0} /\ Pow2[params.th] <= params.space
    BY <1>1, Sizes
  <2> QED BY <2>1
<1>3. calls' \in Nat /\ skIdx' \in Nat BY <1>1, <1>2
<1>4. Numbered'
  <2> SUFFICES ASSUME calls + 1 < params.space PROVE skIdx' = calls + 1 BY DEF Numbered
  <2>1. skIdx = calls BY <1>1, <1>2 DEF KeysInv, Numbered
  <2> QED BY <2>1, <1>1, <1>2
<1>5. SpentOnce'
  <2> SUFFICES ASSUME calls + 1 <= params.space, NEW key \in DOMAIN used'
               PROVE  used'[key] = 1 /\ \E n \in 0..calls : key = <<Tree, n>>
    BY <1>1 DEF SpentOnce
  <2>1. skIdx = calls BY <1>1, <1>2 DEF KeysInv, Numbered
  <2>2. SignDigest(skIdx, m).key = <<Tree, calls>> BY <2>1 DEF SignDigest, WotsSign
  <2>3. \A k \in DOMAIN used : used[k] = 1 /\ \E n \in 0..(calls - 1) : k = <<Tree, n>>
    BY <1>1, <1>2 DEF KeysInv, SpentOnce
  <2>4. <<Tree, calls>> \notin DOMAIN used BY <2>3, <1>1
  <2>5. DOMAIN SetToBag({<<Tree, calls>>}) = {<<Tree, calls>>}
        /\ SetToBag({<<Tree, calls>>})[<<Tree, calls>>] = 1
    BY DEF SetToBag
  <2>6. used' = [k \in DOMAIN used \cup {<<Tree, calls>>} |->
                   (IF k \in DOMAIN used THEN used[k] ELSE 0)
                   + (IF k \in {<<Tree, calls>>} THEN SetToBag({<<Tree, calls>>})[k] ELSE 0)]
    BY <2>2, <2>5 DEF (+)
  <2>7. CASE key = <<Tree, calls>>
    <3>1. used'[key] = 0 + 1 BY <2>4, <2>5, <2>6, <2>7
    <3> QED BY <3>1, <2>7, <1>1
  <2>8. CASE key # <<Tree, calls>>
    <3>1. key \in DOMAIN used BY <2>6, <2>8
    <3>2. used'[key] = 1 + 0 BY <2>3, <2>6, <2>8, <3>1
    <3>3. PICK n \in 0..(calls - 1) : key = <<Tree, n>> BY <2>3, <3>1
    <3>4. n \in 0..calls BY <3>3, <1>1
    <3> QED BY <3>2, <3>3, <3>4
  <2> QED BY <2>7, <2>8
<1> QED BY <1>1, <1>3, <1>4, <1>5 DEF KeysInv

(* No leaf signs twice until the index wraps, for every height and any       *)
(* number of calls, whichever of them are cut short (xmss_core_fast.c:619):  *)
(* the keys do not depend on the traversal state, which a crash leaves behind *)
(* the index.                                                                *)
THEOREM OneTimeKeyHolds == CrashSpec => []OneTimeKey
<1>1. Init => KeysInv
  <2> SUFFICES ASSUME Init PROVE KeysInv OBVIOUS
  <2>1. params \in ParamSets /\ calls = 0 /\ skIdx = 0 /\ used = EmptyBag BY DEF Init
  <2>2. DOMAIN used = {} BY <2>1 DEF EmptyBag, SetToBag
  <2> QED BY <2>1, <2>2 DEF KeysInv, Numbered, SpentOnce
<1>2. KeysInv /\ [CrashNext]_vars => KeysInv'
  <2> SUFFICES ASSUME KeysInv, [CrashNext]_vars PROVE KeysInv' OBVIOUS
  <2>1. CASE Keypair
    <3>1. /\ pkRoot = Junk /\ skIdx' = 0 /\ params' = params /\ calls' = calls /\ used' = used
      BY <2>1, Zenon DEF Keypair
    <3> QED BY <3>1 DEF KeysInv, Numbered, SpentOnce
  <2>2. CASE \E m \in Messages : Sign(m)
    <3>1. PICK m \in Messages : Sign(m) BY <2>2
    <3>2. /\ pkRoot # Junk /\ pkRoot' = pkRoot /\ params' = params /\ calls' = calls + 1
          /\ skIdx' = (skIdx + 1) % params.space
          /\ out'.wots = [l \in {0} |-> SignDigest(skIdx, m)]
          /\ used' = used (+) SetToBag({out'.wots[0].key})
      BY <3>1 DEF Sign
    <3>3. used' = used (+) SetToBag({SignDigest(skIdx, m).key}) BY <3>2
    <3> QED BY <3>2, <3>3, CallKeys
  <2>3. CASE \E m \in Messages : Crash(m) BY <2>3, CallKeys DEF Crash
  <2>4. CASE UNCHANGED vars BY <2>4 DEF vars, KeysInv, Numbered, SpentOnce
  <2> QED BY <2>1, <2>2, <2>3, <2>4 DEF CrashNext, Next
<1>3. KeysInv => OneTimeKey BY DEF KeysInv, SpentOnce, OneTimeKey, BagToSet
<1> QED BY <1>1, <1>2, <1>3, PTL DEF CrashSpec
=============================================================================
