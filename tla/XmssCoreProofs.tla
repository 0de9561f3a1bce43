--------------------------- MODULE XmssCoreProofs ---------------------------
(***************************************************************************)
(* Proofs about the signer of xmss_core.c, for every parameter set and     *)
(* every number of calls, however many of them are cut short: no one-time  *)
(* key signs twice; a signature is the one its index and message           *)
(* determine; it opens exactly if the key pair was made for that index;    *)
(* and the signer implements the abstract one.                             *)
(***************************************************************************)
EXTENDS XmssCore, TreeProofs

(* The number of a one-time key among all keys of its layer. *)
KeyIndex(s) == s.key[1][2] * Pow2[params.th] + s.key[2]

Layer(s) == s.key[1][1]

(* Nothing is signed before there is a key pair. *)
Fresh == pkRoot = Junk => calls = 0 /\ call = Idle

(* The index in the secret key counts the calls until it wraps. *)
CallsCounted == calls < params.space => skIdx = calls

(* A call that has not signed yet works on the index before the next one. *)
Pending ==
  call.active /\ call.layer = 0 /\ calls <= params.space => call.idx = calls - 1

(* Above layer 0 a call signs the root of the tree it has just left. *)
RootBelow ==
  call.active /\ call.layer > 0
    => call.root = TreeRoot(params.th, <<call.layer - 1, call.idx>>)

(* Hence what a key above layer 0 has signed is determined by the key. *)
UpperMessages ==
  \A s \in used :
    Layer(s) > 0 => s.msg = TreeRoot(params.th, <<Layer(s) - 1, KeyIndex(s)>>)

(* The keys of layer 0 from this number on have not been used. *)
FirstUnused == IF call.active /\ call.layer = 0 THEN calls - 1 ELSE calls

LowestUsed ==
  calls <= params.space =>
    \A s \in used : Layer(s) = 0 => KeyIndex(s) < FirstUnused

LowestOnce ==
  calls <= params.space =>
    \A s, t \in used : s.key = t.key /\ Layer(s) = 0 => s.msg = t.msg

(* The inductive invariant behind OneTimeKey. *)
IInv ==
  /\ TypeOK
  /\ Fresh
  /\ CallsCounted
  /\ Pending
  /\ RootBelow
  /\ UpperMessages
  /\ LowestUsed
  /\ LowestOnce
-----------------------------------------------------------------------------
(* The sizes that a parameter set gives are positive.                        *)
LEMMA Sizes ==
  ASSUME TypeOK
  PROVE  /\ params.th \in Nat /\ params.d \in Nat \ {0}
         /\ params.space \in Nat \ {0}
         /\ Pow2[params.th] \in Nat \ {0}
<1>1. /\ params.th \in Nat \ {0} /\ params.d \in Nat \ {0}
      /\ params.space \in Nat /\ Capacity(params) <= params.space
  BY ParamSetsAssumption DEF TypeOK
<1>2. params.th * params.d \in Nat BY ONLY <1>1
<1>3. Capacity(params) \in Nat \ {0} BY <1>2, Pow2Recursion DEF Capacity
<1>4. Pow2[params.th] \in Nat \ {0} BY <1>1, Pow2Recursion
<1> QED BY ONLY <1>1, <1>3, <1>4

(* The parts of the signature that SignLayer makes.                          *)
LEMMA KeyParts ==
  ASSUME NEW l, NEW tree, NEW leaf, NEW m
  PROVE  LET s == WotsSign(<<l, tree>>, leaf, m)
         IN  /\ s.key = <<<<l, tree>>, leaf>> /\ s.msg = m
             /\ Layer(s) = l
             /\ KeyIndex(s) = tree * Pow2[params.th] + leaf
BY DEF WotsSign, Layer, KeyIndex

(* IInv holds initially.                                                     *)
LEMMA InitIInv == Init => IInv
<1> SUFFICES ASSUME Init PROVE IInv OBVIOUS
<1>1. params \in ParamSets BY DEF Init
<1>2. params.space \in Nat \ {0}
  <2>1. /\ params.th \in Nat \ {0} /\ params.d \in Nat \ {0}
        /\ params.space \in Nat /\ Capacity(params) <= params.space
    BY <1>1, ParamSetsAssumption
  <2>2. params.th * params.d \in Nat BY ONLY <2>1
  <2>3. Capacity(params) \in Nat \ {0} BY <2>2, Pow2Recursion DEF Capacity
  <2> QED BY ONLY <2>1, <2>3
<1>3. TypeOK BY <1>1, <1>2, MaxCallsAssumption DEF Init, TypeOK
<1>4. Fresh /\ CallsCounted /\ Pending /\ RootBelow
  BY DEF Init, Idle, Fresh, CallsCounted, Pending, RootBelow
<1>5. UpperMessages /\ LowestUsed /\ LowestOnce
  BY DEF Init, UpperMessages, LowestUsed, LowestOnce
<1> QED BY <1>3, <1>4, <1>5 DEF IInv

(* Key generation keeps IInv: there has been no call yet.                    *)
LEMMA KeypairIInv == IInv /\ Keypair => IInv'
<1> SUFFICES ASSUME IInv, Keypair PROVE IInv' OBVIOUS
<1>1. calls = 0 /\ call = Idle BY DEF IInv, Fresh, Keypair
<1>2. UNCHANGED <<params, calls, call, out, used>> /\ skIdx' = 0
  BY DEF Keypair
<1>3. params.space \in Nat \ {0} BY Sizes DEF IInv
<1>4. TypeOK' BY <1>2, <1>3 DEF IInv, TypeOK, Keypair, TopTree
<1>5. Fresh' /\ CallsCounted' BY <1>1, <1>2 DEF Fresh, CallsCounted
<1>6. /\ Pending' /\ RootBelow' /\ UpperMessages' /\ LowestUsed' /\ LowestOnce'
  BY <1>2 DEF IInv, Pending, RootBelow, UpperMessages, LowestUsed, LowestOnce,
              FirstUnused, KeyIndex, Layer
<1> QED BY <1>4, <1>5, <1>6 DEF IInv

(* Starting a call keeps IInv: the index it takes is one that no key of      *)
(* layer 0 has been used for, unless the index has wrapped around.           *)
LEMMA SignBeginIInv ==
  ASSUME NEW m \in Messages
  PROVE  IInv /\ SignBegin(m) => IInv'
<1> SUFFICES ASSUME IInv, SignBegin(m) PROVE IInv' OBVIOUS
<1>1. /\ calls \in Nat /\ skIdx \in 0..(params.space - 1)
      /\ params.space \in Nat \ {0} /\ params.d \in Nat \ {0}
  BY Sizes, MaxCallsAssumption DEF IInv, TypeOK
<1>2. /\ UNCHANGED <<params, pkRoot, out, used>>
      /\ calls' = calls + 1 /\ calls < MaxCalls
      /\ skIdx' = (skIdx + 1) % params.space
      /\ call'.active /\ call'.layer = 0 /\ call'.idx = skIdx
      /\ ~call.active /\ pkRoot # Junk
  BY DEF SignBegin
<1>3. skIdx' \in 0..(params.space - 1)
  <2>1. skIdx + 1 \in Nat BY <1>1
  <2> QED BY ONLY <1>1, <1>2, <2>1, SplitAt
<1>4. TypeOK'
  <2>1. call' = [active |-> TRUE, layer |-> call'.layer, idx |-> call'.idx,
                 root |-> call'.root, sm |-> call'.sm]
    BY DEF SignBegin
  <2>2. call'.layer \in 0..params.d /\ call'.idx \in 0..(params.space - 1)
    BY <1>1, <1>2
  <2>3. calls' \in 0..MaxCalls BY <1>1, <1>2, MaxCallsAssumption
  <2> QED BY <1>2, <1>3, <2>1, <2>2, <2>3 DEF IInv, TypeOK, TopTree
<1>5. Fresh' /\ RootBelow' BY <1>2 DEF Fresh, RootBelow
<1>6. ASSUME calls + 1 <= params.space PROVE skIdx = calls
  <2>1. calls < params.space BY <1>1, <1>6
  <2> QED BY <2>1 DEF IInv, CallsCounted
<1>7. CallsCounted'
  <2> SUFFICES ASSUME calls + 1 < params.space PROVE skIdx' = calls + 1
    BY <1>2 DEF CallsCounted
  <2>1. skIdx = calls BY <1>1, <1>6
  <2>2. (calls + 1) % params.space = calls + 1 BY <1>1
  <2> QED BY <1>2, <2>1, <2>2
<1>8. Pending' BY <1>1, <1>2, <1>6 DEF Pending
<1>9. UpperMessages'
  BY <1>2 DEF IInv, UpperMessages, KeyIndex, Layer
<1>10. LowestUsed' /\ LowestOnce'
  <2>1. calls + 1 <= params.space => calls <= params.space BY <1>1
  <2>2. FirstUnused' = FirstUnused BY <1>1, <1>2 DEF FirstUnused
  <2> QED BY <1>2, <2>1, <2>2 DEF IInv, LowestUsed, LowestOnce, KeyIndex, Layer
<1> QED BY <1>4, <1>5, <1>7, <1>8, <1>9, <1>10 DEF IInv

(* Signing a layer keeps IInv: the key of layer 0 is fresh, and the key of a *)
(* higher layer signs the root that its own number names.                    *)
LEMMA SignLayerIInv == IInv /\ SignLayer => IInv'
<1> SUFFICES ASSUME IInv, SignLayer PROVE IInv' OBVIOUS
<1> DEFINE l    == call.layer
           T    == Pow2[params.th]
           leaf == call.idx % T
           tree == call.idx \div T
           sig  == WotsSign(<<l, tree>>, leaf, call.root)
<1>1. /\ call.active /\ l < params.d
      /\ UNCHANGED <<params, pkRoot, skIdx, calls, out>>
      /\ used' = used \cup {sig}
      /\ call' = [call EXCEPT !.layer = l + 1, !.idx = tree,
                              !.root = TreeRoot(params.th, <<l, tree>>),
                              !.sm.wots = AtNext(call.sm.wots, l, sig),
                              !.sm.auth = AtNext(call.sm.auth, l,
                                TreeAuth(params.th, <<l, tree>>, leaf))]
  BY DEF SignLayer, Subtree, IdxLeaf
<1>2. /\ params.d \in Nat /\ params.space \in Nat \ {0} /\ T \in Nat \ {0}
      /\ calls \in Nat
  <2>1. TypeOK BY DEF IInv
  <2>2. calls \in Nat BY <2>1, MaxCallsAssumption DEF TypeOK
  <2> QED BY <2>1, <2>2, Sizes
<1>3. /\ call = [active |-> TRUE, layer |-> call.layer, idx |-> call.idx,
                 root |-> call.root, sm |-> call.sm]
      /\ l \in 0..params.d /\ call.idx \in 0..(params.space - 1)
  <2>1. call # Idle BY <1>1 DEF Idle
  <2> QED BY <2>1 DEF IInv, TypeOK
<1>4. /\ tree \in Nat /\ leaf \in 0..(T - 1)
      /\ call.idx = tree * T + leaf /\ tree <= call.idx
  <2>1. call.idx \in Nat BY <1>3
  <2>2. tree \in Nat /\ leaf \in 0..(T - 1) /\ call.idx = tree * T + leaf
    BY <1>2, <2>1, SplitAt
  <2> HIDE DEF tree, leaf, T
  <2>3. tree <= tree * T BY ONLY <1>2, <2>2
  <2>4. tree * T \in Nat BY ONLY <1>2, <2>2
  <2> QED BY ONLY <1>2, <2>1, <2>2, <2>3, <2>4
<1>5. /\ call'.active /\ call'.layer = l + 1 /\ call'.idx = tree
      /\ call'.root = TreeRoot(params.th, <<l, tree>>)
      /\ call' = [active |-> TRUE, layer |-> call'.layer, idx |-> call'.idx,
                  root |-> call'.root, sm |-> call'.sm]
  <2> HIDE DEF tree, leaf, sig
  <2> QED BY <1>1, <1>3
<1>6. /\ sig.key = <<<<l, tree>>, leaf>> /\ sig.msg = call.root
      /\ Layer(sig) = l /\ KeyIndex(sig) = call.idx
  <2> HIDE DEF tree, leaf
  <2> QED BY <1>4, KeyParts
<1> HIDE DEF tree, leaf, sig
<1>7. TypeOK'
  <2>1. ASSUME NEW s \in used'
        PROVE  \E k \in 0..(params.d - 1), t \in 0..(params.space - 1),
                  f \in 0..(T - 1) : s = WotsSign(<<k, t>>, f, s.msg)
    <3>1. CASE s \in used BY <3>1 DEF IInv, TypeOK
    <3>2. CASE s = sig
      <4>1. l \in 0..(params.d - 1) /\ tree \in 0..(params.space - 1)
        BY <1>1, <1>2, <1>3, <1>4
      <4>2. s = WotsSign(<<l, tree>>, leaf, s.msg) BY <3>2, <1>6 DEF sig
      <4> QED BY <4>1, <4>2, <1>4
    <3> QED BY <1>1, <3>1, <3>2
  <2>2. call'.layer \in 0..params.d /\ call'.idx \in 0..(params.space - 1)
    BY <1>1, <1>2, <1>3, <1>4, <1>5
  <2> QED BY <1>1, <1>5, <2>1, <2>2 DEF IInv, TypeOK, TopTree
<1>8. Fresh' BY <1>1, <1>3 DEF IInv, Fresh, Idle
<1>9. CallsCounted' BY <1>1 DEF IInv, CallsCounted
<1>10. Pending' /\ RootBelow' BY <1>1, <1>2, <1>3, <1>5 DEF Pending, RootBelow
<1>11. UpperMessages'
  <2>1. ASSUME NEW s \in used', Layer(s) > 0
        PROVE  s.msg = TreeRoot(params.th, <<Layer(s) - 1, KeyIndex(s)>>)
    <3>1. CASE s \in used BY <3>1, <2>1 DEF IInv, UpperMessages
    <3>2. CASE s = sig BY <3>2, <2>1, <1>1, <1>6 DEF IInv, RootBelow
    <3> QED BY <1>1, <3>1, <3>2
  <2> QED BY <1>1, <2>1 DEF UpperMessages, KeyIndex, Layer
<1>12. FirstUnused' = calls BY <1>1, <1>2, <1>3, <1>5 DEF FirstUnused
<1>13. ASSUME calls <= params.space, NEW s \in used, Layer(s) = 0
       PROVE  /\ KeyIndex(s) < calls
              /\ l = 0 => KeyIndex(s) # call.idx
  <2>1. KeyIndex(s) < FirstUnused BY <1>13 DEF IInv, LowestUsed
  <2>2. KeyIndex(s) \in Int
    <3>1. PICK k \in 0..(params.d - 1), t \in 0..(params.space - 1),
               f \in 0..(T - 1) : s = WotsSign(<<k, t>>, f, s.msg)
      BY DEF IInv, TypeOK
    <3>2. KeyIndex(s) = t * T + f BY <3>1, KeyParts
    <3>3. t \in Nat /\ f \in Nat BY <1>2
    <3>4. t * T + f \in Nat BY ONLY <3>3, <1>2
    <3> QED BY <3>2, <3>4
  <2>3. l = 0 => call.idx = calls - 1 /\ FirstUnused = calls - 1
    BY <1>1, <1>13 DEF IInv, Pending, FirstUnused
  <2>4. l # 0 => FirstUnused = calls BY <1>1 DEF FirstUnused
  <2> QED BY <1>2, <2>1, <2>2, <2>3, <2>4
<1>14. LowestUsed'
  <2>1. ASSUME calls <= params.space, NEW s \in used', Layer(s) = 0
        PROVE  KeyIndex(s) < calls
    <3>1. CASE s \in used BY <3>1, <2>1, <1>13
    <3>2. CASE s = sig
      BY <3>2, <2>1, <1>1, <1>2, <1>6 DEF IInv, Pending
    <3> QED BY <1>1, <3>1, <3>2
  <2> QED BY <1>1, <1>12, <2>1 DEF LowestUsed, KeyIndex, Layer
<1>15. LowestOnce'
  <2>1. ASSUME calls <= params.space, NEW s \in used', NEW t \in used',
               s.key = t.key, Layer(s) = 0
        PROVE  s.msg = t.msg
    <3>1. KeyIndex(s) = KeyIndex(t) /\ Layer(t) = 0
      BY <2>1 DEF KeyIndex, Layer
    <3>2. CASE s \in used /\ t \in used
      BY <3>2, <2>1 DEF IInv, LowestOnce
    <3>3. CASE s = sig /\ t = sig BY <3>3
    <3>4. CASE s = sig /\ t \in used BY <3>1, <3>4, <2>1, <1>6, <1>13
    <3>5. CASE s \in used /\ t = sig BY <3>1, <3>5, <2>1, <1>6, <1>13
    <3> QED BY <1>1, <3>2, <3>3, <3>4, <3>5
  <2> QED BY <1>1, <2>1 DEF LowestOnce, Layer
<1> QED BY <1>7, <1>8, <1>9, <1>10, <1>11, <1>14, <1>15 DEF IInv

(* The end of a call, returned or cut short, keeps IInv: the index of the    *)
(* call is behind the secret key's.                                          *)
LEMMA EndIInv == IInv /\ (SignReturn \/ Abort) => IInv'
<1> SUFFICES ASSUME IInv, SignReturn \/ Abort PROVE IInv' OBVIOUS
<1>1. /\ UNCHANGED <<params, pkRoot, skIdx, calls, used>>
      /\ call' = Idle /\ ~call'.active /\ call.active
  BY DEF SignReturn, Abort, Idle
<1>2. calls \in Nat BY MaxCallsAssumption DEF IInv, TypeOK
<1>3. TypeOK' BY <1>1 DEF IInv, TypeOK, TopTree
<1>4. Fresh' /\ CallsCounted' /\ Pending' /\ RootBelow'
  BY <1>1 DEF IInv, Fresh, CallsCounted, Pending, RootBelow
<1>5. UpperMessages' /\ LowestOnce'
  BY <1>1 DEF IInv, UpperMessages, LowestOnce, KeyIndex, Layer
<1>6. LowestUsed'
  <2>1. ASSUME calls <= params.space, NEW s \in used, Layer(s) = 0
        PROVE  KeyIndex(s) < calls
    <3>1. KeyIndex(s) < FirstUnused BY <2>1 DEF IInv, LowestUsed
    <3>2. FirstUnused \in {calls, calls - 1} BY DEF FirstUnused
    <3>3. KeyIndex(s) \in Int
      <4>1. PICK k \in 0..(params.d - 1), t \in 0..(params.space - 1),
                 f \in 0..(Pow2[params.th] - 1) : s = WotsSign(<<k, t>>, f, s.msg)
        BY DEF IInv, TypeOK
      <4>2. KeyIndex(s) = t * Pow2[params.th] + f BY <4>1, KeyParts
      <4>3. /\ Pow2[params.th] \in Nat \ {0} /\ params.space \in Nat
        BY Sizes DEF IInv
      <4>4. t \in Nat /\ f \in Nat BY <4>3
      <4>5. t * Pow2[params.th] + f \in Nat BY ONLY <4>3, <4>4
      <4> QED BY <4>2, <4>5
    <3> QED BY <1>2, <3>1, <3>2, <3>3
  <2>2. FirstUnused' = calls BY <1>1 DEF FirstUnused
  <2> QED BY <1>1, <2>1, <2>2 DEF LowestUsed, KeyIndex, Layer
<1> QED BY <1>3, <1>4, <1>5, <1>6 DEF IInv

(* IInv is an invariant of the signer.                                       *)
LEMMA Invariance == Spec => []IInv
<1>1. IInv /\ [Next]_vars => IInv'
  <2> SUFFICES ASSUME IInv, [Next]_vars PROVE IInv' OBVIOUS
  <2>1. CASE Keypair BY <2>1, KeypairIInv
  <2>2. CASE \E m \in Messages : SignBegin(m) BY <2>2, SignBeginIInv
  <2>3. CASE SignLayer BY <2>3, SignLayerIInv
  <2>4. CASE SignReturn BY <2>4, EndIInv
  <2>5. CASE Abort BY <2>5, EndIInv
  <2>6. CASE UNCHANGED vars
    BY <2>6 DEF vars, IInv, TypeOK, TopTree, Fresh, CallsCounted, Pending, RootBelow,
                UpperMessages, LowestUsed, LowestOnce, FirstUnused, KeyIndex, Layer
  <2> QED BY <2>1, <2>2, <2>3, <2>4, <2>5, <2>6 DEF Next
<1> QED BY InitIInv, <1>1, PTL DEF Spec

(* The variables of the signer of xmss_core.c keep their types: in           *)
(* particular the index fits its bytes, and every one-time key signed with   *)
(* is a leaf of one of the d layers.                                         *)
THEOREM TypeCorrect == Spec => []TypeOK
<1>1. IInv => TypeOK BY DEF IInv
<1> QED BY Invariance, <1>1, PTL

(* For every parameter set, until the index bytes wrap around, the signer of *)
(* xmss_core.c never signs two values with one one-time key, on any layer,   *)
(* even if any number of calls is cut short after the index was stored.      *)
THEOREM OneTimeKeyHolds == Spec => []OneTimeKey
<1>1. IInv => OneTimeKey
  <2> SUFFICES ASSUME IInv, calls <= params.space,
                      NEW s \in used, NEW t \in used, s.key = t.key
               PROVE  s.msg = t.msg
    BY DEF OneTimeKey
  <2>1. Layer(s) = Layer(t) /\ KeyIndex(s) = KeyIndex(t) BY DEF Layer, KeyIndex
  <2>2. CASE Layer(s) = 0 BY <2>2 DEF IInv, LowestOnce
  <2>3. CASE Layer(s) # 0
    <3>1. Layer(s) \in Nat
      <4>1. PICK k \in 0..(params.d - 1), i \in 0..(params.space - 1),
                 f \in 0..(Pow2[params.th] - 1) : s = WotsSign(<<k, i>>, f, s.msg)
        BY DEF IInv, TypeOK
      <4>2. Layer(s) = k BY <4>1, KeyParts
      <4>3. params.d \in Nat BY Sizes DEF IInv
      <4> QED BY <4>2, <4>3
    <3>2. Layer(s) > 0 /\ Layer(t) > 0 BY <2>1, <2>3, <3>1
    <3> QED BY <2>1, <3>2 DEF IInv, UpperMessages
  <2> QED BY <2>2, <2>3
<1> QED BY Invariance, <1>1, PTL

-----------------------------------------------------------------------------
(* What is put out.                                                          *)

Canonical(idx, m) == AbstractSigner!Canonical(params, idx, m)

(* Nothing is put out before there is a key pair. *)
OutFresh == pkRoot = Junk => out = NoOutput

(* A running call has signed the layers behind it with what its index and    *)
(* message determine, and is about to sign the root of the last of them.     *)
InProgress ==
  call.active =>
    /\ call.sm = [idx |-> call.sm.idx, r |-> call.sm.idx, msg |-> call.sm.msg,
                  wots |-> call.sm.wots, auth |-> call.sm.auth]
    /\ call.sm.idx \in 0..(params.space - 1) /\ call.sm.msg \in Messages
    /\ call.idx = Shr(call.sm.idx, params.th * call.layer)
    /\ call.root = Signed(params, call.sm, call.layer)
    /\ call.layer > 0 =>
         /\ call.sm.wots = [l \in 0..(call.layer - 1) |->
              WotsSign(Place(params, call.sm.idx, l), LeafAt(params, call.sm.idx, l),
                       Signed(params, call.sm, l))]
         /\ call.sm.auth = [l \in 0..(call.layer - 1) |->
              TreeAuth(params.th, Place(params, call.sm.idx, l),
                       LeafAt(params, call.sm.idx, l))]

(* Until the index wraps around, call number i signs with index i. *)
Numbered == call.active /\ calls <= params.space => call.sm.idx = calls - 1

(* What has been put out is what some index and some message determine. *)
Returned ==
  out # NoOutput =>
    \E idx \in 0..(params.space - 1), m \in Messages : out = Canonical(idx, m)

(* The inductive invariant behind the theorems below. *)
SInv == IInv /\ OutFresh /\ InProgress /\ Numbered /\ Returned

-----------------------------------------------------------------------------
(* The abstract signer's copies of the operators of HashTree are the same.   *)
LEMMA SameOperators ==
  ASSUME NEW p, NEW idx, NEW l, NEW a, NEW leaf, NEW m
  PROVE  /\ AbstractSigner!TreeAt(p, idx, l) = TreeAt(p, idx, l)
         /\ AbstractSigner!LeafAt(p, idx, l) = LeafAt(p, idx, l)
         /\ AbstractSigner!Capacity(p) = Capacity(p)
         /\ AbstractSigner!TreeRoot(p.th, a) = TreeRoot(p.th, a)
         /\ AbstractSigner!TreeAuth(p.th, a, leaf) = TreeAuth(p.th, a, leaf)
         /\ AbstractSigner!WotsSign(a, leaf, m) = WotsSign(a, leaf, m)
         /\ AbstractSigner!Digest(idx, idx, m) = Digest(idx, idx, m)
<1>1. AbstractSigner!Pow2 = Pow2 BY DEF AbstractSigner!Pow2, Pow2
<1>2. \A x, n : AbstractSigner!Shr(x, n) = Shr(x, n) BY <1>1 DEF AbstractSigner!Shr, Shr
<1>3. \A b, h, i : AbstractSigner!Node(b, h, i) = Node(b, h, i)
  BY DEF AbstractSigner!Node, Node
<1>4. \A x : AbstractSigner!Sibling(x) = Sibling(x) BY DEF AbstractSigner!Sibling, Sibling
<1>5. AbstractSigner!TreeAt(p, idx, l) = TreeAt(p, idx, l)
  BY <1>2 DEF AbstractSigner!TreeAt, TreeAt
<1>6. AbstractSigner!LeafAt(p, idx, l) = LeafAt(p, idx, l)
  BY <1>1, <1>2 DEF AbstractSigner!LeafAt, LeafAt
<1>7. AbstractSigner!Capacity(p) = Capacity(p)
  BY <1>1 DEF AbstractSigner!Capacity, Capacity
<1>8. AbstractSigner!TreeRoot(p.th, a) = TreeRoot(p.th, a)
  BY <1>3 DEF AbstractSigner!TreeRoot, TreeRoot
<1>9. AbstractSigner!TreeAuth(p.th, a, leaf) = TreeAuth(p.th, a, leaf)
  BY <1>2, <1>3, <1>4 DEF AbstractSigner!TreeAuth, TreeAuth
<1>10. AbstractSigner!WotsSign(a, leaf, m) = WotsSign(a, leaf, m)
  BY DEF AbstractSigner!WotsSign, WotsSign
<1>11. AbstractSigner!Digest(idx, idx, m) = Digest(idx, idx, m)
  BY DEF AbstractSigner!Digest, Digest
<1> QED BY <1>5, <1>6, <1>7, <1>8, <1>9, <1>10, <1>11

(* What an index and a message determine, put in the operators of sign_open. *)
Determined(idx, m, l) ==
  IF l = 0 THEN Digest(idx, idx, m) ELSE TreeRoot(params.th, Place(params, idx, l - 1))

LEMMA CanonicalParts ==
  ASSUME NEW idx, NEW m
  PROVE  Canonical(idx, m) =
           [idx |-> idx, r |-> idx, msg |-> m,
            wots |-> [l \in 0..(params.d - 1) |->
                        WotsSign(Place(params, idx, l), LeafAt(params, idx, l),
                                 Determined(idx, m, l))],
            auth |-> [l \in 0..(params.d - 1) |->
                        TreeAuth(params.th, Place(params, idx, l),
                                 LeafAt(params, idx, l))]]
<1> DEFINE a(l)    == <<l, AbstractSigner!TreeAt(params, idx, l)>>
           msg(l)  == IF l = 0 THEN AbstractSigner!Digest(idx, idx, m)
                               ELSE AbstractSigner!TreeRoot(params.th, a(l - 1))
           leaf(l) == AbstractSigner!LeafAt(params, idx, l)
           wots(l) == AbstractSigner!WotsSign(a(l), leaf(l), msg(l))
           auth(l) == AbstractSigner!TreeAuth(params.th, a(l), leaf(l))
<1>1. Canonical(idx, m) =
        [idx |-> idx, r |-> idx, msg |-> m,
         wots |-> [l \in 0..(params.d - 1) |-> wots(l)],
         auth |-> [l \in 0..(params.d - 1) |-> auth(l)]]
  BY DEF Canonical, AbstractSigner!Canonical
<1>2. \A l : a(l) = Place(params, idx, l) /\ leaf(l) = LeafAt(params, idx, l)
  BY SameOperators DEF Place
<1>3. \A l : msg(l) = Determined(idx, m, l)
  BY SameOperators DEF Determined, Place
<1>4. \A l : wots(l) = WotsSign(Place(params, idx, l), LeafAt(params, idx, l),
                               Determined(idx, m, l))
  <2> HIDE DEF a, leaf, msg
  <2> QED BY <1>2, <1>3, SameOperators
<1>5. \A l : auth(l) = TreeAuth(params.th, Place(params, idx, l), LeafAt(params, idx, l))
  <2> HIDE DEF a, leaf
  <2> QED BY <1>2, SameOperators
<1> HIDE DEF wots, auth
<1> QED BY <1>1, <1>4, <1>5

(* The signature that the abstract signer promises is an honest one.         *)
LEMMA CanonicalHonest ==
  ASSUME NEW idx \in Nat, NEW m
  PROVE  /\ Honest(params, Canonical(idx, m))
         /\ Canonical(idx, m).idx = idx /\ Canonical(idx, m).r = idx
         /\ Canonical(idx, m).msg = m
<1> DEFINE sm == Canonical(idx, m)
<1>1. /\ sm.idx = idx /\ sm.r = idx /\ sm.msg = m
      /\ \A l \in 0..(params.d - 1) :
           /\ sm.wots[l] = WotsSign(Place(params, idx, l), LeafAt(params, idx, l),
                                    Determined(idx, m, l))
           /\ sm.auth[l] = TreeAuth(params.th, Place(params, idx, l),
                                    LeafAt(params, idx, l))
  BY CanonicalParts
<1> HIDE DEF sm
<1>2. \A l : Determined(idx, m, l) = Signed(params, sm, l)
  BY <1>1 DEF Determined, Signed
<1>3. Honest(params, sm) BY <1>1, <1>2 DEF Honest
<1> QED BY <1>1, <1>3 DEF sm

LEMMA InitSInv == Init => SInv
<1> SUFFICES ASSUME Init PROVE SInv OBVIOUS
<1>1. IInv BY InitIInv
<1>2. ~call.active /\ out = NoOutput BY DEF Init, Idle
<1> QED BY <1>1, <1>2 DEF SInv, OutFresh, InProgress, Numbered, Returned

(* Making the key pair keeps SInv: no call is running.                       *)
LEMMA KeypairSInv == SInv /\ Keypair => SInv'
<1> SUFFICES ASSUME SInv, Keypair PROVE SInv' OBVIOUS
<1>1. IInv' BY KeypairIInv DEF SInv
<1>2. call = Idle /\ ~call.active
  BY DEF SInv, IInv, Fresh, Keypair, Idle
<1>3. UNCHANGED <<params, calls, call, out, used>> BY DEF Keypair
<1>4. out = NoOutput BY DEF SInv, OutFresh, Keypair
<1> QED BY <1>1, <1>2, <1>3, <1>4
        DEF SInv, OutFresh, InProgress, Numbered, Returned

(* A call begins with the digest of its message and the index in the key.    *)
LEMMA SignBeginSInv ==
  ASSUME NEW m \in Messages
  PROVE  SInv /\ SignBegin(m) => SInv'
<1> SUFFICES ASSUME SInv, SignBegin(m) PROVE SInv' OBVIOUS
<1>1. IInv' BY SignBeginIInv DEF SInv
<1>2. /\ UNCHANGED <<params, pkRoot, out>> /\ calls' = calls + 1
      /\ call' = [active |-> TRUE, layer |-> 0, idx |-> skIdx,
                  root |-> Digest(skIdx, skIdx, m),
                  sm |-> [idx |-> skIdx, r |-> skIdx, msg |-> m,
                          wots |-> <<>>, auth |-> <<>>]]
  BY DEF SignBegin
<1>3. /\ skIdx \in 0..(params.space - 1) /\ calls \in Nat
      /\ params.space \in Nat /\ params.th \in Nat
  BY Sizes, MaxCallsAssumption DEF SInv, IInv, TypeOK
<1>4. OutFresh' /\ Returned'
  BY <1>2 DEF SInv, OutFresh, Returned, Canonical
<1>5. /\ call'.sm.idx = skIdx /\ call'.sm.r = skIdx /\ call'.sm.msg = m
      /\ call'.layer = 0 /\ call'.idx = skIdx
      /\ call'.root = Digest(skIdx, skIdx, m)
      /\ call'.sm = [idx |-> skIdx, r |-> skIdx, msg |-> m,
                     wots |-> <<>>, auth |-> <<>>]
  BY <1>2
<1>6. InProgress'
  <2>1. call'.sm = [idx |-> call'.sm.idx, r |-> call'.sm.idx, msg |-> call'.sm.msg,
                    wots |-> call'.sm.wots, auth |-> call'.sm.auth]
    BY <1>5
  <2>2. skIdx = Shr(skIdx, params.th * 0)
    <3>1. params.th * 0 = 0 BY <1>3
    <3>2. skIdx \in Nat BY <1>3
    <3>3. skIdx \div 1 = skIdx BY <3>2
    <3> QED BY <3>1, <3>3, Pow2Recursion DEF Shr
  <2>3. call'.root = Signed(params', call'.sm, call'.layer)
    BY <1>5 DEF Signed
  <2> QED BY <1>2, <1>3, <1>5, <2>1, <2>2, <2>3 DEF InProgress
<1>7. Numbered'
  <2>1. ASSUME calls + 1 <= params.space PROVE skIdx = (calls + 1) - 1
    <3>1. calls < params.space BY <1>3, <2>1
    <3> QED BY <3>1, <1>3 DEF SInv, IInv, CallsCounted
  <2> QED BY <2>1, <1>2, <1>5 DEF Numbered
<1> QED BY <1>1, <1>4, <1>6, <1>7 DEF SInv

(* Signing a layer keeps SInv: the place it signs at is the one the index    *)
(* selects, and what it signs is the root below.                             *)
LEMMA SignLayerSInv == SInv /\ SignLayer => SInv'
<1> SUFFICES ASSUME SInv, SignLayer PROVE SInv' OBVIOUS
<1> DEFINE n    == call.layer
           idx  == call.sm.idx
           a    == Place(params, idx, n)
           leaf == LeafAt(params, idx, n)
           sig  == WotsSign(a, leaf, Signed(params, call.sm, n))
           path == TreeAuth(params.th, a, leaf)
<1>1. IInv' BY SignLayerIInv DEF SInv
<1>2. /\ call.active /\ n < params.d
      /\ UNCHANGED <<params, pkRoot, skIdx, calls, out>>
  BY DEF SignLayer
<1>3. /\ params.th \in Nat /\ params.d \in Nat /\ params.space \in Nat \ {0}
      /\ Pow2[params.th] \in Nat \ {0}
  BY Sizes DEF SInv, IInv
<1>4. /\ call = [active |-> TRUE, layer |-> n, idx |-> call.idx,
                 root |-> call.root, sm |-> call.sm]
      /\ n \in 0..params.d /\ call.idx \in 0..(params.space - 1)
  <2>1. call # Idle BY <1>2 DEF Idle
  <2> QED BY <2>1 DEF SInv, IInv, TypeOK
<1>5. /\ call.sm = [idx |-> idx, r |-> idx, msg |-> call.sm.msg,
                    wots |-> call.sm.wots, auth |-> call.sm.auth]
      /\ idx \in 0..(params.space - 1) /\ call.sm.msg \in Messages
      /\ call.idx = Shr(idx, params.th * n)
      /\ call.root = Signed(params, call.sm, n)
  BY <1>2 DEF SInv, InProgress
<1>6. /\ n \in Nat /\ idx \in Nat /\ params.th * n \in Nat
      /\ params.th * (n + 1) = params.th * n + params.th
  BY <1>3, <1>4, <1>5
<1>7. Shr(call.idx, params.th) = TreeAt(params, idx, n)
  <2>1. Shr(Shr(idx, params.th * n), params.th) = Shr(idx, params.th * n + params.th)
    <3> DEFINE mm == params.th * n
               th == params.th
    <3>1. mm \in Nat /\ th \in Nat /\ idx \in Nat BY <1>3, <1>6
    <3> HIDE DEF mm, th, idx
    <3>2. Shr(Shr(idx, mm), th) = Shr(idx, mm + th) BY ONLY <3>1, ShrSum
    <3> QED BY <3>2 DEF mm, th
  <2> QED BY <2>1, <1>5, <1>6 DEF TreeAt
<1>8. Subtree = a /\ IdxLeaf = leaf
  <2>1. call.idx \div Pow2[params.th] = TreeAt(params, idx, n) BY <1>7 DEF Shr
  <2> QED BY <2>1, <1>5 DEF Subtree, IdxLeaf, Place, LeafAt
<1>9. call' = [call EXCEPT !.layer = n + 1, !.idx = call.idx \div Pow2[params.th],
                           !.root = TreeRoot(params.th, a),
                           !.sm.wots = AtNext(call.sm.wots, n, sig),
                           !.sm.auth = AtNext(call.sm.auth, n, path)]
  BY <1>5, <1>8 DEF SignLayer
<1> HIDE DEF a, leaf, sig, path
<1>10. /\ call'.layer = n + 1 /\ call'.idx = call.idx \div Pow2[params.th]
       /\ call'.root = TreeRoot(params.th, a) /\ call'.active
       /\ call'.sm = [idx |-> idx, r |-> idx, msg |-> call.sm.msg,
                      wots |-> AtNext(call.sm.wots, n, sig),
                      auth |-> AtNext(call.sm.auth, n, path)]
  <2>1. /\ call'.layer = n + 1 /\ call'.idx = call.idx \div Pow2[params.th]
        /\ call'.root = TreeRoot(params.th, a) /\ call'.active
    BY <1>4, <1>9
  <2>2. call'.sm = [call.sm EXCEPT !.wots = AtNext(call.sm.wots, n, sig),
                                   !.auth = AtNext(call.sm.auth, n, path)]
    BY <1>4, <1>9
  <2>3. call'.sm = [idx |-> idx, r |-> idx, msg |-> call.sm.msg,
                    wots |-> AtNext(call.sm.wots, n, sig),
                    auth |-> AtNext(call.sm.auth, n, path)]
    <3> DEFINE w == AtNext(call.sm.wots, n, sig)
               p == AtNext(call.sm.auth, n, path)
               msg == call.sm.msg
               i  == idx
               s  == call.sm
               t  == call'.sm
    <3>1. PICK w0, p0 : s = [idx |-> i, r |-> i, msg |-> msg, wots |-> w0, auth |-> p0]
      BY <1>5
    <3>2. t = [s EXCEPT !.wots = w, !.auth = p] BY <2>2
    <3>3. t = [idx |-> i, r |-> i, msg |-> msg, wots |-> w, auth |-> p]
      <4> HIDE DEF w, p, msg, i, s, t
      <4>1. t = [idx |-> t.idx, r |-> t.r, msg |-> t.msg, wots |-> t.wots, auth |-> t.auth]
        BY ONLY <3>1, <3>2
      <4>2. t.idx = i /\ t.r = i /\ t.msg = msg /\ t.wots = w /\ t.auth = p
        BY ONLY <3>1, <3>2
      <4> QED BY ONLY <4>1, <4>2
    <3> HIDE DEF w, p, msg, i
    <3> QED BY <3>3 DEF w, p, msg, i
  <2> QED BY <2>1, <2>3
<1>11. /\ call'.sm.idx = idx /\ call'.sm.r = idx /\ call'.sm.msg = call.sm.msg
       /\ call.sm.r = idx
       /\ call'.sm.wots = AtNext(call.sm.wots, n, sig)
       /\ call'.sm.auth = AtNext(call.sm.auth, n, path)
  BY <1>5, <1>10
<1>12. \A l : Signed(params, call'.sm, l) = Signed(params, call.sm, l)
  BY <1>11 DEF Signed
<1>13. call'.sm.wots = [l \in 0..n |->
          WotsSign(Place(params, idx, l), LeafAt(params, idx, l), Signed(params, call.sm, l))]
  <2> DEFINE s(l) == WotsSign(Place(params, idx, l), LeafAt(params, idx, l),
                              Signed(params, call.sm, l))
  <2>1. sig = s(n) BY DEF sig, a, leaf
  <2>2. n > 0 => call.sm.wots = [l \in 0..(n - 1) |-> s(l)]
    BY <1>2 DEF SInv, InProgress
  <2> HIDE DEF s
  <2>3. ASSUME NEW l \in 0..n
        PROVE  (IF l = n THEN sig ELSE call.sm.wots[l]) = s(l)
    BY <2>1, <2>2, <1>6
  <2>4. call'.sm.wots = [l \in 0..n |-> s(l)] BY <2>3, <1>11 DEF AtNext
  <2> QED BY <2>4 DEF s
<1>14. call'.sm.auth = [l \in 0..n |->
          TreeAuth(params.th, Place(params, idx, l), LeafAt(params, idx, l))]
  <2> DEFINE s(l) == TreeAuth(params.th, Place(params, idx, l), LeafAt(params, idx, l))
  <2>1. path = s(n) BY DEF path, a, leaf
  <2>2. n > 0 => call.sm.auth = [l \in 0..(n - 1) |-> s(l)]
    BY <1>2 DEF SInv, InProgress
  <2> HIDE DEF s
  <2>3. ASSUME NEW l \in 0..n
        PROVE  (IF l = n THEN path ELSE call.sm.auth[l]) = s(l)
    BY <2>1, <2>2, <1>6
  <2>4. call'.sm.auth = [l \in 0..n |-> s(l)] BY <2>3, <1>11 DEF AtNext
  <2> QED BY <2>4 DEF s
<1>15. InProgress'
  <2>1. (n + 1) - 1 = n /\ n + 1 # 0 BY <1>6
  <2>2. call'.root = Signed(params, call'.sm, n + 1)
    BY <2>1, <1>10, <1>11 DEF Signed, a
  <2>3. call'.idx = Shr(idx, params.th * (n + 1))
    BY <1>7, <1>10 DEF Shr, TreeAt
  <2>4. call'.sm.wots = [l \in 0..n |-> WotsSign(Place(params, idx, l),
                          LeafAt(params, idx, l), Signed(params, call'.sm, l))]
    <3> HIDE DEF idx, n
    <3> QED BY <1>12, <1>13
  <2>5. call'.sm = [idx |-> call'.sm.idx, r |-> call'.sm.idx, msg |-> call'.sm.msg,
                    wots |-> call'.sm.wots, auth |-> call'.sm.auth]
    BY <1>10, <1>11
  <2>6. UNCHANGED params /\ call'.layer = n + 1 /\ call'.sm.idx = idx
        /\ call'.sm.msg = call.sm.msg
    BY <1>2, <1>10, <1>11
  <2> HIDE DEF idx, n
  <2> QED BY <1>5, <1>14, <2>1, <2>2, <2>3, <2>4, <2>5, <2>6 DEF InProgress
<1>16. Numbered' BY <1>2, <1>11 DEF SInv, Numbered
<1>17. OutFresh' /\ Returned' BY <1>2 DEF SInv, OutFresh, Returned, Canonical
<1> QED BY <1>1, <1>15, <1>16, <1>17 DEF SInv

(* A signature that has all its layers is the one its index and its message  *)
(* determine.                                                                *)
LEMMA LoopFinished ==
  ASSUME SInv, SignReturn
  PROVE  /\ call.sm = Canonical(call.sm.idx, call.sm.msg)
         /\ call.sm.idx \in 0..(params.space - 1) /\ call.sm.msg \in Messages
<1>1. call.active /\ call.layer = params.d BY DEF SignReturn
<1>2. params.d \in Nat \ {0} BY Sizes DEF SInv, IInv
<1>3. params.d > 0 BY <1>2
<1> DEFINE idx == call.sm.idx
           m   == call.sm.msg
<1>4. /\ call.sm = [idx |-> idx, r |-> idx, msg |-> m,
                    wots |-> call.sm.wots, auth |-> call.sm.auth]
      /\ idx \in 0..(params.space - 1) /\ m \in Messages
      /\ call.sm.wots = [l \in 0..(params.d - 1) |->
            WotsSign(Place(params, idx, l), LeafAt(params, idx, l),
                     Signed(params, call.sm, l))]
      /\ call.sm.auth = [l \in 0..(params.d - 1) |->
            TreeAuth(params.th, Place(params, idx, l), LeafAt(params, idx, l))]
  BY <1>1, <1>3 DEF SInv, InProgress
<1>5. \A l : Signed(params, call.sm, l) = Determined(idx, m, l)
  BY <1>4 DEF Signed, Determined
<1>6. call.sm = Canonical(idx, m) BY <1>4, <1>5, CanonicalParts
<1> QED BY <1>4, <1>6

(* The end of a call keeps SInv: what it puts out is determined.             *)
LEMMA EndSInv == SInv /\ (SignReturn \/ Abort) => SInv'
<1> SUFFICES ASSUME SInv, SignReturn \/ Abort PROVE SInv' OBVIOUS
<1>1. IInv' BY EndIInv DEF SInv
<1>2. /\ UNCHANGED <<params, pkRoot, skIdx, calls, used>>
      /\ call.active /\ ~call'.active
  BY DEF SignReturn, Abort, Idle
<1>3. InProgress' /\ Numbered' BY <1>2 DEF InProgress, Numbered
<1>4. pkRoot # Junk BY <1>2 DEF SInv, IInv, Fresh, Idle
<1>5. OutFresh' BY <1>2, <1>4 DEF OutFresh
<1>6. CASE Abort
  <2>1. Returned' BY <1>2, <1>6 DEF Abort, SInv, Returned, Canonical
  <2> QED BY <1>1, <1>3, <1>5, <2>1 DEF SInv
<1>7. CASE SignReturn
  <2>1. out' = call.sm BY <1>7 DEF SignReturn
  <2>2. Returned' BY <1>2, <1>7, <2>1, LoopFinished DEF Returned, Canonical
  <2> QED BY <1>1, <1>3, <1>5, <2>2 DEF SInv
<1> QED BY <1>6, <1>7

(* SInv is an invariant of the signer.                                       *)
LEMMA SignaturesInvariance == Spec => []SInv
<1>1. SInv /\ [Next]_vars => SInv'
  <2> SUFFICES ASSUME SInv, [Next]_vars PROVE SInv' OBVIOUS
  <2>1. CASE Keypair BY <2>1, KeypairSInv
  <2>2. CASE \E m \in Messages : SignBegin(m) BY <2>2, SignBeginSInv
  <2>3. CASE SignLayer BY <2>3, SignLayerSInv
  <2>4. CASE SignReturn BY <2>4, EndSInv
  <2>5. CASE Abort BY <2>5, EndSInv
  <2>6. CASE UNCHANGED vars
    <3>1. IInv'
      BY <2>6 DEF vars, SInv, IInv, TypeOK, TopTree, Fresh, CallsCounted, Pending,
                  RootBelow, UpperMessages, LowestUsed, LowestOnce, FirstUnused,
                  KeyIndex, Layer
    <3>2. OutFresh' /\ Numbered' /\ Returned'
      BY <2>6 DEF vars, SInv, OutFresh, Numbered, Returned, Canonical
    <3>3. InProgress'
      <4>1. UNCHANGED <<params, call>> BY <2>6 DEF vars
      <4> QED BY <4>1 DEF SInv, InProgress
    <3> QED BY <3>1, <3>2, <3>3 DEF SInv
  <2> QED BY <2>1, <2>2, <2>3, <2>4, <2>5, <2>6 DEF Next
<1> QED BY InitSInv, <1>1, PTL DEF Spec

(* A signature that was put out is honest, and the public key is the root of *)
(* the only tree on the top layer.                                           *)
LEMMA WhatIsPutOut ==
  ASSUME SInv, out # NoOutput
  PROVE  /\ \E idx \in 0..(params.space - 1), m \in Messages : out = Canonical(idx, m)
         /\ Honest(params, out) /\ out.idx \in Nat /\ out.r = out.idx
         /\ pkRoot = TreeRoot(params.th, TopTree)
         /\ params.th \in Nat /\ params.d \in Nat \ {0}
<1>1. PICK idx \in 0..(params.space - 1), m \in Messages : out = Canonical(idx, m)
  BY DEF SInv, Returned
<1>2. params.th \in Nat /\ params.d \in Nat \ {0} /\ params.space \in Nat
  BY Sizes DEF SInv, IInv
<1>3. idx \in Nat BY <1>2
<1>4. Honest(params, out) /\ out.idx = idx /\ out.r = idx
  BY <1>1, <1>3, CanonicalHonest
<1>5. pkRoot = TreeRoot(params.th, TopTree)
  BY DEF SInv, IInv, TypeOK, OutFresh
<1> QED BY <1>1, <1>2, <1>3, <1>4, <1>5

(* For every parameter set, however many calls have been cut short, each     *)
(* signature xmssmt_core_sign puts out with an index the key pair was made   *)
(* for is accepted by xmssmt_core_sign_open under its public key.            *)
THEOREM SignaturesOpenHolds == Spec => []SignaturesOpen
<1>1. SInv => SignaturesOpen
  <2> SUFFICES ASSUME SInv, out # NoOutput, out.idx < Capacity(params)
               PROVE  SignOpen(params, pkRoot, out)
    BY DEF SignaturesOpen
  <2>1. /\ Honest(params, out) /\ pkRoot = TreeRoot(params.th, <<params.d - 1, 0>>)
        /\ params.th \in Nat /\ params.d \in Nat \ {0}
    BY WhatIsPutOut DEF TopTree
  <2> QED BY <2>1, HonestOpens
<1> QED BY SignaturesInvariance, <1>1, PTL

(* For every parameter set, what xmssmt_core_sign still puts out when its    *)
(* indices are used up is rejected by xmssmt_core_sign_open.                 *)
THEOREM ExhaustedRejectedHolds == Spec => []ExhaustedRejected
<1>1. SInv => ExhaustedRejected
  <2> SUFFICES ASSUME SInv, out # NoOutput, out.idx >= Capacity(params)
               PROVE  ~SignOpen(params, pkRoot, out)
    BY DEF ExhaustedRejected
  <2>1. /\ Honest(params, out) /\ pkRoot = TreeRoot(params.th, <<params.d - 1, 0>>)
        /\ params.th \in Nat /\ params.d \in Nat \ {0} /\ out.idx \in Nat
    BY WhatIsPutOut DEF TopTree
  <2>2. Capacity(params) \in Nat
    <3>1. params.th * params.d \in Nat BY <2>1
    <3> QED BY <3>1, Pow2Recursion DEF Capacity
  <2>3. ~(out.idx < Capacity(params)) BY <2>1, <2>2
  <2> QED BY <2>1, <2>3, HonestOpens
<1> QED BY SignaturesInvariance, <1>1, PTL

(* Digests of different inputs differ. *)
LEMMA DigestInjective ==
  ASSUME NEW r, NEW i, NEW m, NEW r2, NEW i2, NEW m2, Digest(r, i, m) = Digest(r2, i2, m2)
  PROVE  r = r2 /\ i = i2 /\ m = m2
<1>1. \A x, y, z : /\ Digest(x, y, z).r = x /\ Digest(x, y, z).idx = y
                  /\ Digest(x, y, z).msg = z
  BY DEF Digest
<1> QED BY <1>1

(* What altering one part leaves of a signature: either the message digest   *)
(* is another one, or one part is Junk.                                      *)
LEMMA AlteredParts ==
  ASSUME params.d \in Nat \ {0}, NEW idx, NEW m, NEW sm \in Altered(params, Canonical(idx, m))
  PROVE  LET sm0 == Canonical(idx, m)
         IN  /\ \A l \in 0..(params.d - 1) : sm.wots[l] \in {Junk, sm0.wots[l]}
             /\ \/ /\ sm.wots = sm0.wots
                   /\ Digest(sm.r, sm.idx, sm.msg) # Digest(idx, idx, m)
                \/ \E l \in 0..(params.d - 1) :
                     \/ sm.wots[l] = Junk
                     \/ \E h \in 0..(params.th - 1) : sm.auth[l][h] = Junk
<1> DEFINE sm0  == Canonical(idx, m)
           w(l) == WotsSign(Place(params, idx, l), LeafAt(params, idx, l),
                            Determined(idx, m, l))
           wots == [l \in 0..(params.d - 1) |-> w(l)]
           auth == [l \in 0..(params.d - 1) |->
                      TreeAuth(params.th, Place(params, idx, l), LeafAt(params, idx, l))]
<1>1. sm0 = [idx |-> idx, r |-> idx, msg |-> m, wots |-> wots, auth |-> auth]
  BY CanonicalParts
<1>2. DOMAIN wots = 0..(params.d - 1) OBVIOUS
<1>3. /\ DOMAIN auth = 0..(params.d - 1)
      /\ \A l \in 0..(params.d - 1) : DOMAIN auth[l] = 0..(params.th - 1)
  BY DEF TreeAuth
<1>4. \/ \E x \in Messages \ {sm0.msg} : sm = [sm0 EXCEPT !.msg = x]
      \/ \E i \in (0..(Capacity(params) - 1)) \ {sm0.idx} : sm = [sm0 EXCEPT !.idx = i]
      \/ \E i \in (0..(Capacity(params) - 1)) \ {sm0.r} : sm = [sm0 EXCEPT !.r = i]
      \/ \E l \in 0..(params.d - 1) : sm = [sm0 EXCEPT !.wots[l] = Junk]
      \/ \E l \in 0..(params.d - 1), h \in 0..(params.th - 1) :
           sm = [sm0 EXCEPT !.auth[l][h] = Junk]
  <2> HIDE DEF sm0
  <2>1. sm \in Altered(params, sm0) BY DEF sm0
  <2> QED BY <2>1 DEF Altered
<1> HIDE DEF sm0, wots, auth, w
<1>5. CASE \E x \in Messages \ {sm0.msg} : sm = [sm0 EXCEPT !.msg = x]
  <2>1. PICK x : x # sm0.msg /\ sm = [sm0 EXCEPT !.msg = x] BY <1>5
  <2>2. sm.wots = sm0.wots /\ sm.msg # m BY ONLY <2>1, <1>1
  <2>3. Digest(sm.r, sm.idx, sm.msg) # Digest(idx, idx, m) BY <2>2, DigestInjective
  <2> QED BY <2>2, <2>3 DEF sm0
<1>6. CASE \E i \in (0..(Capacity(params) - 1)) \ {sm0.idx} : sm = [sm0 EXCEPT !.idx = i]
  <2>1. PICK i : i # sm0.idx /\ sm = [sm0 EXCEPT !.idx = i] BY <1>6
  <2>2. sm.wots = sm0.wots /\ sm.idx # idx BY ONLY <2>1, <1>1
  <2>3. Digest(sm.r, sm.idx, sm.msg) # Digest(idx, idx, m) BY <2>2, DigestInjective
  <2> QED BY <2>2, <2>3 DEF sm0
<1>7. CASE \E i \in (0..(Capacity(params) - 1)) \ {sm0.r} : sm = [sm0 EXCEPT !.r = i]
  <2>1. PICK i : i # sm0.r /\ sm = [sm0 EXCEPT !.r = i] BY <1>7
  <2>2. sm.wots = sm0.wots /\ sm.r # idx BY ONLY <2>1, <1>1
  <2>3. Digest(sm.r, sm.idx, sm.msg) # Digest(idx, idx, m) BY <2>2, DigestInjective
  <2> QED BY <2>2, <2>3 DEF sm0
<1>8. CASE \E l \in 0..(params.d - 1) : sm = [sm0 EXCEPT !.wots[l] = Junk]
  <2>1. PICK l \in 0..(params.d - 1) : sm = [sm0 EXCEPT !.wots[l] = Junk] BY <1>8
  <2>2. sm.wots = [wots EXCEPT ![l] = Junk] /\ sm0.wots = wots BY ONLY <2>1, <1>1
  <2>3. sm.wots[l] = Junk BY <2>2, <1>2
  <2>4. \A k \in 0..(params.d - 1) : sm.wots[k] \in {Junk, sm0.wots[k]}
    BY <2>2, <1>2
  <2> QED BY <2>3, <2>4 DEF sm0
<1>9. CASE \E l \in 0..(params.d - 1), h \in 0..(params.th - 1) :
             sm = [sm0 EXCEPT !.auth[l][h] = Junk]
  <2>1. PICK l \in 0..(params.d - 1), h \in 0..(params.th - 1) :
          sm = [sm0 EXCEPT !.auth[l][h] = Junk]
    BY <1>9
  <2>2. /\ sm.auth = [auth EXCEPT ![l][h] = Junk]
        /\ sm.wots = wots /\ sm0.wots = wots
    BY ONLY <2>1, <1>1
  <2>3. sm.auth[l] = [auth[l] EXCEPT ![h] = Junk] BY <2>2, <1>3
  <2>4. sm.auth[l][h] = Junk BY <2>3, <1>3
  <2> QED BY <2>2, <2>4 DEF sm0
<1> QED BY <1>4, <1>5, <1>6, <1>7, <1>8, <1>9

(* The values that are signed on the layers are not Junk.                    *)
LEMMA DeterminedIsNotJunk ==
  ASSUME NEW idx, NEW m, NEW l
  PROVE  Determined(idx, m, l) # Junk
<1>1. \A a, h, i : Node(a, h, i) # Junk BY NodeIsNotJunk
<1>2. Digest(idx, idx, m) # Junk BY DigestIsNotJunk
<1> QED BY <1>1, <1>2 DEF Determined, TreeRoot

(* For every parameter set, changing the message, the index, the randomizer, *)
(* a one-time signature or a path node of a signature that was put out makes *)
(* xmssmt_core_sign_open reject it.                                          *)
THEOREM AlteredRejectedHolds == Spec => []AlteredRejected
<1>1. SInv => AlteredRejected
  <2> SUFFICES ASSUME SInv, out # NoOutput, NEW sm \in Altered(params, out)
               PROVE  ~SignOpen(params, pkRoot, sm)
    BY DEF AlteredRejected
  <2>1. PICK idx, m : idx \in 0..(params.space - 1) /\ out = Canonical(idx, m)
    BY WhatIsPutOut
  <2>2. /\ params.th \in Nat /\ params.d \in Nat /\ params.d \in Nat \ {0}
        /\ 0 \in 0..(params.d - 1) /\ params.d \in 0..params.d
        /\ pkRoot = TreeRoot(params.th, TopTree)
    BY WhatIsPutOut
  <2>3. /\ \A l \in 0..(params.d - 1) : sm.wots[l] \in {Junk, out.wots[l]}
        /\ \/ /\ sm.wots = out.wots
              /\ Digest(sm.r, sm.idx, sm.msg) # Digest(idx, idx, m)
           \/ \E l \in 0..(params.d - 1) :
                \/ sm.wots[l] = Junk
                \/ \E h \in 0..(params.th - 1) : sm.auth[l][h] = Junk
    <3>1. sm \in Altered(params, Canonical(idx, m)) BY <2>1
    <3> QED BY <3>1, <2>1, <2>2, AlteredParts
  <2>4. \A l \in 0..(params.d - 1) :
          out.wots[l] = WotsSign(Place(params, idx, l), LeafAt(params, idx, l),
                                 Determined(idx, m, l))
    BY <2>1, CanonicalParts
  <2>5. \A a, leaf, x : WotsSign(a, leaf, x).msg = x BY DEF WotsSign
  <2>6. \A a, leaf, x : WotsSign(a, leaf, x) # Junk BY SigIsNotJunk
  <2>7. \A l \in 0..(params.d - 1) :
          sm.wots[l] # WotsSign(Place(params, sm.idx, l), LeafAt(params, sm.idx, l), Junk)
    <3> SUFFICES ASSUME NEW l \in 0..(params.d - 1)
                 PROVE  sm.wots[l] # WotsSign(Place(params, sm.idx, l),
                                              LeafAt(params, sm.idx, l), Junk)
      OBVIOUS
    <3>1. CASE sm.wots[l] = Junk BY <3>1, <2>6
    <3>2. CASE sm.wots[l] = out.wots[l]
      <4>1. sm.wots[l].msg = Determined(idx, m, l) BY <3>2, <2>4, <2>5
      <4>2. sm.wots[l].msg # Junk BY <4>1, DeterminedIsNotJunk
      <4> QED BY <4>2, <2>5
    <3> QED BY <3>1, <3>2, <2>3
  <2>8. PICK root : /\ Opening(params, sm, root)
                    /\ SignOpen(params, pkRoot, sm) <=> root[params.d] = pkRoot
    BY <2>2, SignOpenRecursion
  <2>9. \E l \in 0..(params.d - 1) :
          \/ sm.wots[l] # WotsSign(Place(params, sm.idx, l), LeafAt(params, sm.idx, l),
                                   root[l])
          \/ \E h \in 0..(params.th - 1) : sm.auth[l][h] = Junk
    <3>1. CASE /\ sm.wots = out.wots
               /\ Digest(sm.r, sm.idx, sm.msg) # Digest(idx, idx, m)
      <4>1. root[0] # Determined(idx, m, 0) BY <3>1, <2>8 DEF Opening, Determined
      <4>2. sm.wots[0].msg = Determined(idx, m, 0) BY <3>1, <2>2, <2>4, <2>5
      <4>3. sm.wots[0] # WotsSign(Place(params, sm.idx, 0), LeafAt(params, sm.idx, 0),
                                  root[0])
        BY <4>1, <4>2, <2>5
      <4> QED BY <4>3, <2>2
    <3>2. CASE \E l \in 0..(params.d - 1) : sm.wots[l] = Junk BY <3>2, <2>6
    <3> QED BY <3>1, <3>2, <2>3
  <2>10. PICK l \in 0..(params.d - 1) : root[l + 1] = Junk
    BY <2>2, <2>8, <2>9, UnsignedLayer
  <2>11. l + 1 \in 0..params.d BY <2>2
  <2>12. root[params.d] = Junk BY <2>2, <2>7, <2>8, <2>10, <2>11, JunkRejected
  <2>13. pkRoot # Junk BY <2>2, NodeIsNotJunk DEF TreeRoot
  <2> QED BY <2>8, <2>12, <2>13
<1> QED BY SignaturesInvariance, <1>1, PTL

-----------------------------------------------------------------------------
(* The abstract signer's sign_open is the same, too.                         *)
LEMMA SameSignOpen ==
  ASSUME NEW p, NEW root, NEW sm
  PROVE  AbstractSigner!SignOpen(p, root, sm) <=> SignOpen(p, root, sm)
BY DEF AbstractSigner!SignOpen, SignOpen, AbstractSigner!ComputeRoot, ComputeRoot,
       AbstractSigner!HashPair, HashPair, AbstractSigner!Node, Node,
       AbstractSigner!Junk, Junk, AbstractSigner!Bit, Bit, AbstractSigner!Shr, Shr,
       AbstractSigner!Pow2, Pow2, AbstractSigner!LeafFromSig, LeafFromSig,
       AbstractSigner!GenLeaf, GenLeaf, AbstractSigner!WotsSign, WotsSign,
       AbstractSigner!Digest, Digest, AbstractSigner!TreeAt, TreeAt,
       AbstractSigner!LeafAt, LeafAt

(* A call that returns issues the signature of its index or, past the last   *)
(* index the key pair was made for, something that nobody accepts.           *)
LEMMA ReturnImplements ==
  ASSUME SInv, SignReturn
  PROVE  (\E m \in Messages : AbstractSigner!Issue(m)) \/ AbstractSigner!Overrun
<1> DEFINE idx == call.sm.idx
           m   == call.sm.msg
<1>1. /\ UNCHANGED <<params, pkRoot, calls>> /\ out' = call.sm
      /\ call.active /\ ~call'.active
  BY DEF SignReturn, Idle
<1>2. /\ (IF call.active THEN calls - 1 ELSE calls) = calls - 1
      /\ (IF call'.active THEN calls' - 1 ELSE calls') = calls
  BY <1>1
<1>3. calls \in Nat /\ params \in ParamSets
  BY MaxCallsAssumption DEF SInv, IInv, TypeOK
<1>4. /\ params.th \in Nat /\ params.d \in Nat \ {0} /\ params.space \in Nat
      /\ Capacity(params) \in Nat /\ Capacity(params) <= params.space
  <2>1. params.th \in Nat /\ params.d \in Nat \ {0} /\ params.space \in Nat
    BY Sizes DEF SInv, IInv
  <2>2. params.th * params.d \in Nat BY <2>1
  <2>3. Capacity(params) \in Nat BY <2>2, Pow2Recursion DEF Capacity
  <2> QED BY <2>1, <2>3, <1>3, ParamSetsAssumption
<1>5. /\ out' = AbstractSigner!Canonical(params, idx, m)
      /\ idx \in 0..(params.space - 1) /\ m \in Messages
  BY <1>1, LoopFinished DEF Canonical
<1>6. calls <= params.space => idx = calls - 1 BY <1>1 DEF SInv, Numbered
<1>7. calls = (calls - 1) + 1 BY <1>3
<1>8. AbstractSigner!Capacity(params) = Capacity(params) BY SameOperators
<1> HIDE DEF m
<1>9. CASE calls - 1 < Capacity(params)
  <2>1. idx = calls - 1 BY <1>3, <1>4, <1>6, <1>9
  <2>2. AbstractSigner!Issue(m)
    BY <1>1, <1>2, <1>5, <1>7, <1>8, <1>9, <2>1 DEF AbstractSigner!Issue
  <2> QED BY <1>5, <2>2
<1>10. CASE ~(calls - 1 < Capacity(params))
  <2>1. calls - 1 >= Capacity(params) BY <1>3, <1>4, <1>10
  <2>2. out' # NoOutput BY <1>3, <1>5, NoOutputAssumption
  <2>3. ASSUME calls - 1 < params.space
        PROVE  ~AbstractSigner!SignOpen(params,
                  AbstractSigner!TreeRoot(params.th, <<params.d - 1, 0>>), out')
    <3>1. idx = calls - 1 /\ idx \in Nat BY <1>3, <1>4, <1>5, <1>6, <2>3
    <3>2. Honest(params, Canonical(idx, m)) /\ Canonical(idx, m).idx = idx
      BY <3>1, CanonicalHonest
    <3>3. Honest(params, out') /\ out'.idx = idx BY <3>2, <1>5 DEF Canonical
    <3>4. ~(out'.idx < Capacity(params)) BY <3>1, <3>3, <1>10
    <3>5. ~SignOpen(params, TreeRoot(params.th, <<params.d - 1, 0>>), out')
      BY <1>4, <3>3, <3>4, HonestOpens
    <3> QED BY <3>5, SameSignOpen, SameOperators
  <2>4. AbstractSigner!Overrun
    BY <1>1, <1>2, <1>7, <1>8, <2>1, <2>2, <2>3 DEF AbstractSigner!Overrun
  <2> QED BY <2>4
<1> QED BY <1>9, <1>10

(* For every parameter set and any number of calls, the signer that          *)
(* recomputes every tree implements the abstract signer: call number i of a  *)
(* key pair yields the signature with index i, a call that is cut short      *)
(* costs its index, and the calls after the last index yield nothing that    *)
(* xmssmt_core_sign_open accepts.                                            *)
THEOREM ImplementsSignerHolds == Spec => ImplementsSigner
<1>1. Init => AbstractSigner!Init
  <2> SUFFICES ASSUME Init PROVE AbstractSigner!Init OBVIOUS
  <2>1. calls = 0 /\ out = NoOutput /\ ~call.active BY DEF Init, Idle
  <2> QED BY <2>1 DEF AbstractSigner!Init
<1>2. SInv /\ [Next]_vars => [AbstractSigner!Next]_(AbstractSigner!vars)
  <2> SUFFICES ASSUME SInv, [Next]_vars
               PROVE  [AbstractSigner!Next]_(AbstractSigner!vars)
    OBVIOUS
  <2>1. calls \in Nat BY MaxCallsAssumption DEF SInv, IInv, TypeOK
  <2>2. CASE Keypair
    <3>1. UNCHANGED <<params, calls, call, out>> BY <2>2 DEF Keypair
    <3> QED BY <3>1 DEF AbstractSigner!vars
  <2>3. CASE \E m \in Messages : SignBegin(m)
    <3>1. /\ UNCHANGED <<params, out>> /\ ~call.active /\ call'.active
          /\ calls' = calls + 1
      BY <2>3 DEF SignBegin
    <3>2. calls' - 1 = calls BY <2>1, <3>1
    <3> QED BY <3>1, <3>2 DEF AbstractSigner!vars
  <2>4. CASE SignLayer
    <3>1. /\ UNCHANGED <<params, calls, out>> /\ call.active /\ call # Idle
      BY <2>4 DEF SignLayer, Idle
    <3>2. call'.active
      <4>1. call = [active |-> TRUE, layer |-> call.layer, idx |-> call.idx,
                    root |-> call.root, sm |-> call.sm]
        BY <3>1 DEF SInv, IInv, TypeOK
      <4> QED BY <2>4, <4>1 DEF SignLayer
    <3> QED BY <3>1, <3>2 DEF AbstractSigner!vars
  <2>5. CASE SignReturn
    BY <2>5, ReturnImplements DEF AbstractSigner!Next
  <2>6. CASE Abort
    <3>1. UNCHANGED <<params, calls, out>> /\ call.active /\ ~call'.active
      BY <2>6 DEF Abort, Idle
    <3>2. calls = (calls - 1) + 1 BY <2>1
    <3> QED BY <3>1, <3>2 DEF AbstractSigner!Next, AbstractSigner!Lose
  <2>7. CASE UNCHANGED vars BY <2>7 DEF vars, AbstractSigner!vars
  <2> QED BY <2>2, <2>3, <2>4, <2>5, <2>6, <2>7 DEF Next
<1> QED BY <1>1, <1>2, SignaturesInvariance, PTL DEF Spec, ImplementsSigner, AbstractSigner!Spec
=============================================================================
