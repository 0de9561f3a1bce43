------------------------------ MODULE XmssCore ------------------------------
(***************************************************************************)
(* The stateful signer of xmss_core.c: the secret key is an index and the  *)
(* seeds everything else is recomputed from.  One call of xmssmt_core_sign *)
(* is a sequence of steps -- reserve the index, sign one layer after the   *)
(* other, return -- and may be cut short after any of them, the secret key *)
(* staying as the call had left it: the code is written for callers that   *)
(* store the key at the point its comment names (xmss_core.c:195).         *)
(***************************************************************************)
EXTENDS HashTree

CONSTANTS
  ParamSets,     \* parameter sets: [th, d, space], see below
  Messages,
  NoOutput,      \* before the first signature
  MaxCalls       \* bound on the calls of xmssmt_core_sign

(* th is tree_height, d the number of layers and space the number of values  *)
(* that index_bytes bytes can hold (256^index_bytes).                        *)
ASSUME ParamSetsAssumption ==
  \A p \in ParamSets :
    /\ p.th \in Nat \ {0}
    /\ p.d \in Nat \ {0}
    /\ p.space \in Nat
    /\ Capacity(p) <= p.space

ASSUME MaxCallsAssumption == MaxCalls \in Nat

VARIABLES
  params,    \* the parameter set, fixed with the key pair
  pkRoot,    \* the root in the public key, Junk before key generation
  skIdx,     \* the index in the secret key
  calls,     \* history: the calls of xmssmt_core_sign so far
  call,      \* the locals of the running call
  out,       \* the last signature returned
  used       \* history: every WOTS signature computed, also in calls cut short

vars == <<params, pkRoot, skIdx, calls, call, out, used>>

Idle == [active |-> FALSE]

TopTree == <<params.d - 1, 0>>

Init ==
  /\ params \in ParamSets
  /\ pkRoot = Junk
  /\ skIdx = 0
  /\ calls = 0
  /\ call = Idle
  /\ out = NoOutput
  /\ used = {}

(* xmssmt_core_keypair: the root of the single tree on the top layer. *)
Keypair ==
  /\ pkRoot = Junk
  /\ pkRoot' = TreeRoot(params.th, TopTree)
  /\ skIdx' = 0
  /\ UNCHANGED <<params, calls, call, out, used>>

(* xmssmt_core_sign up to the first layer: read the index, write the next    *)
(* one back before anything is signed, and hash the message.  root is mhash  *)
(* at first; idx is shifted right by the loop.                               *)
SignBegin(m) ==
  /\ pkRoot # Junk
  /\ ~call.active
  /\ calls < MaxCalls
  /\ calls' = calls + 1
  /\ skIdx' = (skIdx + 1) % params.space
  /\ call' = [active |-> TRUE, layer |-> 0, idx |-> skIdx,
              root |-> Digest(skIdx, skIdx, m),
              sm |-> [idx |-> skIdx, r |-> skIdx, msg |-> m,
                      wots |-> <<>>, auth |-> <<>>]]
  /\ UNCHANGED <<params, pkRoot, out, used>>

(* A function on 0..n-1 extended by the value at n. *)
AtNext(f, n, v) == [i \in 0..n |-> IF i = n THEN v ELSE f[i]]

(* Mutant: idx_leaf is not masked with 2^tree_height - 1. *)
IdxLeafUnmasked == call.idx

(* idx_leaf: the leaf of the current tree. *)
IdxLeaf == call.idx % Pow2[params.th]

(* Mutant: the tree address is set before the index is shifted. *)
SubtreeBeforeShift == <<call.layer, call.idx>>

(* The layer and tree fields of the addresses: the current tree. *)
Subtree == <<call.layer, call.idx \div Pow2[params.th]>>

(* One iteration of the loop over the layers: sign the root below with leaf  *)
(* idx_leaf of the current tree, then compute that tree's root and the path. *)
SignLayer ==
  LET l   == call.layer
      sig == WotsSign(Subtree, IdxLeaf, call.root)
  IN  /\ call.active
      /\ l < params.d
      /\ used' = used \cup {sig}
      /\ call' = [call EXCEPT
                    !.layer = l + 1,
                    !.idx = call.idx \div Pow2[params.th],
                    !.root = TreeRoot(params.th, Subtree),
                    !.sm.wots = AtNext(call.sm.wots, l, sig),
                    !.sm.auth = AtNext(call.sm.auth, l,
                                       TreeAuth(params.th, Subtree, IdxLeaf))]
      /\ UNCHANGED <<params, pkRoot, skIdx, calls, out>>

SignReturn ==
  /\ call.active
  /\ call.layer = params.d
  /\ out' = call.sm
  /\ call' = Idle
  /\ UNCHANGED <<params, pkRoot, skIdx, calls, used>>

(* Mutant: the key is stored when a call returns, not before it signs. *)
AbortBeforeStore ==
  /\ call.active
  /\ call' = Idle
  /\ skIdx' = call.sm.idx
  /\ UNCHANGED <<params, pkRoot, calls, out, used>>

(* The process ends inside the call; the next one starts from the secret key *)
(* as stored at xmss_core.c:195-199, which already holds the next index.     *)
Abort ==
  /\ call.active
  /\ call' = Idle
  /\ UNCHANGED <<params, pkRoot, skIdx, calls, out, used>>

Next ==
  \/ Keypair
  \/ \E m \in Messages : SignBegin(m)
  \/ SignLayer
  \/ SignReturn
  \/ Abort

Spec == Init /\ [][Next]_vars

-----------------------------------------------------------------------------
(* Type correctness: every key signed with is a leaf of a layer of the tree. *)
TypeOK ==
  /\ params \in ParamSets
  /\ pkRoot \in {Junk, TreeRoot(params.th, TopTree)}
  /\ skIdx \in 0..(params.space - 1)
  /\ calls \in 0..MaxCalls
  /\ \/ call = Idle
     \/ /\ call = [active |-> TRUE, layer |-> call.layer, idx |-> call.idx,
                   root |-> call.root, sm |-> call.sm]
        /\ call.layer \in 0..params.d
        /\ call.idx \in 0..(params.space - 1)
  /\ \A s \in used :
       \E l \in 0..(params.d - 1), tree \in 0..(params.space - 1),
          leaf \in 0..(Pow2[params.th] - 1) :
            s = WotsSign(<<l, tree>>, leaf, s.msg)

(* No one-time key ever signs two different values, on any layer, whichever  *)
(* calls are cut short: until the index bytes wrap around, that is, for the  *)
(* first 256^index_bytes calls.                                              *)
OneTimeKey ==
  calls <= params.space =>
    \A s, t \in used : s.key = t.key => s.msg = t.msg

(* Every signature made from one of the key pair's 2^full_height indices     *)
(* verifies under its public key; test/xmss.c:72 checks the first 16.        *)
SignaturesOpen ==
  out # NoOutput /\ out.idx < Capacity(params)
    => SignOpen(params, pkRoot, out)

(* Signing does not stop when the indices are used up: it returns 0 with a   *)
(* signature under a subtree that does not exist.  Nobody accepts it.        *)
ExhaustedRejected ==
  out # NoOutput /\ out.idx >= Capacity(params)
    => ~SignOpen(params, pkRoot, out)

(* The signatures that differ from sm in one part. *)
Altered(p, sm) ==
  {[sm EXCEPT !.msg = m] : m \in Messages \ {sm.msg}}
    \cup {[sm EXCEPT !.idx = i] : i \in (0..(Capacity(p) - 1)) \ {sm.idx}}
    \cup {[sm EXCEPT !.r = i] : i \in (0..(Capacity(p) - 1)) \ {sm.r}}
    \cup {[sm EXCEPT !.wots[l] = Junk] : l \in 0..(p.d - 1)}
    \cup {[sm EXCEPT !.auth[l][h] = Junk] :
            l \in 0..(p.d - 1), h \in 0..(p.th - 1)}

(* Changing any part of a signature -- the message, the index, the           *)
(* randomizer, a one-time signature or a node of a path on any layer --      *)
(* invalidates it: what test/xmss.c:98-126 tries by flipping bits.           *)
AlteredRejected ==
  out # NoOutput => \A sm \in Altered(params, out) : ~SignOpen(params, pkRoot, sm)

(* A running call holds its index until it returns or is cut short. *)
AbstractSigner == INSTANCE Signer WITH
  next <- IF call.active THEN calls - 1 ELSE calls

(* No signature is taken for none. *)
ASSUME NoOutputAssumption ==
  \A p \in ParamSets, m \in Messages : \A idx \in 0..(p.space - 1) :
    AbstractSigner!Canonical(p, idx, m) # NoOutput

(* The signer that recomputes every tree implements the abstract signer.     *)
ImplementsSigner == AbstractSigner!Spec
=============================================================================
