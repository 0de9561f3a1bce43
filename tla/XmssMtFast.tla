----------------------------- MODULE XmssMtFast -----------------------------
(***************************************************************************)
(* The hypertree signer of xmss_core_fast.c.  The secret key holds, for    *)
(* each of the d layers, the traversal state of the current tree, for all  *)
(* but the top one that of the next tree, which is built while the current *)
(* one is used up, and the WOTS signatures on the current roots.  The work *)
(* on all of them shares one budget of updates per signature.              *)
(***************************************************************************)
EXTENDS Bds, Bags

CONSTANTS
  ParamSets,     \* parameter sets: [th, k, d, space]
  Messages,
  NoOutput,
  Overtime,      \* bound: calls after the last index
  MaxCrashes     \* bound: calls cut short

ASSUME FastParamSetsAssumption ==
  \A p \in ParamSets :
    /\ p.th \in Nat \ {0} /\ p.d \in Nat \ {0, 1}
    /\ p.k \in 0..p.th
    /\ p.space \in Nat /\ Capacity(p) <= p.space

VARIABLES
  params,
  pkRoot,    \* the root in the public key, Junk before key generation
  skIdx,     \* the index in the secret key
  states,    \* 0..d-1: the current trees, d..2d-2: the next ones
  wotsSigs,  \* wots_sigs[i]: the signature of layer i + 1 on the root of layer i
  out,       \* the last signature returned
  calls,     \* history: the calls of xmssmt_core_sign so far
  crashes,   \* history: those of them that were cut short
  used,      \* history: the bag of WOTS keys signed with
  left       \* history: what the last call left of its budget of updates

vars == <<params, pkRoot, skIdx, states, wotsSigs, out, calls, crashes, used, left>>

Init ==
  /\ params \in ParamSets
  /\ pkRoot = Junk
  /\ skIdx = 0
  /\ states = [i \in 0..(2 * params.d - 2) |-> NewState(params)]
  /\ wotsSigs = [i \in 0..(params.d - 2) |-> Junk]
  /\ out = NoOutput
  /\ calls = 0
  /\ crashes = 0
  /\ used = EmptyBag
  /\ left = 0

(* xmssmt_core_keypair: the first tree of every layer, each root signed by   *)
(* the first leaf of the layer above.                                        *)
Keypair ==
  LET built == [i \in 0..(params.d - 1) |->
                  TreehashInit(params, <<i, 0>>, states[i])]
  IN  /\ pkRoot = Junk
      /\ pkRoot' = built[params.d - 1].root
      /\ skIdx' = 0
      /\ states' = [i \in DOMAIN states |->
                      IF i < params.d THEN built[i].state ELSE states[i]]
      /\ wotsSigs' = [i \in DOMAIN wotsSigs |->
                        WotsSign(<<i + 1, 0>>, 0, built[i].root)]
      /\ used' = SetToBag({wotsSigs'[i].key : i \in DOMAIN wotsSigs})
      /\ UNCHANGED <<params, out, calls, crashes, left>>

(* The signature: everything above the lowest WOTS signature was prepared by *)
(* earlier calls.                                                            *)
Output(p, idx, m, sts, ws) ==
  [idx |-> idx, r |-> idx, msg |-> m,
   wots |-> [i \in 0..(p.d - 1) |->
               IF i = 0 THEN WotsSign(<<0, TreeAt(p, idx, 0)>>, LeafAt(p, idx, 0),
                                      Digest(idx, idx, m))
               ELSE ws[i - 1]],
   auth |-> [i \in 0..(p.d - 1) |-> sts[i].auth]]

(* Mutant: the number of trees of the layer above. *)
NextExistsAbove(p, idx, i) ==
  (1 + TreeAt(p, idx, i)) * Pow2[p.th] + LeafAt(p, idx, i)
    < Pow2[p.th * p.d - p.th * (i + 1)]

(* A tree to the right exists on layer i (l.901 and l.918). *)
NextExists(p, idx, i) ==
  (1 + TreeAt(p, idx, i)) * Pow2[p.th] + LeafAt(p, idx, i)
    < Pow2[p.th * p.d - p.th * i]

EndOfTree(p, idx, i) == (idx + 1) % Pow2[p.th * (i + 1)] = 0

(* l.919: the next tree of layer i gets a leaf if the budget allows.  The    *)
(* code compares next_leaf with 2^full_height, so that a complete tree still *)
(* costs an update.                                                          *)
MayFeedNext(p, idx, i, sts, updates) ==
  /\ NextExists(p, idx, i)
  /\ i > 0
  /\ updates # 0
  /\ sts[p.d + i].nextLeaf < Pow2[p.th * p.d]

(* Mutant: only the path of the lowest layer moves on. *)
RoundDueLowest(i, s) == i = 0

(* The path of layer i moves on: every tree below it has just ended. *)
RoundDue(i, s) == i = s.swapped + 1

(* The loop body for a layer whose tree goes on. *)
StayInTree(p, idx, i, s) ==
  LET a     == <<i, TreeAt(p, idx, i)>>
      round == IF RoundDue(i, s)
               THEN BdsRound(p, a, s.states[i], LeafAt(p, idx, i))
               ELSE s.states[i]
      work  == BdsTreehashUpdate(p, a, round, s.updates)
      sts   == [s.states EXCEPT ![i] = work.st]
  IN  IF MayFeedNext(p, idx, i, sts, work.left)
      THEN [s EXCEPT !.states = [sts EXCEPT ![p.d + i] =
                                   BdsStateUpdate(p, <<i, a[2] + 1>>, @)],
                     !.updates = work.left - 1]
      ELSE [s EXCEPT !.states = sts, !.updates = work.left]

(* Mutant: the root is signed in the tree of the current index. *)
SignRootInOldTree(p, idx, i, root) ==
  WotsSign(<<i + 1, Shr(idx, p.th * (i + 2))>>,
           (Shr(idx, p.th * (i + 1)) + 1) % Pow2[p.th], root)

(* The root of layer i is signed by the next leaf of the layer above. *)
SignRoot(p, idx, i, root) ==
  WotsSign(<<i + 1, Shr(idx + 1, p.th * (i + 2))>>,
           (Shr(idx, p.th * (i + 1)) + 1) % Pow2[p.th], root)

(* Mutant: the stack is not emptied. *)
EmptiedButStack(st) == [st EXCEPT !.nextLeaf = 0]

(* The state of the tree that ends, for the one after the next. *)
Emptied(st) == [st EXCEPT !.offset = 0, !.nextLeaf = 0]

(* The loop body for a layer whose tree ends: the next tree takes over. *)
SwapIn(p, idx, i, s) ==
  LET new == s.states[p.d + i]
      old == s.states[i]
  IN  [s EXCEPT
         !.states = [@ EXCEPT
            ![i] = [new EXCEPT !.inst = [j \in DOMAIN new.inst |->
                                  [new.inst[j] EXCEPT !.completed = TRUE]]],
            ![p.d + i] = Emptied(old)],
         !.wots = [@ EXCEPT ![i] = SignRoot(p, idx, i, new.stack[0])],
         !.updates = @ - 1,
         !.swapped = i]

LayerStep(p, idx, i, s) ==
  IF ~EndOfTree(p, idx, i) THEN StayInTree(p, idx, i, s)
  ELSE IF idx < Capacity(p) - 1 THEN SwapIn(p, idx, i, s)
  ELSE s

(* xmssmt_core_sign from l.897 on: prepare the next signature. *)
Advance(p, idx, sts, ws) ==
  LET start == [states  |-> IF NextExists(p, idx, 0)
                            THEN [sts EXCEPT ![p.d] =
                                    BdsStateUpdate(p, <<0, TreeAt(p, idx, 0) + 1>>, @)]
                            ELSE sts,
                wots    |-> ws,
                updates |-> Instances(p) \div 2,
                swapped |-> -1]
  IN  Loop(LAMBDA i, s : LayerStep(p, idx, i, s), p.d, start)

(* The WOTS keys a call signs with: one for the message, and one for each    *)
(* root that takes over.                                                     *)
KeysSpent(sm, before, after) ==
  {sm.wots[0].key} \cup {after[i].key : i \in {j \in DOMAIN after : after[j] # before[j]}}

Callable ==
  /\ pkRoot # Junk
  /\ calls < Capacity(params) + Overtime

Sign(m) ==
  LET next == Advance(params, skIdx, states, wotsSigs)
  IN  /\ Callable
      /\ calls' = calls + 1
      /\ skIdx' = (skIdx + 1) % params.space
      /\ out' = Output(params, skIdx, m, states, wotsSigs)
      /\ states' = next.states
      /\ wotsSigs' = next.wots
      /\ used' = used (+) SetToBag(KeysSpent(out', wotsSigs, wotsSigs'))
      /\ left' = next.updates
      /\ UNCHANGED <<params, pkRoot, crashes>>

(* The process ends inside the call, and the next one starts from the secret *)
(* key as the code says to store it, at l.816-818: the index is the next     *)
(* one, all else is what it was.  At worst every signature had been computed. *)
Crash(m) ==
  LET next == Advance(params, skIdx, states, wotsSigs)
      lost == Output(params, skIdx, m, states, wotsSigs)
  IN  /\ Callable
      /\ crashes < MaxCrashes
      /\ calls' = calls + 1
      /\ crashes' = crashes + 1
      /\ skIdx' = (skIdx + 1) % params.space
      /\ used' = used (+) SetToBag(KeysSpent(lost, wotsSigs, next.wots))
      /\ UNCHANGED <<params, pkRoot, states, wotsSigs, out, left>>

Next == Keypair \/ \E m \in Messages : Sign(m)

Spec == Init /\ [][Next]_vars

(* With calls that are cut short. *)
CrashNext == Next \/ \E m \in Messages : Crash(m)

CrashSpec == Init /\ [][CrashNext]_vars

-----------------------------------------------------------------------------
TypeOK ==
  /\ params \in ParamSets
  /\ skIdx \in 0..(params.space - 1)
  /\ calls \in 0..(Capacity(params) + Overtime)
  /\ crashes \in 0..MaxCrashes
  /\ IsABag(used)
  /\ left \in Int
  /\ \A i \in DOMAIN states :
       /\ states[i].offset \in Nat
       /\ states[i].nextLeaf \in 0..Pow2[params.th]
       /\ DOMAIN states[i].auth = 0..(params.th - 1)

(* The updates of a call. *)
Budget(p) == Instances(p) \div 2

(* They are enough for the instances of every layer, they are left for as    *)
(* many layers as have a next tree, the char that counts them holds them,    *)
(* and the index wraps after the last tree.                                  *)
Suffices(p) ==
  /\ EnoughUpdates(p)
  /\ p.d - 2 <= Budget(p) /\ Budget(p) <= 127
  /\ p.space % Capacity(p) = 0

(* The budget of every parameter set suffices, which neither params.c nor    *)
(* the signer sees to.  StackBound, NextTreeReady, SignaturesOpen and        *)
(* ImplementsSigner are proved on this condition; the run xmssmt_fast_starved *)
(* shows what happens without it.                                            *)
BudgetSuffices == \A p \in ParamSets : Suffices(p)

(* The instances of a state share a stack of tree_height + 1 slots, and a    *)
(* tree that was swapped in still has its root at the bottom of it: the      *)
(* stack holds them all.                                                     *)
StackBound == \A i \in DOMAIN states : states[i].peak <= params.th + 1

(* When a tree is used up the next one is complete, but for the leaf that    *)
(* the last signature of a layer-0 tree adds itself: the shared budget is    *)
(* enough for all layers.                                                    *)
NextTreeReady ==
  \A i \in 0..(params.d - 2) :
    pkRoot # Junk /\ EndOfTree(params, skIdx, i) /\ skIdx < Capacity(params) - 1
      => states[params.d + i].nextLeaf = Pow2[params.th] - (IF i = 0 THEN 1 ELSE 0)

(* No WOTS key on any layer signs twice, whichever calls are cut short after *)
(* the new index was stored.                                                 *)
OneTimeKey ==
  calls <= params.space => \A key \in BagToSet(used) : used[key] = 1

(* A call does no more work than its budget, (tree_height - bds_k) / 2       *)
(* updates, in which "WOTS-signing counts as one update" (l.938) and only    *)
(* the leaf of NEXT_0 is free (l.900).                                       *)
WorkBounded == left >= 0

(* Every signature made from one of the 2^full_height indices verifies;      *)
(* test/xmss.c:72 checks the first ones.                                     *)
SignaturesOpen ==
  out # NoOutput /\ out.idx < Capacity(params) /\ calls <= params.space
    => SignOpen(params, pkRoot, out)

AbstractSigner == INSTANCE Signer WITH next <- calls

(* The signer with traversal state puts out what the one without does: the   *)
(* Makefile builds the same programs with either of the two.                 *)
ImplementsSigner == AbstractSigner!Spec
=============================================================================
