------------------------------ MODULE XmssFast ------------------------------
(***************************************************************************)
(* The single-tree signer of xmss_core_fast.c: the secret key carries one  *)
(* BDS state, whose path is copied into each signature and then moved on   *)
(* to the next leaf.                                                       *)
(***************************************************************************)
EXTENDS Bds, Bags

CONSTANTS
  ParamSets,     \* parameter sets: [th, k, d, space] with d = 1
  Messages,
  NoOutput,
  Overtime,      \* bound: calls after the last index
  MaxCrashes     \* bound: calls cut short

ASSUME SingleTreeAssumption ==
  \A p \in ParamSets :
    /\ p.th \in Nat \ {0} /\ p.d = 1
    /\ p.k \in 0..p.th
    /\ p.space \in Nat /\ Capacity(p) <= p.space

VARIABLES
  params,
  pkRoot,    \* the root in the public key, Junk before key generation
  skIdx,     \* the index in the secret key
  state,     \* the BDS state in the secret key
  out,       \* the last signature returned
  calls,     \* history: the calls of xmss_core_sign so far
  crashes,   \* history: those of them that were cut short
  used       \* history: the bag of WOTS keys signed with

vars == <<params, pkRoot, skIdx, state, out, calls, crashes, used>>

(* The address of the only tree. *)
Tree == <<0, 0>>

Init ==
  /\ params \in ParamSets
  /\ pkRoot = Junk
  /\ skIdx = 0
  /\ state = NewState(params)
  /\ out = NoOutput
  /\ calls = 0
  /\ crashes = 0
  /\ used = EmptyBag

(* xmss_core_keypair. *)
Keypair ==
  LET built == TreehashInit(params, Tree, state)
  IN  /\ pkRoot = Junk
      /\ pkRoot' = built.root
      /\ skIdx' = 0
      /\ state' = built.state
      /\ UNCHANGED <<params, out, calls, crashes, used>>

(* Mutant: a quarter of the instances in updates, not half. *)
AdvanceQuarter(p, idx, st) ==
  IF idx < Pow2[p.th] - 1
  THEN BdsTreehashUpdate(p, Tree, BdsRound(p, Tree, st, idx),
                         Instances(p) \div 4).st
  ELSE st

(* xmss_core_sign, l.685-688: nothing is prepared after the last leaf. *)
Advance(p, idx, st) ==
  IF idx < Pow2[p.th] - 1
  THEN BdsTreehashUpdate(p, Tree, BdsRound(p, Tree, st, idx),
                         Instances(p) \div 2).st
  ELSE st

(* The one-time signature.  The OTS address takes the index as it is, without *)
(* reducing it to the tree.                                                  *)
SignDigest(idx, m) == WotsSign(Tree, idx, Digest(idx, idx, m))

(* xmss_core_sign. *)
Sign(m) ==
  /\ pkRoot # Junk
  /\ calls < Capacity(params) + Overtime
  /\ calls' = calls + 1
  /\ skIdx' = (skIdx + 1) % params.space
  /\ out' = [idx |-> skIdx, r |-> skIdx, msg |-> m,
             wots |-> [l \in {0} |-> SignDigest(skIdx, m)],
             auth |-> [l \in {0} |-> state.auth]]
  /\ state' = Advance(params, skIdx, state)
  /\ used' = used (+) SetToBag({out'.wots[0].key})
  /\ UNCHANGED <<params, pkRoot, crashes>>

(* Mutant: the index is stored with the traversal state, at the end. *)
CrashBeforeStore(m) ==
  /\ pkRoot # Junk
  /\ calls < Capacity(params) + Overtime
  /\ crashes < MaxCrashes
  /\ calls' = calls + 1
  /\ crashes' = crashes + 1
  /\ used' = used (+) SetToBag({SignDigest(skIdx, m).key})
  /\ UNCHANGED <<params, pkRoot, skIdx, state, out>>

(* The process ends inside the call, and the next one starts from the secret *)
(* key as the code says to store it, at l.619-621: the index is the next     *)
(* one, the traversal state is that of the old one.  At worst the signature  *)
(* had been computed.                                                        *)
Crash(m) ==
  /\ pkRoot # Junk
  /\ calls < Capacity(params) + Overtime
  /\ crashes < MaxCrashes
  /\ calls' = calls + 1
  /\ crashes' = crashes + 1
  /\ skIdx' = (skIdx + 1) % params.space
  /\ used' = used (+) SetToBag({SignDigest(skIdx, m).key})
  /\ UNCHANGED <<params, pkRoot, state, out>>

Next == Keypair \/ \E m \in Messages : Sign(m)

Spec == Init /\ [][Next]_vars

(* With calls that are cut short. *)
CrashNext == Next \/ \E m \in Messages : Crash(m)

CrashSpec == Init /\ [][CrashNext]_vars

-----------------------------------------------------------------------------
TypeOK ==
  /\ params \in ParamSets
  /\ skIdx \in 0..(params.space - 1)
  /\ calls \in 0..(Capacity(params) + Overtime)
  /\ crashes \in 0..MaxCrashes
  /\ IsABag(used)
  /\ state.offset \in Nat
  /\ \A j \in DOMAIN state.inst : state.inst[j].next \in 0..Pow2[params.th]
  /\ DOMAIN state.auth = 0..(params.th - 1)

(* The treehash instances share a stack of tree_height + 1 slots; it never   *)
(* overflows, whatever the trade-off parameter bds_k, as long as the budget  *)
(* of updates suffices (see InstancesOnTime).                                *)
StackBound == state.peak <= params.th + 1

(* What the shared stack holds is exactly the unfinished nodes of the        *)
(* instances: none is lost and none left behind.                             *)
StackAccounted ==
  pkRoot # Junk =>
    state.offset =
      SumTo([j \in DOMAIN state.inst |->
               IF state.inst[j].completed THEN 0 ELSE state.inst[j].usage],
            Instances(params))

(* When bds_round takes the node of a treehash instance into the path, the   *)
(* instance has been finished: half the height in updates per signature is   *)
(* enough, although the instances compete for them.                          *)
InstancesOnTime ==
  pkRoot # Junk /\ skIdx < Capacity(params) - 1 =>
    \A j \in DOMAIN state.inst :
      j < Tau(params, skIdx) => state.inst[j].completed

(* No leaf of the tree signs twice, whichever calls are cut short.           *)
OneTimeKey ==
  calls <= params.space => \A key \in BagToSet(used) : used[key] = 1

(* Every signature made from one of the 2^tree_height indices verifies, and  *)
(* none made after them: xmss_core_sign returns 0 for both.                  *)
OpensIffInRange ==
  out # NoOutput /\ calls <= params.space
    => (SignOpen(params, pkRoot, out) <=> out.idx < Capacity(params))

AbstractSigner == INSTANCE Signer WITH next <- calls

(* The signer with traversal state puts out what the one without does: the   *)
(* Makefile builds the same programs with either of the two.                 *)
ImplementsSigner == AbstractSigner!Spec
=============================================================================
