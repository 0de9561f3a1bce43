------------------------------ MODULE HashTree ------------------------------
(***************************************************************************)
(* The values the Merkle-tree code computes, up to the hash functions: a   *)
(* hash is a constructor, injective by construction, and every input that  *)
(* does not come from the honest key pair hashes to Junk.  Junk also       *)
(* stands for memory the code never wrote.                                 *)
(*                                                                         *)
(* A subtree address is <<layer, tree>>, the two fields copy_subtree_addr  *)
(* keeps; the other fields of an address (type, leaf, height, index) are   *)
(* the operators' remaining arguments.                                     *)
(***************************************************************************)
EXTENDS Bits

(* Mutant: an address that does not say which tree of its layer it is in. *)
NodeOfAnyTree(a, h, i) == [subtree |-> <<a[1], 0>>, height |-> h, index |-> i]

(* The node at the given height and index of the subtree at address a. *)
Node(a, h, i) == [subtree |-> a, height |-> h, index |-> i]

Junk == [junk |-> TRUE]

(* Mutant: the randomizer is not hashed. *)
DigestWithoutR(r, idx, m) == [idx |-> idx, msg |-> m]

(* hash_message: what is signed on the lowest layer. *)
Digest(r, idx, m) == [r |-> r, idx |-> idx, msg |-> m]

(* thash_h over two adjacent buffers, under the address of their parent: its *)
(* index, and the height of the children (sphincsp: the height of the parent, *)
(* which says the same).  The masks come from the address, so a pair hashed  *)
(* at any other place gives another value.                                   *)
HashPair(a, h, i, left, right) ==
  IF left = Node(a, h, 2 * i) /\ right = Node(a, h, 2 * i + 1)
  THEN Node(a, h + 1, i)
  ELSE Junk

(* gen_leaf_wots: the leaf of an OTS key pair. *)
GenLeaf(a, leaf) == Node(a, 0, leaf)

(* wots_sign with the key pair of leaf number leaf in subtree a. *)
WotsSign(a, leaf, msg) == [key |-> <<a, leaf>>, msg |-> msg]

(* wots_pk_from_sig followed by l_tree: the leaf, if sig signs msg there. *)
LeafFromSig(a, leaf, sig, msg) ==
  IF sig = WotsSign(a, leaf, msg) THEN GenLeaf(a, leaf) ELSE Junk

(* compute_root: climb from the leaf, each authentication node going left  *)
(* of an odd index and right of an even one.                               *)
ComputeRoot(th, a, leafNode, leaf, auth) ==
  LET up[h \in 0..th] ==
        IF h = 0 THEN leafNode
        ELSE IF Bit(leaf, h - 1) = 1
             THEN HashPair(a, h - 1, Shr(leaf, h), auth[h - 1], up[h - 1])
             ELSE HashPair(a, h - 1, Shr(leaf, h), up[h - 1], auth[h - 1])
  IN  up[th]

(* What treehash returns for a subtree; module Treehash shows that it does. *)
TreeRoot(th, a) == Node(a, th, 0)
(* Mutant: the nodes above the leaf itself, the ^ 1 being forgotten. *)
TreeAuthOwnPath(th, a, leaf) ==
  [h \in 0..(th - 1) |-> Node(a, h, Shr(leaf, h))]
TreeAuth(th, a, leaf) ==
  [h \in 0..(th - 1) |-> Node(a, h, Sibling(Shr(leaf, h)))]

-----------------------------------------------------------------------------
(* A parameter set p has the fields th (tree_height) and d (layers).  A     *)
(* signature is [idx, r, msg, wots, auth], the last two indexed by layer.   *)

(* Index of the leaf used on layer l, and of the subtree it lies in. *)
LeafAt(p, idx, l) == Shr(idx, p.th * l) % Pow2[p.th]
TreeAt(p, idx, l) == Shr(idx, p.th * (l + 1))

(* The number of signatures a key pair is made for. *)
Capacity(p) == Pow2[p.th * p.d]

(* xmssmt_core_sign_open: accept iff climbing every layer, each time taking  *)
(* the root below as the message above, ends at the public root.            *)
SignOpen(p, pkRoot, sm) ==
  LET root[l \in 0..p.d] ==
        IF l = 0 THEN Digest(sm.r, sm.idx, sm.msg)
        ELSE LET a    == <<l - 1, TreeAt(p, sm.idx, l - 1)>>
                 leaf == LeafAt(p, sm.idx, l - 1)
             IN  ComputeRoot(p.th, a,
                             LeafFromSig(a, leaf, sm.wots[l - 1], root[l - 1]),
                             leaf, sm.auth[l - 1])
  IN  root[p.d] = pkRoot
=============================================================================
