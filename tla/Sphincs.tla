------------------------------ MODULE Sphincs ------------------------------
(***************************************************************************)
(* The stateless signer of sphincsp/: crypto_sign_keypair, crypto_sign and *)
(* crypto_sign_open of sign.c with fors.c, the addresses of                *)
(* hash_address.c and the hash functions of hash_haraka.c, whose round     *)
(* constants are global variables that every call tweaks with its seeds.   *)
(*                                                                         *)
(* A hash value is the record of the call that computed it: constants,     *)
(* address and input.  What treehash returns for a tree is stated as the   *)
(* tree itself (module Treehash shows that it is computed), and a one-time *)
(* signature opens for its own key and message only (module Wots).         *)
(***************************************************************************)
EXTENDS Bits, Sequences, FiniteSets, SequencesExt

CONSTANTS
  TreeHeight, D,            \* SPX_TREE_HEIGHT, SPX_D
  ForsHeight, ForsTrees,    \* SPX_FORS_HEIGHT, SPX_FORS_TREES
  Keys, Messages, Optrands,
  Digests,                  \* outputs of haraka_S in hash_message: [md, tree, leaf]
  Nothing,                  \* no call yet
  MaxSigns                  \* bound on the calls of crypto_sign

ASSUME SizesAssumption ==
  /\ TreeHeight \in Nat \ {0} /\ D \in Nat \ {0}
  /\ ForsHeight \in Nat \ {0} /\ ForsTrees \in Nat \ {0}
  /\ MaxSigns \in Nat

(* md is as many bytes as hold the bits of all FORS indices. *)
ASSUME DigestsAssumption ==
  \A dg \in Digests :
    /\ dg.md \in Seq(0..255) /\ Len(dg.md) = (ForsHeight * ForsTrees + 7) \div 8
    /\ dg.tree \in Nat /\ dg.leaf \in Nat

VARIABLES
  rc, rcSseed,   \* the round constants, static arrays of haraka.c
  pkRoot,        \* the roots in the public keys generated so far
  oracle,        \* what hash_message has returned
  signs,         \* the number of signatures made
  out,           \* the last signed message
  opened,        \* the last call of crypto_sign_open
  hashes,        \* history: the calls of thash in generating and signing, but
                 \* for those inside of WOTS chains, which Wots opens up
  used,          \* history: every one-time signature
  revealed       \* history: every FORS secret in a signature, with its place

vars == <<rc, rcSseed, pkRoot, oracle, signs, out, opened, hashes, used, revealed>>

Zeroed == <<"zeroed">>
Standard == <<"haraka_rc">>
PubSeed(k) == <<"PUB_SEED", k>>
SkSeed(k)  == <<"SK_SEED", k>>
NULL == <<"NULL">>
Junk == [junk |-> TRUE]

(* memcpy(rc, haraka_rc): the seeds are hashed with the standard constants. *)
TweakBase == Standard

(* tweak_constants: the constants for sk.seed stay if there is no seed. *)
Tweaked(pkSeed, skSeed) ==
  [rc |-> <<TweakBase, pkSeed>>,
   rcSseed |-> IF skSeed = NULL THEN rcSseed ELSE <<TweakBase, skSeed>>]
-----------------------------------------------------------------------------
(* Addresses, with their words 6 and 7 shared by the chain and hash numbers  *)
(* of WOTS and the heights and indices of trees.                             *)
ZeroAddr == [layer |-> 0, tree |-> 0, type |-> "wots", keypair |-> 0,
             height |-> 0, index |-> 0]

CopySubtree(to, from) == [to EXCEPT !.layer = from.layer, !.tree = from.tree]
CopyKeypair(to, from) == [CopySubtree(to, from) EXCEPT !.keypair = from.keypair]
OfType(t) == [ZeroAddr EXCEPT !.type = t]

(* thash and prf_addr; prf_addr's argument key is unused. *)
Thash(c, addr, in) == [rc |-> c.rc, addr |-> addr, in |-> in]
PrfAddr(c, addr) == [rcSseed |-> c.rcSseed, addr |-> addr]

(* wots_gen_pk, wots_sign and wots_pk_from_sig set words 6 and 7 themselves. *)
WotsKey(addr) == <<addr.layer, addr.tree, addr.type, addr.keypair>>
WotsPk(rc0, secret, addr) == [rc |-> rc0, secret |-> secret, wots |-> WotsKey(addr)]
WotsSign(c, addr, msg) ==
  [rc |-> c.rc, secret |-> c.rcSseed, key |-> WotsKey(addr), msg |-> msg]
WotsPkFromSig(c, addr, sig, msg) ==
  IF sig.rc = c.rc /\ sig.key = WotsKey(addr) /\ sig.msg = msg
  THEN WotsPk(c.rc, sig.secret, addr) ELSE Junk

(* wots_gen_leaf. *)
WotsGenLeaf(c, idx, treeAddr) ==
  LET wotsAddr == [CopySubtree(OfType("wots"), treeAddr) EXCEPT !.keypair = idx]
  IN  Thash(c, CopyKeypair(OfType("wotspk"), wotsAddr),
            WotsPk(c.rc, c.rcSseed, wotsAddr))

(* fors_gen_leaf: a new address of which only subtree and key pair are those *)
(* of the tree's.                                                            *)
ForsGenLeaf(c, idx, treeAddr) ==
  LET addr == [CopyKeypair(OfType("forstree"), treeAddr) EXCEPT !.index = idx]
  IN  Thash(c, addr, PrfAddr(c, addr))

(* treehash: the nodes of the tree of height th over the leaves off,         *)
(* off + 1, ..., by height and index.                                        *)
Nodes(c, GenLeaf(_, _, _), th, off, addr) ==
  LET node[h \in 0..th] ==
        [i \in 0..(Pow2[th - h] - 1) |->
           IF h = 0 THEN GenLeaf(c, off + i, addr)
           ELSE Thash(c, [addr EXCEPT !.height = h, !.index = i + Shr(off, h)],
                      <<node[h - 1][2 * i], node[h - 1][2 * i + 1]>>)]
  IN  node

AuthPath(nodes, th, leaf) == [h \in 0..(th - 1) |-> nodes[h][Sibling(Shr(leaf, h))]]
NodeSet(nodes) == UNION {{nodes[h][i] : i \in DOMAIN nodes[h]} : h \in DOMAIN nodes}

(* compute_root: climb from the leaf, the path's nodes left of odd indices. *)
ComputeRoot(c, leaf, leafIdx, off, auth, th, addr) ==
  LET up[h \in 0..th] ==
        IF h = 0 THEN leaf
        ELSE Thash(c, [addr EXCEPT !.height = h,
                                   !.index = Shr(leafIdx, h) + Shr(off, h)],
                   IF Bit(leafIdx, h - 1) = 1 THEN <<auth[h - 1], up[h - 1]>>
                                              ELSE <<up[h - 1], auth[h - 1]>>)
  IN  up[th]
-----------------------------------------------------------------------------
(* Mutant: every index starts with a new byte. *)
MdBitAligned(md, i, j) == Bit(md[1 + ((i * ForsHeight) \div 8)], j % 8)

(* (m[offset >> 3] >> (offset & 7)) & 1: bit j of index i. *)
MdBit(md, i, j) ==
  LET offset == i * ForsHeight + j IN Bit(md[1 + (offset \div 8)], offset % 8)

(* message_to_indices: the first bit read is the highest of its index. *)
Indices(md) ==
  [i \in 0..(ForsTrees - 1) |->
     Loop(LAMBDA j, x : 2 * x + MdBit(md, i, j), ForsHeight, 0)]

(* idx_offset: the trees of an instance number their leaves consecutively. *)
IdxOffset(i) == i * Pow2[ForsHeight]

(* The height and index of the node computed last stay in fors_tree_addr. *)
ForsTreeAddr(addr, i, idx) ==
  [addr EXCEPT !.height = 0, !.index = idx + IdxOffset(i)]
LeftIn(addr, i) ==
  [addr EXCEPT !.height = ForsHeight, !.index = Shr(IdxOffset(i), ForsHeight)]

(* Mutant: the key pair is not copied. *)
ForsPkAddrOfTree(forsAddr) == CopySubtree(OfType("forspk"), forsAddr)

(* fors_pk_addr. *)
ForsPkAddr(forsAddr) == CopyKeypair(OfType("forspk"), forsAddr)

(* fors_sign: the signature, the public key, and the hashes on the way. *)
ForsSign(c, md, forsAddr) ==
  LET idx == Indices(md)
      Sign(i, st) ==
        LET addr  == ForsTreeAddr(st.addr, i, idx[i])
            nodes == Nodes(c, ForsGenLeaf, ForsHeight, IdxOffset(i), addr)
        IN  [addr |-> LeftIn(addr, i),
             sig |-> Append(st.sig, [sk |-> PrfAddr(c, addr),
                                     auth |-> AuthPath(nodes, ForsHeight, idx[i])]),
             roots |-> Append(st.roots, nodes[ForsHeight][0]),
             hashes |-> st.hashes \cup NodeSet(nodes)]
      all == Loop(Sign, ForsTrees,
                  [addr |-> CopyKeypair(OfType("forstree"), forsAddr),
                   sig |-> <<>>, roots |-> <<>>, hashes |-> {}])
      pk  == Thash(c, ForsPkAddr(forsAddr), all.roots)
  IN  [sig |-> all.sig, pk |-> pk, hashes |-> all.hashes \cup {pk}]

(* fors_pk_from_sig. *)
ForsPkFromSig(c, sig, md, forsAddr) ==
  LET idx == Indices(md)
      Climb(i, st) ==
        LET addr == ForsTreeAddr(st.addr, i, idx[i])
        IN  [addr |-> LeftIn(addr, i),
             roots |-> Append(st.roots,
                         ComputeRoot(c, Thash(c, addr, sig[i + 1].sk), idx[i],
                                     IdxOffset(i), sig[i + 1].auth, ForsHeight, addr))]
      all == Loop(Climb, ForsTrees,
                  [addr |-> CopyKeypair(OfType("forstree"), forsAddr), roots |-> <<>>])
  IN  Thash(c, ForsPkAddr(forsAddr), all.roots)
-----------------------------------------------------------------------------
(* hash_message: the digest's last bytes, cut to the bits of an index. *)
TreeBits(dg) == dg.tree % Pow2[TreeHeight * (D - 1)]
LeafBits(dg) == dg.leaf % Pow2[TreeHeight]

(* Mutant: the leaf is taken from the tree number after it is shifted. *)
NextLeafShifted(tree) == Shr(tree, TreeHeight) % Pow2[TreeHeight]

(* The indices of the next layer. *)
NextLeaf(tree) == tree % Pow2[TreeHeight]
NextTree(tree) == Shr(tree, TreeHeight)

(* The addresses of the hypertree loop for layer l: tree_addr, and wots_addr *)
(* without the words it keeps from the layer below.                          *)
TreeAddr(l, tree) == [OfType("hashtree") EXCEPT !.layer = l, !.tree = tree]
WotsAddr(l, tree, leaf) ==
  [CopySubtree(OfType("wots"), TreeAddr(l, tree)) EXCEPT !.keypair = leaf]

(* The loop of crypto_sign over the layers. *)
HypertreeSign(c, root, tree, leaf) ==
  LET Sign(l, st) ==
        LET nodes == Nodes(c, WotsGenLeaf, TreeHeight, 0, TreeAddr(l, st.tree))
            sig   == WotsSign(c, WotsAddr(l, st.tree, st.leaf), st.root)
        IN  [root |-> nodes[TreeHeight][0],
             leaf |-> NextLeaf(st.tree), tree |-> NextTree(st.tree),
             sig |-> Append(st.sig, [wots |-> sig,
                                     auth |-> AuthPath(nodes, TreeHeight, st.leaf)]),
             hashes |-> st.hashes \cup NodeSet(nodes)]
  IN  Loop(Sign, D, [root |-> root, leaf |-> leaf, tree |-> tree,
                     sig |-> <<>>, hashes |-> {}])

(* The loop of crypto_sign_open over the layers. *)
HypertreeRoot(c, sig, root, tree, leaf) ==
  LET Climb(l, st) ==
        LET addr == WotsAddr(l, st.tree, st.leaf)
            pk   == WotsPkFromSig(c, addr, sig[l + 1].wots, st.root)
        IN  [root |-> ComputeRoot(c, Thash(c, CopyKeypair(OfType("wotspk"), addr), pk),
                                  st.leaf, 0, sig[l + 1].auth, TreeHeight,
                                  TreeAddr(l, st.tree)),
             leaf |-> NextLeaf(st.tree), tree |-> NextTree(st.tree)]
  IN  Loop(Climb, D, [root |-> root, leaf |-> leaf, tree |-> tree]).root
-----------------------------------------------------------------------------
Init ==
  /\ rc = Zeroed /\ rcSseed = Zeroed
  /\ pkRoot = [k \in {} |-> Junk]
  /\ oracle = [q \in {} |-> Junk]
  /\ signs = 0
  /\ out = Nothing /\ opened = Nothing
  /\ hashes = {} /\ used = {} /\ revealed = {}

SetConstants(c) == rc' = c.rc /\ rcSseed' = c.rcSseed

(* crypto_sign_keypair. *)
Keypair(k) ==
  LET c == Tweaked(PubSeed(k), SkSeed(k))
      nodes == Nodes(c, WotsGenLeaf, TreeHeight, 0, TreeAddr(D - 1, 0))
  IN  /\ k \notin DOMAIN pkRoot
      /\ SetConstants(c)
      /\ pkRoot' = [j \in DOMAIN pkRoot \cup {k} |->
                      IF j = k THEN nodes[TreeHeight][0] ELSE pkRoot[j]]
      /\ hashes' = hashes \cup NodeSet(nodes)
      /\ UNCHANGED <<oracle, signs, out, opened, used, revealed>>

(* The digests hash_message may return: always the same for the same input. *)
Answers(q) == IF q \in DOMAIN oracle THEN {oracle[q]} ELSE Digests
Answered(q, dg) == [p \in DOMAIN oracle \cup {q} |-> IF p = q THEN dg ELSE oracle[p]]

(* Mutant: crypto_sign relies on the constants of the last call. *)
SignConstantsLeft(k) == [rc |-> rc, rcSseed |-> rcSseed]

(* initialize_hash_function in crypto_sign. *)
SignConstants(k) == Tweaked(PubSeed(k), SkSeed(k))

(* crypto_sign, with the randomness drawn and the digest it leads to. *)
Sign(k, m, optrand, dg) ==
  LET c == SignConstants(k)
      r == <<"R", k, optrand, m>>
      q == <<r, k, m>>
      tree == TreeBits(dg)
      leaf == LeafBits(dg)
      fors == ForsSign(c, dg.md, [OfType("wots") EXCEPT !.tree = tree, !.keypair = leaf])
      hyper == HypertreeSign(c, fors.pk, tree, leaf)
  IN  /\ k \in DOMAIN pkRoot
      /\ signs < MaxSigns
      /\ dg \in Answers(q)
      /\ SetConstants(c)
      /\ oracle' = Answered(q, dg)
      /\ signs' = signs + 1
      /\ out' = [key |-> k, r |-> r, msg |-> m, fors |-> fors.sig, hyper |-> hyper.sig]
      /\ opened' = Nothing
      /\ hashes' = hashes \cup fors.hashes \cup hyper.hashes
      /\ used' = used \cup {hyper.sig[l].wots : l \in 1..D}
      /\ revealed' = revealed \cup
           {[place |-> <<k, tree, leaf, i, Indices(dg.md)[i - 1]>>, sk |-> fors.sig[i].sk] :
              i \in 1..ForsTrees}
      /\ UNCHANGED pkRoot

(* A signed message with one part of its signature changed. *)
Tampered(sm) ==
  {[sm EXCEPT !.fors[i].sk = Junk] : i \in 1..ForsTrees}
       \cup {[sm EXCEPT !.fors[i].auth[h] = Junk] :
               i \in 1..ForsTrees, h \in 0..(ForsHeight - 1)}
       \cup {[sm EXCEPT !.hyper[l].wots.msg = Junk] : l \in 1..D}
       \cup {[sm EXCEPT !.hyper[l].auth[h] = Junk] :
               l \in 1..D, h \in 0..(TreeHeight - 1)}

(* crypto_sign_open under the public key of k; it has no secret seed. *)
Open(k, sm, dg) ==
  LET c == Tweaked(PubSeed(k), NULL)
      q == <<sm.r, k, sm.msg>>
      tree == TreeBits(dg)
      leaf == LeafBits(dg)
      forsPk == ForsPkFromSig(c, sm.fors, dg.md,
                              [OfType("wots") EXCEPT !.tree = tree, !.keypair = leaf])
  IN  /\ opened = Nothing
      /\ k \in DOMAIN pkRoot
      /\ dg \in Answers(q)
      /\ SetConstants(c)
      /\ oracle' = Answered(q, dg)
      /\ opened' = [key |-> k, sm |-> sm,
                    ok |-> HypertreeRoot(c, sm.hyper, forsPk, tree, leaf) = pkRoot[k]]
      /\ UNCHANGED <<pkRoot, signs, out, hashes, used, revealed>>

Next ==
  \/ \E k \in Keys : Keypair(k)
  \/ \E k \in Keys, m \in Messages, o \in Optrands, dg \in Digests : Sign(k, m, o, dg)
  \/ /\ out # Nothing
     /\ \E dg \in Digests :
          \/ \E k \in Keys : Open(k, out, dg)
          \/ \E sm \in Tampered(out) : Open(out.key, sm, dg)

Spec == Init /\ [][Next]_vars
-----------------------------------------------------------------------------
(* Type correctness: every one-time key used is a leaf of the hypertree. *)
TypeOK ==
  /\ DOMAIN pkRoot \subseteq Keys
  /\ signs \in 0..MaxSigns
  /\ \A s \in used :
       /\ s.key[1] \in 0..(D - 1)
       /\ s.key[2] \in 0..(Pow2[TreeHeight * (D - 1 - s.key[1])] - 1)
       /\ s.key[4] \in 0..(Pow2[TreeHeight] - 1)

(* crypto_sign_open accepts what crypto_sign returned, under the key that    *)
(* signed it, and nothing with a part changed or under another key -- in     *)
(* whatever order the calls for several keys share the constants of          *)
(* haraka.c (sign.c:59, 93, 172).                                            *)
OpensIffSigned ==
  opened # Nothing => (opened.ok <=> opened.key = out.key /\ opened.sm = out)

(* No address is ever hashed with two inputs under one key pair: the nodes   *)
(* of FORS trees and of the hypertree and the public keys that are hashed    *)
(* together all lie at addresses of their own.  And no secret is at two      *)
(* places: those of two leaves, two FORS trees, two instances or two key     *)
(* pairs are different values (sign.c:26, fors.c:78-86).                     *)
AddressUnique ==
  /\ Cardinality({<<x.rc, x.addr>> : x \in hashes}) = Cardinality(hashes)
  /\ \A x, y \in revealed : x.sk = y.sk => x.place = y.place

(* No one-time key ever signs two values, though nothing is remembered from  *)
(* one signature to the next: what a leaf signs is determined by its address *)
(* alone, and lies in the hypertree (sign.c:124-143).                        *)
OneTimeKey ==
  /\ TypeOK
  /\ \A s, t \in used : s.rc = t.rc /\ s.key = t.key => s = t

(* Every one of the first FORS_HEIGHT * FORS_TREES bits of a digest counts:  *)
(* two digests that differ in one of them select different FORS leaves       *)
(* (fors.c:43).                                                              *)
MdBits(md) == [n \in 0..(ForsHeight * ForsTrees - 1) |-> Bit(md[1 + (n \div 8)], n % 8)]
EveryBitCounts ==
  \A p, q \in DOMAIN oracle :
    Indices(oracle[p].md) = Indices(oracle[q].md) => MdBits(oracle[p].md) = MdBits(oracle[q].md)
=============================================================================
