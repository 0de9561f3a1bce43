---------------------------- MODULE HashAddress ----------------------------
(***************************************************************************)
(* The addresses of mine-wots: eight words that every call of prf under    *)
(* the public seed hashes to a key or a mask (hash.c, hash_address.c).     *)
(* They are set a word at a time in arrays that outlive the calls they are *)
(* passed to -- the words 4, 5 and 6 mean other things in each type of     *)
(* address, get_seed zeroes what gen_chain left behind, thash_h leaves its *)
(* last mask in word 7 -- and signer, treehash and verifier each do so in  *)
(* their own order.  What is hashed is module HashTree's concern; here it  *)
(* is where.                                                               *)
(***************************************************************************)
EXTENDS Bits, Sequences, FiniteSets

CONSTANTS
  TreeHeight, D,     \* tree_height, d
  WotsLen, W,        \* wots_len, wots_w
  WordBits,          \* the width of a word: 32
  Indices,           \* indices that are signed with
  Digits,            \* chain lengths of the values signed
  MaxSigns           \* bound on the signatures

SizesAssumption ==
  /\ TreeHeight \in Nat \ {0} /\ D \in Nat \ {0}
  /\ WotsLen \in Nat \ {0} /\ W \in Nat \ {0}
  /\ WordBits \in Nat /\ WordBits >= 2
  \* A word holds what is put in it, and two of them the index of a tree.
  /\ D <= Pow2[WordBits] /\ W <= Pow2[WordBits] /\ WotsLen < Pow2[WordBits]
  /\ TreeHeight <= WordBits /\ TreeHeight * (D - 1) <= 2 * WordBits
  /\ Indices \subseteq 0..(Pow2[TreeHeight * D] - 1)
  /\ Digits \subseteq [0..(WotsLen - 1) -> 0..(W - 1)]
  /\ MaxSigns \in Nat

VARIABLES
  ots, ltree, node,   \* the three addresses of the running treehash or sign_open
  signer,             \* ots_addr of xmssmt_core_sign
  call,               \* the call on top: "none", "keypair", "sign", "open"
  idx, layer,         \* its index, shifted layer by layer, and its loop variable
  leaf, heights,      \* treehash: the next leaf, and the heights on the stack
  signed,             \* the index of the last signature, -1 before the first
  signs,
  prfs,               \* history: every prf under the public seed, and what it is for
  seeds               \* history: every get_seed, and the key pair it is for

vars == <<ots, ltree, node, signer, call, idx, layer, leaf, heights, signed,
          signs, prfs, seeds>>
-----------------------------------------------------------------------------
(* The words of an address, whose meaning from the fifth on its type says. *)
Layer == 0
TreeHigh == 1
TreeLow == 2
Type == 3
OtsWord == 4
ChainWord == 5
HashWord == 6
KeyAndMask == 7
HeightWord == 5
IndexWord == 6

ZeroAddr == [w \in 0..7 |-> 0]
OfType(t) == [ZeroAddr EXCEPT ![Type] = t]
OTS == 0
LTREE == 1
HASHTREE == 2

(* set_tree_addr: 64 bits in two words. *)
SetTree(a, tree) ==
  [a EXCEPT ![TreeHigh] = Shr(tree, WordBits), ![TreeLow] = tree % Pow2[WordBits]]

CopySubtree(to, from) ==
  [to EXCEPT ![Layer] = from[Layer], ![TreeHigh] = from[TreeHigh], ![TreeLow] = from[TreeLow]]

SetTreeNode(a, height, index) == [a EXCEPT ![HeightWord] = height, ![IndexWord] = index]

(* A routine takes and returns the address it changes together with the      *)
(* calls of prf so far.                                                      *)
With(a) == [addr |-> a, prfs |-> prfs]

(* thash_f and thash_h: a key, and one or two masks, the last of which stays *)
(* in the address.                                                           *)
Thash(s, what, masks) ==
  [addr |-> [s.addr EXCEPT ![KeyAndMask] = masks],
   prfs |-> s.prfs \cup {[for |-> Append(what, k), at |-> [s.addr EXCEPT ![KeyAndMask] = k]] :
                           k \in 0..masks}]
ThashF(s, what) == Thash(s, what, 1)
ThashH(s, what) == Thash(s, what, 2)

(* gen_chain: chain c of the key pair kp. *)
GenChain(s, kp, c, start, steps) ==
  LET Step(k, t) ==
        ThashF([t EXCEPT !.addr[HashWord] = start + k], <<"chain", kp, c, start + k>>)
  IN  Loop(Step, steps, s)

(* wots_pkgen, wots_sign and wots_pk_from_sig: part of every chain.          *)
Chains(s, kp, start, steps) ==
  LET Step(c, t) ==
        GenChain([t EXCEPT !.addr[ChainWord] = c], kp, c, start[c], steps[c])
  IN  Loop(Step, WotsLen, s)

Whole == [c \in 0..(WotsLen - 1) |-> W - 1]
None  == [c \in 0..(WotsLen - 1) |-> 0]
Rest(digits) == [c \in 0..(WotsLen - 1) |-> W - 1 - digits[c]]

(* The rows of l_tree: the nodes of row h, an odd one out being lifted. *)
RowLen[h \in Nat] == IF h = 0 THEN WotsLen ELSE (RowLen[h - 1] + 1) \div 2
Rows == CHOOSE h \in 0..WotsLen : RowLen[h] = 1 /\ \A g \in 0..(h - 1) : RowLen[g] > 1

(* set_tree_height at the start and at the end of every row. *)
SetRow(a, h) == SetTreeNode(a, h, a[IndexWord])

(* l_tree over the public key of kp. *)
LTree(s, kp) ==
  LET Pair(h, i, t) == ThashH([t EXCEPT !.addr[IndexWord] = i], <<"ltree", kp, h, i>>)
      Row(h, t) ==
        [(Loop(LAMBDA i, u : Pair(h, i, u), RowLen[h] \div 2, t)) EXCEPT !.addr = SetRow(@, h + 1)]
  IN  Loop(Row, Rows, [s EXCEPT !.addr = SetRow(@, 0)])

(* get_seed: the address the seed of an OTS key pair is made from. *)
SeedAddr(a) == [a EXCEPT ![ChainWord] = 0, ![HashWord] = 0, ![KeyAndMask] = 0]
GetSeed(a, kp) == seeds' = seeds \cup {[for |-> kp, at |-> SeedAddr(a)]}
-----------------------------------------------------------------------------
Tree == Shr(idx, TreeHeight)
Leaf == idx % Pow2[TreeHeight]

(* The trees whose leaves are generated: treehash's and the signer's.        *)
TreeOfCall == IF call = "keypair" THEN <<D - 1, 0>> ELSE <<layer, Tree>>

Init ==
  /\ ots = ZeroAddr /\ ltree = ZeroAddr /\ node = ZeroAddr /\ signer = ZeroAddr
  /\ call = "none" /\ idx = 0 /\ layer = 0
  /\ leaf = Pow2[TreeHeight] /\ heights = <<>>
  /\ signed = -1 /\ signs = 0
  /\ prfs = {} /\ seeds = {}

(* treehash begins: three new addresses for the subtree of the one given.    *)
TreehashBegin(subtree) ==
  /\ ots' = CopySubtree(OfType(OTS), subtree)
  /\ ltree' = CopySubtree(OfType(LTREE), subtree)
  /\ node' = CopySubtree(OfType(HASHTREE), subtree)
  /\ leaf' = 0 /\ heights' = <<>>

TopTied == Len(heights) >= 2 /\ heights[Len(heights)] = heights[Len(heights) - 1]
Generating == leaf < Pow2[TreeHeight] \/ TopTied

(* gen_leaf_wots for the next leaf of treehash. *)
TreehashLeaf ==
  LET kp == Append(TreeOfCall, leaf)
      w  == Chains(With(SeedAddr([ots EXCEPT ![OtsWord] = leaf])), kp, None, Whole)
      l  == LTree([addr |-> [ltree EXCEPT ![OtsWord] = leaf], prfs |-> w.prfs], kp)
  IN  /\ leaf < Pow2[TreeHeight] /\ ~TopTied
      /\ GetSeed([ots EXCEPT ![OtsWord] = leaf], kp)
      /\ ots' = w.addr /\ ltree' = l.addr /\ prfs' = l.prfs
      /\ leaf' = leaf + 1 /\ heights' = Append(heights, 0)
      /\ UNCHANGED <<node, signer, call, idx, layer, signed, signs>>

(* Two nodes of equal height are hashed under the height of the children and *)
(* the index of the parent.                                                  *)
TreehashMerge ==
  LET top == heights[Len(heights)]
      treeIdx == Shr(leaf - 1, top + 1)
      n == ThashH(With(SetTreeNode(node, top, treeIdx)), <<"tree", TreeOfCall, top + 1, treeIdx>>)
  IN  /\ TopTied
      /\ node' = n.addr /\ prfs' = n.prfs
      /\ heights' = Append(SubSeq(heights, 1, Len(heights) - 2), top + 1)
      /\ UNCHANGED <<ots, ltree, signer, call, idx, layer, leaf, signed, signs, seeds>>

(* xmssmt_core_keypair: the tree on the top layer. *)
Keypair ==
  /\ call = "none" /\ prfs = {}
  /\ call' = "keypair"
  /\ TreehashBegin([ZeroAddr EXCEPT ![Layer] = D - 1])
  /\ UNCHANGED <<signer, idx, layer, signed, signs, prfs, seeds>>

(* xmssmt_core_sign: one address for all layers. *)
SignBegin(i) ==
  /\ call = "none" /\ prfs # {} /\ signs < MaxSigns
  /\ call' = "sign" /\ idx' = i /\ layer' = -1
  /\ signs' = signs + 1 /\ signed' = i
  /\ signer' = OfType(OTS)
  /\ UNCHANGED <<ots, ltree, node, leaf, heights, prfs, seeds>>

(* The next layer: its one-time signature, then treehash for its path.       *)
SignLayer(digits) ==
  LET i    == IF layer = -1 THEN idx ELSE Shr(idx, TreeHeight)
      kp   == <<layer + 1, Shr(i, TreeHeight), i % Pow2[TreeHeight]>>
      addr == [SetTree([signer EXCEPT ![Layer] = layer + 1], kp[2]) EXCEPT ![OtsWord] = kp[3]]
      w    == Chains(With(SeedAddr(addr)), kp, None, digits)
  IN  /\ call = "sign" /\ ~Generating /\ layer < D - 1
      /\ GetSeed(addr, kp)
      /\ signer' = w.addr /\ prfs' = w.prfs
      /\ idx' = i /\ layer' = layer + 1
      /\ TreehashBegin(w.addr)
      /\ UNCHANGED <<call, signed, signs>>

(* xmssmt_core_sign_open: three addresses for all layers. *)
OpenBegin ==
  /\ call = "none" /\ signed # -1
  /\ call' = "open" /\ idx' = signed /\ layer' = -1
  /\ ots' = OfType(OTS) /\ ltree' = OfType(LTREE) /\ node' = OfType(HASHTREE)
  /\ UNCHANGED <<signer, leaf, heights, signed, signs, prfs, seeds>>

(* Mutant: the height of the parent, as sphincsp counts. *)
ClimbHeightParent(h) == h + 1

(* set_tree_height in compute_root. *)
ClimbHeight(h) == h

(* A layer of sign_open: the rest of the chains, l_tree, compute_root.       *)
OpenLayer(digits) ==
  LET i    == IF layer = -1 THEN idx ELSE Shr(idx, TreeHeight)
      tree == Shr(i, TreeHeight)
      lf   == i % Pow2[TreeHeight]
      kp   == <<layer + 1, tree, lf>>
      At(a) == SetTree([a EXCEPT ![Layer] = layer + 1], tree)
      w    == Chains(With([At(ots) EXCEPT ![OtsWord] = lf]), kp, digits, Rest(digits))
      l    == LTree([addr |-> [At(ltree) EXCEPT ![OtsWord] = lf], prfs |-> w.prfs], kp)
      Climb(h, t) ==
        ThashH([t EXCEPT !.addr = SetTreeNode(@, ClimbHeight(h), Shr(lf, h + 1))],
               <<"tree", <<layer + 1, tree>>, h + 1, Shr(lf, h + 1)>>)
      n    == Loop(Climb, TreeHeight, [addr |-> At(node), prfs |-> l.prfs])
  IN  /\ call = "open" /\ layer < D - 1
      /\ ots' = w.addr /\ ltree' = l.addr /\ node' = n.addr /\ prfs' = n.prfs
      /\ idx' = i /\ layer' = layer + 1
      /\ UNCHANGED <<signer, call, leaf, heights, signed, signs, seeds>>

Return ==
  /\ call # "none" /\ ~Generating
  /\ call # "keypair" => layer = D - 1
  /\ call' = "none"
  /\ UNCHANGED <<ots, ltree, node, signer, idx, layer, leaf, heights, signed, signs, prfs, seeds>>

Next ==
  \/ Keypair \/ TreehashLeaf \/ TreehashMerge
  \/ \E i \in Indices : SignBegin(i)
  \/ \E digits \in Digits : SignLayer(digits) \/ OpenLayer(digits)
  \/ OpenBegin \/ Return

Spec == Init /\ [][Next]_vars
-----------------------------------------------------------------------------
(* Type correctness: every word of every address fits its width. *)
TypeOK ==
  /\ {ots, ltree, node, signer} \subseteq [0..7 -> 0..(Pow2[WordBits] - 1)]
  /\ layer \in -1..(D - 1) /\ leaf \in 0..Pow2[TreeHeight]
  /\ Len(heights) <= TreeHeight + 1

(* Two hashes of a key pair never share a key or a mask: every call of prf   *)
(* under the public seed that is made for another purpose -- another chain,  *)
(* step, node, tree, layer or mask -- is made at another address             *)
(* (hash.c:99-110, 131-138).                                                 *)
AddressUnique ==
  Cardinality({p.at : p \in prfs}) = Cardinality(prfs)

(* Signer, treehash and verifier agree: the same hash is made at the same    *)
(* address by all of them, whatever was left in the address before           *)
(* (xmss_commons.c:201-222, xmss_core.c:30-78, 212-232).                     *)
CallsAgree ==
  Cardinality({p.for : p \in prfs}) = Cardinality(prfs)

(* The seed of a one-time key pair is the same when its public key is made   *)
(* and when it signs, and no two key pairs have the same (xmss_commons.c:131).*)
SeedsAgree ==
  /\ Cardinality({s.for : s \in seeds}) = Cardinality(seeds)
  /\ Cardinality({s.at : s \in seeds}) = Cardinality(seeds)
=============================================================================
