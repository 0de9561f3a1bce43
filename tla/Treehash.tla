------------------------------ MODULE Treehash ------------------------------
(***************************************************************************)
(* Merkle's TreeHash as treehash in xmss_core.c and in sphincsp/utils.c    *)
(* runs it: one pass over the leaves of a subtree with a stack of          *)
(* height + 1 nodes, merging while the two topmost nodes have the same     *)
(* height, and copying out the nodes of one leaf's authentication path as  *)
(* they appear.                                                            *)
(*                                                                         *)
(* The sphincsp version numbers its leaves from idx_offset, so that the    *)
(* trees of a FORS instance share one address space; xmss_core.c is the    *)
(* case IdxOffset = 0.                                                     *)
(***************************************************************************)
EXTENDS HashTree

CONSTANTS
  TreeHeight,   \* tree_height
  Subtree,      \* the layer and tree fields of the address
  IdxOffset     \* idx_offset: the number of the first leaf

ASSUME TreeHeightAssumption == TreeHeight \in Nat \ {0}
ASSUME IdxOffsetAssumption ==
  IdxOffset \in Nat /\ IdxOffset % Pow2[TreeHeight] = 0

VARIABLES
  leafIdx,   \* leaf_idx: the leaf whose authentication path is wanted
  idx,       \* the leaf the for loop is at
  stack, heights, offset,
  auth,      \* auth_path
  root,
  pc         \* "leaf": loop test, "merge": while test, "done": returned

vars == <<leafIdx, idx, stack, heights, offset, auth, root, pc>>

Leaves == 0..(Pow2[TreeHeight] - 1)
StackSlots == 0..TreeHeight
Levels == 0..(TreeHeight - 1)

Init ==
  /\ leafIdx \in Leaves
  /\ idx = 0
  /\ stack = [p \in StackSlots |-> Junk]
  /\ heights = [p \in StackSlots |-> 0]
  /\ offset = 0
  /\ auth = [h \in Levels |-> Junk]
  /\ root = Junk
  /\ pc = "leaf"

(* Mutant: the loop test lets one leaf too many through. *)
MoreLeavesPastEnd == idx <= Pow2[TreeHeight]

(* The test of the for loop. *)
MoreLeaves == idx < Pow2[TreeHeight]

(* Mutant: the ^ 1 is forgotten. *)
OnAuthPathSelf(h, i) == Shr(leafIdx, h) = i

(* The node of height h with index i belongs to the path of leaf_idx. *)
OnAuthPath(h, i) == Sibling(Shr(leafIdx, h)) = i

PushLeaf ==
  LET node == GenLeaf(Subtree, idx + IdxOffset)
  IN  /\ pc = "leaf"
      /\ MoreLeaves
      /\ stack' = [stack EXCEPT ![offset] = node]
      /\ heights' = [heights EXCEPT ![offset] = 0]
      /\ offset' = offset + 1
      /\ auth' = IF OnAuthPath(0, idx) THEN [auth EXCEPT ![0] = node] ELSE auth
      /\ pc' = "merge"
      /\ UNCHANGED <<leafIdx, idx, root>>

(* Mutant: an if instead of the while, so that only leaves are merged. *)
TiedLeaves ==
  offset >= 2 /\ heights[offset - 1] = 0 /\ heights[offset - 2] = 0

(* The topmost nodes are of equal height. *)
Tied == offset >= 2 /\ heights[offset - 1] = heights[offset - 2]

(* Mutant: the index of the node on top, not of its parent. *)
TreeIdxBelow == Shr(idx, heights[offset - 1])

(* tree_idx: the index of the parent of the two topmost nodes. *)
TreeIdx == Shr(idx, heights[offset - 1] + 1)

Merge ==
  LET h    == heights[offset - 1]
      node == HashPair(Subtree, h, TreeIdx + Shr(IdxOffset, h + 1),
                       stack[offset - 2], stack[offset - 1])
  IN  /\ pc = "merge"
      /\ Tied
      /\ stack' = [stack EXCEPT ![offset - 2] = node]
      /\ heights' = [heights EXCEPT ![offset - 2] = h + 1]
      /\ offset' = offset - 1
      /\ auth' = IF OnAuthPath(h + 1, TreeIdx)
                 THEN [auth EXCEPT ![h + 1] = node]
                 ELSE auth
      /\ UNCHANGED <<leafIdx, idx, root, pc>>

NextLeaf ==
  /\ pc = "merge"
  /\ ~Tied
  /\ idx' = idx + 1
  /\ pc' = "leaf"
  /\ UNCHANGED <<leafIdx, stack, heights, offset, auth, root>>

Finish ==
  /\ pc = "leaf"
  /\ ~MoreLeaves
  /\ root' = stack[0]
  /\ pc' = "done"
  /\ UNCHANGED <<leafIdx, idx, stack, heights, offset, auth>>

Next == PushLeaf \/ Merge \/ NextLeaf \/ Finish

Spec == Init /\ [][Next]_vars

-----------------------------------------------------------------------------
(* Type correctness; the bound on offset is the separate StackBound. *)
TypeOK ==
  /\ leafIdx \in Leaves
  /\ idx \in 0..Pow2[TreeHeight]
  /\ heights \in [StackSlots -> Nat]
  /\ offset \in Nat
  /\ DOMAIN stack = StackSlots
  /\ DOMAIN auth = Levels
  /\ pc \in {"leaf", "merge", "done"}

(* The arrays stack and heights have tree_height + 1 slots, and that is      *)
(* enough: no push of treehash writes beyond them, although just before the  *)
(* last leaf the stack holds one node of every height.                       *)
StackBound ==
  /\ offset <= TreeHeight + 1
  /\ pc = "leaf" /\ idx < Pow2[TreeHeight] => offset <= TreeHeight

(* The number of leaves under the nodes on the stack. *)
Done == IF pc = "merge" THEN idx + 1 ELSE idx

Start(p) == stack[p].index * Pow2[heights[p]]
End(p)   == (stack[p].index + 1) * Pow2[heights[p]]

(* Between two iterations of the loops of treehash the stack is the frontier *)
(* of the part of the tree seen so far: its nodes are nodes of the tree,     *)
(* they cover exactly the leaves read, from left to right and without a gap, *)
(* and their heights strictly decrease, but for a pair waiting to be merged. *)
Frontier ==
  /\ offset = 0 <=> Done = 0
  /\ \A p \in 0..(offset - 1) :
       /\ stack[p] # Junk /\ stack[p].index \in Nat
       /\ stack[p] = Node(Subtree, heights[p], stack[p].index)
       /\ Start(p) = IF p = 0 THEN IdxOffset ELSE End(p - 1)
  /\ offset > 0 => End(offset - 1) = IdxOffset + Done
  /\ \A p \in 1..(offset - 1) :
       \/ heights[p] < heights[p - 1]
       \/ heights[p] = heights[p - 1] /\ p = offset - 1 /\ pc = "merge"

(* treehash returns the root of the subtree and, at every height, the        *)
(* sibling of the node above leaf_idx: what compute_root needs to verify.    *)
TreehashCorrect ==
  pc = "done" =>
    /\ root = Node(Subtree, TreeHeight, Shr(IdxOffset, TreeHeight))
    /\ \A h \in Levels :
         auth[h] = Node(Subtree, h,
                        Shr(IdxOffset, h) + Sibling(Shr(leafIdx, h)))

=============================================================================
