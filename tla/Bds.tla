-------------------------------- MODULE Bds --------------------------------
(***************************************************************************)
(* The tree traversal of Buchmann, Dahmen and Szydlo as xmss_core_fast.c   *)
(* implements it: operators on a bds_state, one for each function of the   *)
(* file.  p is the parameter set (th = tree_height, k = bds_k), a the      *)
(* address of the subtree a state belongs to.                              *)
(*                                                                         *)
(* A state is the struct bds_state as a record, with the field peak added: *)
(* the most nodes its stack has ever held (an auxiliary field).            *)
(***************************************************************************)
EXTENDS HashTree, FiniteSetsExt

(* The number of treehash instances; the k top levels use retain instead.   *)
Instances(p) == p.th - p.k

(* The updates of a call, half as many rounded down, serve all the instances *)
(* that are unfinished at a time: those of the two top levels never are.     *)
EnoughUpdates(p) == p.k <= 1 \/ Instances(p) % 2 = 0

(* Bytes of the secret key that were never written: key generation sets the  *)
(* instances of the current trees only.  Using these values ends a run with  *)
(* an error, so that a run that passes shows they are never read.            *)
UnsetLevel == 255
UnsetInstance == [h |-> 255, next |-> 0, usage |-> 255, completed |-> FALSE,
                  node |-> Junk]

(* The tree_height + 1 slots of the stack, and two past its end: StackBound   *)
(* says of either signer that nothing is ever put there.                     *)
Slots(p) == 0..(p.th + 2)

(* A state as deserialised from fresh memory, after l.724-727. *)
NewState(p) ==
  [stack    |-> [s \in Slots(p) |-> Junk],
   levels   |-> [s \in Slots(p) |-> UnsetLevel],
   offset   |-> 0,
   auth     |-> [h \in 0..(p.th - 1) |-> Junk],
   keep     |-> [s \in 0..((p.th \div 2) - 1) |-> Junk],
   inst     |-> [h \in 0..(Instances(p) - 1) |-> UnsetInstance],
   retain   |-> [s \in 0..(Pow2[p.k] - p.k - 2) |-> Junk],
   nextLeaf |-> 0,
   peak     |-> 0]

Push(st, node, level) ==
  [st EXCEPT !.stack[st.offset] = node,
             !.levels[st.offset] = level,
             !.offset = st.offset + 1,
             !.peak = Max({st.peak, st.offset + 1})]

(* Rows of retain: offset plus rowidx for the node of height h whose index    *)
(* is i >> h. *)
RetainSlot(p, h, row) == Pow2[p.th - 1 - h] + h - p.th + row

(* Mutant: the row of a retained node counted from the first right node. *)
KeepNodeNextRow(p, st, h, i, node) ==
  CASE Shr(i, h) = 1 -> [st EXCEPT !.auth[h] = node]
    [] Shr(i, h) # 1 /\ h >= Instances(p) ->
         [st EXCEPT !.retain[RetainSlot(p, h, (Shr(i, h) - 1) \div 2)] = node]
    [] Shr(i, h) = 3 /\ h < Instances(p) -> [st EXCEPT !.inst[h].node = node]
    [] OTHER -> st

(* Where a finished node goes while a tree is built: the first right node of *)
(* a level is the first path, the second one is what treehash will have to   *)
(* deliver next, and the top levels are retained whole.                      *)
KeepNode(p, st, h, i, node) ==
  CASE Shr(i, h) = 1 -> [st EXCEPT !.auth[h] = node]
    [] Shr(i, h) # 1 /\ h >= Instances(p) ->
         [st EXCEPT !.retain[RetainSlot(p, h, (Shr(i, h) - 3) \div 2)] = node]
    [] Shr(i, h) = 3 /\ h < Instances(p) -> [st EXCEPT !.inst[h].node = node]
    [] OTHER -> st

(* The body of the merge loop of treehash_init and bds_state_update. *)
MergeTop(p, a, i, st) ==
  LET top  == st.offset - 1
      h    == st.levels[top]
      kept == KeepNode(p, st, h, i, st.stack[top])
  IN  IF st.offset > 1 /\ st.levels[top] = st.levels[top - 1]
      THEN [kept EXCEPT
              !.stack[top - 1] = HashPair(a, h, Shr(i, h + 1),
                                          st.stack[top - 1], st.stack[top]),
              !.levels[top - 1] = h + 1,
              !.offset = top]
      ELSE st

(* Add leaf i: push it and merge.  At leaf 3 the code copies treehash node 0 *)
(* from one slot past the leaf; the merge that follows writes it again.      *)
AddLeaf(p, a, i, st) ==
  LET pushed == Push(st, GenLeaf(a, i), 0)
      copied == IF Instances(p) > 0 /\ i = 3
                THEN [pushed EXCEPT !.inst[0].node = pushed.stack[pushed.offset]]
                ELSE pushed
  IN  Loop(LAMBDA n, s : MergeTop(p, a, i, s), p.th, copied)

(* treehash_init: build the whole tree on a stack of its own.  Returns the   *)
(* root and the state ready for leaf 0.                                      *)
TreehashInit(p, a, st) ==
  LET cleared == [st EXCEPT !.inst = [h \in 0..(Instances(p) - 1) |->
                                        [st.inst[h] EXCEPT !.h = h,
                                                           !.completed = TRUE,
                                                           !.usage = 0]],
                            !.offset = 0]
      done == Loop(LAMBDA i, s : AddLeaf(p, a, i, s), Pow2[p.th], cleared)
  IN  [root  |-> done.stack[0],
       state |-> [done EXCEPT !.stack = st.stack, !.levels = st.levels,
                              !.offset = st.offset, !.peak = st.peak]]

(* bds_state_update: one more leaf of the next tree, unless it is complete. *)
BdsStateUpdate(p, a, st) ==
  IF st.nextLeaf = Pow2[p.th]
  THEN st
  ELSE [AddLeaf(p, a, st.nextLeaf, st) EXCEPT !.nextLeaf = st.nextLeaf + 1]

-----------------------------------------------------------------------------
(* Mutant: an instance takes a node of its height whoever put it there. *)
TopIsAnyNode(st, j, h) == st.offset > 0 /\ st.levels[st.offset - 1] = h

(* The top of the stack is the left sibling of instance j's node at height h *)
TopIsSibling(st, j, h) == st.inst[j].usage > 0 /\ st.levels[st.offset - 1] = h

(* treehash_update: one leaf for instance j, merged with what the instance   *)
(* has on the stack that all instances share.                                *)
TreehashUpdate(p, a, st, j) ==
  LET leaf == st.inst[j].next
      Merge(n, s) ==
        IF TopIsSibling(s.st, j, s.h)
        THEN [st   |-> [s.st EXCEPT !.inst[j].usage = @ - 1, !.offset = @ - 1],
              node |-> HashPair(a, s.h, Shr(leaf, s.h + 1),
                                s.st.stack[s.st.offset - 1], s.node),
              h    |-> s.h + 1]
        ELSE s
      m == Loop(Merge, p.th, [st |-> st, node |-> GenLeaf(a, leaf), h |-> 0])
  IN  IF m.h = st.inst[j].h
      THEN [m.st EXCEPT !.inst[j].node = m.node, !.inst[j].completed = TRUE]
      ELSE [Push(m.st, m.node, m.h) EXCEPT !.inst[j].usage = @ + 1,
                                           !.inst[j].next = leaf + 1]

(* The height an instance is working at: tree_height if it is finished, its  *)
(* own if it has not begun, else the lowest node it has on the stack         *)
(* (treehash_minheight_on_stack).                                            *)
Low(p, st, j) ==
  LET t == st.inst[j]
  IN  IF t.completed THEN p.th
      ELSE IF t.usage = 0 THEN j
      ELSE Min({p.th} \cup {st.levels[st.offset - i] : i \in 1..t.usage})

(* Mutant: the comparison turned round: the instance with the highest nodes. *)
BeforeReversed(low, j, o) == low[j] > low[o] \/ (low[j] = low[o] /\ j >= o)

(* j goes before o: it works at a lower height, or is the lower instance.    *)
Before(low, j, o) == low[j] < low[o] \/ (low[j] = low[o] /\ j <= o)

(* The instance to update first, as a set that is empty if none is left.     *)
Neediest(p, st) ==
  LET low  == [j \in 0..(Instances(p) - 1) |-> Low(p, st, j)]
      open == {j \in DOMAIN low : low[j] < p.th}
  IN  {j \in open : \A o \in open : Before(low, j, o)}

(* A return value of type char. *)
Char(x) == ((x + 128) % 256) - 128

(* updates is an unsigned int.  It is kept as the signed number of the same  *)
(* 32 bits: -1 stands for 2^32 - 1, more updates than a tree ever needs.     *)
Available(p, updates) ==
  IF updates >= 0 THEN updates ELSE p.th * Pow2[p.th]

(* bds_treehash_update: spend up to the given number of updates.  Returns    *)
(* the state and the updates left.                                           *)
BdsTreehashUpdate(p, a, st, updates) ==
  LET Step(n, s) ==
        IF Neediest(p, s.st) = {} THEN s
        ELSE [st   |-> TreehashUpdate(p, a, s.st,
                                      CHOOSE j \in Neediest(p, s.st) : TRUE),
              left |-> s.left - 1]
      r == Loop(Step, Available(p, updates), [st |-> st, left |-> updates])
  IN  [r EXCEPT !.left = Char(r.left)]

(* tau: the height of the first left node on the way up from the leaf. *)
Tau(p, leaf) == Min({p.th} \cup {i \in 0..(p.th - 1) : Bit(leaf, i) = 0})

(* keep after leaf: the left node leaving the path is needed once more, to    *)
(* compute the left node on the level above.                                 *)
Keep(p, st, leaf) ==
  LET tau == Tau(p, leaf)
  IN  IF Bit(leaf, tau + 1) = 0 /\ tau < p.th - 1
      THEN [st.keep EXCEPT ![tau \div 2] = st.auth[tau]]
      ELSE st.keep

(* Mutant: keep is refreshed before the node it held is used. *)
OldKeepRefreshed(p, st, leaf) == Keep(p, st, leaf)[(Tau(p, leaf) - 1) \div 2]

(* The node read out of keep before it is refreshed (l.470-474). *)
OldKeep(p, st, leaf) == st.keep[(Tau(p, leaf) - 1) \div 2]

(* The path of leaf + 1: a new left node at tau, new right nodes below it.   *)
NextPath(p, a, st, leaf) ==
  LET tau == Tau(p, leaf)
      Right(h) == IF h < Instances(p)
                  THEN st.inst[h].node
                  ELSE st.retain[RetainSlot(p, h, (Shr(leaf, h) - 1) \div 2)]
      Left == IF tau = 0 THEN GenLeaf(a, leaf)
              ELSE HashPair(a, tau - 1, Shr(leaf, tau), st.auth[tau - 1],
                            OldKeep(p, st, leaf))
  IN  [h \in 0..(p.th - 1) |->
         IF h < tau THEN Right(h) ELSE IF h = tau THEN Left ELSE st.auth[h]]

(* The instances whose nodes were taken begin the next right node. *)
Restart(p, st, leaf) ==
  LET start(i) == leaf + 1 + 3 * Pow2[i]
  IN  [i \in 0..(Instances(p) - 1) |->
         IF i < Tau(p, leaf) /\ start(i) < Pow2[p.th]
         THEN [st.inst[i] EXCEPT !.h = i, !.next = start(i),
                                 !.completed = FALSE, !.usage = 0]
         ELSE st.inst[i]]

(* bds_round: from the path of leaf to the path of leaf + 1. *)
BdsRound(p, a, st, leaf) ==
  [st EXCEPT !.keep = Keep(p, st, leaf),
             !.auth = NextPath(p, a, st, leaf),
             !.inst = Restart(p, st, leaf)]
=============================================================================
