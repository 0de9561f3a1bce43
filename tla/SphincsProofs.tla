---------------------------- MODULE SphincsProofs ----------------------------
(***************************************************************************)
(* Proofs about the stateless signer, for every height of its trees, every *)
(* number of layers and FORS trees, and any calls for any number of key    *)
(* pairs: crypto_sign_open accepts what crypto_sign returned and nothing   *)
(* else; no address is hashed with two inputs and no secret is at two      *)
(* places; no one-time key signs two values; every bit of a digest counts. *)
(*                                                                         *)
(* The recursions and loops of the model are described as runs (sequences  *)
(* of turns), and what they compute as terms: the trees of a key pair,     *)
(* which depend on its seeds and their address only, and the signature a   *)
(* digest selects in them.                                                 *)
(***************************************************************************)
EXTENDS Sphincs, FiniteSetTheorems, TLAPS

(* The arithmetic.  (HashTree has operators with the names of Sphincs's: its *)
(* lemmas come under a name of their own.)                                   *)
Trees == INSTANCE TreeProofs

(* Shifts are the same in both. *)
LEMMA SamePow2 == Trees!Pow2 = Pow2
BY DEF Trees!Pow2, Pow2

(* The operators of the two modules on shifts and siblings agree.            *)
LEMMA SameShr ==
  /\ \A x, n : Trees!Shr(x, n) = Shr(x, n) /\ Trees!Bit(x, n) = Bit(x, n)
  /\ \A x : Trees!Sibling(x) = Sibling(x)
<1>1. \A x, n : Trees!Shr(x, n) = Shr(x, n) BY SamePow2 DEF Trees!Shr, Shr
<1> QED BY <1>1 DEF Trees!Bit, Bit, Trees!Sibling, Sibling

(* Induction: a set that has 0 and the successor of each natural it has      *)
(* contains them all.                                                        *)
LEMMA SetInduction ==
  ASSUME NEW S, 0 \in S, \A n \in Nat : n \in S => n + 1 \in S
  PROVE  Nat \subseteq S
BY Trees!SetInduction

(* What the recursive definition of Pow2 says.                               *)
LEMMA Pow2Recursion ==
  /\ Pow2[0] = 1
  /\ \A n \in Nat : Pow2[n] \in Nat \ {0} /\ Pow2[n + 1] = 2 * Pow2[n]
BY Trees!Pow2Recursion, SamePow2

(* 1 << (m + n) is (1 << m) * (1 << n).                                      *)
LEMMA Pow2Sum ==
  ASSUME NEW m \in Nat, NEW n \in Nat
  PROVE  Pow2[m + n] = Pow2[m] * Pow2[n]
BY Trees!Pow2Sum, SamePow2

(* Splitting a number at a position: x >> n and the bits that are left.      *)
LEMMA SplitAt ==
  ASSUME NEW x \in Nat, NEW t \in Nat \ {0}
  PROVE  /\ x \div t \in Nat
         /\ x % t \in 0..(t - 1)
         /\ x = (x \div t) * t + (x % t)
BY Trees!SplitAt

(* The split is the only one.                                                *)
LEMMA SplitUnique ==
  ASSUME NEW t \in Nat \ {0},
         NEW a \in Nat, NEW b \in Nat, NEW r \in 0..(t - 1), NEW s \in 0..(t - 1),
         a * t + r = b * t + s
  PROVE  a = b /\ r = s
BY Trees!SplitUnique

(* Shifting once more halves.                                                *)
LEMMA ShrHalves ==
  ASSUME NEW x \in Nat, NEW n \in Nat
  PROVE  /\ Shr(x, n) \in Nat
         /\ Shr(x, n + 1) = Shr(x, n) \div 2
BY Trees!ShrHalves, SameShr

(* Two shifts are one.                                                       *)
LEMMA ShrSum ==
  ASSUME NEW x \in Nat, NEW m \in Nat
  PROVE  \A n \in Nat : Shr(Shr(x, m), n) = Shr(x, m + n)
BY Trees!ShrSum, SameShr

(* A number shifts to 0 exactly if it is below the power of two.             *)
LEMMA ShrZero ==
  ASSUME NEW x \in Nat, NEW n \in Nat
  PROVE  Shr(x, n) = 0 <=> x < Pow2[n]
BY Trees!ShrZero, SameShr, SamePow2

(* The parent of a node has the node and its sibling for children.           *)
LEMMA ParentOf ==
  ASSUME NEW x \in Nat, NEW h \in Nat \ {0}
  PROVE  LET y == Shr(x, h - 1)
             z == Shr(x, h)
         IN  /\ y \in Nat /\ z \in Nat
             /\ Bit(x, h - 1) = 1 => y = 2 * z + 1 /\ Sibling(y) = 2 * z
             /\ Bit(x, h - 1) # 1 => y = 2 * z /\ Sibling(y) = 2 * z + 1
BY Trees!ParentOf, SameShr

(* The product of two numbers is a number.                                   *)
LEMMA TimesNat ==
  ASSUME NEW m \in Nat, NEW n \in Nat
  PROVE  m * n \in Nat
BY Trees!TimesNat

(* A shift by no place changes nothing.                                      *)
LEMMA ShrNone == ASSUME NEW x \in Nat PROVE Shr(x, 0) = x
BY Trees!ShrNone, SameShr

(* A bit is 0 or 1, and says whether the shift is even.                      *)
LEMMA BitValue ==
  ASSUME NEW x \in Nat, NEW n \in Nat
  PROVE  /\ Bit(x, n) \in {0, 1}
         /\ Shr(x, n) = 2 * Shr(x, n + 1) + Bit(x, n)
BY Trees!BitValue, SameShr

-----------------------------------------------------------------------------
(* What crypto_sign hashes with for a key pair.                              *)
Seeded(k) == [rc |-> <<Standard, PubSeed(k)>>, rcSseed |-> <<Standard, SkSeed(k)>>]

(* The rows of a hash tree of height n, from that of its leaves up.          *)
At(base, h, x) == [base EXCEPT !.height = h, !.index = x]
RowAbove(c, th, off, base, h, lower) ==
  [i \in 0..(Pow2[th - h] - 1) |->
     Thash(c, At(base, h, i + Shr(off, h)), <<lower[2 * i], lower[2 * i + 1]>>)]
Rows(n, g, c, th, off, base, row) ==
  g = [h \in 0..n |-> IF h = 0 THEN row ELSE RowAbove(c, th, off, base, h, g[h - 1])]

(* A tree of every height has its rows.                                      *)
LEMMA RowsExist ==
  ASSUME NEW c, NEW th, NEW off, NEW base, NEW row
  PROVE  \A n \in Nat : \E g : Rows(n, g, c, th, off, base, row)
<1> DEFINE R(n, g) == Rows(n, g, c, th, off, base, row)
           S == {n \in Nat : \E g : R(n, g)}
<1>1. 0 \in S
  <2>1. R(0, [h \in 0..0 |-> row]) BY DEF Rows
  <2> QED BY <2>1
<1>2. ASSUME NEW n \in Nat, n \in S PROVE n + 1 \in S
  <2>1. PICK g : R(n, g) BY <1>2
  <2> DEFINE f == [h \in 0..(n + 1) |->
                     IF h = n + 1 THEN RowAbove(c, th, off, base, n + 1, g[n]) ELSE g[h]]
  <2>2. ASSUME NEW h \in 0..(n + 1)
        PROVE  f[h] = IF h = 0 THEN row ELSE RowAbove(c, th, off, base, h, f[h - 1])
    <3>1. CASE h = n + 1
      <4>1. h # 0 /\ h - 1 = n /\ n \in 0..(n + 1) /\ n # n + 1 BY <3>1
      <4>2. f[h] = RowAbove(c, th, off, base, n + 1, g[n]) BY <3>1
      <4>3. f[n] = g[n] BY <4>1
      <4> QED BY <4>1, <4>2, <4>3, <3>1
    <3>2. CASE h # n + 1
      <4>1. h \in 0..n BY <3>2
      <4>2. f[h] = g[h] BY <3>2
      <4>3. g[h] = IF h = 0 THEN row ELSE RowAbove(c, th, off, base, h, g[h - 1])
        BY <2>1, <4>1 DEF Rows
      <4>4. h # 0 => f[h - 1] = g[h - 1] BY <4>1
      <4> QED BY <4>2, <4>3, <4>4
    <3> QED BY <3>1, <3>2
  <2>3. f = [h \in 0..(n + 1) |-> f[h]] OBVIOUS
  <2>4. R(n + 1, f)
    <3> HIDE DEF f
    <3> QED BY <2>2, <2>3 DEF Rows
  <2> QED BY <2>4
<1>3. Nat \subseteq S
  <2> HIDE DEF S
  <2> QED BY <1>1, <1>2, SetInduction
<1> QED BY <1>3

(* The tree over a row of leaves.                                            *)
Tree(c, th, off, base, row) == CHOOSE g : Rows(th, g, c, th, off, base, row)

(* The rows of Tree: the leaves, and above them each node from its two       *)
(* children.                                                                 *)
LEMMA TreeRows ==
  ASSUME NEW c, NEW th \in Nat, NEW off, NEW base, NEW row
  PROVE  LET t == Tree(c, th, off, base, row)
         IN  /\ DOMAIN t = 0..th
             /\ t[0] = row
             /\ \A h \in 1..th : t[h] = RowAbove(c, th, off, base, h, t[h - 1])
<1> DEFINE t == Tree(c, th, off, base, row)
<1>1. Rows(th, t, c, th, off, base, row) BY RowsExist DEF Tree
<1> HIDE DEF t
<1>2. DOMAIN t = 0..th BY <1>1, Zenon DEF Rows
<1>3. t[0] = row BY <1>1 DEF Rows
<1>4. ASSUME NEW h \in 1..th PROVE t[h] = RowAbove(c, th, off, base, h, t[h - 1])
  <2>1. h \in 0..th /\ h # 0 OBVIOUS
  <2> QED BY <2>1, <1>1 DEF Rows
<1> QED BY <1>2, <1>3, <1>4 DEF t

(* The addresses that differ from base in their words 6 and 7 only.          *)
Alike(addr, base) ==
  /\ \A h, x : At(addr, h, x) = At(base, h, x)
  /\ CopySubtree(ZeroAddr, addr) = CopySubtree(ZeroAddr, base)
  /\ addr.layer = base.layer /\ addr.tree = base.tree /\ addr.keypair = base.keypair

(* The leaf address fors_gen_leaf makes for index x is that of node x of row *)
(* 0.                                                                        *)
OwnLeaves(addr, base) ==
  \A x : [CopyKeypair(OfType("forstree"), addr) EXCEPT !.index = x] = At(base, 0, x)

(* The leaves of a FORS tree and of a tree of the hypertree.                 *)
ForsLeaf(c, base, x) == Thash(c, At(base, 0, x), PrfAddr(c, At(base, 0, x)))
ForsRow(c, off, base) == [i \in 0..(Pow2[ForsHeight] - 1) |-> ForsLeaf(c, base, off + i)]
WotsRow(c, base) == [i \in 0..(Pow2[TreeHeight] - 1) |-> WotsGenLeaf(c, i, base)]

(* What treehash of fors_sign returns, whatever the address held.            *)
LEMMA ForsNodes ==
  ASSUME NEW c, NEW off \in Nat, NEW addr, NEW base, Alike(addr, base),
         OwnLeaves(addr, base),
         ForsHeight \in Nat
  PROVE  Nodes(c, ForsGenLeaf, ForsHeight, off, addr)
           = Tree(c, ForsHeight, off, base, ForsRow(c, off, base))
<1> DEFINE th == ForsHeight
           row == ForsRow(c, off, base)
           Level(g, h) == [i \in 0..(Pow2[th - h] - 1) |->
                             IF h = 0 THEN ForsGenLeaf(c, off + i, addr)
                             ELSE Thash(c, [addr EXCEPT !.height = h, !.index = i + Shr(off, h)],
                                        <<g[h - 1][2 * i], g[h - 1][2 * i + 1]>>)]
           node == CHOOSE g : g = [h \in 0..th |-> Level(g, h)]
<1>1. Nodes(c, ForsGenLeaf, th, off, addr) = node BY Zenon DEF Nodes
<1>2. \A g : \A h \in 0..th :
        Level(g, h) = IF h = 0 THEN row ELSE RowAbove(c, th, off, base, h, g[h - 1])
  <2> TAKE g
  <2> TAKE h \in 0..th
  <2>1. CASE h = 0
    <3>1. th - 0 = th OBVIOUS
    <3>2. \A x : ForsGenLeaf(c, x, addr) = ForsLeaf(c, base, x)
      BY DEF OwnLeaves, ForsGenLeaf, ForsLeaf
    <3>3. row = [i \in 0..(Pow2[th] - 1) |-> ForsLeaf(c, base, off + i)] BY DEF ForsRow
    <3> HIDE DEF row
    <3> QED BY <2>1, <3>1, <3>2, <3>3
  <2>2. CASE h # 0
    <3>1. \A x : [addr EXCEPT !.height = h, !.index = x] = At(base, h, x)
      BY DEF Alike, At
    <3> QED BY <2>2, <3>1 DEF RowAbove
  <2> QED BY <2>1, <2>2
<1>3. \A g : [h \in 0..th |-> Level(g, h)]
             = [h \in 0..th |-> IF h = 0 THEN row ELSE RowAbove(c, th, off, base, h, g[h - 1])]
  <2> HIDE DEF row, Level, th
  <2> QED BY <1>2
<1>4. node = Tree(c, th, off, base, row)
  <2> HIDE DEF row, Level, th
  <2> QED BY <1>3 DEF Rows, Tree
<1> QED BY <1>1, <1>4

(* The same for the trees of the hypertree.                                  *)
LEMMA WotsNodes ==
  ASSUME NEW c, NEW addr, TreeHeight \in Nat
  PROVE  Nodes(c, WotsGenLeaf, TreeHeight, 0, addr)
           = Tree(c, TreeHeight, 0, addr, WotsRow(c, addr))
<1> DEFINE th == TreeHeight
           row == WotsRow(c, addr)
           Level(g, h) == [i \in 0..(Pow2[th - h] - 1) |->
                             IF h = 0 THEN WotsGenLeaf(c, 0 + i, addr)
                             ELSE Thash(c, [addr EXCEPT !.height = h, !.index = i + Shr(0, h)],
                                        <<g[h - 1][2 * i], g[h - 1][2 * i + 1]>>)]
           node == CHOOSE g : g = [h \in 0..th |-> Level(g, h)]
<1>1. Nodes(c, WotsGenLeaf, th, 0, addr) = node BY Zenon DEF Nodes
<1>2. \A g : \A h \in 0..th :
        Level(g, h) = IF h = 0 THEN row ELSE RowAbove(c, th, 0, addr, h, g[h - 1])
  <2> TAKE g
  <2> TAKE h \in 0..th
  <2>1. CASE h = 0
    <3>1. th - 0 = th /\ Pow2[th] \in Nat BY Pow2Recursion
    <3>2. \A i \in 0..(Pow2[th] - 1) : 0 + i = i BY <3>1
    <3>3. row = [i \in 0..(Pow2[th] - 1) |-> WotsGenLeaf(c, i, addr)] BY DEF WotsRow
    <3> HIDE DEF row
    <3> QED BY <2>1, <3>1, <3>2, <3>3
  <2>2. CASE h # 0
    <3>1. \A x : [addr EXCEPT !.height = h, !.index = x] = At(addr, h, x) BY DEF At
    <3> QED BY <2>2, <3>1 DEF RowAbove
  <2> QED BY <2>1, <2>2
<1>3. \A g : [h \in 0..th |-> Level(g, h)]
             = [h \in 0..th |-> IF h = 0 THEN row ELSE RowAbove(c, th, 0, addr, h, g[h - 1])]
  <2> HIDE DEF row, Level, th
  <2> QED BY <1>2
<1>4. node = Tree(c, th, 0, addr, row)
  <2> HIDE DEF row, Level, th
  <2> QED BY <1>3 DEF Rows, Tree
<1> QED BY <1>1, <1>4

-----------------------------------------------------------------------------
(* The steps of the loops, and of the climb of compute_root.                 *)
ClimbTurn(c, leafIdx, off, auth, base, h, x) ==
  Thash(c, At(base, h, Shr(leafIdx, h) + Shr(off, h)),
        IF Bit(leafIdx, h - 1) = 1 THEN <<auth[h - 1], x>> ELSE <<x, auth[h - 1]>>)

(* A bit more of an index of message_to_indices.                             *)
IndexTurn(md, i, j, x) == 2 * x + MdBit(md, i, j)

(* A turn of fors_sign, of fors_pk_from_sig, of crypto_sign over the layers  *)
(* and of crypto_sign_open over them.                                        *)
ForsSignTurn(c, idx, i, st) ==
  LET addr  == ForsTreeAddr(st.addr, i, idx[i])
      nodes == Nodes(c, ForsGenLeaf, ForsHeight, IdxOffset(i), addr)
  IN  [addr |-> LeftIn(addr, i),
       sig |-> Append(st.sig, [sk |-> PrfAddr(c, addr),
                               auth |-> AuthPath(nodes, ForsHeight, idx[i])]),
       roots |-> Append(st.roots, nodes[ForsHeight][0]),
       hashes |-> st.hashes \cup NodeSet(nodes)]

ForsOpenTurn(c, sig, idx, i, st) ==
  LET addr == ForsTreeAddr(st.addr, i, idx[i])
  IN  [addr |-> LeftIn(addr, i),
       roots |-> Append(st.roots,
                   ComputeRoot(c, Thash(c, addr, sig[i + 1].sk), idx[i],
                               IdxOffset(i), sig[i + 1].auth, ForsHeight, addr))]

HyperSignTurn(c, l, st) ==
  LET nodes == Nodes(c, WotsGenLeaf, TreeHeight, 0, TreeAddr(l, st.tree))
      sig   == WotsSign(c, WotsAddr(l, st.tree, st.leaf), st.root)
  IN  [root |-> nodes[TreeHeight][0],
       leaf |-> NextLeaf(st.tree), tree |-> NextTree(st.tree),
       sig |-> Append(st.sig, [wots |-> sig,
                               auth |-> AuthPath(nodes, TreeHeight, st.leaf)]),
       hashes |-> st.hashes \cup NodeSet(nodes)]

HyperOpenTurn(c, sig, l, st) ==
  LET addr == WotsAddr(l, st.tree, st.leaf)
      pk   == WotsPkFromSig(c, addr, sig[l + 1].wots, st.root)
  IN  [root |-> ComputeRoot(c, Thash(c, CopyKeypair(OfType("wotspk"), addr), pk),
                            st.leaf, 0, sig[l + 1].auth, TreeHeight,
                            TreeAddr(l, st.tree)),
       leaf |-> NextLeaf(st.tree), tree |-> NextTree(st.tree)]

(* Step k of the loop that q names.                                          *)
Turn(q, k, x) ==
  CASE q.loop = "climb" -> ClimbTurn(q.c, q.leaf, q.off, q.auth, q.base, k, x)
    [] q.loop = "index" -> IndexTurn(q.md, q.i, k - 1, x)
    [] q.loop = "forsSign" -> ForsSignTurn(q.c, q.idx, k - 1, x)
    [] q.loop = "forsOpen" -> ForsOpenTurn(q.c, q.sig, q.idx, k - 1, x)
    [] q.loop = "hyperSign" -> HyperSignTurn(q.c, k - 1, x)
    [] q.loop = "hyperOpen" -> HyperOpenTurn(q.c, q.sig, k - 1, x)

(* g is what the n turns of loop q make of x.                                *)
Running(n, g, q, x) == g = [k \in 0..n |-> IF k = 0 THEN x ELSE Turn(q, k, g[k - 1])]
Run(n, q, x) == CHOOSE g : Running(n, g, q, x)

(* A loop of any number of turns can be run.                                 *)
LEMMA RunningExists ==
  ASSUME NEW q, NEW x
  PROVE  \A n \in Nat : \E g : Running(n, g, q, x)
<1> DEFINE R(n, g) == Running(n, g, q, x)
           S == {n \in Nat : \E g : R(n, g)}
<1>1. 0 \in S
  <2>1. R(0, [h \in 0..0 |-> x]) BY DEF Running
  <2> QED BY <2>1
<1>2. ASSUME NEW n \in Nat, n \in S PROVE n + 1 \in S
  <2>1. PICK g : R(n, g) BY <1>2
  <2> DEFINE f == [k \in 0..(n + 1) |-> IF k = n + 1 THEN Turn(q, n + 1, g[n]) ELSE g[k]]
  <2>2. ASSUME NEW k \in 0..(n + 1)
        PROVE  f[k] = IF k = 0 THEN x ELSE Turn(q, k, f[k - 1])
    <3>1. CASE k = n + 1
      <4>1. k # 0 /\ k - 1 = n /\ n \in 0..(n + 1) /\ n # n + 1 BY <3>1
      <4>2. f[k] = Turn(q, n + 1, g[n]) BY <3>1
      <4>3. f[n] = g[n] BY <4>1
      <4> QED BY <4>1, <4>2, <4>3, <3>1
    <3>2. CASE k # n + 1
      <4>1. k \in 0..n BY <3>2
      <4>2. f[k] = g[k] BY <3>2
      <4>3. g[k] = IF k = 0 THEN x ELSE Turn(q, k, g[k - 1]) BY <2>1, <4>1 DEF Running
      <4>4. k # 0 => f[k - 1] = g[k - 1] BY <4>1
      <4> QED BY <4>2, <4>3, <4>4
    <3> QED BY <3>1, <3>2
  <2>3. f = [k \in 0..(n + 1) |-> f[k]] OBVIOUS
  <2>4. R(n + 1, f)
    <3> HIDE DEF f
    <3> QED BY <2>2, <2>3 DEF Running
  <2> QED BY <2>4
<1>3. Nat \subseteq S
  <2> HIDE DEF S
  <2> QED BY <1>1, <1>2, SetInduction
<1> QED BY <1>3

(* What a run has after no turn, and after each turn from the turn before.   *)
LEMMA RunTurns ==
  ASSUME NEW n \in Nat, NEW q, NEW x
  PROVE  /\ Run(n, q, x)[0] = x
         /\ \A k \in 1..n : Run(n, q, x)[k] = Turn(q, k, Run(n, q, x)[k - 1])
<1> DEFINE g == Run(n, q, x)
<1>1. Running(n, g, q, x) BY RunningExists DEF Run
<1> HIDE DEF g
<1>2. g[0] = x BY <1>1 DEF Running
<1>3. ASSUME NEW k \in 1..n PROVE g[k] = Turn(q, k, g[k - 1])
  <2>1. k \in 0..n /\ k # 0 OBVIOUS
  <2> QED BY <2>1, <1>1 DEF Running
<1> QED BY <1>2, <1>3 DEF g

(* Loop over such steps.                                                     *)
LoopOver(n, q, x) ==
  CHOOSE f : f = [k \in 0..n |->
                    IF k = 0 THEN x
                    ELSE CHOOSE y \in {Turn(q, k, z) : z \in {f[k - 1]}} : TRUE]

(* The loop operator of the model, which chooses its function turn by turn,  *)
(* is the run.                                                               *)
LEMMA LoopRuns == ASSUME NEW n, NEW q, NEW x PROVE LoopOver(n, q, x) = Run(n, q, x)
<1>1. \A k, z : (CHOOSE y \in {Turn(q, k, v) : v \in {z}} : TRUE) = Turn(q, k, z)
  <2> TAKE k, z
  <2>1. {Turn(q, k, v) : v \in {z}} = {Turn(q, k, z)} OBVIOUS
  <2> QED BY <2>1
<1> QED BY <1>1 DEF LoopOver, Run, Running

(* message_to_indices, bit by bit.                                           *)
LEMMA IndexLoop ==
  ASSUME NEW md, NEW i \in 0..(ForsTrees - 1), ForsHeight \in Nat
  PROVE  \E g : /\ g[0] = 0
                /\ \A j \in 1..ForsHeight : g[j] = IndexTurn(md, i, j - 1, g[j - 1])
                /\ Indices(md)[i] = g[ForsHeight]
<1> DEFINE n == ForsHeight
           w == CHOOSE f : f = [k \in 0..n |->
                    IF k = 0 THEN 0
                    ELSE CHOOSE y \in {2 * z + MdBit(md, i, k - 1) : z \in {f[k - 1]}} : TRUE]
           q == [loop |-> "index", md |-> md, i |-> i]
<1>1. Indices(md)[i] = w[n] BY Zenon DEF Indices, Loop
<1>2. \A k, z : Turn(q, k, z) = 2 * z + MdBit(md, i, k - 1) BY DEF Turn, IndexTurn
<1>3. w = LoopOver(n, q, 0)
  <2> HIDE DEF q
  <2> QED BY <1>2 DEF LoopOver
<1>4. PICK g : g = Run(n, q, 0) OBVIOUS
<1>5. g[0] = 0 /\ \A k \in 1..n : g[k] = Turn(q, k, g[k - 1])
  <2> HIDE DEF q
  <2> QED BY <1>4, RunTurns
<1>6. Indices(md)[i] = g[n]
  <2> HIDE DEF q
  <2> QED BY <1>1, <1>3, <1>4, LoopRuns
<1> HIDE DEF q, w
<1> QED BY <1>2, <1>5, <1>6 DEF IndexTurn

-----------------------------------------------------------------------------
(* compute_root, whatever the address it is given holds in words 6 and 7.    *)
LEMMA ClimbRun ==
  ASSUME NEW c, NEW leaf, NEW leafIdx, NEW off, NEW auth, NEW th \in Nat,
         NEW addr, NEW base, Alike(addr, base)
  PROVE  \E g : /\ g[0] = leaf
                /\ \A h \in 1..th : g[h] = ClimbTurn(c, leafIdx, off, auth, base, h, g[h - 1])
                /\ ComputeRoot(c, leaf, leafIdx, off, auth, th, addr) = g[th]
<1> DEFINE Step(g, h) ==
             Thash(c, [addr EXCEPT !.height = h, !.index = Shr(leafIdx, h) + Shr(off, h)],
                   IF Bit(leafIdx, h - 1) = 1 THEN <<auth[h - 1], g[h - 1]>>
                                              ELSE <<g[h - 1], auth[h - 1]>>)
           w == CHOOSE g : g = [h \in 0..th |-> IF h = 0 THEN leaf ELSE Step(g, h)]
           q == [loop |-> "climb", c |-> c, leaf |-> leafIdx, off |-> off, auth |-> auth,
                 base |-> base]
<1>1. ComputeRoot(c, leaf, leafIdx, off, auth, th, addr) = w[th] BY Zenon DEF ComputeRoot
<1>2. \A k, x : Turn(q, k, x) = ClimbTurn(c, leafIdx, off, auth, base, k, x) BY DEF Turn
<1>3. \A g, h : Step(g, h) = Turn(q, h, g[h - 1])
  <2> TAKE g, h
  <2>1. [addr EXCEPT !.height = h, !.index = Shr(leafIdx, h) + Shr(off, h)]
          = At(base, h, Shr(leafIdx, h) + Shr(off, h))
    BY DEF Alike, At
  <2> HIDE DEF q
  <2> QED BY <1>2, <2>1 DEF ClimbTurn
<1>4. w = Run(th, q, leaf)
  <2> HIDE DEF q, Step
  <2> QED BY <1>3 DEF Run, Running
<1>5. PICK g : g = Run(th, q, leaf) OBVIOUS
<1>6. g[0] = leaf /\ \A k \in 1..th : g[k] = Turn(q, k, g[k - 1])
  <2> HIDE DEF q
  <2> QED BY <1>5, RunTurns
<1> HIDE DEF q, w
<1> QED BY <1>1, <1>2, <1>4, <1>5, <1>6

(* The loop of fors_sign.                                                    *)
ForsSignStart(forsAddr) ==
  [addr |-> CopyKeypair(OfType("forstree"), forsAddr), sig |-> <<>>, roots |-> <<>>,
   hashes |-> {}]

(* What fors_sign returns after its last turn.                               *)
ForsSigned(c, forsAddr, st) ==
  [sig |-> st.sig, pk |-> Thash(c, ForsPkAddr(forsAddr), st.roots),
   hashes |-> st.hashes \cup {Thash(c, ForsPkAddr(forsAddr), st.roots)}]

(* fors_sign is a run of its turns.                                          *)
LEMMA ForsSignLoop ==
  ASSUME NEW c, NEW md, NEW forsAddr, ForsTrees \in Nat
  PROVE  \E g : /\ g[0] = ForsSignStart(forsAddr)
                /\ \A k \in 1..ForsTrees : g[k] = ForsSignTurn(c, Indices(md), k - 1, g[k - 1])
                /\ ForsSign(c, md, forsAddr) = ForsSigned(c, forsAddr, g[ForsTrees])
<1> DEFINE n == ForsTrees
           x == ForsSignStart(forsAddr)
           Step(k, z) ==
             [addr |-> LeftIn(ForsTreeAddr(z.addr, k, Indices(md)[k]), k),
              sig |-> Append(z.sig,
                        [sk |-> PrfAddr(c, ForsTreeAddr(z.addr, k, Indices(md)[k])),
                         auth |-> AuthPath(Nodes(c, ForsGenLeaf, ForsHeight, IdxOffset(k),
                                                 ForsTreeAddr(z.addr, k, Indices(md)[k])),
                                           ForsHeight, Indices(md)[k])]),
              roots |-> Append(z.roots,
                          Nodes(c, ForsGenLeaf, ForsHeight, IdxOffset(k),
                                ForsTreeAddr(z.addr, k, Indices(md)[k]))[ForsHeight][0]),
              hashes |-> z.hashes \cup
                          NodeSet(Nodes(c, ForsGenLeaf, ForsHeight, IdxOffset(k),
                                        ForsTreeAddr(z.addr, k, Indices(md)[k])))]
           w == CHOOSE f : f = [k \in 0..n |->
                    IF k = 0 THEN x
                    ELSE CHOOSE y \in {Step(k - 1, z) : z \in {f[k - 1]}} : TRUE]
           q == [loop |-> "forsSign", c |-> c, idx |-> Indices(md)]
<1>1. ForsSign(c, md, forsAddr) = ForsSigned(c, forsAddr, w[n])
  BY Zenon DEF ForsSign, Loop, ForsSignStart, ForsSigned
<1>2. \A k, z : Turn(q, k, z) = ForsSignTurn(c, Indices(md), k - 1, z) BY DEF Turn
<1>3. \A k, z : Turn(q, k, z) = Step(k - 1, z)
  <2> HIDE DEF q
  <2> QED BY <1>2, Zenon DEF ForsSignTurn
<1>4. w = LoopOver(n, q, x)
  <2> HIDE DEF q, x, Step
  <2> QED BY <1>3 DEF LoopOver
<1>5. PICK g : g = Run(n, q, x) OBVIOUS
<1>6. g[0] = x /\ \A k \in 1..n : g[k] = Turn(q, k, g[k - 1])
  <2> HIDE DEF q, x
  <2> QED BY <1>5, RunTurns
<1>7. w = g
  <2> HIDE DEF q, x, w
  <2> QED BY <1>4, <1>5, LoopRuns
<1> HIDE DEF q, w
<1> QED BY <1>1, <1>2, <1>6, <1>7

(* The loop of fors_pk_from_sig.                                             *)
ForsOpenStart(forsAddr) ==
  [addr |-> CopyKeypair(OfType("forstree"), forsAddr), roots |-> <<>>]

(* fors_pk_from_sig is a run of its turns.                                   *)
LEMMA ForsOpenLoop ==
  ASSUME NEW c, NEW sig, NEW md, NEW forsAddr, ForsTrees \in Nat
  PROVE  \E g : /\ g[0] = ForsOpenStart(forsAddr)
                /\ \A k \in 1..ForsTrees :
                     g[k] = ForsOpenTurn(c, sig, Indices(md), k - 1, g[k - 1])
                /\ ForsPkFromSig(c, sig, md, forsAddr)
                     = Thash(c, ForsPkAddr(forsAddr), g[ForsTrees].roots)
<1> DEFINE n == ForsTrees
           x == ForsOpenStart(forsAddr)
           Step(k, z) ==
             [addr |-> LeftIn(ForsTreeAddr(z.addr, k, Indices(md)[k]), k),
              roots |-> Append(z.roots,
                          ComputeRoot(c, Thash(c, ForsTreeAddr(z.addr, k, Indices(md)[k]),
                                               sig[k + 1].sk),
                                      Indices(md)[k], IdxOffset(k), sig[k + 1].auth,
                                      ForsHeight, ForsTreeAddr(z.addr, k, Indices(md)[k])))]
           w == CHOOSE f : f = [k \in 0..n |->
                    IF k = 0 THEN x
                    ELSE CHOOSE y \in {Step(k - 1, z) : z \in {f[k - 1]}} : TRUE]
           q == [loop |-> "forsOpen", c |-> c, sig |-> sig, idx |-> Indices(md)]
<1>1. ForsPkFromSig(c, sig, md, forsAddr) = Thash(c, ForsPkAddr(forsAddr), w[n].roots)
  BY Zenon DEF ForsPkFromSig, Loop, ForsOpenStart
<1>2. \A k, z : Turn(q, k, z) = ForsOpenTurn(c, sig, Indices(md), k - 1, z) BY DEF Turn
<1>3. \A k, z : Turn(q, k, z) = Step(k - 1, z)
  <2> HIDE DEF q
  <2> QED BY <1>2, Zenon DEF ForsOpenTurn
<1>4. w = LoopOver(n, q, x)
  <2> HIDE DEF q, x, Step
  <2> QED BY <1>3 DEF LoopOver
<1>5. PICK g : g = Run(n, q, x) OBVIOUS
<1>6. g[0] = x /\ \A k \in 1..n : g[k] = Turn(q, k, g[k - 1])
  <2> HIDE DEF q, x
  <2> QED BY <1>5, RunTurns
<1>7. w = g
  <2> HIDE DEF q, x, w
  <2> QED BY <1>4, <1>5, LoopRuns
<1> HIDE DEF q, w
<1> QED BY <1>1, <1>2, <1>6, <1>7

(* The loop of crypto_sign over the layers.                                  *)
HyperSignStart(root, tree, leaf) ==
  [root |-> root, leaf |-> leaf, tree |-> tree, sig |-> <<>>, hashes |-> {}]

(* The loop of crypto_sign over the layers is a run of its turns.            *)
LEMMA HyperSignLoop ==
  ASSUME NEW c, NEW root, NEW tree, NEW leaf, D \in Nat
  PROVE  \E g : /\ g[0] = HyperSignStart(root, tree, leaf)
                /\ \A k \in 1..D : g[k] = HyperSignTurn(c, k - 1, g[k - 1])
                /\ HypertreeSign(c, root, tree, leaf) = g[D]
<1> DEFINE n == D
           x == HyperSignStart(root, tree, leaf)
           Step(l, z) ==
             [root |-> Nodes(c, WotsGenLeaf, TreeHeight, 0, TreeAddr(l, z.tree))[TreeHeight][0],
              leaf |-> NextLeaf(z.tree), tree |-> NextTree(z.tree),
              sig |-> Append(z.sig,
                        [wots |-> WotsSign(c, WotsAddr(l, z.tree, z.leaf), z.root),
                         auth |-> AuthPath(Nodes(c, WotsGenLeaf, TreeHeight, 0,
                                                 TreeAddr(l, z.tree)),
                                           TreeHeight, z.leaf)]),
              hashes |-> z.hashes \cup
                          NodeSet(Nodes(c, WotsGenLeaf, TreeHeight, 0, TreeAddr(l, z.tree)))]
           w == CHOOSE f : f = [k \in 0..n |->
                    IF k = 0 THEN x
                    ELSE CHOOSE y \in {Step(k - 1, z) : z \in {f[k - 1]}} : TRUE]
           q == [loop |-> "hyperSign", c |-> c]
<1>1. HypertreeSign(c, root, tree, leaf) = w[n]
  BY Zenon DEF HypertreeSign, Loop, HyperSignStart
<1>2. \A k, z : Turn(q, k, z) = HyperSignTurn(c, k - 1, z) BY DEF Turn
<1>3. \A k, z : Turn(q, k, z) = Step(k - 1, z)
  <2> HIDE DEF q
  <2> QED BY <1>2, Zenon DEF HyperSignTurn
<1>4. w = LoopOver(n, q, x)
  <2> HIDE DEF q, x, Step
  <2> QED BY <1>3 DEF LoopOver
<1>5. PICK g : g = Run(n, q, x) OBVIOUS
<1>6. g[0] = x /\ \A k \in 1..n : g[k] = Turn(q, k, g[k - 1])
  <2> HIDE DEF q, x
  <2> QED BY <1>5, RunTurns
<1>7. w = g
  <2> HIDE DEF q, x, w
  <2> QED BY <1>4, <1>5, LoopRuns
<1> HIDE DEF q, w
<1> QED BY <1>1, <1>2, <1>6, <1>7

(* The loop of crypto_sign_open over the layers.                             *)
HyperOpenStart(root, tree, leaf) == [root |-> root, leaf |-> leaf, tree |-> tree]

(* The loop of crypto_sign_open over the layers is a run of its turns.       *)
LEMMA HyperOpenLoop ==
  ASSUME NEW c, NEW sig, NEW root, NEW tree, NEW leaf, D \in Nat
  PROVE  \E g : /\ g[0] = HyperOpenStart(root, tree, leaf)
                /\ \A k \in 1..D : g[k] = HyperOpenTurn(c, sig, k - 1, g[k - 1])
                /\ HypertreeRoot(c, sig, root, tree, leaf) = g[D].root
<1> DEFINE n == D
           x == HyperOpenStart(root, tree, leaf)
           Step(l, z) ==
             [root |-> ComputeRoot(c, Thash(c, CopyKeypair(OfType("wotspk"),
                                                           WotsAddr(l, z.tree, z.leaf)),
                                            WotsPkFromSig(c, WotsAddr(l, z.tree, z.leaf),
                                                          sig[l + 1].wots, z.root)),
                                   z.leaf, 0, sig[l + 1].auth, TreeHeight,
                                   TreeAddr(l, z.tree)),
              leaf |-> NextLeaf(z.tree), tree |-> NextTree(z.tree)]
           w == CHOOSE f : f = [k \in 0..n |->
                    IF k = 0 THEN x
                    ELSE CHOOSE y \in {Step(k - 1, z) : z \in {f[k - 1]}} : TRUE]
           q == [loop |-> "hyperOpen", c |-> c, sig |-> sig]
<1>1. HypertreeRoot(c, sig, root, tree, leaf) = w[n].root
  BY Zenon DEF HypertreeRoot, Loop, HyperOpenStart
<1>2. \A k, z : Turn(q, k, z) = HyperOpenTurn(c, sig, k - 1, z) BY DEF Turn
<1>3. \A k, z : Turn(q, k, z) = Step(k - 1, z)
  <2> HIDE DEF q
  <2> QED BY <1>2, Zenon DEF HyperOpenTurn
<1>4. w = LoopOver(n, q, x)
  <2> HIDE DEF q, x, Step
  <2> QED BY <1>3 DEF LoopOver
<1>5. PICK g : g = Run(n, q, x) OBVIOUS
<1>6. g[0] = x /\ \A k \in 1..n : g[k] = Turn(q, k, g[k - 1])
  <2> HIDE DEF q, x
  <2> QED BY <1>5, RunTurns
<1>7. w = g
  <2> HIDE DEF q, x, w
  <2> QED BY <1>4, <1>5, LoopRuns
<1> HIDE DEF q, w
<1> QED BY <1>1, <1>2, <1>6, <1>7

-----------------------------------------------------------------------------
(* A number of m bits shifted by n places is a number of m - n bits.         *)
LEMMA ShrBound ==
  ASSUME NEW m \in Nat, NEW n \in Nat, n <= m, NEW x \in 0..(Pow2[m] - 1)
  PROVE  Shr(x, n) \in 0..(Pow2[m - n] - 1)
<1>1. x \in Nat /\ x < Pow2[m] /\ m - n \in Nat /\ n + (m - n) = m BY Pow2Recursion
<1>2. Shr(x, n) \in Nat BY <1>1, ShrHalves
<1>3. Shr(Shr(x, n), m - n) = Shr(x, m) BY <1>1, ShrSum
<1>4. Shr(x, m) = 0 BY <1>1, ShrZero
<1>5. Shr(x, n) < Pow2[m - n] BY <1>1, <1>2, <1>3, <1>4, ShrZero
<1> QED BY <1>1, <1>2, <1>5, Pow2Recursion

(* Under one pair of constants and one address thash tells its inputs apart. *)
LEMMA ThashInjective ==
  ASSUME NEW c, NEW c2, c.rc = c2.rc, NEW a, NEW x, NEW y
  PROVE  Thash(c, a, x) = Thash(c2, a, y) <=> x = y
<1>1. /\ Thash(c, a, x).in = x /\ Thash(c2, a, y).in = y BY DEF Thash
<1>2. x = y => Thash(c, a, x) = Thash(c2, a, y) BY DEF Thash
<1> QED BY <1>1, <1>2

(* A climb comes to the root of a tree exactly from one of its leaves and    *)
(* the path of that leaf, also if the secret seed is not the one the tree's  *)
(* leaves were made from.                                                    *)
LEMMA ClimbIff ==
  ASSUME NEW c, NEW c2, c.rc = c2.rc, NEW th \in Nat, NEW off \in Nat, NEW row,
         NEW addr, NEW base, Alike(addr, base), NEW x \in 0..(Pow2[th] - 1),
         NEW leaf, NEW auth
  PROVE  LET t == Tree(c2, th, off, base, row)
         IN  ComputeRoot(c, leaf, x, off, auth, th, addr) = t[th][0]
               <=> /\ leaf = row[x]
                   /\ \A h \in 0..(th - 1) : auth[h] = t[h][Sibling(Shr(x, h))]
<1> DEFINE t == Tree(c2, th, off, base, row)
           Same(h) == auth[h] = t[h][Sibling(Shr(x, h))]
<1>1. PICK g : /\ g[0] = leaf
               /\ \A h \in 1..th : g[h] = ClimbTurn(c, x, off, auth, base, h, g[h - 1])
               /\ ComputeRoot(c, leaf, x, off, auth, th, addr) = g[th]
  BY ClimbRun
<1>2. t[0] = row /\ \A h \in 1..th : t[h] = RowAbove(c2, th, off, base, h, t[h - 1])
  BY TreeRows
<1> HIDE DEF t
<1>3. x \in Nat /\ x < Pow2[th] BY Pow2Recursion
<1> DEFINE S == {n \in Nat : n <= th =>
                   (g[n] = t[n][Shr(x, n)] <=> leaf = row[x] /\ \A h \in 0..(n - 1) : Same(h))}
<1>4. 0 \in S
  <2>1. Shr(x, 0) = x BY <1>3, ShrNone
  <2>2. 0..(0 - 1) = {} OBVIOUS
  <2> HIDE DEF Same
  <2> QED BY <2>1, <2>2, <1>1, <1>2
<1>5. ASSUME NEW n \in Nat, n \in S PROVE n + 1 \in S
  <2> SUFFICES ASSUME n + 1 <= th
               PROVE  g[n + 1] = t[n + 1][Shr(x, n + 1)]
                        <=> leaf = row[x] /\ \A h \in 0..n : Same(h)
    OBVIOUS
  <2> DEFINE y == Shr(x, n)
             z == Shr(x, n + 1)
  <2>1. n + 1 \in 1..th /\ (n + 1) - 1 = n /\ n + 1 \in Nat \ {0} OBVIOUS
  <2>2. z \in 0..(Pow2[th - (n + 1)] - 1) BY ShrBound
  <2>3. LET yy == Shr(x, (n + 1) - 1)
            zz == Shr(x, n + 1)
        IN  /\ Bit(x, (n + 1) - 1) = 1 => yy = 2 * zz + 1 /\ Sibling(yy) = 2 * zz
            /\ Bit(x, (n + 1) - 1) # 1 => yy = 2 * zz /\ Sibling(yy) = 2 * zz + 1
    BY <1>3, <2>1, ParentOf
  <2>4. /\ Bit(x, n) = 1 => y = 2 * z + 1 /\ Sibling(y) = 2 * z
        /\ Bit(x, n) # 1 => y = 2 * z /\ Sibling(y) = 2 * z + 1
    BY <2>1, <2>3
  <2> DEFINE a == At(base, n + 1, z + Shr(off, n + 1))
             pair == IF Bit(x, n) = 1 THEN <<auth[n], g[n]>> ELSE <<g[n], auth[n]>>
             nodes == <<t[n][2 * z], t[n][2 * z + 1]>>
  <2>5. g[n + 1] = Thash(c, a, pair) BY <1>1, <2>1 DEF ClimbTurn
  <2>6. t[n + 1][z] = Thash(c2, a, nodes)
    <3>1. t[n + 1] = RowAbove(c2, th, off, base, n + 1, t[n]) BY <1>2, <2>1
    <3> HIDE DEF z
    <3> QED BY <3>1, <2>2 DEF RowAbove
  <2>7. g[n + 1] = t[n + 1][z] <=> pair = nodes
    <3> HIDE DEF a, pair, nodes, z
    <3> QED BY <2>5, <2>6, ThashInjective
  <2>8. pair = nodes <=> g[n] = t[n][y] /\ Same(n)
    <3> HIDE DEF y, z
    <3>1. CASE Bit(x, n) = 1
      <4>1. pair = <<auth[n], g[n]>> BY <3>1
      <4>2. nodes = <<t[n][Sibling(y)], t[n][y]>> BY <3>1, <2>4
      <4> HIDE DEF pair, nodes
      <4> QED BY <4>1, <4>2 DEF y
    <3>2. CASE Bit(x, n) # 1
      <4>1. pair = <<g[n], auth[n]>> BY <3>2
      <4>2. nodes = <<t[n][y], t[n][Sibling(y)]>> BY <3>2, <2>4
      <4> HIDE DEF pair, nodes
      <4> QED BY <4>1, <4>2 DEF y
    <3> QED BY <3>1, <3>2
  <2>9. (\A h \in 0..n : Same(h)) <=> (\A h \in 0..(n - 1) : Same(h)) /\ Same(n)
    <3> HIDE DEF Same
    <3>1. \A h : h \in 0..n <=> h \in 0..(n - 1) \/ h = n OBVIOUS
    <3> QED BY <3>1
  <2>10. g[n] = t[n][y] <=> leaf = row[x] /\ \A h \in 0..(n - 1) : Same(h)
    BY <1>5
  <2> HIDE DEF Same, pair, nodes
  <2> QED BY <2>7, <2>8, <2>9, <2>10
<1>6. th \in S
  <2>1. Nat \subseteq S
    <3> HIDE DEF S
    <3> QED BY <1>4, <1>5, SetInduction
  <2> QED BY <2>1
<1>7. Shr(x, th) = 0 BY <1>3, ShrZero
<1> HIDE DEF Same
<1>8. g[th] = t[th][0] <=> leaf = row[x] /\ \A h \in 0..(th - 1) : Same(h)
  BY <1>6, <1>7
<1> QED BY <1>1, <1>8 DEF t, Same

-----------------------------------------------------------------------------
(* The trees of a key pair, whatever is signed with it.                      *)
ForsAddrOf(t, l) == [OfType("wots") EXCEPT !.tree = t, !.keypair = l]
ForsBase(t, l) == CopyKeypair(OfType("forstree"), ForsAddrOf(t, l))
ForsTreeOf(c, t, l, i) ==
  Tree(c, ForsHeight, IdxOffset(i), ForsBase(t, l), ForsRow(c, IdxOffset(i), ForsBase(t, l)))
TreeOf(c, l, t) ==
  Tree(c, TreeHeight, 0, TreeAddr(l, t), WotsRow(c, TreeAddr(l, t)))
TopOf(c, l, t) == TreeOf(c, l, t)[TreeHeight][0]

(* An address word by word. *)
Addr(layer, tree, type, keypair, height, index) ==
  [layer |-> layer, tree |-> tree, type |-> type, keypair |-> keypair,
   height |-> height, index |-> index]

(* The words of an address.                                                  *)
LEMMA AddrFields ==
  ASSUME NEW l, NEW t, NEW y, NEW k, NEW h, NEW x
  PROVE  /\ Addr(l, t, y, k, h, x).layer = l /\ Addr(l, t, y, k, h, x).tree = t
         /\ Addr(l, t, y, k, h, x).type = y /\ Addr(l, t, y, k, h, x).keypair = k
         /\ Addr(l, t, y, k, h, x).height = h /\ Addr(l, t, y, k, h, x).index = x
BY DEF Addr

(* Two words are set as if one after the other. *)
LEMMA SetSubtree ==
  ASSUME NEW l, NEW t, NEW y, NEW k, NEW h, NEW x, NEW from
  PROVE  CopySubtree(Addr(l, t, y, k, h, x), from) = Addr(from.layer, from.tree, y, k, h, x)
<1> DEFINE v == from.layer
           w == from.tree
<1>1. CopySubtree(Addr(l, t, y, k, h, x), from)
        = [[Addr(l, t, y, k, h, x) EXCEPT !.layer = v] EXCEPT !.tree = w]
  BY DEF CopySubtree
<1> HIDE DEF v, w
<1>2. [Addr(l, t, y, k, h, x) EXCEPT !.layer = v] = Addr(v, t, y, k, h, x) BY DEF Addr
<1>3. [Addr(v, t, y, k, h, x) EXCEPT !.tree = w] = Addr(v, w, y, k, h, x) BY DEF Addr
<1> QED BY <1>1, <1>2, <1>3, Zenon DEF v, w

(* Setting words 6 and 7 leaves the other words.                             *)
LEMMA SetPlace ==
  ASSUME NEW l, NEW t, NEW y, NEW k, NEW h, NEW x, NEW v, NEW w
  PROVE  At(Addr(l, t, y, k, h, x), v, w) = Addr(l, t, y, k, v, w)
<1>1. At(Addr(l, t, y, k, h, x), v, w)
        = [[Addr(l, t, y, k, h, x) EXCEPT !.height = v] EXCEPT !.index = w]
  BY DEF At
<1>2. [Addr(l, t, y, k, h, x) EXCEPT !.height = v] = Addr(l, t, y, k, v, x) BY DEF Addr
<1>3. [Addr(l, t, y, k, v, x) EXCEPT !.index = w] = Addr(l, t, y, k, v, w) BY DEF Addr
<1> QED BY <1>1, <1>2, <1>3, Zenon

(* A cleared address with its type set.                                      *)
LEMMA TypeAddr ==
  ASSUME NEW y
  PROVE  OfType(y) = Addr(0, 0, y, 0, 0, 0)
<1>1. ZeroAddr = Addr(0, 0, "wots", 0, 0, 0) BY DEF ZeroAddr, Addr
<1>2. [Addr(0, 0, "wots", 0, 0, 0) EXCEPT !.type = y] = Addr(0, 0, y, 0, 0, 0) BY DEF Addr
<1> QED BY <1>1, <1>2, Zenon DEF OfType

(* copy_subtree_addr and copy_keypair_addr into a fresh address, and         *)
(* set_tree_height with set_tree_index.                                      *)
LEMMA AddrCopies ==
  ASSUME NEW l, NEW t, NEW y, NEW k, NEW h, NEW x, NEW z
  PROVE  /\ CopySubtree(OfType(z), Addr(l, t, y, k, h, x)) = Addr(l, t, z, 0, 0, 0)
         /\ CopyKeypair(OfType(z), Addr(l, t, y, k, h, x)) = Addr(l, t, z, k, 0, 0)
         /\ \A u, v : At(Addr(l, t, y, k, h, x), u, v) = Addr(l, t, y, k, u, v)
<1>1. PICK a : a = Addr(l, t, y, k, h, x) OBVIOUS
<1>2. a.layer = l /\ a.tree = t /\ a.keypair = k BY <1>1, AddrFields
<1>3. OfType(z) = Addr(0, 0, z, 0, 0, 0) BY TypeAddr
<1>4. CopySubtree(OfType(z), a) = Addr(l, t, z, 0, 0, 0) BY <1>2, <1>3, SetSubtree
<1>5. CopyKeypair(OfType(z), a) = Addr(l, t, z, k, 0, 0)
  <2>1. [Addr(l, t, z, 0, 0, 0) EXCEPT !.keypair = k] = Addr(l, t, z, k, 0, 0) BY DEF Addr
  <2> QED BY <1>2, <1>4, <2>1, Zenon DEF CopyKeypair
<1>6. \A u, v : At(Addr(l, t, y, k, h, x), u, v) = Addr(l, t, y, k, u, v)
  BY SetPlace
<1> QED BY <1>1, <1>4, <1>5, <1>6, Zenon

(* The addresses of the FORS instance at a leaf, word by word.               *)
LEMMA ForsBaseIs ==
  ASSUME NEW t, NEW l
  PROVE  /\ ForsAddrOf(t, l) = Addr(0, t, "wots", l, 0, 0)
         /\ ForsBase(t, l) = Addr(0, t, "forstree", l, 0, 0)
<1>1. OfType("wots") = Addr(0, 0, "wots", 0, 0, 0) BY TypeAddr
<1>2. ForsAddrOf(t, l) = [[Addr(0, 0, "wots", 0, 0, 0) EXCEPT !.tree = t] EXCEPT !.keypair = l]
  BY <1>1 DEF ForsAddrOf
<1>3. [Addr(0, 0, "wots", 0, 0, 0) EXCEPT !.tree = t] = Addr(0, t, "wots", 0, 0, 0) BY DEF Addr
<1>4. [Addr(0, t, "wots", 0, 0, 0) EXCEPT !.keypair = l] = Addr(0, t, "wots", l, 0, 0)
  BY DEF Addr
<1>5. ForsAddrOf(t, l) = Addr(0, t, "wots", l, 0, 0) BY <1>2, <1>3, <1>4, Zenon
<1> QED BY <1>5, AddrCopies DEF ForsBase

(* The addresses of a tree of the hypertree and of a leaf of it, word by     *)
(* word.                                                                     *)
LEMMA TreeAddrIs ==
  ASSUME NEW l, NEW t, NEW f
  PROVE  /\ TreeAddr(l, t) = Addr(l, t, "hashtree", 0, 0, 0)
         /\ WotsAddr(l, t, f) = Addr(l, t, "wots", f, 0, 0)
<1>1. OfType("hashtree") = Addr(0, 0, "hashtree", 0, 0, 0) BY TypeAddr
<1>2. TreeAddr(l, t) = [[Addr(0, 0, "hashtree", 0, 0, 0) EXCEPT !.layer = l] EXCEPT !.tree = t]
  BY <1>1 DEF TreeAddr
<1>6. [Addr(0, 0, "hashtree", 0, 0, 0) EXCEPT !.layer = l] = Addr(l, 0, "hashtree", 0, 0, 0)
  BY DEF Addr
<1>7. [Addr(l, 0, "hashtree", 0, 0, 0) EXCEPT !.tree = t] = Addr(l, t, "hashtree", 0, 0, 0)
  BY DEF Addr
<1>3. TreeAddr(l, t) = Addr(l, t, "hashtree", 0, 0, 0) BY <1>2, <1>6, <1>7, Zenon
<1>4. CopySubtree(OfType("wots"), TreeAddr(l, t)) = Addr(l, t, "wots", 0, 0, 0)
  BY <1>3, AddrCopies
<1>5. [Addr(l, t, "wots", 0, 0, 0) EXCEPT !.keypair = f] = Addr(l, t, "wots", f, 0, 0)
  BY DEF Addr
<1> QED BY <1>3, <1>4, <1>5, Zenon DEF WotsAddr

(* What a loop over FORS trees leaves in words 6 and 7 makes no difference.  *)
LEMMA ForsAlike ==
  ASSUME NEW t, NEW l, NEW a, NEW b, NEW addr, addr = At(ForsBase(t, l), a, b)
  PROVE  /\ Alike(addr, ForsBase(t, l))
         /\ OwnLeaves(addr, ForsBase(t, l))
<1>1. ForsBase(t, l) = Addr(0, t, "forstree", l, 0, 0) BY ForsBaseIs
<1>2. addr = Addr(0, t, "forstree", l, a, b) BY <1>1, AddrCopies
<1>3. \A h, x : /\ At(addr, h, x) = Addr(0, t, "forstree", l, h, x)
                /\ At(ForsBase(t, l), h, x) = Addr(0, t, "forstree", l, h, x)
  BY <1>1, <1>2, AddrCopies
<1>4. Alike(addr, ForsBase(t, l))
  <2>1. /\ addr.layer = 0 /\ addr.tree = t /\ addr.keypair = l BY <1>2, AddrFields
  <2>2. /\ ForsBase(t, l).layer = 0 /\ ForsBase(t, l).tree = t
        /\ ForsBase(t, l).keypair = l
    BY <1>1, AddrFields
  <2>3. CopySubtree(ZeroAddr, addr) = CopySubtree(ZeroAddr, ForsBase(t, l))
    BY <2>1, <2>2 DEF CopySubtree
  <2> QED BY <1>3, <2>1, <2>2, <2>3 DEF Alike
<1>5. CopyKeypair(OfType("forstree"), addr) = Addr(0, t, "forstree", l, 0, 0)
  BY <1>2, AddrCopies
<1>6. ASSUME NEW x
      PROVE  [CopyKeypair(OfType("forstree"), addr) EXCEPT !.index = x] = At(ForsBase(t, l), 0, x)
  <2>1. [Addr(0, t, "forstree", l, 0, 0) EXCEPT !.index = x] = Addr(0, t, "forstree", l, 0, x)
    BY DEF Addr
  <2> QED BY <1>3, <1>5, <2>1, Zenon
<1> QED BY <1>4, <1>6, Zenon DEF OwnLeaves

(* An address makes no difference from itself.                               *)
LEMMA AlikeSelf == ASSUME NEW base PROVE Alike(base, base)
BY DEF Alike

-----------------------------------------------------------------------------
(* An element of a sequence.                                                 *)
LEMMA SeqElement ==
  ASSUME NEW T, NEW s \in Seq(T), NEW n \in 1..Len(s)
  PROVE  s[n] \in T
OBVIOUS

(* The bits message_to_indices reads lie in the digest.                      *)
LEMMA MdBitRange ==
  ASSUME NEW dg \in Digests, NEW i \in 0..(ForsTrees - 1), NEW j \in 0..(ForsHeight - 1)
  PROVE  /\ i * ForsHeight + j \in 0..(ForsHeight * ForsTrees - 1)
         /\ MdBit(dg.md, i, j) \in {0, 1}
<1>1. ForsHeight \in Nat \ {0} /\ ForsTrees \in Nat \ {0} BY SizesAssumption
<1>2. dg.md \in Seq(0..255) /\ Len(dg.md) = (ForsHeight * ForsTrees + 7) \div 8
  BY DigestsAssumption
<1> DEFINE o == i * ForsHeight + j
           a == i * ForsHeight
           b == ForsHeight * ForsTrees
<1>3. a \in Nat /\ b \in Nat /\ a + ForsHeight <= b
  <2>1. i \in Nat /\ ForsTrees - 1 - i \in Nat BY <1>1
  <2>2. (ForsTrees - 1 - i) * ForsHeight \in Nat BY <1>1, <2>1
  <2>3. b = a + ForsHeight + (ForsTrees - 1 - i) * ForsHeight BY <1>1, <2>1
  <2>4. a \in Nat BY <1>1, <2>1
  <2> HIDE DEF a, b
  <2> QED BY <1>1, <2>2, <2>3, <2>4
<1>4. o \in 0..(b - 1)
  <2>1. o = a + j OBVIOUS
  <2> HIDE DEF o, a, b
  <2> QED BY <1>1, <1>3, <2>1
<1>5. 1 + (o \div 8) \in 1..Len(dg.md)
  <2> HIDE DEF o, a, b
  <2>1. Len(dg.md) = (b + 7) \div 8 BY <1>2 DEF b
  <2> QED BY <1>3, <1>4, <2>1
<1>6. dg.md[1 + (o \div 8)] \in Nat
  <2>2. dg.md[1 + (o \div 8)] \in 0..255
    <3> HIDE DEF o
    <3> QED BY <1>2, <1>5, SeqElement
  <2> QED BY <2>2
<1>7. o % 8 \in Nat
  <2> HIDE DEF o, a, b
  <2> QED BY <1>3, <1>4
<1>8. MdBit(dg.md, i, j) = Bit(dg.md[1 + (o \div 8)], o % 8) BY DEF MdBit
<1> HIDE DEF o, b
<1>9. MdBit(dg.md, i, j) \in {0, 1} BY <1>6, <1>7, <1>8, BitValue
<1> QED BY <1>4, <1>9 DEF o, b

(* The partial values of an index of message_to_indices and their bounds.    *)
LEMMA IndexSteps ==
  ASSUME NEW dg \in Digests, NEW i \in 0..(ForsTrees - 1)
  PROVE  \E g : /\ g[0] = 0 /\ Indices(dg.md)[i] = g[ForsHeight]
                /\ \A n \in 0..ForsHeight : g[n] \in 0..(Pow2[n] - 1)
                /\ \A n \in 0..(ForsHeight - 1) :
                     g[n + 1] = 2 * g[n] + MdBit(dg.md, i, n)
<1>1. ForsHeight \in Nat BY SizesAssumption
<1>2. PICK g : /\ g[0] = 0
               /\ \A j \in 1..ForsHeight : g[j] = IndexTurn(dg.md, i, j - 1, g[j - 1])
               /\ Indices(dg.md)[i] = g[ForsHeight]
  BY <1>1, IndexLoop
<1>3. ASSUME NEW n \in 0..(ForsHeight - 1)
      PROVE  g[n + 1] = 2 * g[n] + MdBit(dg.md, i, n)
  <2>1. n + 1 \in 1..ForsHeight /\ (n + 1) - 1 = n BY <1>1
  <2> QED BY <2>1, <1>2 DEF IndexTurn
<1> DEFINE S == {n \in Nat : n <= ForsHeight => g[n] \in 0..(Pow2[n] - 1)}
<1>4. 0 \in S BY <1>2, Pow2Recursion
<1>5. ASSUME NEW n \in Nat, n \in S PROVE n + 1 \in S
  <2> SUFFICES ASSUME n + 1 <= ForsHeight PROVE g[n + 1] \in 0..(Pow2[n + 1] - 1) OBVIOUS
  <2>1. n \in 0..(ForsHeight - 1) BY <1>1
  <2>2. g[n] \in 0..(Pow2[n] - 1) BY <1>1, <1>5
  <2>3. MdBit(dg.md, i, n) \in {0, 1} BY <2>1, MdBitRange
  <2>4. Pow2[n] \in Nat /\ Pow2[n + 1] = 2 * Pow2[n] BY Pow2Recursion
  <2>5. g[n + 1] = 2 * g[n] + MdBit(dg.md, i, n) BY <2>1, <1>3
  <2> QED BY <2>2, <2>3, <2>4, <2>5
<1>6. Nat \subseteq S
  <2> HIDE DEF S
  <2> QED BY <1>4, <1>5, SetInduction
<1>7. \A n \in 0..ForsHeight : g[n] \in 0..(Pow2[n] - 1) BY <1>1, <1>6
<1> QED BY <1>2, <1>3, <1>7

(* An index of message_to_indices is a leaf of its FORS tree.                *)
LEMMA IndexRange ==
  ASSUME NEW dg \in Digests, NEW i \in 0..(ForsTrees - 1)
  PROVE  Indices(dg.md)[i] \in 0..(Pow2[ForsHeight] - 1)
<1>1. ForsHeight \in Nat BY SizesAssumption
<1> QED BY <1>1, IndexSteps

(* Equal indices are made of equal bits.                                     *)
LEMMA IndexBits ==
  ASSUME NEW dg \in Digests, NEW dh \in Digests, NEW i \in 0..(ForsTrees - 1),
         Indices(dg.md)[i] = Indices(dh.md)[i]
  PROVE  \A j \in 0..(ForsHeight - 1) : MdBit(dg.md, i, j) = MdBit(dh.md, i, j)
<1>1. ForsHeight \in Nat BY SizesAssumption
<1>2. PICK g : /\ Indices(dg.md)[i] = g[ForsHeight]
               /\ \A n \in 0..ForsHeight : g[n] \in 0..(Pow2[n] - 1)
               /\ \A n \in 0..(ForsHeight - 1) : g[n + 1] = 2 * g[n] + MdBit(dg.md, i, n)
  BY IndexSteps
<1>3. PICK h : /\ Indices(dh.md)[i] = h[ForsHeight]
               /\ \A n \in 0..ForsHeight : h[n] \in 0..(Pow2[n] - 1)
               /\ \A n \in 0..(ForsHeight - 1) : h[n + 1] = 2 * h[n] + MdBit(dh.md, i, n)
  BY IndexSteps
<1> DEFINE S == {n \in Nat : n <= ForsHeight =>
                   /\ g[ForsHeight - n] = h[ForsHeight - n]
                   /\ \A j \in (ForsHeight - n)..(ForsHeight - 1) :
                        MdBit(dg.md, i, j) = MdBit(dh.md, i, j)}
<1>4. 0 \in S
  <2>1. ForsHeight - 0 = ForsHeight /\ (ForsHeight - 0)..(ForsHeight - 1) = {} BY <1>1
  <2>2. g[ForsHeight] = h[ForsHeight] BY <1>2, <1>3
  <2> QED BY <2>1, <2>2
<1>5. ASSUME NEW n \in Nat, n \in S PROVE n + 1 \in S
  <2> SUFFICES ASSUME n + 1 <= ForsHeight
               PROVE  /\ g[ForsHeight - (n + 1)] = h[ForsHeight - (n + 1)]
                      /\ \A j \in (ForsHeight - (n + 1))..(ForsHeight - 1) :
                           MdBit(dg.md, i, j) = MdBit(dh.md, i, j)
    OBVIOUS
  <2>1. PICK m : m = ForsHeight - (n + 1) OBVIOUS
  <2>2. m \in 0..(ForsHeight - 1) /\ m \in 0..ForsHeight /\ m + 1 = ForsHeight - n
    BY <1>1, <2>1
  <2>3. g[m + 1] = 2 * g[m] + MdBit(dg.md, i, m) /\ h[m + 1] = 2 * h[m] + MdBit(dh.md, i, m)
    BY <1>2, <1>3, <2>2
  <2>4. MdBit(dg.md, i, m) \in {0, 1} /\ MdBit(dh.md, i, m) \in {0, 1} BY <2>2, MdBitRange
  <2>5. g[m] \in Nat /\ h[m] \in Nat
    <3>1. Pow2[m] \in Nat BY <2>2, Pow2Recursion
    <3> QED BY <1>2, <1>3, <2>2, <3>1
  <2>6. g[m + 1] = h[m + 1] BY <1>1, <1>5, <2>2
  <2>7. g[m] = h[m] /\ MdBit(dg.md, i, m) = MdBit(dh.md, i, m)
    <3>1. PICK a, b : a = MdBit(dg.md, i, m) /\ b = MdBit(dh.md, i, m) OBVIOUS
    <3>2. PICK u, v : u = g[m] /\ v = h[m] OBVIOUS
    <3>3. a \in {0, 1} /\ b \in {0, 1} /\ u \in Nat /\ v \in Nat BY <2>4, <2>5, <3>1, <3>2
    <3>4. 2 * u + a = 2 * v + b BY <2>3, <2>6, <3>1, <3>2
    <3>5. a = b /\ u = v BY ONLY <3>3, <3>4
    <3> QED BY <3>1, <3>2, <3>5
  <2>8. ASSUME NEW j \in m..(ForsHeight - 1) PROVE MdBit(dg.md, i, j) = MdBit(dh.md, i, j)
    <3>1. j = m \/ j \in (ForsHeight - n)..(ForsHeight - 1) BY <1>1, <2>2
    <3> QED BY <1>1, <1>5, <2>7, <3>1
  <2> QED BY <2>1, <2>7, <2>8
<1>6. ForsHeight \in S
  <2>1. Nat \subseteq S
    <3> HIDE DEF S
    <3> QED BY <1>4, <1>5, SetInduction
  <2> QED BY <1>1, <2>1
<1> QED BY <1>1, <1>6

(* Digests with the same FORS indices have the same bits.                    *)
LEMMA DigestBits ==
  ASSUME NEW dg \in Digests, NEW dh \in Digests, Indices(dg.md) = Indices(dh.md)
  PROVE  MdBits(dg.md) = MdBits(dh.md)
<1>1. ForsHeight \in Nat \ {0} /\ ForsTrees \in Nat \ {0} BY SizesAssumption
<1>2. ASSUME NEW n \in 0..(ForsHeight * ForsTrees - 1)
      PROVE  Bit(dg.md[1 + (n \div 8)], n % 8) = Bit(dh.md[1 + (n \div 8)], n % 8)
  <2>0. ForsHeight * ForsTrees \in Nat BY <1>1
  <2>1. n \in Nat /\ n < ForsHeight * ForsTrees
    <3> DEFINE b == ForsHeight * ForsTrees
    <3>1. n \in 0..(b - 1) OBVIOUS
    <3> HIDE DEF b
    <3> QED BY <2>0, <3>1 DEF b
  <2>2. PICK i, j : i = n \div ForsHeight /\ j = n % ForsHeight OBVIOUS
  <2>3. i \in Nat /\ j \in 0..(ForsHeight - 1) /\ n = i * ForsHeight + j
    BY <1>1, <2>1, <2>2, SplitAt
  <2>4. i \in 0..(ForsTrees - 1)
    <3> SUFFICES ASSUME i >= ForsTrees PROVE FALSE BY <1>1, <2>3
    <3>1. i * ForsHeight >= ForsTrees * ForsHeight
      <4>1. (i - ForsTrees) * ForsHeight \in Nat BY <1>1, <2>3
      <4>2. i * ForsHeight = ForsTrees * ForsHeight + (i - ForsTrees) * ForsHeight
        BY <1>1, <2>3
      <4> HIDE DEF Bit
      <4>3. ForsTrees * ForsHeight \in Nat BY <1>1
      <4>4. PICK u : u = (i - ForsTrees) * ForsHeight OBVIOUS
      <4> QED BY <4>1, <4>2, <4>3, <4>4
    <3>2. ForsTrees * ForsHeight = ForsHeight * ForsTrees BY <1>1
    <3>3. i * ForsHeight \in Nat BY <1>1, <2>3
    <3> QED BY <2>0, <2>1, <2>3, <3>1, <3>2, <3>3
  <2>5. MdBit(dg.md, i, j) = MdBit(dh.md, i, j)
    <3>1. Indices(dg.md)[i] = Indices(dh.md)[i] OBVIOUS
    <3> QED BY <2>3, <2>4, <3>1, IndexBits
  <2> QED BY <2>3, <2>5 DEF MdBit
<1> QED BY <1>2 DEF MdBits

-----------------------------------------------------------------------------
(* A sequence that a loop appends to. *)
Listed(s, n, f) == s = [i \in 1..n |-> f[i]]

(* Appending the next value to a list of values lists one more.              *)
LEMMA ListedAppend ==
  ASSUME NEW s, NEW n \in Nat, NEW f, NEW e, Listed(s, n, f), e = f[n + 1]
  PROVE  Listed(Append(s, e), n + 1, f)
<1> DEFINE T == {f[i] : i \in 1..(n + 1)}
<1>1. s \in Seq(T) /\ Len(s) = n
  <2>1. s \in [1..n -> T] BY DEF Listed
  <2>2. s \in Seq(T) BY <2>1
  <2>3. Len(s) = n BY <2>1, <2>2
  <2> QED BY <2>2, <2>3
<1>2. e \in T OBVIOUS
<1>3. /\ Append(s, e) \in Seq(T) /\ Len(Append(s, e)) = n + 1
      /\ \A i \in 1..n : Append(s, e)[i] = s[i]
      /\ Append(s, e)[n + 1] = e
  BY <1>1, <1>2
<1>4. \A i \in 1..(n + 1) : Append(s, e)[i] = f[i]
  <2> TAKE i \in 1..(n + 1)
  <2>1. CASE i = n + 1 BY <2>1, <1>3
  <2>2. CASE i # n + 1
    <3>1. i \in 1..n BY <2>2
    <3> QED BY <3>1, <1>3 DEF Listed
  <2> QED BY <2>1, <2>2
<1>5. Append(s, e) = [i \in 1..(n + 1) |-> Append(s, e)[i]]
  <2> HIDE DEF T
  <2> QED BY <1>3
<1> HIDE DEF T
<1> QED BY <1>4, <1>5 DEF Listed

(* The empty list.                                                           *)
LEMMA ListedNone == ASSUME NEW f PROVE Listed(<<>>, 0, f)
BY DEF Listed

-----------------------------------------------------------------------------
(* The FORS instance of a leaf of the hypertree, and a signature of it.      *)
ForsTop(c, t, l, i) == ForsTreeOf(c, t, l, i)[ForsHeight][0]
ForsRoots(c, t, l) == [i \in 1..ForsTrees |-> ForsTop(c, t, l, i - 1)]
ForsPk(c, t, l) == Thash(c, ForsPkAddr(ForsAddrOf(t, l)), ForsRoots(c, t, l))
ForsSecret(c, t, l, i, x) == PrfAddr(c, At(ForsBase(t, l), 0, x + IdxOffset(i)))
ForsSigPart(c, t, l, i, x) ==
  [sk |-> ForsSecret(c, t, l, i, x),
   auth |-> AuthPath(ForsTreeOf(c, t, l, i), ForsHeight, x)]
ForsSig(c, t, l, md) ==
  [i \in 1..ForsTrees |-> ForsSigPart(c, t, l, i - 1, Indices(md)[i - 1])]
ForsHashes(c, t, l, n) == UNION {NodeSet(ForsTreeOf(c, t, l, i)) : i \in 0..(n - 1)}

(* The offset of a FORS tree is a natural number.                            *)
LEMMA IdxOffsetNat == ASSUME NEW i \in Nat PROVE IdxOffset(i) \in Nat
<1>1. Pow2[ForsHeight] \in Nat BY SizesAssumption, Pow2Recursion
<1> QED BY <1>1, TimesNat DEF IdxOffset

(* A turn of fors_sign, from whatever the last one left in the address.      *)
LEMMA ForsTurnTree ==
  ASSUME NEW c, NEW t, NEW l, NEW i \in Nat, NEW x, NEW addr,
         \E a, b : addr = At(ForsBase(t, l), a, b)
  PROVE  /\ ForsTreeAddr(addr, i, x) = At(ForsBase(t, l), 0, x + IdxOffset(i))
         /\ Nodes(c, ForsGenLeaf, ForsHeight, IdxOffset(i), ForsTreeAddr(addr, i, x))
              = ForsTreeOf(c, t, l, i)
         /\ Alike(ForsTreeAddr(addr, i, x), ForsBase(t, l))
         /\ \E a, b : LeftIn(ForsTreeAddr(addr, i, x), i) = At(ForsBase(t, l), a, b)
<1>1. PICK a, b : addr = At(ForsBase(t, l), a, b) OBVIOUS
<1>2. \A h, y : At(addr, h, y) = At(ForsBase(t, l), h, y) 
  <2>1. Alike(addr, ForsBase(t, l)) BY <1>1, ForsAlike
  <2> QED BY <2>1 DEF Alike
<1>3. ForsTreeAddr(addr, i, x) = At(ForsBase(t, l), 0, x + IdxOffset(i))
  <2>1. ForsTreeAddr(addr, i, x) = At(addr, 0, x + IdxOffset(i)) BY DEF ForsTreeAddr, At
  <2> QED BY <1>2, <2>1
<1>4. PICK ad : ad = ForsTreeAddr(addr, i, x) OBVIOUS
<1>5. ad = At(ForsBase(t, l), 0, x + IdxOffset(i)) BY <1>3, <1>4
<1>6. /\ Alike(ad, ForsBase(t, l))
      /\ OwnLeaves(ad, ForsBase(t, l))
  BY <1>5, ForsAlike
<1>7. ForsHeight \in Nat /\ IdxOffset(i) \in Nat BY SizesAssumption, IdxOffsetNat
<1>8. Nodes(c, ForsGenLeaf, ForsHeight, IdxOffset(i), ad) = ForsTreeOf(c, t, l, i)
  BY <1>6, <1>7, ForsNodes DEF ForsTreeOf
<1>9. LeftIn(ad, i) = At(ForsBase(t, l), ForsHeight, Shr(IdxOffset(i), ForsHeight))
  <2>1. LeftIn(ad, i) = At(ad, ForsHeight, Shr(IdxOffset(i), ForsHeight)) BY DEF LeftIn, At
  <2> QED BY <1>6, <2>1 DEF Alike
<1> QED BY <1>3, <1>4, <1>6, <1>8, <1>9

(* fors_sign computes the trees of the FORS instance, its signature and its  *)
(* key.                                                                      *)
LEMMA ForsSignIs ==
  ASSUME NEW c, NEW t, NEW l, NEW md
  PROVE  ForsSign(c, md, ForsAddrOf(t, l))
           = [sig |-> ForsSig(c, t, l, md), pk |-> ForsPk(c, t, l),
              hashes |-> ForsHashes(c, t, l, ForsTrees) \cup {ForsPk(c, t, l)}]
<1>1. ForsTrees \in Nat BY SizesAssumption
<1>2. PICK g : /\ g[0] = ForsSignStart(ForsAddrOf(t, l))
               /\ \A k \in 1..ForsTrees : g[k] = ForsSignTurn(c, Indices(md), k - 1, g[k - 1])
               /\ ForsSign(c, md, ForsAddrOf(t, l))
                    = ForsSigned(c, ForsAddrOf(t, l), g[ForsTrees])
  BY <1>1, ForsSignLoop
<1> DEFINE S == {n \in Nat : n <= ForsTrees =>
                   /\ \E a, b : g[n].addr = At(ForsBase(t, l), a, b)
                   /\ Listed(g[n].sig, n, ForsSig(c, t, l, md))
                   /\ Listed(g[n].roots, n, ForsRoots(c, t, l))
                   /\ g[n].hashes = ForsHashes(c, t, l, n)}
<1>3. 0 \in S
  <2>1. /\ g[0].addr = ForsBase(t, l) /\ g[0].sig = <<>> /\ g[0].roots = <<>>
        /\ g[0].hashes = {}
    BY <1>2 DEF ForsSignStart, ForsBase
  <2>2. ForsBase(t, l) = At(ForsBase(t, l), 0, 0) BY ForsBaseIs, SetPlace
  <2>3. ForsHashes(c, t, l, 0) = {} BY DEF ForsHashes
  <2> QED BY <2>1, <2>2, <2>3, ListedNone
<1>4. ASSUME NEW n \in Nat, n \in S PROVE n + 1 \in S
  <2> SUFFICES ASSUME n + 1 <= ForsTrees
               PROVE  /\ \E a, b : g[n + 1].addr = At(ForsBase(t, l), a, b)
                      /\ Listed(g[n + 1].sig, n + 1, ForsSig(c, t, l, md))
                      /\ Listed(g[n + 1].roots, n + 1, ForsRoots(c, t, l))
                      /\ g[n + 1].hashes = ForsHashes(c, t, l, n + 1)
    OBVIOUS
  <2>1. /\ \E a, b : g[n].addr = At(ForsBase(t, l), a, b)
        /\ Listed(g[n].sig, n, ForsSig(c, t, l, md))
        /\ Listed(g[n].roots, n, ForsRoots(c, t, l))
        /\ g[n].hashes = ForsHashes(c, t, l, n)
    BY <1>1, <1>4
  <2> HIDE DEF S
  <2>2. n + 1 \in 1..ForsTrees /\ (n + 1) - 1 = n BY <1>1
  <2>3. g[n + 1] = ForsSignTurn(c, Indices(md), n, g[n]) BY <1>2, <2>2
  <2>4. PICK x, addr : x = Indices(md)[n] /\ addr = ForsTreeAddr(g[n].addr, n, x) OBVIOUS
  <2>5. /\ addr = At(ForsBase(t, l), 0, x + IdxOffset(n))
        /\ Nodes(c, ForsGenLeaf, ForsHeight, IdxOffset(n), addr) = ForsTreeOf(c, t, l, n)
        /\ \E a, b : LeftIn(addr, n) = At(ForsBase(t, l), a, b)
    BY <2>1, <2>4, ForsTurnTree
  <2>6. /\ g[n + 1].addr = LeftIn(addr, n)
        /\ g[n + 1].sig = Append(g[n].sig, ForsSigPart(c, t, l, n, x))
        /\ g[n + 1].roots = Append(g[n].roots, ForsTop(c, t, l, n))
        /\ g[n + 1].hashes = g[n].hashes \cup NodeSet(ForsTreeOf(c, t, l, n))
    <3>1. g[n + 1] = [addr |-> LeftIn(addr, n),
                      sig |-> Append(g[n].sig, ForsSigPart(c, t, l, n, x)),
                      roots |-> Append(g[n].roots, ForsTop(c, t, l, n)),
                      hashes |-> g[n].hashes \cup NodeSet(ForsTreeOf(c, t, l, n))]
      BY <2>3, <2>4, <2>5, Zenon DEF ForsSignTurn, ForsSigPart, ForsSecret, ForsTop
    <3> QED BY <3>1
  <2>7. /\ ForsSigPart(c, t, l, n, x) = ForsSig(c, t, l, md)[n + 1]
        /\ ForsTop(c, t, l, n) = ForsRoots(c, t, l)[n + 1]
    BY <2>2, <2>4 DEF ForsSig, ForsRoots
  <2>8. /\ Listed(g[n + 1].sig, n + 1, ForsSig(c, t, l, md))
        /\ Listed(g[n + 1].roots, n + 1, ForsRoots(c, t, l))
    BY <2>1, <2>6, <2>7, ListedAppend
  <2>9. ForsHashes(c, t, l, n + 1) = ForsHashes(c, t, l, n) \cup NodeSet(ForsTreeOf(c, t, l, n))
    <3>1. \A i : i \in 0..((n + 1) - 1) <=> i \in 0..(n - 1) \/ i = n OBVIOUS
    <3> QED BY <3>1 DEF ForsHashes
  <2> QED BY <2>1, <2>5, <2>6, <2>8, <2>9
<1>5. ForsTrees \in S
  <2>1. Nat \subseteq S
    <3> HIDE DEF S
    <3> QED BY <1>3, <1>4, SetInduction
  <2> QED BY <1>1, <2>1
<1>6. /\ g[ForsTrees].sig = ForsSig(c, t, l, md)
      /\ g[ForsTrees].roots = ForsRoots(c, t, l)
      /\ g[ForsTrees].hashes = ForsHashes(c, t, l, ForsTrees)
  <2>0. /\ Listed(g[ForsTrees].sig, ForsTrees, ForsSig(c, t, l, md))
        /\ Listed(g[ForsTrees].roots, ForsTrees, ForsRoots(c, t, l))
        /\ g[ForsTrees].hashes = ForsHashes(c, t, l, ForsTrees)
    BY <1>1, <1>5
  <2>1. ForsSig(c, t, l, md) = [i \in 1..ForsTrees |-> ForsSig(c, t, l, md)[i]]
    BY DEF ForsSig
  <2>2. ForsRoots(c, t, l) = [i \in 1..ForsTrees |-> ForsRoots(c, t, l)[i]]
    BY DEF ForsRoots
  <2> HIDE DEF S
  <2> QED BY <2>0, <2>1, <2>2 DEF Listed
<1>7. Thash(c, ForsPkAddr(ForsAddrOf(t, l)), g[ForsTrees].roots) = ForsPk(c, t, l)
  BY <1>6 DEF ForsPk
<1>8. PICK h, p : h = ForsHashes(c, t, l, ForsTrees) /\ p = ForsPk(c, t, l) OBVIOUS
<1>9. ForsSigned(c, ForsAddrOf(t, l), g[ForsTrees])
        = [sig |-> ForsSig(c, t, l, md), pk |-> p, hashes |-> h \cup {p}]
  BY <1>6, <1>7, <1>8 DEF ForsSigned
<1> QED BY <1>2, <1>8, <1>9

-----------------------------------------------------------------------------
(* The root fors_pk_from_sig computes from part i of a signature, for x the  *)
(* index of the part.                                                        *)
OpenRoot(c, t, l, part, i, x) ==
  LET addr == At(ForsBase(t, l), 0, x + IdxOffset(i))
  IN  ComputeRoot(c, Thash(c, addr, part.sk), x, IdxOffset(i), part.auth, ForsHeight, addr)
OpenRoots(c, t, l, sig, md) ==
  [i \in 1..ForsTrees |-> OpenRoot(c, t, l, sig[i], i - 1, Indices(md)[i - 1])]

(* fors_pk_from_sig hashes the roots its parts come to.                      *)
LEMMA ForsOpenIs ==
  ASSUME NEW c, NEW t, NEW l, NEW md, NEW sig
  PROVE  ForsPkFromSig(c, sig, md, ForsAddrOf(t, l))
           = Thash(c, ForsPkAddr(ForsAddrOf(t, l)), OpenRoots(c, t, l, sig, md))
<1>1. ForsTrees \in Nat BY SizesAssumption
<1>2. PICK g : /\ g[0] = ForsOpenStart(ForsAddrOf(t, l))
               /\ \A k \in 1..ForsTrees :
                    g[k] = ForsOpenTurn(c, sig, Indices(md), k - 1, g[k - 1])
               /\ ForsPkFromSig(c, sig, md, ForsAddrOf(t, l))
                    = Thash(c, ForsPkAddr(ForsAddrOf(t, l)), g[ForsTrees].roots)
  BY <1>1, ForsOpenLoop
<1> DEFINE S == {n \in Nat : n <= ForsTrees =>
                   /\ \E a, b : g[n].addr = At(ForsBase(t, l), a, b)
                   /\ Listed(g[n].roots, n, OpenRoots(c, t, l, sig, md))}
<1>3. 0 \in S
  <2>1. g[0].addr = ForsBase(t, l) /\ g[0].roots = <<>>
    BY <1>2 DEF ForsOpenStart, ForsBase
  <2>2. ForsBase(t, l) = At(ForsBase(t, l), 0, 0) BY ForsBaseIs, SetPlace
  <2> QED BY <2>1, <2>2, ListedNone
<1>4. ASSUME NEW n \in Nat, n \in S PROVE n + 1 \in S
  <2> SUFFICES ASSUME n + 1 <= ForsTrees
               PROVE  /\ \E a, b : g[n + 1].addr = At(ForsBase(t, l), a, b)
                      /\ Listed(g[n + 1].roots, n + 1, OpenRoots(c, t, l, sig, md))
    OBVIOUS
  <2>1. /\ \E a, b : g[n].addr = At(ForsBase(t, l), a, b)
        /\ Listed(g[n].roots, n, OpenRoots(c, t, l, sig, md))
    BY <1>1, <1>4
  <2> HIDE DEF S
  <2>2. n + 1 \in 1..ForsTrees /\ (n + 1) - 1 = n BY <1>1
  <2>3. g[n + 1] = ForsOpenTurn(c, sig, Indices(md), n, g[n]) BY <1>2, <2>2
  <2>4. PICK x, addr : x = Indices(md)[n] /\ addr = ForsTreeAddr(g[n].addr, n, x) OBVIOUS
  <2>5. /\ addr = At(ForsBase(t, l), 0, x + IdxOffset(n))
        /\ Nodes(c, ForsGenLeaf, ForsHeight, IdxOffset(n), addr) = ForsTreeOf(c, t, l, n)
        /\ \E a, b : LeftIn(addr, n) = At(ForsBase(t, l), a, b)
    BY <2>1, <2>4, ForsTurnTree
  <2>6. /\ g[n + 1].addr = LeftIn(addr, n)
        /\ g[n + 1].roots = Append(g[n].roots, OpenRoot(c, t, l, sig[n + 1], n, x))
    <3>1. g[n + 1] = [addr |-> LeftIn(addr, n),
                      roots |-> Append(g[n].roots, OpenRoot(c, t, l, sig[n + 1], n, x))]
      BY <2>3, <2>4, <2>5, Zenon DEF ForsOpenTurn, OpenRoot
    <3> QED BY <3>1
  <2>7. OpenRoot(c, t, l, sig[n + 1], n, x) = OpenRoots(c, t, l, sig, md)[n + 1]
    BY <2>2, <2>4 DEF OpenRoots
  <2>8. Listed(g[n + 1].roots, n + 1, OpenRoots(c, t, l, sig, md))
    BY <2>1, <2>6, <2>7, ListedAppend
  <2> QED BY <2>5, <2>6, <2>8
<1>5. ForsTrees \in S
  <2>1. Nat \subseteq S
    <3> HIDE DEF S
    <3> QED BY <1>3, <1>4, SetInduction
  <2> QED BY <1>1, <2>1
<1>6. g[ForsTrees].roots = OpenRoots(c, t, l, sig, md)
  <2>0. Listed(g[ForsTrees].roots, ForsTrees, OpenRoots(c, t, l, sig, md)) BY <1>1, <1>5
  <2>1. OpenRoots(c, t, l, sig, md) = [i \in 1..ForsTrees |-> OpenRoots(c, t, l, sig, md)[i]]
    BY DEF OpenRoots
  <2> HIDE DEF S
  <2> QED BY <2>0, <2>1 DEF Listed
<1> QED BY <1>2, <1>6

(* Part i of a signature is the one of the key pair's FORS instance.         *)
ForsPartRight(c, t, l, i, x, part) ==
  /\ part.sk = ForsSecret(c, t, l, i, x)
  /\ \A h \in 0..(ForsHeight - 1) : part.auth[h] = ForsTreeOf(c, t, l, i)[h][Sibling(Shr(x, h))]

(* A part comes to the root of its FORS tree exactly if it is the right one. *)
LEMMA OpenRootIff ==
  ASSUME NEW c, NEW c2, c.rc = c2.rc, NEW t, NEW l, NEW part, NEW i \in Nat,
         NEW x \in 0..(Pow2[ForsHeight] - 1)
  PROVE  OpenRoot(c, t, l, part, i, x) = ForsTop(c2, t, l, i)
           <=> ForsPartRight(c2, t, l, i, x, part)
<1> DEFINE base == ForsBase(t, l)
           off == IdxOffset(i)
           addr == At(base, 0, x + off)
           row == ForsRow(c2, off, base)
           leaf == Thash(c, addr, part.sk)
<1>1. ForsHeight \in Nat /\ off \in Nat /\ x \in Nat
  <2>1. Pow2[ForsHeight] \in Nat BY SizesAssumption, Pow2Recursion
  <2> QED BY <2>1, SizesAssumption, IdxOffsetNat
<1>2. Alike(addr, base)
  <2> HIDE DEF base, off
  <2> QED BY ForsAlike DEF base
<1>3. ComputeRoot(c, leaf, x, off, part.auth, ForsHeight, addr)
        = Tree(c2, ForsHeight, off, base, row)[ForsHeight][0]
        <=> /\ leaf = row[x]
            /\ \A h \in 0..(ForsHeight - 1) :
                 part.auth[h] = Tree(c2, ForsHeight, off, base, row)[h][Sibling(Shr(x, h))]
  <2> HIDE DEF base, off, addr, row, leaf
  <2> QED BY <1>1, <1>2, ClimbIff
<1>4. leaf = row[x] <=> part.sk = ForsSecret(c2, t, l, i, x)
  <2>1. off + x = x + off
    <3> HIDE DEF off
    <3> QED BY <1>1
  <2>2. row[x] = Thash(c2, addr, PrfAddr(c2, addr)) BY <2>1 DEF ForsRow, ForsLeaf
  <2>3. leaf = Thash(c2, addr, PrfAddr(c2, addr)) <=> part.sk = PrfAddr(c2, addr)
    <3> HIDE DEF addr
    <3> QED BY ThashInjective
  <2> HIDE DEF leaf, row
  <2> QED BY <2>2, <2>3 DEF ForsSecret
<1> HIDE DEF leaf, row, base, off, addr
<1> QED BY <1>3, <1>4 DEF OpenRoot, ForsTop, ForsTreeOf, ForsPartRight, leaf, row, base, off, addr

(* fors_pk_from_sig comes to the FORS key exactly if every part is right.    *)
LEMMA ForsOpens ==
  ASSUME NEW c, NEW c2, c.rc = c2.rc, NEW t, NEW l, NEW dg \in Digests, NEW sig
  PROVE  ForsPkFromSig(c, sig, dg.md, ForsAddrOf(t, l)) = ForsPk(c2, t, l)
           <=> \A i \in 0..(ForsTrees - 1) :
                 ForsPartRight(c2, t, l, i, Indices(dg.md)[i], sig[i + 1])
<1> DEFINE Right(i) == ForsPartRight(c2, t, l, i, Indices(dg.md)[i], sig[i + 1])
           r1 == OpenRoots(c, t, l, sig, dg.md)
           r2 == ForsRoots(c2, t, l)
<1>1. ForsPkFromSig(c, sig, dg.md, ForsAddrOf(t, l)) = ForsPk(c2, t, l) <=> r1 = r2
  <2> HIDE DEF r1, r2
  <2> QED BY ForsOpenIs, ThashInjective DEF ForsPk, r1, r2
<1>2. r1 = r2 <=> \A i \in 1..ForsTrees : r1[i] = r2[i] BY DEF OpenRoots, ForsRoots
<1>3. ASSUME NEW i \in 1..ForsTrees PROVE r1[i] = r2[i] <=> Right(i - 1)
  <2>1. i - 1 \in 0..(ForsTrees - 1) /\ i - 1 \in Nat /\ (i - 1) + 1 = i BY SizesAssumption
  <2>2. PICK j : j = i - 1 OBVIOUS
  <2>3. Indices(dg.md)[j] \in 0..(Pow2[ForsHeight] - 1) BY <2>1, <2>2, IndexRange
  <2>4. r1[i] = OpenRoot(c, t, l, sig[i], j, Indices(dg.md)[j]) BY <2>2 DEF OpenRoots
  <2>5. r2[i] = ForsTop(c2, t, l, j) BY <2>2 DEF ForsRoots
  <2> HIDE DEF r1, r2
  <2>6. r1[i] = r2[i] <=> ForsPartRight(c2, t, l, j, Indices(dg.md)[j], sig[i])
    BY <2>1, <2>2, <2>3, <2>4, <2>5, OpenRootIff
  <2> QED BY <2>1, <2>2, <2>6
<1>4. (\A i \in 1..ForsTrees : Right(i - 1)) <=> (\A i \in 0..(ForsTrees - 1) : Right(i))
  <2> HIDE DEF Right
  <2>1. \A i \in 1..ForsTrees : i - 1 \in 0..(ForsTrees - 1) BY SizesAssumption
  <2>2. \A i \in 0..(ForsTrees - 1) : i + 1 \in 1..ForsTrees /\ (i + 1) - 1 = i
    BY SizesAssumption
  <2> QED BY <2>1, <2>2
<1> HIDE DEF Right, r1, r2
<1>5. r1 = r2 <=> \A i \in 0..(ForsTrees - 1) : Right(i) BY <1>2, <1>3, <1>4
<1> QED BY <1>1, <1>5 DEF Right

-----------------------------------------------------------------------------
(* The tree and the leaf of layer k on the way from leaf l of tree t up.     *)
TreeOn(t, k) == Shr(t, TreeHeight * k)
LeafOn(t, l, k) == IF k = 0 THEN l ELSE Shr(t, TreeHeight * (k - 1)) % Pow2[TreeHeight]
RootOn(c, root, t, k) == IF k = 0 THEN root ELSE TopOf(c, k - 1, TreeOn(t, k - 1))
HyperPart(c, root, t, l, k) ==
  [wots |-> WotsSign(c, WotsAddr(k, TreeOn(t, k), LeafOn(t, l, k)), RootOn(c, root, t, k)),
   auth |-> AuthPath(TreeOf(c, k, TreeOn(t, k)), TreeHeight, LeafOn(t, l, k))]
HyperSig(c, root, t, l) == [k \in 1..D |-> HyperPart(c, root, t, l, k - 1)]
HyperHashes(c, t, n) == UNION {NodeSet(TreeOf(c, k, TreeOn(t, k))) : k \in 0..(n - 1)}

(* The height of a number of layers is a natural number.                     *)
LEMMA LayerNat == ASSUME NEW k \in Nat PROVE TreeHeight * k \in Nat
<1>1. TreeHeight \in Nat BY SizesAssumption
<1> QED BY <1>1, TimesNat

(* From one layer to the next: the bits of the tree index split into the     *)
(* tree and the leaf above.                                                  *)
LEMMA UpLayers ==
  ASSUME NEW t \in Nat, NEW k \in Nat, NEW l
  PROVE  /\ TreeOn(t, 0) = t /\ LeafOn(t, l, 0) = l
         /\ TreeOn(t, k) \in Nat
         /\ NextTree(TreeOn(t, k)) = TreeOn(t, k + 1)
         /\ NextLeaf(TreeOn(t, k)) = LeafOn(t, l, k + 1)
         /\ TreeOn(t, k) = TreeOn(t, k + 1) * Pow2[TreeHeight] + LeafOn(t, l, k + 1)
         /\ LeafOn(t, l, k + 1) \in 0..(Pow2[TreeHeight] - 1)
<1>1. TreeHeight \in Nat /\ TreeHeight * k \in Nat BY SizesAssumption, LayerNat
<1>2. TreeHeight * 0 = 0 BY <1>1
<1>3. TreeOn(t, 0) = t BY <1>2, ShrNone DEF TreeOn
<1>4. TreeOn(t, k) \in Nat BY <1>1, ShrHalves DEF TreeOn
<1>5. TreeHeight * (k + 1) = TreeHeight * k + TreeHeight BY <1>1
<1>6. Shr(Shr(t, TreeHeight * k), TreeHeight) = Shr(t, TreeHeight * k + TreeHeight)
  BY <1>1, ShrSum
<1>7. NextTree(TreeOn(t, k)) = TreeOn(t, k + 1) BY <1>5, <1>6 DEF NextTree, TreeOn
<1>8. LeafOn(t, l, k + 1) = TreeOn(t, k) % Pow2[TreeHeight]
  <2>1. k + 1 # 0 /\ (k + 1) - 1 = k OBVIOUS
  <2> QED BY <2>1 DEF LeafOn, TreeOn
<1>9. Pow2[TreeHeight] \in Nat \ {0} BY <1>1, Pow2Recursion
<1>10. TreeOn(t, k + 1) = TreeOn(t, k) \div Pow2[TreeHeight] BY <1>7 DEF NextTree, Shr
<1>11. PICK x : x = TreeOn(t, k) OBVIOUS
<1>12. /\ x % Pow2[TreeHeight] \in 0..(Pow2[TreeHeight] - 1)
       /\ x = (x \div Pow2[TreeHeight]) * Pow2[TreeHeight] + (x % Pow2[TreeHeight])
  BY <1>4, <1>9, <1>11, SplitAt
<1>13. NextLeaf(TreeOn(t, k)) = LeafOn(t, l, k + 1) BY <1>8 DEF NextLeaf
<1>14. LeafOn(t, l, 0) = l BY DEF LeafOn
<1> QED BY <1>3, <1>4, <1>7, <1>8, <1>10, <1>11, <1>12, <1>13, <1>14

(* crypto_sign computes the trees on the way up and their signatures.        *)
LEMMA HyperSignIs ==
  ASSUME NEW c, NEW root, NEW t \in Nat, NEW l
  PROVE  /\ HypertreeSign(c, root, t, l).sig = HyperSig(c, root, t, l)
         /\ HypertreeSign(c, root, t, l).hashes = HyperHashes(c, t, D)
<1>1. D \in Nat BY SizesAssumption
<1>2. PICK g : /\ g[0] = HyperSignStart(root, t, l)
               /\ \A k \in 1..D : g[k] = HyperSignTurn(c, k - 1, g[k - 1])
               /\ HypertreeSign(c, root, t, l) = g[D]
  BY <1>1, HyperSignLoop
<1> DEFINE S == {n \in Nat : n <= D =>
                   /\ g[n].root = RootOn(c, root, t, n)
                   /\ g[n].tree = TreeOn(t, n) /\ g[n].leaf = LeafOn(t, l, n)
                   /\ Listed(g[n].sig, n, HyperSig(c, root, t, l))
                   /\ g[n].hashes = HyperHashes(c, t, n)}
<1>3. 0 \in S
  <2>1. /\ g[0].root = root /\ g[0].tree = t /\ g[0].leaf = l
        /\ g[0].sig = <<>> /\ g[0].hashes = {}
    BY <1>2 DEF HyperSignStart
  <2>2. HyperHashes(c, t, 0) = {} BY DEF HyperHashes
  <2>3. RootOn(c, root, t, 0) = root BY DEF RootOn
  <2>4. TreeOn(t, 0) = t /\ LeafOn(t, l, 0) = l BY UpLayers
  <2> QED BY <2>1, <2>2, <2>3, <2>4, ListedNone
<1>4. ASSUME NEW n \in Nat, n \in S PROVE n + 1 \in S
  <2> SUFFICES ASSUME n + 1 <= D
               PROVE  /\ g[n + 1].root = RootOn(c, root, t, n + 1)
                      /\ g[n + 1].tree = TreeOn(t, n + 1) /\ g[n + 1].leaf = LeafOn(t, l, n + 1)
                      /\ Listed(g[n + 1].sig, n + 1, HyperSig(c, root, t, l))
                      /\ g[n + 1].hashes = HyperHashes(c, t, n + 1)
    OBVIOUS
  <2>1. /\ g[n].root = RootOn(c, root, t, n)
        /\ g[n].tree = TreeOn(t, n) /\ g[n].leaf = LeafOn(t, l, n)
        /\ Listed(g[n].sig, n, HyperSig(c, root, t, l))
        /\ g[n].hashes = HyperHashes(c, t, n)
    BY <1>1, <1>4
  <2> HIDE DEF S
  <2>2. n + 1 \in 1..D /\ (n + 1) - 1 = n /\ n + 1 # 0 BY <1>1
  <2>3. g[n + 1] = HyperSignTurn(c, n, g[n]) BY <1>2, <2>2
  <2>4. Nodes(c, WotsGenLeaf, TreeHeight, 0, TreeAddr(n, TreeOn(t, n))) = TreeOf(c, n, TreeOn(t, n))
    BY SizesAssumption, WotsNodes DEF TreeOf
  <2>5. /\ g[n + 1].root = TopOf(c, n, TreeOn(t, n))
        /\ g[n + 1].tree = NextTree(TreeOn(t, n)) /\ g[n + 1].leaf = NextLeaf(TreeOn(t, n))
        /\ g[n + 1].sig = Append(g[n].sig, HyperPart(c, root, t, l, n))
        /\ g[n + 1].hashes = g[n].hashes \cup NodeSet(TreeOf(c, n, TreeOn(t, n)))
    <3>1. g[n + 1] = [root |-> TopOf(c, n, TreeOn(t, n)),
                      leaf |-> NextLeaf(TreeOn(t, n)), tree |-> NextTree(TreeOn(t, n)),
                      sig |-> Append(g[n].sig, HyperPart(c, root, t, l, n)),
                      hashes |-> g[n].hashes \cup NodeSet(TreeOf(c, n, TreeOn(t, n)))]
      BY <2>1, <2>3, <2>4, Zenon DEF HyperSignTurn, HyperPart, TopOf
    <3> QED BY <3>1
  <2>6. HyperPart(c, root, t, l, n) = HyperSig(c, root, t, l)[n + 1] BY <2>2 DEF HyperSig
  <2>7. Listed(g[n + 1].sig, n + 1, HyperSig(c, root, t, l))
    BY <2>1, <2>5, <2>6, ListedAppend
  <2>8. HyperHashes(c, t, n + 1) = HyperHashes(c, t, n) \cup NodeSet(TreeOf(c, n, TreeOn(t, n)))
    <3>1. \A i : i \in 0..((n + 1) - 1) <=> i \in 0..(n - 1) \/ i = n OBVIOUS
    <3> QED BY <3>1 DEF HyperHashes
  <2>9. NextTree(TreeOn(t, n)) = TreeOn(t, n + 1) /\ NextLeaf(TreeOn(t, n)) = LeafOn(t, l, n + 1)
    BY UpLayers
  <2>10. RootOn(c, root, t, n + 1) = TopOf(c, n, TreeOn(t, n)) BY <2>2 DEF RootOn
  <2> QED BY <2>1, <2>5, <2>7, <2>8, <2>9, <2>10
<1>5. D \in S
  <2>1. Nat \subseteq S
    <3> HIDE DEF S
    <3> QED BY <1>3, <1>4, SetInduction
  <2> QED BY <1>1, <2>1
<1>6. /\ Listed(g[D].sig, D, HyperSig(c, root, t, l)) /\ g[D].hashes = HyperHashes(c, t, D)
  BY <1>1, <1>5
<1>7. HyperSig(c, root, t, l) = [k \in 1..D |-> HyperSig(c, root, t, l)[k]] BY DEF HyperSig
<1> HIDE DEF S
<1> QED BY <1>2, <1>6, <1>7 DEF Listed

-----------------------------------------------------------------------------
(* A part of a signature is the one that leads root to the root of its tree. *)
LayerRight(c, k, tree, leaf, root, part) ==
  /\ part.wots.rc = c.rc /\ part.wots.key = WotsKey(WotsAddr(k, tree, leaf))
  /\ part.wots.msg = root /\ part.wots.secret = c.rcSseed
  /\ \A h \in 0..(TreeHeight - 1) : part.auth[h] = TreeOf(c, k, tree)[h][Sibling(Shr(leaf, h))]

(* One turn of the loop of crypto_sign_open over the layers.                 *)
LayerTop(c, k, tree, leaf, root, part) ==
  ComputeRoot(c, Thash(c, CopyKeypair(OfType("wotspk"), WotsAddr(k, tree, leaf)),
                       WotsPkFromSig(c, WotsAddr(k, tree, leaf), part.wots, root)),
              leaf, 0, part.auth, TreeHeight, TreeAddr(k, tree))

(* A hash value is not what a signature is altered with.                     *)
LEMMA ThashNotJunk == ASSUME NEW c, NEW a, NEW x PROVE Thash(c, a, x) # Junk
<1>1. "in" \in DOMAIN Thash(c, a, x) BY DEF Thash
<1>2. "in" \notin DOMAIN Junk BY DEF Junk
<1> QED BY <1>1, <1>2

(* A one-time public key is not what a signature is altered with.            *)
LEMMA WotsPkJunk ==
  ASSUME NEW rc0, NEW s, NEW a
  PROVE  WotsPk(rc0, s, a) # Junk
<1>1. "rc" \in DOMAIN WotsPk(rc0, s, a) BY DEF WotsPk
<1>2. "rc" \notin DOMAIN Junk BY DEF Junk
<1> QED BY <1>1, <1>2

(* A leaf of a tree of the hypertree is the hash of its one-time public key. *)
LEMMA WotsRowIs ==
  ASSUME NEW c, NEW k, NEW t, NEW f \in 0..(Pow2[TreeHeight] - 1)
  PROVE  WotsRow(c, TreeAddr(k, t))[f]
           = Thash(c, CopyKeypair(OfType("wotspk"), WotsAddr(k, t, f)),
                   WotsPk(c.rc, c.rcSseed, WotsAddr(k, t, f)))
<1>1. WotsRow(c, TreeAddr(k, t))[f] = WotsGenLeaf(c, f, TreeAddr(k, t)) BY DEF WotsRow
<1> QED BY <1>1, Zenon DEF WotsGenLeaf, WotsAddr

(* A layer comes to the root of its tree exactly if its part and the root    *)
(* below are right.                                                          *)
LEMMA LayerIff ==
  ASSUME NEW c, NEW c2, c.rc = c2.rc, NEW k, NEW t,
         NEW f \in 0..(Pow2[TreeHeight] - 1), NEW root, NEW part
  PROVE  LayerTop(c, k, t, f, root, part) = TopOf(c2, k, t)
           <=> LayerRight(c2, k, t, f, root, part)
<1> DEFINE base == TreeAddr(k, t)
           row == WotsRow(c2, base)
           wa == WotsAddr(k, t, f)
           ca == CopyKeypair(OfType("wotspk"), wa)
           pk == WotsPkFromSig(c, wa, part.wots, root)
           leaf == Thash(c, ca, pk)
<1>1. TreeHeight \in Nat BY SizesAssumption
<1>2. ComputeRoot(c, leaf, f, 0, part.auth, TreeHeight, base)
        = Tree(c2, TreeHeight, 0, base, row)[TreeHeight][0]
        <=> /\ leaf = row[f]
            /\ \A h \in 0..(TreeHeight - 1) :
                 part.auth[h] = Tree(c2, TreeHeight, 0, base, row)[h][Sibling(Shr(f, h))]
  <2>1. Alike(base, base) BY AlikeSelf
  <2> HIDE DEF base, row, leaf
  <2>2. PICK z : z = 0 OBVIOUS
  <2>3. ComputeRoot(c, leaf, f, z, part.auth, TreeHeight, base)
          = Tree(c2, TreeHeight, z, base, row)[TreeHeight][0]
          <=> /\ leaf = row[f]
              /\ \A h \in 0..(TreeHeight - 1) :
                   part.auth[h] = Tree(c2, TreeHeight, z, base, row)[h][Sibling(Shr(f, h))]
    BY <1>1, <2>1, <2>2, ClimbIff
  <2> QED BY <2>2, <2>3
<1>3. row[f] = Thash(c2, ca, WotsPk(c2.rc, c2.rcSseed, wa)) BY WotsRowIs
<1>4. leaf = row[f] <=> pk = WotsPk(c2.rc, c2.rcSseed, wa)
  <2> HIDE DEF row, ca, pk
  <2> QED BY <1>3, ThashInjective
<1>5. pk = WotsPk(c2.rc, c2.rcSseed, wa)
        <=> /\ part.wots.rc = c2.rc /\ part.wots.key = WotsKey(wa)
            /\ part.wots.msg = root /\ part.wots.secret = c2.rcSseed
  <2> DEFINE ok == part.wots.rc = c.rc /\ part.wots.key = WotsKey(wa) /\ part.wots.msg = root
  <2>1. ok => pk = WotsPk(c.rc, part.wots.secret, wa) BY DEF WotsPkFromSig
  <2>2. ~ ok => pk = Junk BY DEF WotsPkFromSig
  <2>3. WotsPk(c2.rc, c2.rcSseed, wa) # Junk BY WotsPkJunk
  <2>4. WotsPk(c.rc, part.wots.secret, wa) = WotsPk(c2.rc, c2.rcSseed, wa)
          <=> part.wots.secret = c2.rcSseed
    <3> HIDE DEF wa
    <3>1. /\ WotsPk(c.rc, part.wots.secret, wa).secret = part.wots.secret
          /\ WotsPk(c2.rc, c2.rcSseed, wa).secret = c2.rcSseed
      BY DEF WotsPk
    <3> QED BY <3>1
  <2> HIDE DEF pk, wa
  <2> QED BY <2>1, <2>2, <2>3, <2>4
<1> HIDE DEF leaf, row, pk, ca
<1> QED BY <1>2, <1>4, <1>5 DEF LayerTop, LayerRight, TopOf, TreeOf, leaf, row, pk, ca

(* What a turn leaves is a hash value.                                       *)
LEMMA LayerHash ==
  ASSUME NEW c, NEW k, NEW t, NEW f, NEW root, NEW part
  PROVE  LayerTop(c, k, t, f, root, part) # Junk
<1> DEFINE base == TreeAddr(k, t)
           leaf == Thash(c, CopyKeypair(OfType("wotspk"), WotsAddr(k, t, f)),
                         WotsPkFromSig(c, WotsAddr(k, t, f), part.wots, root))
<1>1. TreeHeight \in Nat /\ TreeHeight \in 1..TreeHeight BY SizesAssumption
<1>2. Alike(base, base) BY AlikeSelf
<1>3. LayerTop(c, k, t, f, root, part) = ComputeRoot(c, leaf, f, 0, part.auth, TreeHeight, base)
  BY DEF LayerTop
<1> HIDE DEF base, leaf
<1>4. PICK g : /\ \A h \in 1..TreeHeight : g[h] = ClimbTurn(c, f, 0, part.auth, base, h, g[h - 1])
               /\ ComputeRoot(c, leaf, f, 0, part.auth, TreeHeight, base) = g[TreeHeight]
  BY <1>1, <1>2, ClimbRun
<1>5. g[TreeHeight] = ClimbTurn(c, f, 0, part.auth, base, TreeHeight, g[TreeHeight - 1])
  BY <1>1, <1>4
<1> QED BY <1>3, <1>4, <1>5, ThashNotJunk DEF ClimbTurn

(* The loop of crypto_sign_open over the layers, as it climbs.               *)
LEMMA HyperClimb ==
  ASSUME NEW c, NEW root, NEW t \in Nat, NEW l \in 0..(Pow2[TreeHeight] - 1), NEW sig
  PROVE  /\ \A k \in 0..D : LeafOn(t, l, k) \in 0..(Pow2[TreeHeight] - 1)
         /\ \E R : /\ R[0] = root
                   /\ \A k \in 0..(D - 1) :
                        R[k + 1] = LayerTop(c, k, TreeOn(t, k), LeafOn(t, l, k), R[k], sig[k + 1])
                   /\ HypertreeRoot(c, sig, root, t, l) = R[D]
<1>1. D \in Nat \ {0} BY SizesAssumption
<1>2. PICK g : /\ g[0] = HyperOpenStart(root, t, l)
               /\ \A k \in 1..D : g[k] = HyperOpenTurn(c, sig, k - 1, g[k - 1])
               /\ HypertreeRoot(c, sig, root, t, l) = g[D].root
  BY <1>1, HyperOpenLoop
<1> DEFINE R == [n \in 0..D |-> g[n].root]
           S == {n \in Nat : n <= D => g[n].tree = TreeOn(t, n) /\ g[n].leaf = LeafOn(t, l, n)}
<1>3. ASSUME NEW n \in Nat, n + 1 <= D,
             g[n].tree = TreeOn(t, n), g[n].leaf = LeafOn(t, l, n)
      PROVE  /\ g[n + 1].root
                  = LayerTop(c, n, TreeOn(t, n), LeafOn(t, l, n), g[n].root, sig[n + 1])
             /\ g[n + 1].tree = TreeOn(t, n + 1) /\ g[n + 1].leaf = LeafOn(t, l, n + 1)
  <2>1. n + 1 \in 1..D /\ (n + 1) - 1 = n BY <1>1, <1>3
  <2>2. g[n + 1] = HyperOpenTurn(c, sig, n, g[n]) BY <1>2, <2>1
  <2>3. g[n + 1] = [root |-> LayerTop(c, n, g[n].tree, g[n].leaf, g[n].root, sig[n + 1]),
                    leaf |-> NextLeaf(g[n].tree), tree |-> NextTree(g[n].tree)]
    BY <2>2, Zenon DEF HyperOpenTurn, LayerTop
  <2>4. NextTree(TreeOn(t, n)) = TreeOn(t, n + 1) /\ NextLeaf(TreeOn(t, n)) = LeafOn(t, l, n + 1)
    BY UpLayers
  <2> QED BY <1>3, <2>3, <2>4
<1>4. 0 \in S
  <2>1. g[0].tree = t /\ g[0].leaf = l BY <1>2 DEF HyperOpenStart
  <2>2. TreeOn(t, 0) = t /\ LeafOn(t, l, 0) = l BY UpLayers
  <2> QED BY <2>1, <2>2
<1>5. ASSUME NEW n \in Nat, n \in S PROVE n + 1 \in S
  <2> SUFFICES ASSUME n + 1 <= D
               PROVE  g[n + 1].tree = TreeOn(t, n + 1) /\ g[n + 1].leaf = LeafOn(t, l, n + 1)
    OBVIOUS
  <2>1. g[n].tree = TreeOn(t, n) /\ g[n].leaf = LeafOn(t, l, n) BY <1>1, <1>5
  <2> HIDE DEF S
  <2> QED BY <2>1, <1>3
<1>6. \A n \in Nat : n <= D => g[n].tree = TreeOn(t, n) /\ g[n].leaf = LeafOn(t, l, n)
  <2>1. Nat \subseteq S
    <3> HIDE DEF S
    <3> QED BY <1>4, <1>5, SetInduction
  <2> QED BY <2>1
<1> HIDE DEF S
<1>7. R[0] = root BY <1>1, <1>2 DEF HyperOpenStart
<1>8. ASSUME NEW k \in 0..(D - 1)
      PROVE  R[k + 1] = LayerTop(c, k, TreeOn(t, k), LeafOn(t, l, k), R[k], sig[k + 1])
  <2>1. k \in Nat /\ k + 1 <= D /\ k <= D /\ k \in 0..D /\ k + 1 \in 0..D BY <1>1
  <2>2. R[k] = g[k].root /\ R[k + 1] = g[k + 1].root BY <2>1
  <2>3. g[k].tree = TreeOn(t, k) /\ g[k].leaf = LeafOn(t, l, k) BY <2>1, <1>6
  <2> HIDE DEF R
  <2> QED BY <2>1, <2>2, <2>3, <1>3
<1>9. ASSUME NEW k \in 0..D PROVE LeafOn(t, l, k) \in 0..(Pow2[TreeHeight] - 1)
  <2>1. CASE k = 0 BY <2>1 DEF LeafOn
  <2>2. CASE k # 0
    <3>1. k - 1 \in Nat /\ (k - 1) + 1 = k BY <1>1, <2>2
    <3>2. LeafOn(t, l, (k - 1) + 1) \in 0..(Pow2[TreeHeight] - 1) BY <3>1, UpLayers
    <3> QED BY <3>1, <3>2
  <2> QED BY <2>1, <2>2
<1>10. HypertreeRoot(c, sig, root, t, l) = R[D] BY <1>1, <1>2
<1> HIDE DEF R
<1> QED BY <1>7, <1>8, <1>9, <1>10

(* crypto_sign_open comes from a FORS public key to the root of the top tree *)
(* exactly if that key and every part of the hypertree signature are the     *)
(* signer's -- provided each one-time signature is of the value the signer   *)
(* signed or of none that is hashed.                                         *)
LEMMA HyperOpens ==
  ASSUME NEW c, NEW c2, c.rc = c2.rc, NEW root, root # Junk, NEW pk,
         NEW t \in Nat, NEW l \in 0..(Pow2[TreeHeight] - 1), NEW sig,
         \A k \in 0..(D - 1) : sig[k + 1].wots.msg \in {RootOn(c2, pk, t, k), Junk}
  PROVE  HypertreeRoot(c, sig, root, t, l) = TopOf(c2, D - 1, TreeOn(t, D - 1))
           <=> /\ root = pk
               /\ \A k \in 0..(D - 1) :
                    LayerRight(c2, k, TreeOn(t, k), LeafOn(t, l, k), RootOn(c2, pk, t, k),
                               sig[k + 1])
<1> DEFINE Right(k) ==
             LayerRight(c2, k, TreeOn(t, k), LeafOn(t, l, k), RootOn(c2, pk, t, k), sig[k + 1])
<1>1. D \in Nat \ {0} BY SizesAssumption
<1>2. PICK R : /\ R[0] = root
               /\ \A k \in 0..(D - 1) :
                    R[k + 1] = LayerTop(c, k, TreeOn(t, k), LeafOn(t, l, k), R[k], sig[k + 1])
               /\ HypertreeRoot(c, sig, root, t, l) = R[D]
  BY HyperClimb
<1> DEFINE S == {n \in Nat : n <= D =>
                   /\ R[n] # Junk
                   /\ R[n] = RootOn(c2, pk, t, n) <=> root = pk /\ \A k \in 0..(n - 1) : Right(k)}
<1>3. 0 \in S
  <2>1. RootOn(c2, pk, t, 0) = pk BY DEF RootOn
  <2>2. 0..(0 - 1) = {} OBVIOUS
  <2> HIDE DEF Right
  <2> QED BY <1>2, <2>1, <2>2
<1>4. ASSUME NEW n \in Nat, n \in S PROVE n + 1 \in S
  <2> SUFFICES ASSUME n + 1 <= D
               PROVE  /\ R[n + 1] # Junk
                      /\ R[n + 1] = RootOn(c2, pk, t, n + 1)
                           <=> root = pk /\ \A k \in 0..n : Right(k)
    OBVIOUS
  <2>1. /\ R[n] # Junk
        /\ R[n] = RootOn(c2, pk, t, n) <=> root = pk /\ \A k \in 0..(n - 1) : Right(k)
    <3> HIDE DEF Right
    <3> QED BY <1>1, <1>4
  <2> HIDE DEF S
  <2>2. n + 1 \in 1..D /\ (n + 1) - 1 = n /\ n + 1 # 0 /\ n \in 0..(D - 1) /\ n \in 0..D
    BY <1>1
  <2>3. PICK x, T, F : x = R[n] /\ T = TreeOn(t, n) /\ F = LeafOn(t, l, n) OBVIOUS
  <2>4. R[n + 1] = LayerTop(c, n, T, F, x, sig[n + 1]) BY <1>2, <2>2, <2>3
  <2>5. F \in 0..(Pow2[TreeHeight] - 1) BY <2>2, <2>3, HyperClimb
  <2>6. R[n + 1] = TopOf(c2, n, T) <=> LayerRight(c2, n, T, F, x, sig[n + 1])
    BY <2>4, <2>5, LayerIff
  <2>7. RootOn(c2, pk, t, n + 1) = TopOf(c2, n, T) BY <2>2, <2>3 DEF RootOn
  <2>8. R[n + 1] # Junk BY <2>4, LayerHash
  <2>9. LayerRight(c2, n, T, F, x, sig[n + 1]) <=> x = RootOn(c2, pk, t, n) /\ Right(n)
    <3>1. sig[n + 1].wots.msg \in {RootOn(c2, pk, t, n), Junk} BY <2>2
    <3>2. LayerRight(c2, n, T, F, x, sig[n + 1]) => x = RootOn(c2, pk, t, n)
      BY <3>1, <2>1, <2>3 DEF LayerRight
    <3> QED BY <3>2, <2>3
  <2>10. (\A k \in 0..n : Right(k)) <=> (\A k \in 0..(n - 1) : Right(k)) /\ Right(n)
    <3> HIDE DEF Right
    <3>1. \A k : k \in 0..n <=> k \in 0..(n - 1) \/ k = n OBVIOUS
    <3> QED BY <3>1
  <2> HIDE DEF Right
  <2> QED BY <2>1, <2>3, <2>6, <2>7, <2>8, <2>9, <2>10
<1>5. D \in S
  <2>1. Nat \subseteq S
    <3> HIDE DEF S
    <3> QED BY <1>3, <1>4, SetInduction
  <2> QED BY <1>1, <2>1
<1>6. R[D] = RootOn(c2, pk, t, D) <=> root = pk /\ \A k \in 0..(D - 1) : Right(k)
  <2> HIDE DEF Right
  <2> QED BY <1>1, <1>5
<1>7. RootOn(c2, pk, t, D) = TopOf(c2, D - 1, TreeOn(t, D - 1)) BY <1>1 DEF RootOn
<1> HIDE DEF S
<1> QED BY <1>2, <1>6, <1>7

(* It comes to the top root of no key pair but the one whose constants the   *)
(* topmost one-time signature was made with.                                 *)
LEMMA HyperConstants ==
  ASSUME NEW c, NEW c2, c.rc = c2.rc, NEW root,
         NEW t \in Nat, NEW l \in 0..(Pow2[TreeHeight] - 1), NEW sig,
         HypertreeRoot(c, sig, root, t, l) = TopOf(c2, D - 1, TreeOn(t, D - 1))
  PROVE  sig[D].wots.rc = c2.rc
<1>1. D \in Nat \ {0} /\ D - 1 \in 0..(D - 1) /\ D - 1 \in 0..D /\ (D - 1) + 1 = D
  BY SizesAssumption
<1>2. PICK R : /\ \A k \in 0..(D - 1) :
                    R[k + 1] = LayerTop(c, k, TreeOn(t, k), LeafOn(t, l, k), R[k], sig[k + 1])
               /\ HypertreeRoot(c, sig, root, t, l) = R[D]
  BY HyperClimb
<1>3. PICK k, x, T, F : /\ k = D - 1 /\ x = R[k] /\ T = TreeOn(t, k)
                        /\ F = LeafOn(t, l, k)
  OBVIOUS
<1>4. R[D] = LayerTop(c, k, T, F, x, sig[D]) BY <1>1, <1>2, <1>3
<1>5. F \in 0..(Pow2[TreeHeight] - 1) BY <1>1, <1>3, HyperClimb
<1>6. LayerTop(c, k, T, F, x, sig[D]) = TopOf(c2, k, T) BY <1>2, <1>3, <1>4
<1>7. LayerRight(c2, k, T, F, x, sig[D]) BY <1>5, <1>6, LayerIff
<1> QED BY <1>7 DEF LayerRight

-----------------------------------------------------------------------------
(* What crypto_sign returns for a digest dg.                                 *)
Signed(k, r, m, dg) ==
  [key |-> k, r |-> r, msg |-> m,
   fors |-> ForsSig(Seeded(k), TreeBits(dg), LeafBits(dg), dg.md),
   hyper |-> HyperSig(Seeded(k), ForsPk(Seeded(k), TreeBits(dg), LeafBits(dg)),
                      TreeBits(dg), LeafBits(dg))]

(* Every part of a signature is the one crypto_sign made for a digest.       *)
ForsRight(c, dg, fors) ==
  \A i \in 0..(ForsTrees - 1) :
    ForsPartRight(c, TreeBits(dg), LeafBits(dg), i, Indices(dg.md)[i], fors[i + 1])
HyperRight(c, dg, hyper) ==
  \A j \in 0..(D - 1) :
    LayerRight(c, j, TreeOn(TreeBits(dg), j), LeafOn(TreeBits(dg), LeafBits(dg), j),
               RootOn(c, ForsPk(c, TreeBits(dg), LeafBits(dg)), TreeBits(dg), j), hyper[j + 1])

(* What crypto_sign_open compares with the root in the public key.           *)
OpenedRoot(c, sm, dg) ==
  HypertreeRoot(c, sm.hyper, ForsPkFromSig(c, sm.fors, dg.md,
                                           ForsAddrOf(TreeBits(dg), LeafBits(dg))),
                TreeBits(dg), LeafBits(dg))

(* The tree and the leaf a digest selects exist, and the tree on the top     *)
(* layer is tree 0.                                                          *)
LEMMA DigestPlace ==
  ASSUME NEW dg \in Digests
  PROVE  /\ TreeBits(dg) \in Nat /\ TreeBits(dg) < Pow2[TreeHeight * (D - 1)]
         /\ TreeBits(dg) \in 0..(Pow2[TreeHeight * (D - 1)] - 1)
         /\ LeafBits(dg) \in 0..(Pow2[TreeHeight] - 1)
         /\ TreeOn(TreeBits(dg), D - 1) = 0
<1>1. TreeHeight \in Nat /\ D - 1 \in Nat BY SizesAssumption
<1>2. TreeHeight * (D - 1) \in Nat BY <1>1, LayerNat
<1>3. PICK p, q : p = Pow2[TreeHeight * (D - 1)] /\ q = Pow2[TreeHeight] OBVIOUS
<1>4. p \in Nat \ {0} /\ q \in Nat \ {0} BY <1>1, <1>2, <1>3, Pow2Recursion
<1>5. dg.tree \in Nat /\ dg.leaf \in Nat BY DigestsAssumption
<1>6. PICK x, y : x = dg.tree /\ y = dg.leaf OBVIOUS
<1>7. x % p \in 0..(p - 1) /\ y % q \in 0..(q - 1) BY <1>4, <1>5, <1>6, SplitAt
<1>8. /\ TreeBits(dg) \in Nat /\ TreeBits(dg) < p /\ TreeBits(dg) \in 0..(p - 1)
      /\ LeafBits(dg) \in 0..(q - 1)
  BY <1>3, <1>4, <1>6, <1>7 DEF TreeBits, LeafBits
<1>9. TreeOn(TreeBits(dg), D - 1) = 0 BY <1>2, <1>3, <1>8, ShrZero DEF TreeOn
<1> QED BY <1>3, <1>8, <1>9

(* The constants crypto_sign and crypto_sign_open derive from the seeds of a *)
(* key pair.                                                                 *)
LEMMA SeedsGiven ==
  ASSUME NEW k
  PROVE  /\ Tweaked(PubSeed(k), SkSeed(k)) = Seeded(k)
         /\ Tweaked(PubSeed(k), NULL).rc = Seeded(k).rc
<1>1. SkSeed(k) # NULL BY DEF SkSeed, NULL
<1> QED BY <1>1 DEF Tweaked, Seeded, TweakBase

(* Key pairs with the same constants are the same.                           *)
LEMMA OwnConstants ==
  ASSUME NEW k, NEW j, Seeded(k).rc = Seeded(j).rc
  PROVE  k = j
<1>1. Seeded(k).rc = <<Standard, PubSeed(k)>> /\ Seeded(j).rc = <<Standard, PubSeed(j)>>
  BY DEF Seeded
<1>2. \A a, b, x : <<x, a>> = <<x, b>> => a = b OBVIOUS
<1>3. PubSeed(k) = PubSeed(j)
  <2>1. <<Standard, PubSeed(k)>> = <<Standard, PubSeed(j)>> BY <1>1
  <2> QED BY <2>1, <1>2, Zenon
<1>4. PubSeed(k)[2] = k /\ PubSeed(j)[2] = j BY DEF PubSeed
<1> QED BY <1>3, <1>4

(* The root comes out exactly if every part is right.                        *)
LEMMA OpensRight ==
  ASSUME NEW k, NEW c, c.rc = Seeded(k).rc, NEW dg \in Digests, NEW sm,
         \A j \in 0..(D - 1) :
           sm.hyper[j + 1].wots.msg
             \in {RootOn(Seeded(k), ForsPk(Seeded(k), TreeBits(dg), LeafBits(dg)), TreeBits(dg), j),
                  Junk}
  PROVE  OpenedRoot(c, sm, dg) = TopOf(Seeded(k), D - 1, 0)
           <=> ForsRight(Seeded(k), dg, sm.fors) /\ HyperRight(Seeded(k), dg, sm.hyper)
<1> DEFINE c2 == Seeded(k)
           t == TreeBits(dg)
           l == LeafBits(dg)
           pk == ForsPk(c2, t, l)
           root == ForsPkFromSig(c, sm.fors, dg.md, ForsAddrOf(t, l))
           sig == sm.hyper
<1>1. t \in Nat /\ l \in 0..(Pow2[TreeHeight] - 1) /\ TreeOn(t, D - 1) = 0 BY DigestPlace
<1>2. root # Junk
  <2>1. root = Thash(c, ForsPkAddr(ForsAddrOf(t, l)), OpenRoots(c, t, l, sm.fors, dg.md))
    BY ForsOpenIs
  <2> HIDE DEF root
  <2> QED BY <2>1, ThashNotJunk
<1>3. root = pk <=> ForsRight(c2, dg, sm.fors)
  <2>1. c.rc = c2.rc OBVIOUS
  <2> HIDE DEF c2
  <2> QED BY <2>1, ForsOpens DEF ForsRight
<1>4. HypertreeRoot(c, sig, root, t, l) = TopOf(c2, D - 1, TreeOn(t, D - 1))
        <=> root = pk /\ \A j \in 0..(D - 1) :
              LayerRight(c2, j, TreeOn(t, j), LeafOn(t, l, j), RootOn(c2, pk, t, j), sig[j + 1])
  <2>1. c.rc = c2.rc OBVIOUS
  <2>2. \A j \in 0..(D - 1) : sig[j + 1].wots.msg \in {RootOn(c2, pk, t, j), Junk} OBVIOUS
  <2> HIDE DEF c2, t, l, pk, root, sig
  <2> QED BY <2>1, <2>2, <1>1, <1>2, HyperOpens
<1>5. HyperRight(c2, dg, sm.hyper)
        <=> \A j \in 0..(D - 1) :
              LayerRight(c2, j, TreeOn(t, j), LeafOn(t, l, j), RootOn(c2, pk, t, j), sig[j + 1])
  BY DEF HyperRight
<1>6. OpenedRoot(c, sm, dg) = HypertreeRoot(c, sig, root, t, l) BY DEF OpenedRoot
<1> HIDE DEF c2, t, l, pk, root, sig
<1> QED BY <1>1, <1>3, <1>4, <1>5, <1>6 DEF c2

(* The FORS part of what crypto_sign returns is right.                       *)
LEMMA ForsSigRight ==
  ASSUME NEW c, NEW dg
  PROVE  ForsRight(c, dg, ForsSig(c, TreeBits(dg), LeafBits(dg), dg.md))
<1> DEFINE t == TreeBits(dg)
           l == LeafBits(dg)
           sig == ForsSig(c, t, l, dg.md)
<1> SUFFICES ASSUME NEW i \in 0..(ForsTrees - 1)
             PROVE  ForsPartRight(c, t, l, i, Indices(dg.md)[i], sig[i + 1])
  BY DEF ForsRight
<1>1. i + 1 \in 1..ForsTrees /\ (i + 1) - 1 = i BY SizesAssumption
<1>2. PICK x : x = Indices(dg.md)[i] OBVIOUS
<1>3. sig[i + 1] = ForsSigPart(c, t, l, i, x) BY <1>1, <1>2 DEF ForsSig
<1>4. /\ sig[i + 1].sk = ForsSecret(c, t, l, i, x)
      /\ sig[i + 1].auth = AuthPath(ForsTreeOf(c, t, l, i), ForsHeight, x)
  BY <1>3 DEF ForsSigPart
<1> HIDE DEF sig, t, l
<1> QED BY <1>2, <1>4 DEF ForsPartRight, AuthPath

(* So is the hypertree part, and each one-time signature is of the root      *)
(* below.                                                                    *)
LEMMA HyperSigRight ==
  ASSUME NEW c, NEW dg
  PROVE  LET pk == ForsPk(c, TreeBits(dg), LeafBits(dg))
             sig == HyperSig(c, pk, TreeBits(dg), LeafBits(dg))
         IN  /\ HyperRight(c, dg, sig)
             /\ \A j \in 0..(D - 1) : sig[j + 1].wots.msg = RootOn(c, pk, TreeBits(dg), j)
<1> DEFINE t == TreeBits(dg)
           l == LeafBits(dg)
           pk == ForsPk(c, t, l)
           sig == HyperSig(c, pk, t, l)
<1>1. ASSUME NEW j \in 0..(D - 1)
      PROVE  /\ LayerRight(c, j, TreeOn(t, j), LeafOn(t, l, j), RootOn(c, pk, t, j), sig[j + 1])
             /\ sig[j + 1].wots.msg = RootOn(c, pk, t, j)
  <2>1. j + 1 \in 1..D /\ (j + 1) - 1 = j BY SizesAssumption
  <2>2. sig[j + 1] = HyperPart(c, pk, t, l, j)
    <3> HIDE DEF pk, t, l
    <3> QED BY <2>1 DEF HyperSig
  <2> HIDE DEF sig, pk, t, l
  <2>3. PICK T, F, x : T = TreeOn(t, j) /\ F = LeafOn(t, l, j) /\ x = RootOn(c, pk, t, j)
    OBVIOUS
  <2>4. sig[j + 1] = [wots |-> WotsSign(c, WotsAddr(j, T, F), x),
                      auth |-> AuthPath(TreeOf(c, j, T), TreeHeight, F)]
    BY <2>2, <2>3 DEF HyperPart
  <2>5. /\ sig[j + 1].wots = WotsSign(c, WotsAddr(j, T, F), x)
        /\ sig[j + 1].auth = AuthPath(TreeOf(c, j, T), TreeHeight, F)
    BY <2>4
  <2>6. /\ sig[j + 1].wots.rc = c.rc /\ sig[j + 1].wots.key = WotsKey(WotsAddr(j, T, F))
        /\ sig[j + 1].wots.msg = x /\ sig[j + 1].wots.secret = c.rcSseed
    BY <2>5 DEF WotsSign
  <2> QED BY <2>3, <2>5, <2>6 DEF LayerRight, AuthPath
<1> QED BY <1>1 DEF HyperRight

-----------------------------------------------------------------------------
(* The sibling of a node on a path is a node of the same row.                *)
LEMMA SiblingIn ==
  ASSUME NEW th \in Nat, NEW x \in 0..(Pow2[th] - 1), NEW h \in 0..(th - 1)
  PROVE  Sibling(Shr(x, h)) \in 0..(Pow2[th - h] - 1)
<1>1. /\ h + 1 \in Nat \ {0} /\ (h + 1) - 1 = h /\ h + 1 <= th /\ th - (h + 1) \in Nat
      /\ (th - (h + 1)) + 1 = th - h
  OBVIOUS
<1>2. x \in Nat /\ x < Pow2[th] BY Pow2Recursion
<1>3. Shr(x, h + 1) \in 0..(Pow2[th - (h + 1)] - 1) BY <1>1, ShrBound
<1>4. Pow2[th - h] = 2 * Pow2[th - (h + 1)] /\ Pow2[th - (h + 1)] \in Nat
  BY <1>1, Pow2Recursion
<1>5. LET y == Shr(x, (h + 1) - 1)
          z == Shr(x, h + 1)
      IN  /\ Bit(x, (h + 1) - 1) = 1 => y = 2 * z + 1 /\ Sibling(y) = 2 * z
          /\ Bit(x, (h + 1) - 1) # 1 => y = 2 * z /\ Sibling(y) = 2 * z + 1
  BY <1>1, <1>2, ParentOf
<1>6. PICK z, s : z = Shr(x, h + 1) /\ s = Sibling(Shr(x, h)) OBVIOUS
<1>7. s = 2 * z \/ s = 2 * z + 1 BY <1>1, <1>5, <1>6
<1>8. PICK p, q : p = Pow2[th - (h + 1)] /\ q = Pow2[th - h] OBVIOUS
<1>9. z \in 0..(p - 1) /\ p \in Nat /\ q = 2 * p BY <1>3, <1>4, <1>6, <1>8
<1>10. s \in 0..(q - 1) BY ONLY <1>7, <1>9
<1> QED BY <1>6, <1>8, <1>10

(* A node above the leaves, and a leaf, by its call of thash.                *)
LEMMA NodeAbove ==
  ASSUME NEW c, NEW th \in Nat, NEW off, NEW base, NEW row, NEW h \in 1..th,
         NEW i \in 0..(Pow2[th - h] - 1)
  PROVE  \E in : Tree(c, th, off, base, row)[h][i] = Thash(c, At(base, h, i + Shr(off, h)), in)
<1> DEFINE t == Tree(c, th, off, base, row)
<1>1. t[h] = RowAbove(c, th, off, base, h, t[h - 1]) BY TreeRows
<1> HIDE DEF t
<1>2. t[h][i] = Thash(c, At(base, h, i + Shr(off, h)),
                      <<t[h - 1][2 * i], t[h - 1][2 * i + 1]>>)
  BY <1>1 DEF RowAbove
<1>3. \E in : t[h][i] = Thash(c, At(base, h, i + Shr(off, h)), in) BY <1>2
<1> QED BY <1>3 DEF t

(* A node of a FORS tree is a call of thash with the address of its place.   *)
LEMMA ForsNode ==
  ASSUME NEW c, NEW t, NEW l, NEW k \in Nat, NEW h \in 0..ForsHeight,
         NEW i \in 0..(Pow2[ForsHeight - h] - 1)
  PROVE  \E in : ForsTreeOf(c, t, l, k)[h][i]
                   = Thash(c, At(ForsBase(t, l), h, i + Shr(IdxOffset(k), h)), in)
<1> DEFINE base == ForsBase(t, l)
           off == IdxOffset(k)
           row == ForsRow(c, off, base)
<1>1. ForsHeight \in Nat /\ off \in Nat BY SizesAssumption, IdxOffsetNat
<1>2. CASE h = 0
  <2>1. Tree(c, ForsHeight, off, base, row)[0] = row
    <3> HIDE DEF off, base, row
    <3> QED BY <1>1, TreeRows
  <2>2. ForsHeight - 0 = ForsHeight BY <1>1
  <2>3. row[i] = ForsLeaf(c, base, off + i) BY <1>2, <2>2 DEF ForsRow
  <2>4. Shr(off, 0) = off BY <1>1, ShrNone
  <2>5. i \in Nat
    <3>1. Pow2[ForsHeight] \in Nat BY <1>1, Pow2Recursion
    <3> QED BY <3>1, <2>2, <1>2
  <2>6. off + i = i + Shr(off, 0)
    <3> HIDE DEF off
    <3> QED BY <1>1, <2>4, <2>5
  <2>7. row[i] = Thash(c, At(base, 0, i + Shr(off, 0)), PrfAddr(c, At(base, 0, i + Shr(off, 0))))
    BY <2>3, <2>6 DEF ForsLeaf
  <2> HIDE DEF off, base, row
  <2> QED BY <1>2, <2>1, <2>7 DEF ForsTreeOf, off, base, row
<1>3. CASE h # 0
  <2>1. h \in 1..ForsHeight BY <1>1, <1>3
  <2>2. \E in : Tree(c, ForsHeight, off, base, row)[h][i]
                  = Thash(c, At(base, h, i + Shr(off, h)), in)
    <3> HIDE DEF off, base, row
    <3>1. PICK z : z = off OBVIOUS
    <3>2. ForsHeight \in Nat BY <1>1
    <3>3. \E in : Tree(c, ForsHeight, z, base, row)[h][i]
                    = Thash(c, At(base, h, i + Shr(z, h)), in)
      BY <3>2, <2>1, NodeAbove
    <3> QED BY <3>1, <3>3
  <2> QED BY <2>2 DEF ForsTreeOf
<1> QED BY <1>2, <1>3

(* So is a node of a tree of the hypertree; a leaf is one over a one-time    *)
(* public key.                                                               *)
LEMMA HyperNode ==
  ASSUME NEW c, NEW l, NEW t, NEW h \in 0..TreeHeight,
         NEW i \in 0..(Pow2[TreeHeight - h] - 1)
  PROVE  \E in : TreeOf(c, l, t)[h][i]
                   = Thash(c, IF h = 0 THEN CopyKeypair(OfType("wotspk"), WotsAddr(l, t, i))
                              ELSE At(TreeAddr(l, t), h, i), in)
<1> DEFINE base == TreeAddr(l, t)
           row == WotsRow(c, base)
<1>1. TreeHeight \in Nat BY SizesAssumption
<1>2. CASE h = 0
  <2>1. Tree(c, TreeHeight, 0, base, row)[0] = row
    <3> HIDE DEF base, row
    <3> QED BY <1>1, TreeRows
  <2>2. i \in 0..(Pow2[TreeHeight] - 1)
    <3>1. TreeHeight - 0 = TreeHeight BY <1>1
    <3> QED BY <1>2, <3>1
  <2>3. row[i] = Thash(c, CopyKeypair(OfType("wotspk"), WotsAddr(l, t, i)),
                       WotsPk(c.rc, c.rcSseed, WotsAddr(l, t, i)))
    BY <2>2, WotsRowIs
  <2> HIDE DEF row, base
  <2> QED BY <1>2, <2>1, <2>3 DEF TreeOf, row, base
<1>3. CASE h # 0
  <2>1. h \in 1..TreeHeight BY <1>1, <1>3
  <2>2. PICK z : z = 0 OBVIOUS
  <2>3. \E in : Tree(c, TreeHeight, z, base, row)[h][i]
                  = Thash(c, At(base, h, i + Shr(z, h)), in)
    <3> HIDE DEF base, row
    <3> QED BY <1>1, <2>1, NodeAbove
  <2>4. Shr(z, h) = 0
    <3>1. h \in Nat /\ 0 \in Nat BY <2>1
    <3>2. 0 < Pow2[h] BY <3>1, Pow2Recursion
    <3> QED BY <2>2, <3>1, <3>2, ShrZero
  <2>5. i + Shr(z, h) = i
    <3>1. TreeHeight - h \in Nat BY <1>1, <2>1
    <3>2. Pow2[TreeHeight - h] \in Nat BY <3>1, Pow2Recursion
    <3> QED BY <2>4, <3>2
  <2> HIDE DEF base, row
  <2> QED BY <1>3, <2>2, <2>3, <2>5 DEF TreeOf, base, row
<1> QED BY <1>2, <1>3

(* Nothing a signature is made of is what it is altered with.                *)
LEMMA PathsNotJunk ==
  ASSUME NEW c
  PROVE  /\ \A t, l, x : \A k \in Nat : ForsSecret(c, t, l, k, x) # Junk
         /\ \A t, l : \A k \in Nat : \A x \in 0..(Pow2[ForsHeight] - 1) : \A h \in 0..(ForsHeight - 1) :
              ForsTreeOf(c, t, l, k)[h][Sibling(Shr(x, h))] # Junk
         /\ \A l, t : \A x \in 0..(Pow2[TreeHeight] - 1) : \A h \in 0..(TreeHeight - 1) :
              TreeOf(c, l, t)[h][Sibling(Shr(x, h))] # Junk
<1>1. \A t, l, x : \A k \in Nat : ForsSecret(c, t, l, k, x) # Junk
  <2>1. \A a : PrfAddr(c, a) # Junk
    <3> TAKE a
    <3>1. "rcSseed" \in DOMAIN PrfAddr(c, a) BY DEF PrfAddr
    <3>2. "rcSseed" \notin DOMAIN Junk BY DEF Junk
    <3> QED BY <3>1, <3>2
  <2> QED BY <2>1 DEF ForsSecret
<1>2. ASSUME NEW t, NEW l, NEW k \in Nat, NEW x \in 0..(Pow2[ForsHeight] - 1),
             NEW h \in 0..(ForsHeight - 1)
      PROVE  ForsTreeOf(c, t, l, k)[h][Sibling(Shr(x, h))] # Junk
  <2>1. PICK i : i = Sibling(Shr(x, h)) OBVIOUS
  <2>2. ForsHeight \in Nat /\ h \in 0..ForsHeight BY SizesAssumption
  <2>3. i \in 0..(Pow2[ForsHeight - h] - 1) BY <2>1, <2>2, SiblingIn
  <2>4. \E in : ForsTreeOf(c, t, l, k)[h][i]
                  = Thash(c, At(ForsBase(t, l), h, i + Shr(IdxOffset(k), h)), in)
    BY <2>2, <2>3, ForsNode
  <2> QED BY <2>1, <2>4, ThashNotJunk
<1>3. ASSUME NEW l, NEW t, NEW x \in 0..(Pow2[TreeHeight] - 1), NEW h \in 0..(TreeHeight - 1)
      PROVE  TreeOf(c, l, t)[h][Sibling(Shr(x, h))] # Junk
  <2>1. PICK i : i = Sibling(Shr(x, h)) OBVIOUS
  <2>2. TreeHeight \in Nat /\ h \in 0..TreeHeight BY SizesAssumption
  <2>3. i \in 0..(Pow2[TreeHeight - h] - 1) BY <2>1, <2>2, SiblingIn
  <2>4. \E in : TreeOf(c, l, t)[h][i]
                  = Thash(c, IF h = 0 THEN CopyKeypair(OfType("wotspk"), WotsAddr(l, t, i))
                             ELSE At(TreeAddr(l, t), h, i), in)
    BY <2>2, <2>3, HyperNode
  <2> QED BY <2>1, <2>4, ThashNotJunk
<1> QED BY <1>1, <1>2, <1>3

-----------------------------------------------------------------------------
(* A part changed is a part that is not right any more.                      *)
LEMMA Altered ==
  ASSUME NEW k, NEW r, NEW m, NEW dg \in Digests, NEW sm \in Tampered(Signed(k, r, m, dg))
  PROVE  /\ sm.r = r /\ sm.msg = m
         /\ \A j \in 0..(D - 1) :
              sm.hyper[j + 1].wots.msg
                \in {RootOn(Seeded(k), ForsPk(Seeded(k), TreeBits(dg), LeafBits(dg)),
                            TreeBits(dg), j), Junk}
         /\ ~ (ForsRight(Seeded(k), dg, sm.fors) /\ HyperRight(Seeded(k), dg, sm.hyper))
<1> DEFINE c == Seeded(k)
           t == TreeBits(dg)
           l == LeafBits(dg)
           pk == ForsPk(c, t, l)
<1>1. ForsTrees \in Nat \ {0} /\ D \in Nat \ {0} /\ ForsHeight \in Nat /\ TreeHeight \in Nat
  BY SizesAssumption
<1>2. PICK s, f, y : /\ s = Signed(k, r, m, dg) /\ f = ForsSig(c, t, l, dg.md)
                     /\ y = HyperSig(c, pk, t, l)
  OBVIOUS
<1>3. s = [key |-> k, r |-> r, msg |-> m, fors |-> f, hyper |-> y] BY <1>2 DEF Signed
<1>4. \A j \in 0..(D - 1) : y[j + 1].wots.msg = RootOn(c, pk, t, j) BY <1>2, HyperSigRight
<1>5. /\ DOMAIN f = 1..ForsTrees
      /\ \A i \in 1..ForsTrees : \E u, v : f[i] = [sk |-> u, auth |-> v]
      /\ \A i \in 1..ForsTrees : DOMAIN f[i].auth = 0..(ForsHeight - 1)
  <2> HIDE DEF c, t, l, pk
  <2>1. DOMAIN f = 1..ForsTrees BY <1>2 DEF ForsSig
  <2>2. ASSUME NEW i \in 1..ForsTrees
        PROVE  /\ \E u, v : f[i] = [sk |-> u, auth |-> v]
               /\ DOMAIN f[i].auth = 0..(ForsHeight - 1)
    <3>1. PICK a, b : a = i - 1 /\ b = Indices(dg.md)[i - 1] OBVIOUS
    <3>2. f[i] = ForsSigPart(c, t, l, a, b) BY <1>2, <3>1 DEF ForsSig
    <3>3. f[i] = [sk |-> ForsSecret(c, t, l, a, b),
                  auth |-> AuthPath(ForsTreeOf(c, t, l, a), ForsHeight, b)]
      BY <3>2 DEF ForsSigPart
    <3>4. f[i].auth = AuthPath(ForsTreeOf(c, t, l, a), ForsHeight, b) BY <3>3
    <3>5. DOMAIN f[i].auth = 0..(ForsHeight - 1) BY <3>4 DEF AuthPath
    <3> QED BY <3>3, <3>5
  <2> QED BY <2>1, <2>2
<1>6. /\ DOMAIN y = 1..D
      /\ \A i \in 1..D : \E u, v, w, x, z :
           y[i] = [wots |-> [rc |-> u, secret |-> v, key |-> w, msg |-> x], auth |-> z]
      /\ \A i \in 1..D : DOMAIN y[i].auth = 0..(TreeHeight - 1)
  <2> HIDE DEF c, t, l, pk
  <2>1. DOMAIN y = 1..D BY <1>2 DEF HyperSig
  <2>2. ASSUME NEW i \in 1..D
        PROVE  /\ \E u, v, w, x, z :
                    y[i] = [wots |-> [rc |-> u, secret |-> v, key |-> w, msg |-> x], auth |-> z]
               /\ DOMAIN y[i].auth = 0..(TreeHeight - 1)
    <3>1. PICK a : a = i - 1 OBVIOUS
    <3>2. y[i] = HyperPart(c, pk, t, l, a) BY <1>2, <3>1 DEF HyperSig
    <3>3. PICK W, A : /\ W = WotsSign(c, WotsAddr(a, TreeOn(t, a), LeafOn(t, l, a)),
                                      RootOn(c, pk, t, a))
                      /\ A = AuthPath(TreeOf(c, a, TreeOn(t, a)), TreeHeight, LeafOn(t, l, a))
      OBVIOUS
    <3>4. y[i] = [wots |-> W, auth |-> A] BY <3>2, <3>3 DEF HyperPart
    <3>5. \E u, v, w, x : W = [rc |-> u, secret |-> v, key |-> w, msg |-> x]
      BY <3>3 DEF WotsSign
    <3>6. DOMAIN A = 0..(TreeHeight - 1) BY <3>3 DEF AuthPath
    <3>7. y[i].auth = A BY <3>4
    <3>8. \E u, v, w, x, z :
            y[i] = [wots |-> [rc |-> u, secret |-> v, key |-> w, msg |-> x], auth |-> z]
      BY <3>4, <3>5, Zenon
    <3> QED BY <3>6, <3>7, <3>8
  <2> QED BY <2>1, <2>2
<1> HIDE DEF c, t, l, pk
<1>7. sm \in Tampered(s) BY <1>2
<1>8. CASE \E i \in 1..ForsTrees : sm = [s EXCEPT !.fors[i].sk = Junk]
  <2>1. PICK i \in 1..ForsTrees : sm = [s EXCEPT !.fors[i].sk = Junk] BY <1>8
  <2>2. /\ sm.r = r /\ sm.msg = m /\ sm.hyper = y
        /\ sm.fors = [f EXCEPT ![i] = [f[i] EXCEPT !.sk = Junk]]
    BY <2>1, <1>3
  <2>3. sm.fors[i].sk = Junk BY <2>2, <1>5
  <2>4. i - 1 \in 0..(ForsTrees - 1) /\ (i - 1) + 1 = i /\ i - 1 \in Nat BY <1>1
  <2>5. ~ ForsRight(c, dg, sm.fors)
    <3> SUFFICES ASSUME ForsRight(c, dg, sm.fors) PROVE FALSE OBVIOUS
    <3>1. ForsPartRight(c, t, l, i - 1, Indices(dg.md)[i - 1], sm.fors[i])
      BY <2>4 DEF ForsRight, t, l
    <3>2. ForsSecret(c, t, l, i - 1, Indices(dg.md)[i - 1]) = Junk
      BY <2>3, <3>1 DEF ForsPartRight
    <3> QED BY <2>4, <3>2, PathsNotJunk
  <2> QED BY <2>2, <2>5, <1>4 DEF c, pk, t, l
<1>9. CASE \E i \in 1..ForsTrees, h \in 0..(ForsHeight - 1) : sm = [s EXCEPT !.fors[i].auth[h] = Junk]
  <2>1. PICK i \in 1..ForsTrees, h \in 0..(ForsHeight - 1) :
          sm = [s EXCEPT !.fors[i].auth[h] = Junk]
    BY <1>9
  <2>2. /\ sm.r = r /\ sm.msg = m /\ sm.hyper = y
        /\ sm.fors = [f EXCEPT ![i] = [f[i] EXCEPT !.auth = [f[i].auth EXCEPT ![h] = Junk]]]
    BY <2>1, <1>3
  <2>3. sm.fors[i].auth[h] = Junk BY <2>2, <1>5
  <2>4. i - 1 \in 0..(ForsTrees - 1) /\ (i - 1) + 1 = i /\ i - 1 \in Nat BY <1>1
  <2>5. ~ ForsRight(c, dg, sm.fors)
    <3> SUFFICES ASSUME ForsRight(c, dg, sm.fors) PROVE FALSE OBVIOUS
    <3>0. PICK x : x = Indices(dg.md)[i - 1] OBVIOUS
    <3>1. ForsPartRight(c, t, l, i - 1, x, sm.fors[i])
      BY <2>4, <3>0 DEF ForsRight, t, l
    <3>2. ForsTreeOf(c, t, l, i - 1)[h][Sibling(Shr(x, h))] = Junk
      BY <2>3, <3>1 DEF ForsPartRight
    <3>3. x \in 0..(Pow2[ForsHeight] - 1) BY <2>4, <3>0, IndexRange
    <3> QED BY <2>4, <3>2, <3>3, PathsNotJunk
  <2> QED BY <2>2, <2>5, <1>4 DEF c, pk, t, l
<1>10. CASE \E i \in 1..D : sm = [s EXCEPT !.hyper[i].wots.msg = Junk]
  <2>1. PICK i \in 1..D : sm = [s EXCEPT !.hyper[i].wots.msg = Junk] BY <1>10
  <2>2. /\ sm.r = r /\ sm.msg = m
        /\ sm.hyper = [y EXCEPT ![i] = [y[i] EXCEPT !.wots = [y[i].wots EXCEPT !.msg = Junk]]]
    BY <2>1, <1>3
  <2>3. sm.hyper[i].wots.msg = Junk BY <2>2, <1>6
  <2>4. i - 1 \in 0..(D - 1) /\ (i - 1) + 1 = i /\ i - 1 \in Nat BY <1>1
  <2>5. ASSUME NEW j \in 0..(D - 1)
        PROVE  sm.hyper[j + 1].wots.msg \in {RootOn(c, pk, t, j), Junk}
    <3>1. j + 1 \in 1..D BY <1>1
    <3>2. j + 1 # i => sm.hyper[j + 1] = y[j + 1] BY <2>2, <3>1, <1>6
    <3> QED BY <2>3, <3>2, <1>4
  <2>6. ~ HyperRight(c, dg, sm.hyper)
    <3> SUFFICES ASSUME HyperRight(c, dg, sm.hyper) PROVE FALSE OBVIOUS
    <3>1. PICK j : j = i - 1 OBVIOUS
    <3>2. LayerRight(c, j, TreeOn(t, j), LeafOn(t, l, j), RootOn(c, pk, t, j), sm.hyper[i])
      BY <2>4, <3>1 DEF HyperRight, pk, t, l
    <3>3. RootOn(c, pk, t, j) = Junk BY <2>3, <3>2 DEF LayerRight
    <3>4. RootOn(c, pk, t, j) # Junk
      <4>1. CASE j = 0 BY <4>1, ThashNotJunk DEF RootOn, pk, ForsPk
      <4>2. CASE j # 0
        <5>1. PICK q, T : q = j - 1 /\ T = TreeOn(t, q) OBVIOUS
        <5>2. RootOn(c, pk, t, j) = TreeOf(c, q, T)[TreeHeight][0]
          BY <4>2, <5>1 DEF RootOn, TopOf
        <5>3. TreeHeight \in 0..TreeHeight /\ 0 \in 0..(Pow2[TreeHeight - TreeHeight] - 1)
          <6>1. TreeHeight - TreeHeight = 0 BY <1>1
          <6> QED BY <1>1, <6>1, Pow2Recursion
        <5>4. PICK h, i0 : h = TreeHeight /\ i0 = 0 OBVIOUS
        <5>5. \E in : TreeOf(c, q, T)[h][i0]
                  = Thash(c, IF h = 0 THEN CopyKeypair(OfType("wotspk"), WotsAddr(q, T, i0))
                             ELSE At(TreeAddr(q, T), h, i0), in)
          <6>1. h \in 0..TreeHeight /\ i0 \in 0..(Pow2[TreeHeight - h] - 1) BY <5>3, <5>4
          <6> QED BY <6>1, HyperNode
        <5> QED BY <5>2, <5>4, <5>5, ThashNotJunk
      <4> QED BY <4>1, <4>2
    <3> QED BY <3>3, <3>4
  <2> QED BY <2>2, <2>5, <2>6 DEF c, pk, t, l
<1>11. CASE \E i \in 1..D, h \in 0..(TreeHeight - 1) : sm = [s EXCEPT !.hyper[i].auth[h] = Junk]
  <2>1. PICK i \in 1..D, h \in 0..(TreeHeight - 1) : sm = [s EXCEPT !.hyper[i].auth[h] = Junk]
    BY <1>11
  <2>2. /\ sm.r = r /\ sm.msg = m
        /\ sm.hyper = [y EXCEPT ![i] = [y[i] EXCEPT !.auth = [y[i].auth EXCEPT ![h] = Junk]]]
    BY <2>1, <1>3
  <2>3. sm.hyper[i].auth[h] = Junk /\ sm.hyper[i].wots = y[i].wots BY <2>2, <1>6
  <2>4. i - 1 \in 0..(D - 1) /\ (i - 1) + 1 = i /\ i - 1 \in Nat /\ i - 1 \in 0..D BY <1>1
  <2>5. ASSUME NEW j \in 0..(D - 1)
        PROVE  sm.hyper[j + 1].wots.msg \in {RootOn(c, pk, t, j), Junk}
    <3>1. j + 1 \in 1..D BY <1>1
    <3>2. j + 1 # i => sm.hyper[j + 1] = y[j + 1] BY <2>2, <3>1, <1>6
    <3>3. sm.hyper[j + 1].wots = y[j + 1].wots BY <2>3, <3>2
    <3> QED BY <3>3, <1>4
  <2>6. ~ HyperRight(c, dg, sm.hyper)
    <3> SUFFICES ASSUME HyperRight(c, dg, sm.hyper) PROVE FALSE OBVIOUS
    <3>1. PICK j, T, F : j = i - 1 /\ T = TreeOn(t, j) /\ F = LeafOn(t, l, j) OBVIOUS
    <3>2. LayerRight(c, j, T, F, RootOn(c, pk, t, j), sm.hyper[i])
      BY <2>4, <3>1 DEF HyperRight, pk, t, l
    <3>3. TreeOf(c, j, T)[h][Sibling(Shr(F, h))] = Junk BY <2>3, <3>2 DEF LayerRight
    <3>4. F \in 0..(Pow2[TreeHeight] - 1)
      <4>1. t \in Nat /\ l \in 0..(Pow2[TreeHeight] - 1) BY DigestPlace DEF t, l
      <4> QED BY <4>1, <2>4, <3>1, HyperClimb
    <3> QED BY <3>3, <3>4, PathsNotJunk
  <2> QED BY <2>2, <2>5, <2>6 DEF c, pk, t, l
<1>12. \/ \E i \in 1..ForsTrees : sm = [s EXCEPT !.fors[i].sk = Junk]
       \/ \E i \in 1..ForsTrees, h \in 0..(ForsHeight - 1) : sm = [s EXCEPT !.fors[i].auth[h] = Junk]
       \/ \E i \in 1..D : sm = [s EXCEPT !.hyper[i].wots.msg = Junk]
       \/ \E i \in 1..D, h \in 0..(TreeHeight - 1) : sm = [s EXCEPT !.hyper[i].auth[h] = Junk]
  <2> DEFINE S1 == {[s EXCEPT !.fors[i].sk = Junk] : i \in 1..ForsTrees}
             S2 == {[s EXCEPT !.fors[i].auth[h] = Junk] :
                      i \in 1..ForsTrees, h \in 0..(ForsHeight - 1)}
             S3 == {[s EXCEPT !.hyper[i].wots.msg = Junk] : i \in 1..D}
             S4 == {[s EXCEPT !.hyper[i].auth[h] = Junk] : i \in 1..D, h \in 0..(TreeHeight - 1)}
  <2>0. Tampered(s) = S1 \cup S2 \cup S3 \cup S4 BY DEF Tampered
  <2>1. sm \in S1 \cup S2 \cup S3 \cup S4
    <3> HIDE DEF S1, S2, S3, S4
    <3> QED BY <1>7, <2>0
  <2>2. sm \in S1 => \E i \in 1..ForsTrees : sm = [s EXCEPT !.fors[i].sk = Junk] BY Zenon
  <2>3. sm \in S2 => \E i \in 1..ForsTrees, h \in 0..(ForsHeight - 1) :
                       sm = [s EXCEPT !.fors[i].auth[h] = Junk]
    OBVIOUS
  <2>4. sm \in S3 => \E i \in 1..D : sm = [s EXCEPT !.hyper[i].wots.msg = Junk] BY Zenon
  <2>5. sm \in S4 => \E i \in 1..D, h \in 0..(TreeHeight - 1) :
                       sm = [s EXCEPT !.hyper[i].auth[h] = Junk]
    OBVIOUS
  <2> HIDE DEF S1, S2, S3, S4
  <2> QED BY <2>1, <2>2, <2>3, <2>4, <2>5
<1> QED BY <1>8, <1>9, <1>10, <1>11, <1>12 DEF c, pk, t, l

-----------------------------------------------------------------------------
(* The actions, by the trees they compute.                                   *)
NonceOf(k, o, m) == <<"R", k, o, m>>
QueryOf(k, o, m) == <<NonceOf(k, o, m), k, m>>
PlaceOf(k, dg, i) == <<k, TreeBits(dg), LeafBits(dg), i, Indices(dg.md)[i - 1]>>
HyperOf(c, dg) == HyperSig(c, ForsPk(c, TreeBits(dg), LeafBits(dg)), TreeBits(dg), LeafBits(dg))

(* What crypto_sign_keypair changes.                                         *)
LEMMA KeypairIs ==
  ASSUME NEW k, Keypair(k)
  PROVE  /\ pkRoot' = [j \in DOMAIN pkRoot \cup {k} |->
                         IF j = k THEN TopOf(Seeded(k), D - 1, 0) ELSE pkRoot[j]]
         /\ hashes' = hashes \cup NodeSet(TreeOf(Seeded(k), D - 1, 0))
         /\ UNCHANGED <<oracle, signs, out, opened, used, revealed>>
<1>1. PICK c : c = Seeded(k) OBVIOUS
<1>2. Tweaked(PubSeed(k), SkSeed(k)) = c BY <1>1, SeedsGiven
<1>3. Nodes(c, WotsGenLeaf, TreeHeight, 0, TreeAddr(D - 1, 0)) = TreeOf(c, D - 1, 0)
  BY SizesAssumption, WotsNodes DEF TreeOf
<1>4. /\ pkRoot' = [j \in DOMAIN pkRoot \cup {k} |->
                      IF j = k THEN TreeOf(c, D - 1, 0)[TreeHeight][0] ELSE pkRoot[j]]
      /\ hashes' = hashes \cup NodeSet(TreeOf(c, D - 1, 0))
      /\ UNCHANGED <<oracle, signs, out, opened, used, revealed>>
  BY <1>2, <1>3, Zenon DEF Keypair
<1> QED BY <1>1, <1>4 DEF TopOf

(* What crypto_sign changes.                                                 *)
LEMMA SignIs ==
  ASSUME NEW k, NEW m, NEW o, NEW dg \in Digests, Sign(k, m, o, dg)
  PROVE  /\ k \in DOMAIN pkRoot /\ signs < MaxSigns /\ dg \in Answers(QueryOf(k, o, m))
         /\ oracle' = Answered(QueryOf(k, o, m), dg)
         /\ signs' = signs + 1
         /\ out' = Signed(k, NonceOf(k, o, m), m, dg)
         /\ opened' = Nothing
         /\ hashes' = (hashes \cup (ForsHashes(Seeded(k), TreeBits(dg), LeafBits(dg), ForsTrees)
                                     \cup {ForsPk(Seeded(k), TreeBits(dg), LeafBits(dg))}))
                        \cup HyperHashes(Seeded(k), TreeBits(dg), D)
         /\ used' = used \cup {HyperOf(Seeded(k), dg)[n].wots : n \in 1..D}
         /\ revealed' = revealed \cup
              {[place |-> PlaceOf(k, dg, i),
                sk |-> ForsSig(Seeded(k), TreeBits(dg), LeafBits(dg), dg.md)[i].sk] :
                 i \in 1..ForsTrees}
         /\ UNCHANGED pkRoot
<1>1. PICK c, t, l : c = Seeded(k) /\ t = TreeBits(dg) /\ l = LeafBits(dg) OBVIOUS
<1>2. SignConstants(k) = c BY <1>1, SeedsGiven DEF SignConstants
<1>3. t \in Nat BY <1>1, DigestPlace
<1>4. PICK pk, f, y, fh, hh : /\ pk = ForsPk(c, t, l) /\ f = ForsSig(c, t, l, dg.md)
                              /\ y = HyperSig(c, pk, t, l)
                              /\ fh = ForsHashes(c, t, l, ForsTrees)
                              /\ hh = HyperHashes(c, t, D)
  OBVIOUS
<1>5. PICK fors, hyper : /\ fors = ForsSign(c, dg.md, ForsAddrOf(t, l))
                         /\ hyper = HypertreeSign(c, fors.pk, t, l)
  OBVIOUS
<1>6. fors = [sig |-> f, pk |-> pk, hashes |-> fh \cup {pk}] BY <1>4, <1>5, ForsSignIs
<1>7. fors.sig = f /\ fors.pk = pk /\ fors.hashes = fh \cup {pk} BY <1>6
<1>8. hyper.sig = y /\ hyper.hashes = hh BY <1>3, <1>4, <1>5, <1>7, HyperSignIs
<1>9. /\ k \in DOMAIN pkRoot /\ signs < MaxSigns /\ dg \in Answers(<<<<"R", k, o, m>>, k, m>>)
      /\ oracle' = Answered(<<<<"R", k, o, m>>, k, m>>, dg)
      /\ signs' = signs + 1
      /\ out' = [key |-> k, r |-> <<"R", k, o, m>>, msg |-> m,
                 fors |-> fors.sig, hyper |-> hyper.sig]
      /\ opened' = Nothing
      /\ hashes' = (hashes \cup fors.hashes) \cup hyper.hashes
      /\ used' = used \cup {hyper.sig[n].wots : n \in 1..D}
      /\ revealed' = revealed \cup
           {[place |-> <<k, t, l, i, Indices(dg.md)[i - 1]>>, sk |-> fors.sig[i].sk] :
              i \in 1..ForsTrees}
      /\ UNCHANGED pkRoot
  BY <1>1, <1>2, <1>5, Zenon DEF Sign, ForsAddrOf
<1>10. out' = Signed(k, NonceOf(k, o, m), m, dg)
  BY <1>1, <1>4, <1>7, <1>8, <1>9 DEF Signed, NonceOf
<1>11. used' = used \cup {HyperOf(c, dg)[n].wots : n \in 1..D}
  BY <1>1, <1>4, <1>8, <1>9 DEF HyperOf
<1>12. revealed' = revealed \cup {[place |-> PlaceOf(k, dg, i), sk |-> f[i].sk] : i \in 1..ForsTrees}
  BY <1>1, <1>7, <1>9, Zenon DEF PlaceOf
<1>13. hashes' = (hashes \cup (fh \cup {pk})) \cup hh BY <1>7, <1>8, <1>9
<1>14. /\ k \in DOMAIN pkRoot /\ signs < MaxSigns /\ dg \in Answers(QueryOf(k, o, m))
       /\ oracle' = Answered(QueryOf(k, o, m), dg)
       /\ signs' = signs + 1
       /\ opened' = Nothing /\ UNCHANGED pkRoot
  BY <1>9 DEF QueryOf, NonceOf
<1> QED BY <1>1, <1>4, <1>10, <1>11, <1>12, <1>13, <1>14

(* What crypto_sign_open changes.                                            *)
LEMMA OpenIs ==
  ASSUME NEW k, NEW sm, NEW dg \in Digests, Open(k, sm, dg)
  PROVE  /\ k \in DOMAIN pkRoot /\ dg \in Answers(<<sm.r, k, sm.msg>>)
         /\ oracle' = Answered(<<sm.r, k, sm.msg>>, dg)
         /\ \E c : /\ c.rc = Seeded(k).rc
                   /\ opened' = [key |-> k, sm |-> sm, ok |-> OpenedRoot(c, sm, dg) = pkRoot[k]]
         /\ UNCHANGED <<pkRoot, signs, out, hashes, used, revealed>>
<1>1. PICK c : c = Tweaked(PubSeed(k), NULL) OBVIOUS
<1>2. c.rc = Seeded(k).rc BY <1>1, SeedsGiven
<1>3. /\ k \in DOMAIN pkRoot /\ dg \in Answers(<<sm.r, k, sm.msg>>)
      /\ oracle' = Answered(<<sm.r, k, sm.msg>>, dg)
      /\ opened' = [key |-> k, sm |-> sm, ok |-> OpenedRoot(c, sm, dg) = pkRoot[k]]
      /\ UNCHANGED <<pkRoot, signs, out, hashes, used, revealed>>
  BY <1>1, Zenon DEF Open, OpenedRoot, ForsAddrOf
<1> QED BY <1>2, <1>3

(* The digests hash_message has returned so far.                             *)
DigestsRight == \A q \in DOMAIN oracle : oracle[q] \in Digests

(* An answer of hash_message leaves the earlier ones.                        *)
LEMMA AnswerKept ==
  ASSUME NEW q, NEW dg \in Answers(q), DigestsRight
  PROVE  /\ dg \in Digests
         /\ DOMAIN Answered(q, dg) = DOMAIN oracle \cup {q}
         /\ Answered(q, dg)[q] = dg
         /\ \A p \in DOMAIN oracle : Answered(q, dg)[p] = oracle[p]
         /\ \A p \in DOMAIN Answered(q, dg) : Answered(q, dg)[p] \in Digests
<1>1. dg \in Digests /\ (q \in DOMAIN oracle => dg = oracle[q]) BY DEF Answers, DigestsRight
<1> QED BY <1>1 DEF Answered, DigestsRight

-----------------------------------------------------------------------------
(* The public keys are the top roots, the digests do not change, and the     *)
(* last signed message is what they make it.                                 *)
KeysRight == /\ DOMAIN pkRoot \subseteq Keys
             /\ \A k \in DOMAIN pkRoot : pkRoot[k] = TopOf(Seeded(k), D - 1, 0)
QueryOut == <<out.r, out.key, out.msg>>
OutRight ==
  out # Nothing =>
    /\ QueryOut \in DOMAIN oracle
    /\ out = Signed(out.key, out.r, out.msg, oracle[QueryOut])
OpenInv == KeysRight /\ DigestsRight /\ OutRight /\ OpensIffSigned

(* OpenInv is an inductive invariant: it holds initially,                    *)
LEMMA OpenInit == Init => OpenInv
BY DEF Init, OpenInv, KeysRight, DigestsRight, OutRight, OpensIffSigned

(* crypto_sign_keypair keeps it,                                             *)
LEMMA OpenKeypair ==
  ASSUME OpenInv, NEW k \in Keys, Keypair(k)
  PROVE  OpenInv'
<1>1. /\ pkRoot' = [j \in DOMAIN pkRoot \cup {k} |->
                      IF j = k THEN TopOf(Seeded(k), D - 1, 0) ELSE pkRoot[j]]
      /\ UNCHANGED <<oracle, signs, out, opened, used, revealed>>
  BY KeypairIs
<1>2. KeysRight'
  <2>1. DOMAIN pkRoot' = DOMAIN pkRoot \cup {k} BY <1>1
  <2>2. ASSUME NEW j \in DOMAIN pkRoot' PROVE pkRoot'[j] = TopOf(Seeded(j), D - 1, 0)
    <3>1. CASE j = k BY <1>1, <2>1, <3>1
    <3>2. CASE j # k BY <1>1, <2>1, <3>2 DEF OpenInv, KeysRight
    <3> QED BY <3>1, <3>2
  <2> QED BY <2>1, <2>2 DEF OpenInv, KeysRight
<1> QED BY <1>1, <1>2 DEF OpenInv, DigestsRight, OutRight, OpensIffSigned, QueryOut

(* crypto_sign keeps it,                                                     *)
LEMMA OpenSign ==
  ASSUME OpenInv, NEW k, NEW m, NEW o, NEW dg \in Digests, Sign(k, m, o, dg)
  PROVE  OpenInv'
<1>1. /\ dg \in Answers(QueryOf(k, o, m)) /\ oracle' = Answered(QueryOf(k, o, m), dg)
      /\ out' = Signed(k, NonceOf(k, o, m), m, dg)
      /\ opened' = Nothing /\ pkRoot' = pkRoot
  BY SignIs
<1>2. DigestsRight BY DEF OpenInv
<1>3. DigestsRight' BY <1>1, <1>2, AnswerKept DEF DigestsRight
<1>4. out'.r = NonceOf(k, o, m) /\ out'.key = k /\ out'.msg = m
  BY <1>1 DEF Signed
<1>5. QueryOut' = QueryOf(k, o, m) BY <1>4 DEF QueryOut, QueryOf
<1>6. QueryOf(k, o, m) \in DOMAIN oracle' /\ oracle'[QueryOf(k, o, m)] = dg
  <2>1. PICK q : q = QueryOf(k, o, m) OBVIOUS
  <2>2. dg \in Answers(q) /\ oracle' = Answered(q, dg) BY <1>1, <2>1
  <2>3. DOMAIN Answered(q, dg) = DOMAIN oracle \cup {q} /\ Answered(q, dg)[q] = dg
    BY <1>2, <2>2, AnswerKept
  <2> QED BY <2>1, <2>2, <2>3
<1>7. OutRight'
  <2>1. QueryOut' \in DOMAIN oracle' /\ oracle'[QueryOut'] = dg BY <1>5, <1>6
  <2>2. out' = Signed(out'.key, out'.r, out'.msg, oracle'[QueryOut'])
    BY <1>1, <1>4, <2>1
  <2> QED BY <2>1, <2>2 DEF OutRight
<1> QED BY <1>1, <1>3, <1>7 DEF OpenInv, KeysRight, OpensIffSigned

(* crypto_sign_open of a signed message, with a part altered or not, under   *)
(* the key that signed it or another.                                        *)
LEMMA OpenOutcome ==
  ASSUME NEW k, NEW r, NEW m, NEW dg \in Digests, NEW j, NEW dh \in Digests,
         NEW c, c.rc = Seeded(j).rc, NEW sm,
         \/ sm = Signed(k, r, m, dg) /\ (j = k => dh = dg)
         \/ sm \in Tampered(Signed(k, r, m, dg)) /\ j = k /\ dh = dg
  PROVE  OpenedRoot(c, sm, dh) = TopOf(Seeded(j), D - 1, 0)
           <=> j = k /\ sm = Signed(k, r, m, dg)
<1> DEFINE s == Signed(k, r, m, dg)
           t == TreeBits(dg)
           l == LeafBits(dg)
           pk == ForsPk(Seeded(k), t, l)
<1>1. s.fors = ForsSig(Seeded(k), t, l, dg.md) /\ s.hyper = HyperSig(Seeded(k), pk, t, l)
  BY DEF Signed
<1>2. /\ ForsRight(Seeded(k), dg, s.fors) /\ HyperRight(Seeded(k), dg, s.hyper)
      /\ \A i \in 0..(D - 1) : s.hyper[i + 1].wots.msg = RootOn(Seeded(k), pk, t, i)
  <2> HIDE DEF s
  <2>1. /\ ForsRight(Seeded(k), dg, ForsSig(Seeded(k), t, l, dg.md))
        /\ HyperRight(Seeded(k), dg, HyperSig(Seeded(k), pk, t, l))
        /\ \A i \in 0..(D - 1) :
             HyperSig(Seeded(k), pk, t, l)[i + 1].wots.msg = RootOn(Seeded(k), pk, t, i)
    BY ForsSigRight, HyperSigRight
  <2> HIDE DEF t, l, pk
  <2> QED BY <1>1, <2>1
<1>3. CASE sm = s /\ j = k
  <2>1. dh = dg BY <1>3, Altered
  <2>2. \A i \in 0..(D - 1) : sm.hyper[i + 1].wots.msg \in {RootOn(Seeded(k), pk, t, i), Junk}
    <3> HIDE DEF s, t, l, pk
    <3> QED BY <1>2, <1>3
  <2>3. OpenedRoot(c, sm, dg) = TopOf(Seeded(k), D - 1, 0)
          <=> ForsRight(Seeded(k), dg, sm.fors) /\ HyperRight(Seeded(k), dg, sm.hyper)
    <3>1. c.rc = Seeded(k).rc BY <1>3
    <3> HIDE DEF s
    <3> QED BY <3>1, <2>2, OpensRight
  <2> HIDE DEF s, t, l, pk
  <2>4. OpenedRoot(c, sm, dg) = TopOf(Seeded(k), D - 1, 0) BY <1>2, <1>3, <2>3
  <2> QED BY <1>3, <2>1, <2>4 DEF s
<1>4. CASE sm = s /\ j # k
  <2>1. SUFFICES ASSUME OpenedRoot(c, sm, dh) = TopOf(Seeded(j), D - 1, 0) PROVE FALSE
    BY <1>4
  <2>2. PICK T, L, root : /\ T = TreeBits(dh) /\ L = LeafBits(dh)
                          /\ root = ForsPkFromSig(c, sm.fors, dh.md, ForsAddrOf(T, L))
    OBVIOUS
  <2>3. T \in Nat /\ L \in 0..(Pow2[TreeHeight] - 1) /\ TreeOn(T, D - 1) = 0
    BY <2>2, DigestPlace
  <2>4. HypertreeRoot(c, sm.hyper, root, T, L) = TopOf(Seeded(j), D - 1, TreeOn(T, D - 1))
    BY <2>1, <2>2, <2>3 DEF OpenedRoot
  <2>5. sm.hyper[D].wots.rc = Seeded(j).rc
    <3> HIDE DEF s
    <3> QED BY <2>3, <2>4, HyperConstants
  <2>6. sm.hyper[D].wots.rc = Seeded(k).rc
    <3>1. D - 1 \in 0..(D - 1) /\ (D - 1) + 1 = D BY SizesAssumption
    <3>2. LayerRight(Seeded(k), D - 1, TreeOn(t, D - 1), LeafOn(t, l, D - 1),
                     RootOn(Seeded(k), pk, t, D - 1), s.hyper[D])
      <4> HIDE DEF s
      <4> QED BY <1>2, <3>1 DEF HyperRight
    <3> HIDE DEF s, t, l, pk
    <3> QED BY <1>4, <3>2 DEF LayerRight
  <2> QED BY <1>4, <2>5, <2>6, OwnConstants
<1>5. CASE sm \in Tampered(s) /\ j = k /\ dh = dg
  <2>1. /\ \A i \in 0..(D - 1) : sm.hyper[i + 1].wots.msg \in {RootOn(Seeded(k), pk, t, i), Junk}
        /\ ~ (ForsRight(Seeded(k), dg, sm.fors) /\ HyperRight(Seeded(k), dg, sm.hyper))
    BY <1>5, Altered
  <2>2. OpenedRoot(c, sm, dg) = TopOf(Seeded(k), D - 1, 0)
          <=> ForsRight(Seeded(k), dg, sm.fors) /\ HyperRight(Seeded(k), dg, sm.hyper)
    <3>1. c.rc = Seeded(k).rc BY <1>5
    <3> HIDE DEF s
    <3> QED BY <3>1, <2>1, OpensRight
  <2> HIDE DEF t, l, pk
  <2>3. sm # s
    <3> HIDE DEF s
    <3> QED BY <1>2, <2>1
  <2> QED BY <1>5, <2>1, <2>2, <2>3
<1> QED BY <1>3, <1>4, <1>5

(* crypto_sign_open keeps it, on any signature it is called with,            *)
LEMMA OpenOpen ==
  ASSUME OpenInv, out # Nothing, NEW j, NEW sm, NEW dh \in Digests, Open(j, sm, dh),
         sm = out \/ (sm \in Tampered(out) /\ j = out.key)
  PROVE  OpenInv'
<1>1. PICK c : /\ j \in DOMAIN pkRoot /\ dh \in Answers(<<sm.r, j, sm.msg>>)
               /\ oracle' = Answered(<<sm.r, j, sm.msg>>, dh)
               /\ c.rc = Seeded(j).rc
               /\ opened' = [key |-> j, sm |-> sm, ok |-> OpenedRoot(c, sm, dh) = pkRoot[j]]
               /\ UNCHANGED <<pkRoot, signs, out, hashes, used, revealed>>
  BY OpenIs
<1>2. DigestsRight /\ KeysRight /\ OutRight BY DEF OpenInv
<1>3. DigestsRight' BY <1>1, <1>2, AnswerKept DEF DigestsRight
<1>4. \A p \in DOMAIN oracle : p \in DOMAIN oracle' /\ oracle'[p] = oracle[p]
  <2>1. PICK q : q = <<sm.r, j, sm.msg>> OBVIOUS
  <2>2. dh \in Answers(q) /\ oracle' = Answered(q, dh) BY <1>1, <2>1
  <2>3. DOMAIN Answered(q, dh) = DOMAIN oracle \cup {q} BY <1>2, <2>2, AnswerKept
  <2>4. ASSUME NEW p \in DOMAIN oracle PROVE Answered(q, dh)[p] = oracle[p]
    <3>1. CASE p = q
      <4>1. dh = oracle[q] BY <3>1, <2>2 DEF Answers
      <4> QED BY <3>1, <4>1 DEF Answered
    <3>2. CASE p # q BY <3>2 DEF Answered
    <3> QED BY <3>1, <3>2
  <2> QED BY <2>2, <2>3, <2>4
<1>5. OutRight' BY <1>1, <1>2, <1>4 DEF OutRight, QueryOut
<1>6. PICK k, r, m, dg : /\ k = out.key /\ r = out.r /\ m = out.msg
                         /\ dg = oracle[<<r, k, m>>]
  OBVIOUS
<1>7. <<r, k, m>> \in DOMAIN oracle /\ dg \in Digests /\ out = Signed(k, r, m, dg)
  BY <1>2, <1>6 DEF OutRight, QueryOut, DigestsRight
<1>8. sm.r = r /\ sm.msg = m
  <2>1. CASE sm = out BY <2>1, <1>6
  <2>2. CASE sm \in Tampered(out) BY <2>2, <1>7, Altered
  <2> QED BY <2>1, <2>2
<1>9. j = k => dh = dg BY <1>1, <1>6, <1>7, <1>8 DEF Answers
<1>10. OpenedRoot(c, sm, dh) = TopOf(Seeded(j), D - 1, 0) <=> j = k /\ sm = Signed(k, r, m, dg)
  <2>1. PICK s : s = Signed(k, r, m, dg) OBVIOUS
  <2>2. out = s BY <2>1, <1>7
  <2>3. sm = out \/ (sm \in Tampered(out) /\ j = k) BY <1>6
  <2>4. \/ sm = s /\ (j = k => dh = dg)
        \/ sm \in Tampered(s) /\ j = k /\ dh = dg
    BY ONLY <1>9, <2>2, <2>3
  <2> QED BY <2>1, <2>4, <1>1, <1>7, OpenOutcome
<1>11. pkRoot[j] = TopOf(Seeded(j), D - 1, 0) BY <1>1, <1>2 DEF KeysRight
<1>12. OpensIffSigned'
  <2>1. opened'.ok <=> j = out.key /\ sm = out BY <1>1, <1>6, <1>7, <1>10, <1>11
  <2>2. opened'.key = j /\ opened'.sm = sm /\ out' = out BY <1>1
  <2> QED BY <2>1, <2>2 DEF OpensIffSigned
<1>13. KeysRight' BY <1>1, <1>2 DEF KeysRight
<1> QED BY <1>3, <1>5, <1>12, <1>13 DEF OpenInv

(* and so does every step.                                                   *)
LEMMA OpenNext == OpenInv /\ [Next]_vars => OpenInv'
<1> SUFFICES ASSUME OpenInv, [Next]_vars PROVE OpenInv' OBVIOUS
<1>1. CASE \E k \in Keys : Keypair(k) BY <1>1, OpenKeypair
<1>2. CASE \E k \in Keys, m \in Messages, o \in Optrands, dg \in Digests : Sign(k, m, o, dg)
  BY <1>2, OpenSign
<1>3. CASE out # Nothing /\ \E dg \in Digests : \E k \in Keys : Open(k, out, dg)
  BY <1>3, OpenOpen
<1>4. CASE out # Nothing /\ \E dg \in Digests : \E sm \in Tampered(out) : Open(out.key, sm, dg)
  BY <1>4, OpenOpen
<1>5. CASE UNCHANGED vars
  BY <1>5 DEF OpenInv, KeysRight, DigestsRight, OutRight, OpensIffSigned, QueryOut, vars
<1> QED BY <1>1, <1>2, <1>3, <1>4, <1>5 DEF Next

(* crypto_sign_open says yes exactly to what crypto_sign returned under the  *)
(* same key pair: to no signature altered anywhere, and to none under        *)
(* another key (OpensIffSigned), in every reachable state.                   *)
THEOREM OpensIffSignedHolds == Spec => []OpensIffSigned
<1>1. OpenInv => OpensIffSigned BY DEF OpenInv
<1> QED BY <1>1, OpenInit, OpenNext, PTL DEF Spec

(* Two digests that select the same FORS leaves are equal in every bit       *)
(* message_to_indices is to read (EveryBitCounts): none of the bits a        *)
(* signature is to depend on is dropped, whatever the sizes.                 *)
THEOREM EveryBitCountsHolds == Spec => []EveryBitCounts
<1>1. OpenInv => EveryBitCounts BY DigestBits DEF OpenInv, DigestsRight, EveryBitCounts
<1> QED BY <1>1, OpenInit, OpenNext, PTL DEF Spec

-----------------------------------------------------------------------------
(* What leaf f of tree t on layer l signs: its FORS key, or the root of the  *)
(* tree below it.                                                            *)
Below(c, l, t, f) ==
  IF l = 0 THEN ForsPk(c, t, f) ELSE TopOf(c, l - 1, t * Pow2[TreeHeight] + f)
LeafSig(k, l, t, f) == WotsSign(Seeded(k), WotsAddr(l, t, f), Below(Seeded(k), l, t, f))
TreesOn(l) == 0..(Pow2[TreeHeight * (D - 1 - l)] - 1)
Leaves == 0..(Pow2[TreeHeight] - 1)
(* The one-time signatures made so far are each by a leaf of the hypertree,  *)
(* over what that leaf stands above.                                         *)
UsedInv ==
  /\ DOMAIN pkRoot \subseteq Keys
  /\ signs \in 0..MaxSigns
  /\ \A s \in used : \E k : \E l \in 0..(D - 1) : \E t \in TreesOn(l), f \in Leaves :
       s = LeafSig(k, l, t, f)

(* The tree on the way up is one of the trees of its layer.                  *)
LEMMA TreeOnIn ==
  ASSUME NEW t \in 0..(Pow2[TreeHeight * (D - 1)] - 1), NEW k \in 0..(D - 1)
  PROVE  TreeOn(t, k) \in TreesOn(k)
<1>1. /\ TreeHeight \in Nat /\ D - 1 \in Nat /\ k \in Nat /\ D - 1 - k \in Nat
      /\ (D - 1 - k) + k = D - 1
  BY SizesAssumption
<1>2. PICK m, n, e : m = TreeHeight * (D - 1) /\ n = TreeHeight * k /\ e = TreeHeight * (D - 1 - k)
  OBVIOUS
<1>3. m \in Nat /\ n \in Nat /\ e \in Nat BY <1>1, <1>2, LayerNat
<1>4. m = n + e
  <2>1. PICK d, x : d = D - 1 /\ x = D - 1 - k OBVIOUS
  <2>2. d = k + x /\ x \in Nat BY <1>1, <2>1
  <2>3. TreeHeight * (k + x) = TreeHeight * k + TreeHeight * x BY ONLY <1>1, <2>2
  <2> QED BY <1>2, <2>1, <2>2, <2>3
<1>5. n <= m /\ m - n = e BY <1>3, <1>4
<1>6. Shr(t, n) \in 0..(Pow2[m - n] - 1) BY <1>2, <1>3, <1>5, ShrBound
<1> QED BY <1>2, <1>5, <1>6 DEF TreeOn, TreesOn

(* A one-time signature crypto_sign makes is of what its leaf stands above.  *)
LEMMA SignUses ==
  ASSUME NEW k, NEW dg \in Digests, NEW n \in 1..D
  PROVE  \E l \in 0..(D - 1) : \E t \in TreesOn(l), f \in Leaves :
           HyperOf(Seeded(k), dg)[n].wots = LeafSig(k, l, t, f)
<1>1. D \in Nat \ {0} /\ n - 1 \in 0..(D - 1) /\ n - 1 \in Nat /\ n - 1 \in 0..D BY SizesAssumption
<1>2. PICK c, t, l, j : c = Seeded(k) /\ t = TreeBits(dg) /\ l = LeafBits(dg) /\ j = n - 1
  OBVIOUS
<1>3. PICK pk, T, F : pk = ForsPk(c, t, l) /\ T = TreeOn(t, j) /\ F = LeafOn(t, l, j)
  OBVIOUS
<1>4. /\ t \in Nat /\ t \in 0..(Pow2[TreeHeight * (D - 1)] - 1) /\ l \in 0..(Pow2[TreeHeight] - 1)
  BY <1>2, DigestPlace
<1>5. HyperOf(c, dg)[n] = HyperPart(c, pk, t, l, j)
  BY <1>2, <1>3 DEF HyperOf, HyperSig
<1>6. HyperOf(c, dg)[n].wots = WotsSign(c, WotsAddr(j, T, F), RootOn(c, pk, t, j))
  BY <1>3, <1>5 DEF HyperPart
<1>7. RootOn(c, pk, t, j) = Below(c, j, T, F)
  <2>1. CASE j = 0
    <3>1. T = t /\ F = l BY <2>1, <1>3, <1>4, UpLayers
    <3> QED BY <2>1, <1>3, <3>1 DEF RootOn, Below
  <2>2. CASE j # 0
    <3>1. PICK i : i = j - 1 OBVIOUS
    <3>2. i \in Nat /\ i + 1 = j BY <1>1, <1>2, <2>2, <3>1
    <3>3. TreeOn(t, i) = TreeOn(t, i + 1) * Pow2[TreeHeight] + LeafOn(t, l, i + 1)
      BY <1>4, <3>2, UpLayers
    <3>4. TreeOn(t, i) = T * Pow2[TreeHeight] + F BY <1>3, <3>2, <3>3
    <3> QED BY <2>2, <3>1, <3>4 DEF RootOn, Below
  <2> QED BY <2>1, <2>2
<1>8. T \in TreesOn(j) BY <1>1, <1>2, <1>3, <1>4, TreeOnIn
<1>9. F \in Leaves BY <1>1, <1>2, <1>3, <1>4, HyperClimb DEF Leaves
<1>10. HyperOf(c, dg)[n].wots = LeafSig(k, j, T, F) BY <1>2, <1>6, <1>7 DEF LeafSig
<1> QED BY <1>1, <1>2, <1>8, <1>9, <1>10

(* UsedInv holds initially,                                                  *)
LEMMA UsedInit == Init => UsedInv
BY SizesAssumption DEF Init, UsedInv

(* and every step keeps it.                                                  *)
LEMMA UsedNext == UsedInv /\ DigestsRight /\ [Next]_vars => UsedInv'
<1> SUFFICES ASSUME UsedInv, [Next]_vars PROVE UsedInv' OBVIOUS
<1>1. ASSUME NEW k \in Keys, Keypair(k) PROVE UsedInv'
  <2>1. DOMAIN pkRoot' = DOMAIN pkRoot \cup {k} /\ signs' = signs /\ used' = used
    BY <1>1, KeypairIs
  <2> QED BY <2>1 DEF UsedInv
<1>2. ASSUME NEW k \in Keys, NEW m, NEW o, NEW dg \in Digests, Sign(k, m, o, dg)
      PROVE  UsedInv'
  <2>1. /\ pkRoot' = pkRoot /\ signs' = signs + 1 /\ signs < MaxSigns
        /\ used' = used \cup {HyperOf(Seeded(k), dg)[n].wots : n \in 1..D}
    BY <1>2, SignIs
  <2>2. signs' \in 0..MaxSigns BY <2>1, SizesAssumption DEF UsedInv
  <2>3. ASSUME NEW s \in used'
        PROVE  \E j : \E l \in 0..(D - 1) : \E t \in TreesOn(l), f \in Leaves :
                 s = LeafSig(j, l, t, f)
    <3>1. CASE s \in used BY <3>1 DEF UsedInv
    <3>2. CASE s \notin used
      <4>1. PICK n \in 1..D : s = HyperOf(Seeded(k), dg)[n].wots BY <2>1, <3>2
      <4> QED BY <4>1, SignUses
    <3> QED BY <3>1, <3>2
  <2> QED BY <2>1, <2>2, <2>3 DEF UsedInv
<1>3. ASSUME NEW j, NEW sm, NEW dh \in Digests, Open(j, sm, dh) PROVE UsedInv'
  <2>1. UNCHANGED <<pkRoot, signs, used>> BY <1>3, OpenIs
  <2> QED BY <2>1 DEF UsedInv
<1>4. CASE UNCHANGED vars BY <1>4 DEF UsedInv, vars
<1> QED BY <1>1, <1>2, <1>3, <1>4 DEF Next

(* The place and the constants of a one-time signature.                      *)
LEMMA KeyWords ==
  ASSUME NEW k, NEW l, NEW t, NEW f
  PROVE  /\ LeafSig(k, l, t, f).key = <<l, t, "wots", f>>
         /\ LeafSig(k, l, t, f).rc = Seeded(k).rc
<1>1. WotsAddr(l, t, f) = Addr(l, t, "wots", f, 0, 0) BY TreeAddrIs
<1>2. WotsKey(WotsAddr(l, t, f)) = <<l, t, "wots", f>> BY <1>1, AddrFields DEF WotsKey
<1> QED BY <1>2 DEF LeafSig, WotsSign

(* No one-time key signs two values, however many messages are signed and    *)
(* whatever digests they get (OneTimeKey): the leaf a random digest selects  *)
(* may be selected again, but signs the same FORS key again.                 *)
THEOREM OneTimeKeyHolds == Spec => []OneTimeKey
<1>1. ASSUME UsedInv PROVE OneTimeKey
  <2>1. ASSUME NEW s \in used
        PROVE  /\ s.key[1] \in 0..(D - 1)
               /\ s.key[2] \in 0..(Pow2[TreeHeight * (D - 1 - s.key[1])] - 1)
               /\ s.key[4] \in 0..(Pow2[TreeHeight] - 1)
    <3>1. PICK k : \E l \in 0..(D - 1) : \E t \in TreesOn(l), f \in Leaves :
            s = LeafSig(k, l, t, f)
      BY <1>1 DEF UsedInv
    <3>2. PICK l \in 0..(D - 1) : \E t \in TreesOn(l), f \in Leaves : s = LeafSig(k, l, t, f)
      BY <3>1
    <3>3. PICK t \in TreesOn(l), f \in Leaves : s = LeafSig(k, l, t, f) BY <3>2
    <3>4. s.key = <<l, t, "wots", f>> BY <3>3, KeyWords
    <3>5. s.key[1] = l /\ s.key[2] = t /\ s.key[4] = f BY <3>4
    <3> QED BY <3>5 DEF TreesOn, Leaves
  <2>2. ASSUME NEW s \in used, NEW u \in used, s.rc = u.rc, s.key = u.key
        PROVE  s = u
    <3>1. PICK k, l, t, f : s = LeafSig(k, l, t, f) BY <1>1 DEF UsedInv
    <3>2. PICK k2, l2, t2, f2 : u = LeafSig(k2, l2, t2, f2) BY <1>1 DEF UsedInv
    <3>3. Seeded(k).rc = Seeded(k2).rc BY <2>2, <3>1, <3>2, KeyWords
    <3>4. k = k2 BY <3>3, OwnConstants
    <3>5. s.key = <<l, t, "wots", f>> /\ u.key = <<l2, t2, "wots", f2>>
      BY <3>1, <3>2, KeyWords
    <3>6. l = l2 /\ t = t2 /\ f = f2
      <4>1. s.key[1] = l /\ s.key[2] = t /\ s.key[4] = f BY <3>5
      <4>2. u.key[1] = l2 /\ u.key[2] = t2 /\ u.key[4] = f2 BY <3>5
      <4> QED BY <2>2, <4>1, <4>2
    <3> QED BY <3>1, <3>2, <3>4, <3>6
  <2> QED BY <1>1, <2>1, <2>2 DEF OneTimeKey, TypeOK, UsedInv
<1>2. UsedInv => OneTimeKey BY <1>1
<1>3. OpenInv => DigestsRight BY DEF OpenInv
<1> QED BY <1>2, <1>3, OpenInit, OpenNext, UsedInit, UsedNext, PTL DEF Spec

-----------------------------------------------------------------------------
(* The nodes a tree has. *)
LEMMA ImageFinite ==
  ASSUME NEW S, IsFiniteSet(S), NEW f
  PROVE  IsFiniteSet({f[x] : x \in S})
<1> DEFINE T == {f[x] : x \in S}
           g == [x \in S |-> f[x]]
<1>1. g \in Surjection(S, T) BY DEF Surjection
<1> HIDE DEF g, T
<1>2. IsFiniteSet(T) BY <1>1, FS_Surjection
<1> QED BY <1>2 DEF T

(* A tree has finitely many nodes, each in a row at an index of the row.     *)
LEMMA NodesFinite ==
  ASSUME NEW c, NEW th \in Nat, NEW off, NEW base, NEW row, DOMAIN row = 0..(Pow2[th] - 1)
  PROVE  /\ IsFiniteSet(NodeSet(Tree(c, th, off, base, row)))
         /\ \A x \in NodeSet(Tree(c, th, off, base, row)) :
              \E h \in 0..th : \E i \in 0..(Pow2[th - h] - 1) :
                x = Tree(c, th, off, base, row)[h][i]
<1> DEFINE t == Tree(c, th, off, base, row)
           R == [h \in 0..th |-> {t[h][i] : i \in DOMAIN t[h]}]
<1>1. /\ DOMAIN t = 0..th /\ t[0] = row
      /\ \A h \in 1..th : t[h] = RowAbove(c, th, off, base, h, t[h - 1])
  BY TreeRows
<1> HIDE DEF t
<1>2. ASSUME NEW h \in 0..th PROVE DOMAIN t[h] = 0..(Pow2[th - h] - 1)
  <2>1. CASE h = 0
    <3>1. th - 0 = th OBVIOUS
    <3> QED BY <2>1, <3>1, <1>1
  <2>2. CASE h # 0
    <3>1. t[h] = RowAbove(c, th, off, base, h, t[h - 1]) BY <1>1, <2>2
    <3> QED BY <3>1 DEF RowAbove
  <2> QED BY <2>1, <2>2
<1>3. NodeSet(t) = UNION {R[h] : h \in 0..th} BY <1>1 DEF NodeSet
<1>4. ASSUME NEW h \in 0..th PROVE IsFiniteSet(R[h])
  <2>0. th - h \in Nat OBVIOUS
  <2>1. PICK n : n = Pow2[th - h] - 1 OBVIOUS
  <2>6. Pow2[th - h] \in Nat BY <2>0, Pow2Recursion
  <2>4. n \in Int BY <2>1, <2>6
  <2>5. IsFiniteSet(0..n) BY <2>4, FS_Interval
  <2>2. IsFiniteSet(DOMAIN t[h]) BY <1>2, <2>1, <2>5
  <2>3. IsFiniteSet({t[h][i] : i \in DOMAIN t[h]}) BY <2>2, ImageFinite
  <2> QED BY <2>3
<1>5. IsFiniteSet({R[h] : h \in 0..th})
  <2> HIDE DEF R
  <2>1. IsFiniteSet(0..th) BY FS_Interval
  <2> QED BY <2>1, ImageFinite
<1>6. IsFiniteSet(NodeSet(t))
  <2> HIDE DEF R
  <2>1. \A T \in {R[h] : h \in 0..th} : IsFiniteSet(T) BY <1>4
  <2> QED BY <1>3, <1>5, <2>1, FS_UNION
<1>7. ASSUME NEW x \in NodeSet(t)
      PROVE  \E h \in 0..th : \E i \in 0..(Pow2[th - h] - 1) : x = t[h][i]
  <2>1. PICK h \in DOMAIN t : x \in {t[h][i] : i \in DOMAIN t[h]} BY DEF NodeSet
  <2>2. PICK i \in DOMAIN t[h] : x = t[h][i] BY <2>1
  <2> QED BY <2>2, <1>1, <1>2
<1> QED BY <1>6, <1>7 DEF t

(* The calls of thash there are.                                             *)
ForsCall(k, t, l, i, h, j) == ForsTreeOf(Seeded(k), t, l, i)[h][j]
HyperCall(k, l, t, h, j) == TreeOf(Seeded(k), l, t)[h][j]
InFors(x) ==
  \E k, t, l : \E i \in Nat : \E h \in 0..ForsHeight : \E j \in 0..(Pow2[ForsHeight - h] - 1) :
    x = ForsCall(k, t, l, i, h, j)
IsForsKey(x) == \E k, t, l : x = ForsPk(Seeded(k), t, l)
InHyper(x) ==
  \E k, l, t : \E h \in 0..TreeHeight : \E j \in 0..(Pow2[TreeHeight - h] - 1) :
    x = HyperCall(k, l, t, h, j)
Called(x) == InFors(x) \/ IsForsKey(x) \/ InHyper(x)

(* The hashes of the FORS trees are finitely many such calls.                *)
LEMMA ForsNodesCalled ==
  ASSUME NEW k, NEW t, NEW l, NEW n \in Nat
  PROVE  /\ IsFiniteSet(ForsHashes(Seeded(k), t, l, n))
         /\ \A x \in ForsHashes(Seeded(k), t, l, n) : Called(x)
<1> DEFINE N == [i \in 0..(n - 1) |-> NodeSet(ForsTreeOf(Seeded(k), t, l, i))]
<1>1. ForsHashes(Seeded(k), t, l, n) = UNION {N[i] : i \in 0..(n - 1)} BY DEF ForsHashes
<1>2. ASSUME NEW i \in 0..(n - 1)
      PROVE  /\ IsFiniteSet(N[i])
             /\ \A x \in N[i] : \E h \in 0..ForsHeight : \E j \in 0..(Pow2[ForsHeight - h] - 1) :
                  x = ForsCall(k, t, l, i, h, j)
  <2>1. PICK c, off, base, row : /\ c = Seeded(k) /\ off = IdxOffset(i) /\ base = ForsBase(t, l)
                                 /\ row = ForsRow(c, off, base)
    OBVIOUS
  <2>2. DOMAIN row = 0..(Pow2[ForsHeight] - 1) BY <2>1 DEF ForsRow
  <2>3. ForsTreeOf(c, t, l, i) = Tree(c, ForsHeight, off, base, row) BY <2>1 DEF ForsTreeOf
  <2>4. N[i] = NodeSet(Tree(c, ForsHeight, off, base, row)) BY <2>1, <2>3
  <2>5. ForsHeight \in Nat BY SizesAssumption
  <2>6. /\ IsFiniteSet(NodeSet(Tree(c, ForsHeight, off, base, row)))
        /\ \A x \in NodeSet(Tree(c, ForsHeight, off, base, row)) :
             \E h \in 0..ForsHeight : \E j \in 0..(Pow2[ForsHeight - h] - 1) :
               x = Tree(c, ForsHeight, off, base, row)[h][j]
    BY <2>2, <2>5, NodesFinite
  <2> HIDE DEF N
  <2> QED BY <2>1, <2>3, <2>4, <2>6 DEF ForsCall
<1> HIDE DEF N
<1>3. IsFiniteSet({N[i] : i \in 0..(n - 1)})
  <2>1. IsFiniteSet(0..(n - 1)) BY FS_Interval
  <2> QED BY <2>1, ImageFinite
<1>4. IsFiniteSet(UNION {N[i] : i \in 0..(n - 1)})
  <2>1. \A T \in {N[i] : i \in 0..(n - 1)} : IsFiniteSet(T) BY <1>2
  <2> QED BY <1>3, <2>1, FS_UNION
<1>5. ASSUME NEW x \in UNION {N[i] : i \in 0..(n - 1)} PROVE Called(x)
  <2>1. PICK i \in 0..(n - 1) : x \in N[i] OBVIOUS
  <2>2. \E h \in 0..ForsHeight : \E j \in 0..(Pow2[ForsHeight - h] - 1) :
          x = ForsCall(k, t, l, i, h, j)
    BY <1>2, <2>1
  <2> QED BY <2>2 DEF Called, InFors
<1> QED BY <1>1, <1>4, <1>5

(* So are those of a tree of the hypertree.                                  *)
LEMMA HyperNodesCalled ==
  ASSUME NEW k, NEW l, NEW t
  PROVE  /\ IsFiniteSet(NodeSet(TreeOf(Seeded(k), l, t)))
         /\ \A x \in NodeSet(TreeOf(Seeded(k), l, t)) : Called(x)
<1>1. PICK c, z, base, row : /\ c = Seeded(k) /\ z = 0 /\ base = TreeAddr(l, t)
                             /\ row = WotsRow(c, base)
  OBVIOUS
<1>2. DOMAIN row = 0..(Pow2[TreeHeight] - 1) BY <1>1 DEF WotsRow
<1>3. TreeOf(c, l, t) = Tree(c, TreeHeight, z, base, row) BY <1>1 DEF TreeOf
<1>4. TreeHeight \in Nat BY SizesAssumption
<1>5. /\ IsFiniteSet(NodeSet(Tree(c, TreeHeight, z, base, row)))
      /\ \A x \in NodeSet(Tree(c, TreeHeight, z, base, row)) :
           \E h \in 0..TreeHeight : \E j \in 0..(Pow2[TreeHeight - h] - 1) :
             x = Tree(c, TreeHeight, z, base, row)[h][j]
  BY <1>2, <1>4, NodesFinite
<1>6. ASSUME NEW x \in NodeSet(TreeOf(Seeded(k), l, t)) PROVE Called(x)
  <2>1. \E h \in 0..TreeHeight : \E j \in 0..(Pow2[TreeHeight - h] - 1) :
          x = HyperCall(k, l, t, h, j)
    BY <1>1, <1>3, <1>5 DEF HyperCall
  <2> QED BY <2>1 DEF Called, InHyper
<1> QED BY <1>1, <1>3, <1>5, <1>6

(* So are those of the trees on the way up.                                  *)
LEMMA HyperHashesCalled ==
  ASSUME NEW k, NEW t, NEW n \in Nat
  PROVE  /\ IsFiniteSet(HyperHashes(Seeded(k), t, n))
         /\ \A x \in HyperHashes(Seeded(k), t, n) : Called(x)
<1> DEFINE N == [i \in 0..(n - 1) |-> NodeSet(TreeOf(Seeded(k), i, TreeOn(t, i)))]
<1>1. HyperHashes(Seeded(k), t, n) = UNION {N[i] : i \in 0..(n - 1)} BY DEF HyperHashes
<1>2. \A i \in 0..(n - 1) : IsFiniteSet(N[i]) /\ \A x \in N[i] : Called(x)
  BY HyperNodesCalled
<1> HIDE DEF N
<1>3. IsFiniteSet({N[i] : i \in 0..(n - 1)})
  <2>1. IsFiniteSet(0..(n - 1)) BY FS_Interval
  <2> QED BY <2>1, ImageFinite
<1>4. IsFiniteSet(UNION {N[i] : i \in 0..(n - 1)})
  <2>1. \A T \in {N[i] : i \in 0..(n - 1)} : IsFiniteSet(T) BY <1>2
  <2> QED BY <1>3, <2>1, FS_UNION
<1> QED BY <1>1, <1>2, <1>4

-----------------------------------------------------------------------------
(* The place of a node in the trees of an instance tells tree and node.      *)
LEMMA IndexSplit ==
  ASSUME NEW h \in 0..ForsHeight, NEW i \in Nat, NEW k \in Nat,
         NEW x \in 0..(Pow2[ForsHeight - h] - 1), NEW y \in 0..(Pow2[ForsHeight - h] - 1),
         x + Shr(IdxOffset(i), h) = y + Shr(IdxOffset(k), h)
  PROVE  i = k /\ x = y
<1>1. ForsHeight \in Nat /\ h \in Nat /\ ForsHeight - h \in Nat /\ h + (ForsHeight - h) = ForsHeight
  BY SizesAssumption
<1>2. PICK m, p, q : m = ForsHeight - h /\ p = Pow2[m] /\ q = Pow2[h] OBVIOUS
<1>3. p \in Nat \ {0} /\ q \in Nat \ {0} BY <1>1, <1>2, Pow2Recursion
<1>4. Pow2[ForsHeight] = q * p
  <2>1. Pow2[h + m] = Pow2[h] * Pow2[m] BY <1>1, <1>2, Pow2Sum
  <2> QED BY <1>1, <1>2, <2>1
<1>5. ASSUME NEW n \in Nat PROVE Shr(IdxOffset(n), h) = n * p
  <2>1. IdxOffset(n) = n * (q * p) BY <1>4 DEF IdxOffset
  <2>2. n * p \in Nat BY <1>3, TimesNat
  <2>3. n * (q * p) = (n * p) * q BY <1>3
  <2>4. PICK w : w = n * p OBVIOUS
  <2>5. (w * q) \div q = w BY ONLY <2>2, <2>4, <1>3
  <2> QED BY <1>2, <2>1, <2>3, <2>4, <2>5 DEF Shr
<1>6. i * p + x = k * p + y
  <2>1. i * p \in Nat /\ k * p \in Nat BY <1>3, TimesNat
  <2>2. x \in Nat /\ y \in Nat BY <1>2, <1>3
  <2>3. PICK u, v : u = i * p /\ v = k * p OBVIOUS
  <2>4. x + u = y + v BY <1>5, <2>3
  <2> QED BY <2>1, <2>2, <2>3, <2>4
<1>7. x \in 0..(p - 1) /\ y \in 0..(p - 1) BY <1>2
<1> QED BY <1>3, <1>6, <1>7, SplitUnique

(* The constants and the address of a call.                                  *)
LEMMA ThashParts ==
  ASSUME NEW c, NEW a, NEW x
  PROVE  Thash(c, a, x).rc = c.rc /\ Thash(c, a, x).addr = a
BY DEF Thash

(* The address and constants of each kind of call.                           *)
LEMMA ForsCallAt ==
  ASSUME NEW k, NEW t, NEW l, NEW i \in Nat, NEW h \in 0..ForsHeight,
         NEW j \in 0..(Pow2[ForsHeight - h] - 1)
  PROVE  /\ ForsCall(k, t, l, i, h, j).rc = Seeded(k).rc
         /\ ForsCall(k, t, l, i, h, j).addr
              = Addr(0, t, "forstree", l, h, j + Shr(IdxOffset(i), h))
<1>1. PICK in : ForsCall(k, t, l, i, h, j)
                  = Thash(Seeded(k), At(ForsBase(t, l), h, j + Shr(IdxOffset(i), h)), in)
  BY ForsNode DEF ForsCall
<1>2. ForsBase(t, l) = Addr(0, t, "forstree", l, 0, 0) BY ForsBaseIs
<1>3. At(ForsBase(t, l), h, j + Shr(IdxOffset(i), h))
        = Addr(0, t, "forstree", l, h, j + Shr(IdxOffset(i), h))
  BY <1>2, SetPlace
<1> QED BY <1>1, <1>3, ThashParts

(* The same for the hash of the FORS roots.                                  *)
LEMMA ForsKeyAt ==
  ASSUME NEW k, NEW t, NEW l
  PROVE  /\ ForsPk(Seeded(k), t, l).rc = Seeded(k).rc
         /\ ForsPk(Seeded(k), t, l).addr = Addr(0, t, "forspk", l, 0, 0)
<1>1. ForsAddrOf(t, l) = Addr(0, t, "wots", l, 0, 0) BY ForsBaseIs
<1>2. ForsPkAddr(ForsAddrOf(t, l)) = Addr(0, t, "forspk", l, 0, 0)
  BY <1>1, AddrCopies DEF ForsPkAddr
<1> QED BY <1>2, ThashParts DEF ForsPk

(* The same for the nodes of the hypertree.                                  *)
LEMMA HyperCallAt ==
  ASSUME NEW k, NEW l, NEW t, NEW h \in 0..TreeHeight,
         NEW j \in 0..(Pow2[TreeHeight - h] - 1)
  PROVE  /\ HyperCall(k, l, t, h, j).rc = Seeded(k).rc
         /\ HyperCall(k, l, t, h, j).addr
              = IF h = 0 THEN Addr(l, t, "wotspk", j, 0, 0) ELSE Addr(l, t, "hashtree", 0, h, j)
<1>0. PICK a : a = IF h = 0 THEN CopyKeypair(OfType("wotspk"), WotsAddr(l, t, j))
                   ELSE At(TreeAddr(l, t), h, j)
  OBVIOUS
<1>7. PICK c : c = Seeded(k) OBVIOUS
<1>8. \E in : TreeOf(c, l, t)[h][j]
                 = Thash(c, IF h = 0 THEN CopyKeypair(OfType("wotspk"), WotsAddr(l, t, j))
                            ELSE At(TreeAddr(l, t), h, j), in)
  BY HyperNode
<1>1. PICK in : HyperCall(k, l, t, h, j) = Thash(c, a, in) BY <1>0, <1>7, <1>8 DEF HyperCall
<1>2. /\ TreeAddr(l, t) = Addr(l, t, "hashtree", 0, 0, 0)
      /\ WotsAddr(l, t, j) = Addr(l, t, "wots", j, 0, 0)
  BY TreeAddrIs
<1>3. At(TreeAddr(l, t), h, j) = Addr(l, t, "hashtree", 0, h, j) BY <1>2, SetPlace
<1>4. CopyKeypair(OfType("wotspk"), WotsAddr(l, t, j)) = Addr(l, t, "wotspk", j, 0, 0)
  BY <1>2, AddrCopies
<1>6. HyperCall(k, l, t, h, j).rc = Seeded(k).rc /\ HyperCall(k, l, t, h, j).addr = a
  BY <1>1, <1>7, ThashParts
<1> QED BY <1>0, <1>3, <1>4, <1>6

(* An address and the constants tell the call.                               *)
LEMMA AddrWords ==
  ASSUME NEW l, NEW t, NEW y, NEW k, NEW h, NEW x,
         NEW l2, NEW t2, NEW y2, NEW k2, NEW h2, NEW x2,
         Addr(l, t, y, k, h, x) = Addr(l2, t2, y2, k2, h2, x2)
  PROVE  l = l2 /\ t = t2 /\ y = y2 /\ k = k2 /\ h = h2 /\ x = x2
<1>1. PICK a : a = Addr(l, t, y, k, h, x) OBVIOUS
<1>2. /\ a.layer = l /\ a.tree = t /\ a.type = y /\ a.keypair = k /\ a.height = h /\ a.index = x
  BY <1>1, AddrFields
<1>3. /\ a.layer = l2 /\ a.tree = t2 /\ a.type = y2 /\ a.keypair = k2 /\ a.height = h2
      /\ a.index = x2
  BY <1>1, AddrFields
<1> QED BY <1>2, <1>3

(* The types of the addresses tell the kinds of calls apart.                 *)
LEMMA CallTypes ==
  ASSUME NEW x
  PROVE  /\ InFors(x) => x.addr.type = "forstree"
         /\ IsForsKey(x) => x.addr.type = "forspk"
         /\ InHyper(x) => x.addr.type \in {"wotspk", "hashtree"}
<1>1. ASSUME InFors(x) PROVE x.addr.type = "forstree"
  <2>1. PICK k, t, l : \E i \in Nat : \E h \in 0..ForsHeight : \E j \in 0..(Pow2[ForsHeight - h] - 1) :
          x = ForsCall(k, t, l, i, h, j)
    BY <1>1 DEF InFors
  <2>2. PICK i \in Nat, h \in 0..ForsHeight : \E j \in 0..(Pow2[ForsHeight - h] - 1) :
          x = ForsCall(k, t, l, i, h, j)
    BY <2>1
  <2>3. PICK j \in 0..(Pow2[ForsHeight - h] - 1) : x = ForsCall(k, t, l, i, h, j) BY <2>2
  <2>4. PICK p : p = j + Shr(IdxOffset(i), h) OBVIOUS
  <2>5. x.addr = Addr(0, t, "forstree", l, h, p) BY <2>3, <2>4, ForsCallAt
  <2> QED BY <2>5, AddrFields
<1>2. ASSUME IsForsKey(x) PROVE x.addr.type = "forspk"
  <2>1. PICK k, t, l : x = ForsPk(Seeded(k), t, l) BY <1>2 DEF IsForsKey
  <2>2. x.addr = Addr(0, t, "forspk", l, 0, 0) BY <2>1, ForsKeyAt
  <2> QED BY <2>2, AddrFields
<1>3. ASSUME InHyper(x) PROVE x.addr.type \in {"wotspk", "hashtree"}
  <2>1. PICK k, l, t : \E h \in 0..TreeHeight : \E j \in 0..(Pow2[TreeHeight - h] - 1) :
          x = HyperCall(k, l, t, h, j)
    BY <1>3 DEF InHyper
  <2>2. PICK h \in 0..TreeHeight : \E j \in 0..(Pow2[TreeHeight - h] - 1) :
          x = HyperCall(k, l, t, h, j)
    BY <2>1
  <2>3. PICK j \in 0..(Pow2[TreeHeight - h] - 1) : x = HyperCall(k, l, t, h, j) BY <2>2
  <2>4. x.addr = IF h = 0 THEN Addr(l, t, "wotspk", j, 0, 0) ELSE Addr(l, t, "hashtree", 0, h, j)
    BY <2>3, HyperCallAt
  <2> QED BY <2>4, AddrFields
<1> QED BY <1>1, <1>2, <1>3

(* Calls with the same constants and the same address are the same call.     *)
LEMMA CallUnique ==
  ASSUME NEW x, NEW y, Called(x), Called(y), x.rc = y.rc, x.addr = y.addr
  PROVE  x = y
<1>1. ASSUME InFors(x), InFors(y) PROVE x = y
  <2>1. PICK k, t, l : \E i \in Nat : \E h \in 0..ForsHeight : \E j \in 0..(Pow2[ForsHeight - h] - 1) :
          x = ForsCall(k, t, l, i, h, j)
    BY <1>1 DEF InFors
  <2>2. PICK i \in Nat, h \in 0..ForsHeight : \E j \in 0..(Pow2[ForsHeight - h] - 1) :
          x = ForsCall(k, t, l, i, h, j)
    BY <2>1
  <2>3. PICK j \in 0..(Pow2[ForsHeight - h] - 1) : x = ForsCall(k, t, l, i, h, j) BY <2>2
  <2>4. PICK k2, t2, l2 : \E i2 \in Nat : \E h2 \in 0..ForsHeight :
          \E j2 \in 0..(Pow2[ForsHeight - h2] - 1) : y = ForsCall(k2, t2, l2, i2, h2, j2)
    BY <1>1 DEF InFors
  <2>5. PICK i2 \in Nat, h2 \in 0..ForsHeight : \E j2 \in 0..(Pow2[ForsHeight - h2] - 1) :
          y = ForsCall(k2, t2, l2, i2, h2, j2)
    BY <2>4
  <2>6. PICK j2 \in 0..(Pow2[ForsHeight - h2] - 1) : y = ForsCall(k2, t2, l2, i2, h2, j2) BY <2>5
  <2>7. PICK p, p2 : p = j + Shr(IdxOffset(i), h) /\ p2 = j2 + Shr(IdxOffset(i2), h2) OBVIOUS
  <2>8. x.rc = Seeded(k).rc /\ x.addr = Addr(0, t, "forstree", l, h, p)
    BY <2>3, <2>7, ForsCallAt
  <2>9. y.rc = Seeded(k2).rc /\ y.addr = Addr(0, t2, "forstree", l2, h2, p2)
    BY <2>6, <2>7, ForsCallAt
  <2>10. k = k2 BY <2>8, <2>9, OwnConstants
  <2>11. t = t2 /\ l = l2 /\ h = h2 /\ p = p2
    <3>1. Addr(0, t, "forstree", l, h, p) = Addr(0, t2, "forstree", l2, h2, p2) BY <2>8, <2>9
    <3> QED BY <3>1, AddrWords
  <2>12. i = i2 /\ j = j2 BY <2>7, <2>11, IndexSplit
  <2> QED BY <2>3, <2>6, <2>10, <2>11, <2>12
<1>2. ASSUME IsForsKey(x), IsForsKey(y) PROVE x = y
  <2>1. PICK k, t, l : x = ForsPk(Seeded(k), t, l) BY <1>2 DEF IsForsKey
  <2>2. PICK k2, t2, l2 : y = ForsPk(Seeded(k2), t2, l2) BY <1>2 DEF IsForsKey
  <2>3. x.rc = Seeded(k).rc /\ x.addr = Addr(0, t, "forspk", l, 0, 0) BY <2>1, ForsKeyAt
  <2>4. y.rc = Seeded(k2).rc /\ y.addr = Addr(0, t2, "forspk", l2, 0, 0) BY <2>2, ForsKeyAt
  <2>5. k = k2 BY <2>3, <2>4, OwnConstants
  <2>6. t = t2 /\ l = l2
    <3>1. Addr(0, t, "forspk", l, 0, 0) = Addr(0, t2, "forspk", l2, 0, 0) BY <2>3, <2>4
    <3> QED BY <3>1, AddrWords
  <2> QED BY <2>1, <2>2, <2>5, <2>6
<1>3. ASSUME InHyper(x), InHyper(y) PROVE x = y
  <2>1. PICK k, l, t : \E h \in 0..TreeHeight : \E j \in 0..(Pow2[TreeHeight - h] - 1) :
          x = HyperCall(k, l, t, h, j)
    BY <1>3 DEF InHyper
  <2>2. PICK h \in 0..TreeHeight : \E j \in 0..(Pow2[TreeHeight - h] - 1) :
          x = HyperCall(k, l, t, h, j)
    BY <2>1
  <2>3. PICK j \in 0..(Pow2[TreeHeight - h] - 1) : x = HyperCall(k, l, t, h, j) BY <2>2
  <2>4. PICK k2, l2, t2 : \E h2 \in 0..TreeHeight : \E j2 \in 0..(Pow2[TreeHeight - h2] - 1) :
          y = HyperCall(k2, l2, t2, h2, j2)
    BY <1>3 DEF InHyper
  <2>5. PICK h2 \in 0..TreeHeight : \E j2 \in 0..(Pow2[TreeHeight - h2] - 1) :
          y = HyperCall(k2, l2, t2, h2, j2)
    BY <2>4
  <2>6. PICK j2 \in 0..(Pow2[TreeHeight - h2] - 1) : y = HyperCall(k2, l2, t2, h2, j2) BY <2>5
  <2>7. /\ x.rc = Seeded(k).rc
        /\ x.addr = IF h = 0 THEN Addr(l, t, "wotspk", j, 0, 0) ELSE Addr(l, t, "hashtree", 0, h, j)
    BY <2>3, HyperCallAt
  <2>8. /\ y.rc = Seeded(k2).rc
        /\ y.addr = IF h2 = 0 THEN Addr(l2, t2, "wotspk", j2, 0, 0)
                    ELSE Addr(l2, t2, "hashtree", 0, h2, j2)
    BY <2>6, HyperCallAt
  <2>9. k = k2 BY <2>7, <2>8, OwnConstants
  <2>10. "wotspk" # "hashtree" OBVIOUS
  <2>11. l = l2 /\ t = t2 /\ h = h2 /\ j = j2
    <3>1. CASE h = 0 /\ h2 = 0
      <4>1. Addr(l, t, "wotspk", j, 0, 0) = Addr(l2, t2, "wotspk", j2, 0, 0)
        BY <2>7, <2>8, <3>1
      <4> QED BY <3>1, <4>1, AddrWords
    <3>2. CASE h = 0 /\ h2 # 0
      <4>1. Addr(l, t, "wotspk", j, 0, 0) = Addr(l2, t2, "hashtree", 0, h2, j2)
        BY <2>7, <2>8, <3>2
      <4>2. "wotspk" = "hashtree" BY <4>1, AddrWords
      <4> QED BY <2>10, <4>2
    <3>3. CASE h # 0 /\ h2 = 0
      <4>1. Addr(l, t, "hashtree", 0, h, j) = Addr(l2, t2, "wotspk", j2, 0, 0)
        BY <2>7, <2>8, <3>3
      <4>2. "wotspk" = "hashtree" BY <4>1, AddrWords
      <4> QED BY <2>10, <4>2
    <3>4. CASE h # 0 /\ h2 # 0
      <4>1. Addr(l, t, "hashtree", 0, h, j) = Addr(l2, t2, "hashtree", 0, h2, j2)
        BY <2>7, <2>8, <3>4
      <4> QED BY <4>1, AddrWords
    <3> QED BY <3>1, <3>2, <3>3, <3>4
  <2> QED BY <2>3, <2>6, <2>9, <2>11
<1>4. /\ InFors(x) => x.addr.type = "forstree"
      /\ IsForsKey(x) => x.addr.type = "forspk"
      /\ InHyper(x) => x.addr.type \in {"wotspk", "hashtree"}
  BY CallTypes
<1>5. /\ InFors(y) => y.addr.type = "forstree"
      /\ IsForsKey(y) => y.addr.type = "forspk"
      /\ InHyper(y) => y.addr.type \in {"wotspk", "hashtree"}
  BY CallTypes
<1> QED BY <1>1, <1>2, <1>3, <1>4, <1>5 DEF Called

-----------------------------------------------------------------------------
(* A secret value of FORS in a signature, and its place.                     *)
SecretAt(k, dg, i) ==
  [place |-> PlaceOf(k, dg, i),
   sk |-> ForsSecret(Seeded(k), TreeBits(dg), LeafBits(dg), i - 1, Indices(dg.md)[i - 1])]
(* The hashes made so far are calls of those kinds, and the secrets revealed *)
(* are of FORS leaves.                                                       *)
HashInv ==
  /\ IsFiniteSet(hashes)
  /\ \A x \in hashes : Called(x)
  /\ \A x \in revealed : \E k : \E dg \in Digests : \E i \in 1..ForsTrees : x = SecretAt(k, dg, i)

(* HashInv holds initially,                                                  *)
LEMMA HashInit == Init => HashInv
BY FS_EmptySet DEF Init, HashInv

(* and every step keeps it.                                                  *)
LEMMA HashNext == HashInv /\ DigestsRight /\ [Next]_vars => HashInv'
<1> SUFFICES ASSUME HashInv, [Next]_vars PROVE HashInv' OBVIOUS
<1>1. ASSUME NEW k \in Keys, Keypair(k) PROVE HashInv'
  <2>1. /\ hashes' = hashes \cup NodeSet(TreeOf(Seeded(k), D - 1, 0))
        /\ revealed' = revealed
    BY <1>1, KeypairIs
  <2>2. PICK N : N = NodeSet(TreeOf(Seeded(k), D - 1, 0)) OBVIOUS
  <2>3. IsFiniteSet(N) /\ \A x \in N : Called(x) BY <2>2, HyperNodesCalled
  <2>4. hashes' = hashes \cup N BY <2>1, <2>2
  <2>5. IsFiniteSet(hashes') BY <2>3, <2>4, FS_Union DEF HashInv
  <2> QED BY <2>1, <2>3, <2>4, <2>5 DEF HashInv
<1>2. ASSUME NEW k \in Keys, NEW m, NEW o, NEW dg \in Digests, Sign(k, m, o, dg)
      PROVE  HashInv'
  <2>1. PICK c, t, l : c = Seeded(k) /\ t = TreeBits(dg) /\ l = LeafBits(dg) OBVIOUS
  <2>2. PICK F, P, H : /\ F = ForsHashes(c, t, l, ForsTrees) /\ P = ForsPk(c, t, l)
                       /\ H = HyperHashes(c, t, D)
    OBVIOUS
  <2>3. hashes' = (hashes \cup (F \cup {P})) \cup H BY <1>2, <2>1, <2>2, SignIs
  <2>4. IsFiniteSet(F) /\ \A x \in F : Called(x)
    <3>1. ForsTrees \in Nat BY SizesAssumption
    <3> QED BY <2>1, <2>2, <3>1, ForsNodesCalled
  <2>5. IsFiniteSet(H) /\ \A x \in H : Called(x)
    <3>1. D \in Nat BY SizesAssumption
    <3> QED BY <2>1, <2>2, <3>1, HyperHashesCalled
  <2>6. IsFiniteSet({P}) BY FS_Singleton
  <2>7. Called(P) BY <2>1, <2>2 DEF Called, IsForsKey
  <2>8. IsFiniteSet(hashes')
    <3>1. IsFiniteSet(F \cup {P}) BY <2>4, <2>6, FS_Union
    <3>2. IsFiniteSet(hashes \cup (F \cup {P})) BY <3>1, FS_Union DEF HashInv
    <3> QED BY <2>3, <2>5, <3>2, FS_Union
  <2>9. \A x \in hashes' : Called(x) BY <2>3, <2>4, <2>5, <2>7 DEF HashInv
  <2>10. ASSUME NEW x \in revealed'
         PROVE  \E j : \E dh \in Digests : \E i \in 1..ForsTrees : x = SecretAt(j, dh, i)
    <3>1. CASE x \in revealed BY <3>1 DEF HashInv
    <3>2. CASE x \notin revealed
      <4>1. PICK i \in 1..ForsTrees :
              x = [place |-> PlaceOf(k, dg, i), sk |-> ForsSig(c, t, l, dg.md)[i].sk]
        BY <1>2, <2>1, <3>2, SignIs
      <4>2. ForsSig(c, t, l, dg.md)[i].sk = ForsSecret(c, t, l, i - 1, Indices(dg.md)[i - 1])
        <5>1. PICK a, b : a = i - 1 /\ b = Indices(dg.md)[i - 1] OBVIOUS
        <5>2. ForsSig(c, t, l, dg.md)[i] = ForsSigPart(c, t, l, a, b) BY <5>1 DEF ForsSig
        <5> QED BY <5>1, <5>2 DEF ForsSigPart
      <4>3. x = SecretAt(k, dg, i) BY <2>1, <4>1, <4>2 DEF SecretAt
      <4> QED BY <4>3
    <3> QED BY <3>1, <3>2
  <2> QED BY <2>8, <2>9, <2>10 DEF HashInv
<1>3. ASSUME NEW j, NEW sm, NEW dh \in Digests, Open(j, sm, dh) PROVE HashInv'
  <2>1. UNCHANGED <<hashes, revealed>> BY <1>3, OpenIs
  <2> QED BY <2>1 DEF HashInv
<1>4. CASE UNCHANGED vars BY <1>4 DEF HashInv, vars
<1> QED BY <1>1, <1>2, <1>3, <1>4 DEF Next

(* A secret tells its place.                                                 *)
LEMMA SecretPlace ==
  ASSUME NEW k, NEW dg \in Digests, NEW i \in 1..ForsTrees,
         NEW k2, NEW dh \in Digests, NEW i2 \in 1..ForsTrees,
         SecretAt(k, dg, i).sk = SecretAt(k2, dh, i2).sk
  PROVE  SecretAt(k, dg, i).place = SecretAt(k2, dh, i2).place
<1>1. PICK t, l, n, x : /\ t = TreeBits(dg) /\ l = LeafBits(dg) /\ n = i - 1
                        /\ x = Indices(dg.md)[n]
  OBVIOUS
<1>2. PICK t2, l2, n2, x2 : /\ t2 = TreeBits(dh) /\ l2 = LeafBits(dh) /\ n2 = i2 - 1
                            /\ x2 = Indices(dh.md)[n2]
  OBVIOUS
<1>3. PICK p, p2 : p = x + IdxOffset(n) /\ p2 = x2 + IdxOffset(n2) OBVIOUS
<1>4. ASSUME NEW c, NEW tt, NEW ll, NEW pp
      PROVE  At(ForsBase(tt, ll), 0, pp) = Addr(0, tt, "forstree", ll, 0, pp)
  BY ForsBaseIs, SetPlace
<1>5. PICK a, a2 : /\ a = Addr(0, t, "forstree", l, 0, p)
                   /\ a2 = Addr(0, t2, "forstree", l2, 0, p2)
  OBVIOUS
<1>6. SecretAt(k, dg, i).sk = PrfAddr(Seeded(k), a)
  BY <1>1, <1>3, <1>4, <1>5 DEF SecretAt, ForsSecret
<1>7. SecretAt(k2, dh, i2).sk = PrfAddr(Seeded(k2), a2)
  BY <1>2, <1>3, <1>4, <1>5 DEF SecretAt, ForsSecret
<1>8. Seeded(k).rcSseed = Seeded(k2).rcSseed /\ a = a2
  <2>1. /\ PrfAddr(Seeded(k), a).rcSseed = Seeded(k).rcSseed
        /\ PrfAddr(Seeded(k2), a2).rcSseed = Seeded(k2).rcSseed
        /\ PrfAddr(Seeded(k), a).addr = a /\ PrfAddr(Seeded(k2), a2).addr = a2
    BY DEF PrfAddr
  <2> QED BY <1>6, <1>7, <2>1
<1>9. k = k2
  <2>1. <<Standard, SkSeed(k)>> = <<Standard, SkSeed(k2)>> BY <1>8 DEF Seeded
  <2>2. \A u, v, w : <<w, u>> = <<w, v>> => u = v OBVIOUS
  <2>3. SkSeed(k) = SkSeed(k2) BY <2>1, <2>2, Zenon
  <2>4. SkSeed(k)[2] = k /\ SkSeed(k2)[2] = k2 BY DEF SkSeed
  <2> QED BY <2>3, <2>4
<1>10. t = t2 /\ l = l2 /\ p = p2 BY <1>5, <1>8, AddrWords
<1>11. n = n2 /\ x = x2
  <2>1. n \in 0..(ForsTrees - 1) /\ n2 \in 0..(ForsTrees - 1) /\ n \in Nat /\ n2 \in Nat
    BY <1>1, <1>2, SizesAssumption
  <2>2. x \in 0..(Pow2[ForsHeight] - 1) /\ x2 \in 0..(Pow2[ForsHeight] - 1)
    BY <1>1, <1>2, <2>1, IndexRange
  <2>3. PICK q : q = Pow2[ForsHeight] OBVIOUS
  <2>4. q \in Nat \ {0} BY <2>3, SizesAssumption, Pow2Recursion
  <2>5. n * q + x = n2 * q + x2
    <3>1. n * q \in Nat /\ n2 * q \in Nat BY <2>1, <2>4, TimesNat
    <3>2. x + n * q = x2 + n2 * q BY <1>3, <1>10, <2>3 DEF IdxOffset
    <3>3. x \in Nat /\ x2 \in Nat BY <2>2, <2>3, <2>4
    <3>4. PICK u, v : u = n * q /\ v = n2 * q OBVIOUS
    <3> QED BY <3>1, <3>2, <3>3, <3>4
  <2>6. x \in 0..(q - 1) /\ x2 \in 0..(q - 1) BY <2>2, <2>3
  <2> QED BY <2>1, <2>4, <2>5, <2>6, SplitUnique
<1>12. i = i2 BY <1>1, <1>2, <1>11
<1>13. PlaceOf(k, dg, i) = PlaceOf(k2, dh, i2)
  BY <1>1, <1>2, <1>9, <1>10, <1>11, <1>12 DEF PlaceOf
<1> QED BY <1>13 DEF SecretAt

(* No address is hashed twice with different inputs under the same key, and  *)
(* no secret value of FORS stands at two places (AddressUnique), whatever is *)
(* signed: the types, and in a type the words for layer, tree, leaf, height  *)
(* and index, never coincide.                                                *)
THEOREM AddressUniqueHolds == Spec => []AddressUnique
<1>1. ASSUME HashInv PROVE AddressUnique
  <2> DEFINE T == {<<x.rc, x.addr>> : x \in hashes}
             f == [x \in hashes |-> <<x.rc, x.addr>>]
  <2>1. ASSUME NEW x \in hashes, NEW y \in hashes, f[x] = f[y] PROVE x = y
    <3>1. <<x.rc, x.addr>> = <<y.rc, y.addr>> BY <2>1
    <3>2. x.rc = y.rc /\ x.addr = y.addr
      <4>1. \A a, b, c, d : <<a, b>> = <<c, d>> => a = c /\ b = d OBVIOUS
      <4> QED BY <3>1, <4>1, Zenon
    <3>3. Called(x) /\ Called(y) BY <1>1 DEF HashInv
    <3> QED BY <3>2, <3>3, CallUnique
  <2>2. f \in Injection(hashes, T)
    <3>1. f \in [hashes -> T] /\ DOMAIN f = hashes OBVIOUS
    <3> HIDE DEF f, T
    <3> QED BY <2>1, <3>1 DEF Injection, IsInjective
  <2>3. f \in Surjection(hashes, T) BY DEF Surjection
  <2> HIDE DEF f, T
  <2>4. IsFiniteSet(hashes) BY <1>1 DEF HashInv
  <2>5. ExistsBijection(hashes, T) BY <2>2, <2>3 DEF ExistsBijection, Bijection
  <2>6. Cardinality(T) = Cardinality(hashes) BY <2>4, <2>5, FS_Bijection
  <2>7. ASSUME NEW x \in revealed, NEW y \in revealed, x.sk = y.sk PROVE x.place = y.place
    <3>1. PICK k : \E dg \in Digests : \E i \in 1..ForsTrees : x = SecretAt(k, dg, i)
      BY <1>1 DEF HashInv
    <3>2. PICK dg \in Digests, i \in 1..ForsTrees : x = SecretAt(k, dg, i) BY <3>1
    <3>3. PICK k2 : \E dh \in Digests : \E i2 \in 1..ForsTrees : y = SecretAt(k2, dh, i2)
      BY <1>1 DEF HashInv
    <3>4. PICK dh \in Digests, i2 \in 1..ForsTrees : y = SecretAt(k2, dh, i2) BY <3>3
    <3> QED BY <2>7, <3>2, <3>4, SecretPlace
  <2> QED BY <2>6, <2>7 DEF AddressUnique, T
<1>2. HashInv => AddressUnique BY <1>1
<1>3. OpenInv => DigestsRight BY DEF OpenInv
<1> QED BY <1>2, <1>3, OpenInit, OpenNext, HashInit, HashNext, PTL DEF Spec
=============================================================================
