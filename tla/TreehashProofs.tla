--------------------------- MODULE TreehashProofs ---------------------------
(***************************************************************************)
(* Proofs about treehash, for every height, every offset that is a         *)
(* multiple of the number of leaves, and every leaf whose path is wanted.  *)
(***************************************************************************)
EXTENDS Treehash, TreeProofs

(* The nodes whose heights are known to decrease: all of them, but for the   *)
(* topmost one while it may still have to be merged.                         *)
Settled == IF pc = "merge" THEN 0..(offset - 2) ELSE 0..(offset - 1)

(* What follows for the whole stack from its heights decreasing: how high    *)
(* and how far to the right the p-th node can be.                            *)
Spread ==
  /\ \A p \in 0..(offset - 1) : End(p) <= IdxOffset + Done
  /\ \A p \in Settled :
       /\ heights[p] + p <= heights[0]
       /\ End(p) + Pow2[heights[p]] <= IdxOffset + 2 * Pow2[heights[0]]

(* What the merge loop runs on, and what it leaves at the end. *)
Control ==
  /\ pc = "merge" => idx < Pow2[TreeHeight]
  /\ pc = "done" => idx = Pow2[TreeHeight] /\ root = stack[0]

(* The node of the path at height h, its index counted within the tree. *)
PathIdx(h) == Sibling(Shr(leafIdx, h))

(* Its last leaf has been read, and every merge it takes part in is done. *)
PathDone(h) ==
  \/ (PathIdx(h) + 1) * Pow2[h] <= idx
  \/ /\ pc = "merge"
     /\ (PathIdx(h) + 1) * Pow2[h] = idx + 1
     /\ h <= heights[offset - 1]

(* The nodes of the path are copied out as soon as they are computed. *)
PathSoFar ==
  \A h \in Levels :
    PathDone(h) => auth[h] = Node(Subtree, h, Shr(IdxOffset, h) + PathIdx(h))

(* The inductive invariant. *)
IInv ==
  /\ TypeOK
  /\ offset <= TreeHeight + 1
  /\ Frontier
  /\ Spread
  /\ Control
  /\ PathSoFar

-----------------------------------------------------------------------------
(* The larger of two powers of two is a multiple of the smaller.             *)
LEMMA PowersDivide ==
  ASSUME NEW m \in Nat, NEW n \in Nat, n <= m
  PROVE  \E k \in Nat \ {0} : Pow2[m] = k * Pow2[n]
<1>1. m - n \in Nat /\ m = n + (m - n) OBVIOUS
<1>2. Pow2[m] = Pow2[n] * Pow2[m - n] BY ONLY <1>1, Pow2Sum
<1>3. Pow2[n] \in Nat /\ Pow2[m - n] \in Nat \ {0} BY <1>1, Pow2Recursion
<1>4. Pow2[n] * Pow2[m - n] = Pow2[m - n] * Pow2[n] BY ONLY <1>3
<1> QED BY <1>2, <1>3, <1>4

(* A power of two is at least twice any smaller one.                         *)
LEMMA Twice ==
  ASSUME NEW m \in Nat, NEW n \in Nat, m < n
  PROVE  2 * Pow2[m] <= Pow2[n]
<1>1. m + 1 \in Nat /\ m + 1 <= n OBVIOUS
<1>2. Pow2[m + 1] <= Pow2[n] BY <1>1, Pow2Monotone
<1> QED BY <1>2, Pow2Recursion

(* Powers of two compare as their exponents.                                 *)
LEMMA Exponents ==
  ASSUME NEW m \in Nat, NEW n \in Nat
  PROVE  /\ Pow2[m] <= Pow2[n] => m <= n
         /\ Pow2[m] < Pow2[n] => m < n
<1>1. Pow2[m] \in Nat \ {0} /\ Pow2[n] \in Nat \ {0} BY Pow2Recursion
<1>2. m > n => 2 * Pow2[n] <= Pow2[m] BY Twice
<1>3. m = n => Pow2[m] = Pow2[n] OBVIOUS
<1> QED BY <1>1, <1>2, <1>3

(* A common factor cancels.                                                  *)
LEMMA Cancel ==
  ASSUME NEW a \in Nat, NEW b \in Nat, NEW t \in Nat \ {0}, a * t = b * t
  PROVE  a = b
<1>1. 0 \in 0..(t - 1) /\ a * t + 0 = b * t + 0 OBVIOUS
<1> QED BY ONLY <1>1, a \in Nat, b \in Nat, t \in Nat \ {0}, SplitUnique

(* The last index below a multiple of 2^n belongs to the block before it.    *)
LEMMA ShrBefore ==
  ASSUME NEW n \in Nat, NEW x \in Nat, NEW y \in Nat, x + 1 = y * Pow2[n]
  PROVE  y # 0 /\ Shr(x, n) = y - 1
<1> DEFINE t == Pow2[n]
<1>1. t \in Nat \ {0} BY Pow2Recursion
<1> HIDE DEF t
<1>2. x + 1 = y * t BY DEF t
<1>3. y # 0 BY ONLY <1>1, <1>2, x \in Nat
<1>4. y - 1 \in Nat BY <1>3
<1>5. (y - 1) * t = y * t - t BY ONLY <1>1, y \in Nat
<1>6. (y - 1) * t + (t - 1) = x BY ONLY <1>1, <1>2, <1>5, x \in Nat, y * t \in Int
<1>7. /\ x \div t \in Nat /\ x % t \in 0..(t - 1)
      /\ x = (x \div t) * t + (x % t)
  BY <1>1, SplitAt
<1>8. t - 1 \in 0..(t - 1) BY <1>1
<1>9. x \div t = y - 1
  BY ONLY <1>1, <1>4, <1>6, <1>7, <1>8, SplitUnique
<1> QED BY <1>3, <1>9 DEF t, Shr

(* A multiple of 2^n shifted right by n.                                     *)
LEMMA ShrMultiple ==
  ASSUME NEW n \in Nat, NEW c \in Nat
  PROVE  Shr(c * Pow2[n], n) = c
<1> DEFINE t == Pow2[n]
           x == c * t
<1>1. t \in Nat \ {0} BY Pow2Recursion
<1>2. x \in Nat BY ONLY <1>1, c \in Nat
<1>3. /\ x \div t \in Nat /\ x % t \in 0..(t - 1)
      /\ x = (x \div t) * t + (x % t)
  BY <1>1, <1>2, SplitAt
<1>4. x = c * t + 0 /\ 0 \in 0..(t - 1) BY ONLY <1>1, <1>2
<1> HIDE DEF t, x
<1>5. x \div t = c BY ONLY <1>1, <1>2, <1>3, <1>4, c \in Nat, SplitUnique
<1> QED BY <1>5 DEF Shr, x, t

(* A node of the tree is not junk, and has the fields it is made of.         *)
LEMMA NodeParts ==
  ASSUME NEW a, NEW h, NEW i
  PROVE  Node(a, h, i) # Junk /\ Node(a, h, i).index = i
<1>1. DOMAIN Node(a, h, i) = {"subtree", "height", "index"} BY DEF Node
<1>2. DOMAIN Junk = {"junk"} BY DEF Junk
<1>3. "subtree" # "junk" OBVIOUS
<1>4. Node(a, h, i) # Junk BY <1>1, <1>2, <1>3
<1> QED BY <1>4 DEF Node

(* The first leaf's number is a multiple of 2^n at every level.              *)
LEMMA OffsetMultiple ==
  ASSUME NEW n \in Nat, n <= TreeHeight
  PROVE  Shr(IdxOffset, n) \in Nat /\ IdxOffset = Shr(IdxOffset, n) * Pow2[n]
<1> DEFINE T == Pow2[TreeHeight]
           t == Pow2[n]
           c == IdxOffset \div T
<1>1. TreeHeight \in Nat /\ IdxOffset \in Nat /\ T \in Nat \ {0} /\ t \in Nat \ {0}
  BY TreeHeightAssumption, IdxOffsetAssumption, Pow2Recursion
<1>2. IdxOffset % T = 0 BY IdxOffsetAssumption
<1>3. PICK k \in Nat \ {0} : T = k * t BY <1>1, PowersDivide
<1> HIDE DEF T, t
<1>4. c \in Nat /\ IdxOffset = c * T + (IdxOffset % T) BY <1>1, SplitAt
<1> HIDE DEF c
<1>5. c * k \in Nat BY ONLY <1>3, <1>4
<1>6. IdxOffset = c * T BY ONLY <1>1, <1>2, <1>4, c * T \in Int
<1>7. c * (k * t) = (c * k) * t BY ONLY <1>1, <1>3, <1>4
<1>8. IdxOffset = (c * k) * t BY <1>3, <1>6, <1>7
<1>9. Shr(IdxOffset, n) = c * k BY <1>5, <1>8, ShrMultiple DEF t
<1> QED BY <1>5, <1>8, <1>9 DEF t

-----------------------------------------------------------------------------
(* The leaves under one node of the stack.                                   *)
LEMMA Block ==
  ASSUME IInv, NEW p \in 0..(offset - 1)
  PROVE  /\ p \in Nat /\ p \in StackSlots
         /\ heights[p] \in Nat /\ stack[p].index \in Nat
         /\ Pow2[heights[p]] \in Nat \ {0}
         /\ Start(p) \in Nat /\ End(p) \in Nat
         /\ End(p) = Start(p) + Pow2[heights[p]]
<1> DEFINE t == Pow2[heights[p]]
           x == stack[p].index
<1>1. offset \in Nat /\ TreeHeight \in Nat /\ offset <= TreeHeight + 1
  BY TreeHeightAssumption DEF IInv, TypeOK
<1>2. p \in Nat /\ p \in StackSlots BY <1>1 DEF StackSlots
<1>3. heights[p] \in Nat BY <1>2 DEF IInv, TypeOK
<1>4. x \in Nat BY DEF IInv, Frontier
<1>5. t \in Nat \ {0} BY <1>3, Pow2Recursion
<1>6. Start(p) = x * t /\ End(p) = (x + 1) * t BY DEF Start, End
<1> HIDE DEF x, t
<1>7. x * t \in Nat /\ (x + 1) * t \in Nat /\ (x + 1) * t = x * t + t
  BY ONLY <1>4, <1>5
<1> QED BY <1>2, <1>3, <1>4, <1>5, <1>6, <1>7 DEF x, t

(* The node in slot 0 covers no more than what has been read.                *)
LEMMA Lowest ==
  ASSUME IInv, offset # 0
  PROVE  /\ heights[0] \in Nat /\ heights[0] <= TreeHeight
         /\ Done < Pow2[TreeHeight] => heights[0] < TreeHeight
<1>1. offset \in Nat /\ idx \in 0..Pow2[TreeHeight] /\ 0 \in 0..(offset - 1)
  BY DEF IInv, TypeOK
<1>2. TreeHeight \in Nat /\ IdxOffset \in Nat /\ Pow2[TreeHeight] \in Nat
  BY TreeHeightAssumption, IdxOffsetAssumption, Pow2Recursion
<1>3. /\ heights[0] \in Nat /\ Pow2[heights[0]] \in Nat
      /\ End(0) = Start(0) + Pow2[heights[0]]
  BY <1>1, Block
<1>4. Start(0) = IdxOffset BY <1>1 DEF IInv, Frontier
<1>5. End(0) <= IdxOffset + Done BY <1>1 DEF IInv, Spread
<1>6. Done \in Nat /\ Done <= Pow2[TreeHeight]
  BY <1>1, <1>2 DEF Done, IInv, Control
<1>7. Pow2[heights[0]] <= Done BY <1>2, <1>3, <1>4, <1>5, <1>6
<1>8. Pow2[heights[0]] <= Pow2[TreeHeight] BY <1>2, <1>3, <1>6, <1>7
<1>9. Done < Pow2[TreeHeight] => Pow2[heights[0]] < Pow2[TreeHeight]
  BY <1>2, <1>3, <1>6, <1>7
<1> QED BY <1>2, <1>3, <1>8, <1>9, Exponents

(* There is room for another leaf.                                           *)
LEMMA Room ==
  ASSUME IInv, pc = "leaf", MoreLeaves
  PROVE  offset <= TreeHeight
<1>1. offset \in Nat /\ TreeHeight \in Nat
  BY TreeHeightAssumption DEF IInv, TypeOK
<1>2. CASE offset = 0 BY <1>1, <1>2
<1>3. CASE offset # 0
  <2> DEFINE p == offset - 1
  <2>1. p \in 0..(offset - 1) /\ p \in Settled BY <1>1, <1>3 DEF Settled
  <2>2. heights[p] \in Nat BY <2>1, Block
  <2>3. heights[p] + p <= heights[0] BY <2>1 DEF IInv, Spread
  <2>4. Done < Pow2[TreeHeight] BY DEF MoreLeaves, Done
  <2>5. heights[0] \in Nat /\ heights[0] < TreeHeight BY <1>3, <2>4, Lowest
  <2> QED BY <1>1, <2>2, <2>3, <2>5
<1> QED BY <1>2, <1>3

(* A node that follows only higher ones starts at an even index.             *)
LEMMA Aligned ==
  ASSUME IInv, NEW p \in 0..(offset - 1), NEW n \in Nat, n <= TreeHeight,
         p # 0 => n <= heights[p - 1]
  PROVE  \E k \in Nat : Start(p) = k * Pow2[n]
<1>1. CASE p = 0
  <2>1. Start(p) = IdxOffset BY <1>1 DEF IInv, Frontier
  <2> QED BY <2>1, OffsetMultiple
<1>2. CASE p # 0
  <2> DEFINE q == p - 1
             x == stack[q].index + 1
             t == Pow2[n]
  <2>1. offset \in Nat BY DEF IInv, TypeOK
  <2>2. q \in 0..(offset - 1) BY <1>2, <2>1
  <2>3. heights[q] \in Nat /\ stack[q].index \in Nat BY <2>2, Block
  <2>4. Start(p) = End(q) BY <1>2 DEF IInv, Frontier
  <2>5. PICK j \in Nat \ {0} : Pow2[heights[q]] = j * t
    BY <1>2, <2>3, PowersDivide
  <2>6. x \in Nat /\ t \in Nat BY <2>3, Pow2Recursion
  <2>7. End(q) = x * Pow2[heights[q]] BY DEF End
  <2> HIDE DEF x, t
  <2>8. x * (j * t) = (x * j) * t /\ x * j \in Nat BY ONLY <2>5, <2>6
  <2> QED BY <2>4, <2>5, <2>7, <2>8 DEF t
<1> QED BY <1>1, <1>2

(* The two topmost nodes of equal height are the children of the node that   *)
(* treehash makes of them, and with it the leaves up to idx are covered.     *)
LEMMA Siblings ==
  ASSUME IInv, pc = "merge", Tied
  PROVE  LET h == heights[offset - 1]
             i == TreeIdx + Shr(IdxOffset, h + 1)
         IN  /\ h \in Nat /\ h < TreeHeight
             /\ offset \in Nat /\ offset >= 2
             /\ TreeIdx \in Nat /\ i \in Nat
             /\ stack[offset - 2] = Node(Subtree, h, 2 * i)
             /\ stack[offset - 1] = Node(Subtree, h, 2 * i + 1)
             /\ Start(offset - 2) = i * Pow2[h + 1]
             /\ (i + 1) * Pow2[h + 1] = IdxOffset + idx + 1
             /\ (TreeIdx + 1) * Pow2[h + 1] = idx + 1
<1> DEFINE q == offset - 2
           p == offset - 1
           h == heights[p]
           a == stack[q].index
           b == stack[p].index
           t == Pow2[h]
           T == Pow2[h + 1]
           c == Shr(IdxOffset, h + 1)
<1>1. offset \in Nat /\ offset >= 2 /\ heights[q] = h BY DEF Tied, IInv, TypeOK
<1>2. p \in 0..(offset - 1) /\ q \in 0..(offset - 1) /\ p # 0 /\ p - 1 = q
  BY <1>1
<1>3. /\ h \in Nat /\ b \in Nat /\ t \in Nat \ {0}
      /\ Start(p) \in Nat /\ End(p) = Start(p) + t
  BY <1>2, Block
<1>4. a \in Nat /\ Start(q) \in Nat /\ End(q) = Start(q) + t
  BY <1>1, <1>2, Block
<1>5. Start(p) = End(q) /\ End(p) = IdxOffset + idx + 1
  <2>1. Start(p) = End(p - 1) BY <1>2 DEF IInv, Frontier
  <2>2. Done = idx + 1 BY DEF Done
  <2>3. End(p) = IdxOffset + Done BY <1>1 DEF IInv, Frontier
  <2>4. IdxOffset \in Nat /\ idx \in Nat
    BY IdxOffsetAssumption, Pow2Recursion DEF IInv, TypeOK
  <2>5. IdxOffset + (idx + 1) = IdxOffset + idx + 1 BY <2>4
  <2> QED BY <1>2, <2>1, <2>2, <2>3, <2>5
<1>6. TreeHeight \in Nat /\ IdxOffset \in Nat /\ idx \in Nat
      /\ idx < Pow2[TreeHeight] /\ Pow2[TreeHeight] \in Nat
  BY TreeHeightAssumption, IdxOffsetAssumption, Pow2Recursion
     DEF IInv, TypeOK, Control
<1>7. q # 0 => h + 1 <= heights[q - 1]
  <2> SUFFICES ASSUME q # 0 PROVE h + 1 <= heights[q - 1] OBVIOUS
  <2>1. q \in 1..(offset - 1) /\ q - 1 \in 0..(offset - 1) BY <1>1
  <2>2. heights[q] < heights[q - 1]
    <3>1. q # offset - 1 BY <1>1
    <3> QED BY <2>1, <3>1 DEF IInv, Frontier
  <2>3. heights[q - 1] \in Nat BY <2>1, Block
  <2> QED BY <1>1, <1>3, <2>2, <2>3
<1>8. h < TreeHeight
  <2>1. CASE q = 0
    <3>1. Start(q) = IdxOffset BY <1>2, <2>1 DEF IInv, Frontier
    <3>2. 2 * t <= Pow2[TreeHeight] BY <1>3, <1>4, <1>5, <1>6, <3>1
    <3>3. t < Pow2[TreeHeight] BY <1>3, <1>6, <3>2
    <3> QED BY <1>3, <1>6, <3>3, Exponents
  <2>2. CASE q # 0
    <3>1. q - 1 \in Settled /\ q - 1 \in Nat BY <1>1, <2>2 DEF Settled
    <3>2. heights[q - 1] + (q - 1) <= heights[0] BY <3>1 DEF IInv, Spread
    <3>3. offset # 0 /\ q - 1 \in 0..(offset - 1) BY <1>1, <2>2
    <3>4. heights[0] \in Nat /\ heights[0] <= TreeHeight BY <3>3, Lowest
    <3>5. heights[q - 1] \in Nat BY <3>3, Block
    <3> QED BY <1>3, <1>6, <1>7, <2>2, <3>1, <3>2, <3>4, <3>5
  <2> QED BY <2>1, <2>2
<1>9. h + 1 \in Nat /\ h + 1 <= TreeHeight BY <1>3, <1>6, <1>8
<1>10. PICK k \in Nat : Start(q) = k * T BY <1>2, <1>7, <1>9, Aligned
<1>11. T = 2 * t BY <1>3, Pow2Recursion
<1>12. c \in Nat /\ IdxOffset = c * T BY <1>9, OffsetMultiple
<1>13. Start(q) = a * t /\ Start(p) = b * t BY <1>1 DEF Start
<1>14. stack[q] = Node(Subtree, h, a) /\ stack[p] = Node(Subtree, h, b)
  BY <1>1, <1>2 DEF IInv, Frontier
<1> HIDE DEF h, a, b, t, T, c
<1>15. a = 2 * k
  <2>1. k * T = (2 * k) * t BY ONLY <1>3, <1>11, k \in Nat
  <2> QED BY <1>3, <1>4, <1>10, <1>13, <2>1, Cancel
<1>16. b = 2 * k + 1
  <2>1. b * t = a * t + t BY <1>3, <1>4, <1>5, <1>13
  <2>2. (a + 1) * t = a * t + t BY ONLY <1>3, <1>4
  <2>3. a + 1 \in Nat BY <1>4
  <2>4. b = a + 1 BY ONLY <1>3, <2>1, <2>2, <2>3, Cancel
  <2> QED BY <1>15, <2>4
<1>17. T \in Nat \ {0} BY <1>3, <1>11
<1>18. k * T + T = IdxOffset + idx + 1
  BY <1>3, <1>4, <1>5, <1>10, <1>11
<1>19. (k + 1) * T = IdxOffset + idx + 1
  <2>1. (k + 1) * T = k * T + T BY ONLY <1>17, k \in Nat
  <2> QED BY <2>1, <1>18
<1>20. (k + 1 - c) * T = idx + 1
  <2>1. (k + 1 - c) * T = (k + 1) * T - c * T BY ONLY <1>12, <1>17, k \in Nat
  <2>2. c * T \in Int /\ (k + 1) * T \in Int BY ONLY <1>12, <1>17, k \in Nat
  <2> QED BY <1>6, <1>12, <1>19, <2>1, <2>2
<1>21. k + 1 - c \in Nat
  <2>1. k + 1 - c \in Int BY <1>12
  <2>2. (k + 1 - c) * T > 0 BY <1>6, <1>20
  <2> QED BY ONLY <1>17, <2>1, <2>2
<1>22. TreeIdx = k - c /\ k + 1 - c # 0
  <2>1. Shr(idx, h + 1) = (k + 1 - c) - 1 /\ k + 1 - c # 0
    BY <1>6, <1>9, <1>20, <1>21, ShrBefore DEF T
  <2> QED BY <1>12, <2>1 DEF TreeIdx, h
<1>23. TreeIdx \in Nat /\ TreeIdx + c = k /\ TreeIdx + 1 = k + 1 - c
  BY <1>12, <1>21, <1>22
<1> QED BY <1>1, <1>3, <1>8, <1>10, <1>14, <1>15, <1>16, <1>19, <1>20, <1>23
        DEF h, T, c

(* If the nodes that could be merged are merged, the topmost one is as high  *)
(* as the number of leaves read allows.                                      *)
LEMMA TopIsHigh ==
  ASSUME IInv, pc = "merge", ~Tied, NEW n \in Nat, n <= TreeHeight,
         NEW y \in Nat, y * Pow2[n] = idx + 1
  PROVE  n <= heights[offset - 1]
<1> DEFINE p == offset - 1
           t == Pow2[heights[p]]
           T == Pow2[heights[p] + 1]
           c == Shr(IdxOffset, heights[p] + 1)
<1>1. offset \in Nat /\ idx \in Nat /\ IdxOffset \in Nat /\ TreeHeight \in Nat
  BY TreeHeightAssumption, IdxOffsetAssumption, Pow2Recursion DEF IInv, TypeOK
<1>2. Done = idx + 1 /\ offset # 0 BY <1>1 DEF Done, IInv, Frontier
<1>3. p \in 0..(offset - 1) BY <1>1, <1>2
<1>4. /\ heights[p] \in Nat /\ t \in Nat \ {0} /\ Start(p) \in Nat
      /\ End(p) = Start(p) + t
  BY <1>3, Block
<1>5. SUFFICES ASSUME heights[p] < n PROVE FALSE BY <1>4
<1>6. heights[p] + 1 \in Nat /\ heights[p] + 1 <= n /\ heights[p] + 1 <= TreeHeight
  BY <1>1, <1>4, <1>5
<1>7. p # 0 => heights[p] + 1 <= heights[p - 1]
  <2> SUFFICES ASSUME p # 0 PROVE heights[p] + 1 <= heights[p - 1] OBVIOUS
  <2>1. p \in 1..(offset - 1) /\ p - 1 \in 0..(offset - 1) /\ offset >= 2
        /\ p - 1 = offset - 2
    BY <1>1, <1>3
  <2>2. heights[p] # heights[p - 1] BY <2>1 DEF Tied
  <2>3. heights[p] < heights[p - 1] BY <2>1, <2>2 DEF IInv, Frontier
  <2>4. heights[p - 1] \in Nat BY <2>1, Block
  <2> QED BY <1>4, <2>3, <2>4
<1>8. PICK k \in Nat : Start(p) = k * T BY <1>3, <1>6, <1>7, Aligned
<1>9. T = 2 * t BY <1>4, Pow2Recursion
<1>10. c \in Nat /\ IdxOffset = c * T BY <1>6, OffsetMultiple
<1>11. PICK j \in Nat \ {0} : Pow2[n] = j * T BY <1>6, PowersDivide
<1>12. End(p) = IdxOffset + (idx + 1) BY <1>1, <1>2 DEF IInv, Frontier
<1> HIDE DEF p, t, T, c
<1>13. y * (j * T) = (y * j) * T /\ y * j \in Nat
  BY ONLY <1>4, <1>9, <1>11, y \in Nat
<1>14. k * T + t = c * T + (y * j) * T
  BY <1>4, <1>8, <1>10, <1>11, <1>12, <1>13
<1>15. (2 * k + 1) * t = (2 * (c + y * j)) * t
  <2> DEFINE m == y * j
  <2>1. m \in Nat /\ t \in Nat BY <1>4, <1>13
  <2>2. k * (2 * t) + t = c * (2 * t) + m * (2 * t) BY <1>9, <1>14
  <2> HIDE DEF m
  <2>3. (2 * k + 1) * t = (2 * (c + m)) * t
    BY ONLY <1>10, <2>1, <2>2, k \in Nat
  <2> QED BY <2>3 DEF m
<1>16. 2 * k + 1 \in Nat /\ 2 * (c + y * j) \in Nat BY <1>10, <1>13
<1>17. 2 * k + 1 = 2 * (c + y * j) BY ONLY <1>4, <1>15, <1>16, Cancel
<1> QED BY ONLY <1>10, <1>13, <1>17, k \in Nat

(* The indices of the path are numbers, and no node beyond the tree is on it *)
LEMMA PathInTree ==
  ASSUME TypeOK, NEW h \in Nat
  PROVE  /\ PathIdx(h) \in Nat
         /\ h < TreeHeight => (PathIdx(h) + 1) * Pow2[h] <= Pow2[TreeHeight]
<1> DEFINE t == Pow2[h]
           x == leafIdx \div t
<1>1. /\ TreeHeight \in Nat /\ Pow2[TreeHeight] \in Nat \ {0} /\ t \in Nat \ {0}
      /\ leafIdx \in 0..(Pow2[TreeHeight] - 1)
  BY TreeHeightAssumption, Pow2Recursion DEF TypeOK, Leaves
<1>2. leafIdx \in Nat BY <1>1
<1>3. x \in Nat /\ leafIdx % t \in 0..(t - 1) /\ leafIdx = x * t + (leafIdx % t)
  BY <1>1, <1>2, SplitAt
<1>4. PathIdx(h) = Sibling(x) BY DEF PathIdx, Shr
<1> HIDE DEF x
<1>5. Sibling(x) \in Nat BY <1>3 DEF Sibling
<1>6. ASSUME h < TreeHeight PROVE (Sibling(x) + 1) * t <= Pow2[TreeHeight]
  <2>1. h + 1 \in Nat /\ h + 1 <= TreeHeight BY <1>1, <1>6
  <2>2. PICK j \in Nat \ {0} : Pow2[TreeHeight] = j * Pow2[h + 1]
    BY <1>1, <2>1, PowersDivide
  <2>3. Pow2[h + 1] = 2 * t BY Pow2Recursion
  <2> HIDE DEF t
  <2>4. Pow2[TreeHeight] = (2 * j) * t
    <3>1. j * (2 * t) = (2 * j) * t BY ONLY <1>1, j \in Nat
    <3> QED BY <2>2, <2>3, <3>1
  <2>5. x < 2 * j
    <3> SUFFICES ASSUME x >= 2 * j PROVE FALSE BY <1>3, <2>2
    <3>1. x * t >= (2 * j) * t BY ONLY <1>1, <1>3, x >= 2 * j, j \in Nat
    <3>2. x * t \in Nat BY ONLY <1>1, <1>3
    <3> QED BY <1>1, <1>3, <2>4, <3>1, <3>2
  <2>6. Sibling(x) + 1 <= 2 * j BY <1>3, <2>2, <2>5 DEF Sibling
  <2>7. (Sibling(x) + 1) * t <= (2 * j) * t
    BY ONLY <1>1, <1>5, <2>6, j \in Nat
  <2> QED BY <2>4, <2>7
<1> QED BY <1>4, <1>5, <1>6

-----------------------------------------------------------------------------
(* IInv holds initially: nothing has been read.                              *)
LEMMA InitIInv == Init => IInv
<1> SUFFICES ASSUME Init PROVE IInv OBVIOUS
<1>1. TreeHeight \in Nat /\ Pow2[TreeHeight] \in Nat \ {0}
  BY TreeHeightAssumption, Pow2Recursion
<1>2. TypeOK BY <1>1 DEF Init, TypeOK, StackSlots, Levels
<1>3. Done = 0 /\ offset = 0 /\ pc = "leaf" BY DEF Init, Done
<1>4. Frontier BY <1>3 DEF Frontier
<1>5. Spread BY <1>3 DEF Spread, Settled
<1>6. Control BY <1>3 DEF Control
<1>7. PathSoFar
  <2> SUFFICES ASSUME NEW h \in Levels PROVE ~PathDone(h) BY DEF PathSoFar
  <2>1. h \in Nat BY <1>1 DEF Levels
  <2>2. PathIdx(h) \in Nat /\ Pow2[h] \in Nat \ {0}
    BY <1>2, <2>1, PathInTree, Pow2Recursion
  <2> DEFINE t == Pow2[h]
  <2> HIDE DEF t
  <2>3. t \in Nat \ {0} BY <2>2 DEF t
  <2>4. (PathIdx(h) + 1) * t > 0 BY ONLY <2>2, <2>3
  <2>5. ~((PathIdx(h) + 1) * t <= 0) BY ONLY <2>2, <2>3, <2>4
  <2> QED BY <1>3, <2>5 DEF Init, PathDone, t
<1> QED BY <1>1, <1>2, <1>3, <1>4, <1>5, <1>6, <1>7 DEF IInv

(* A leaf is pushed.                                                         *)
LEMMA PushLeafIInv == IInv /\ PushLeaf => IInv'
<1> SUFFICES ASSUME IInv, PushLeaf PROVE IInv' OBVIOUS
<1> DEFINE O == IdxOffset
<1>0. PICK n : n = offset OBVIOUS
<1>1. pc = "leaf" /\ MoreLeaves /\ n \in Nat /\ n \in StackSlots /\ n <= TreeHeight
  <2>1. pc = "leaf" /\ MoreLeaves /\ offset \in Nat
    BY DEF PushLeaf, IInv, TypeOK
  <2> QED BY <1>0, <2>1, Room, TreeHeightAssumption DEF StackSlots
<1>2. /\ O \in Nat /\ TreeHeight \in Nat /\ TreeHeight # 0 /\ idx \in Nat
      /\ Pow2[TreeHeight] \in Nat /\ idx < Pow2[TreeHeight]
  BY <1>1, TreeHeightAssumption, IdxOffsetAssumption, Pow2Recursion
     DEF IInv, TypeOK, MoreLeaves
<1>3. /\ offset' = n + 1 /\ idx' = idx /\ leafIdx' = leafIdx /\ pc' = "merge"
      /\ stack' = [stack EXCEPT ![n] = Node(Subtree, 0, idx + O)]
      /\ heights' = [heights EXCEPT ![n] = 0]
  BY <1>0 DEF PushLeaf, GenLeaf
<1>4. ASSUME NEW p \in 0..(n - 1)
      PROVE  /\ heights'[p] = heights[p] /\ stack'[p] = stack[p]
             /\ Start(p)' = Start(p) /\ End(p)' = End(p)
  <2>1. p \in StackSlots /\ p # n BY <1>1, <1>2 DEF StackSlots
  <2>2. heights'[p] = heights[p] /\ stack'[p] = stack[p]
    BY <1>3, <2>1 DEF IInv, TypeOK
  <2> QED BY <2>2 DEF Start, End
<1>5. /\ heights'[n] = 0 /\ stack'[n] = Node(Subtree, 0, idx + O)
      /\ stack'[n].index = idx + O /\ stack'[n] # Junk
      /\ Start(n)' = idx + O /\ End(n)' = O + (idx + 1)
  <2>1. heights'[n] = 0 /\ stack'[n] = Node(Subtree, 0, idx + O)
    BY <1>1, <1>3 DEF IInv, TypeOK
  <2>2. stack'[n].index = idx + O /\ stack'[n] # Junk BY <2>1, NodeParts
  <2>3. Pow2[0] = 1 BY Pow2Recursion
  <2>4. Start(n)' = (idx + O) * 1 /\ End(n)' = (idx + O + 1) * 1
    BY <2>1, <2>2, <2>3 DEF Start, End
  <2>5. (idx + O) * 1 = idx + O /\ (idx + O + 1) * 1 = O + (idx + 1) BY <1>2
  <2> QED BY <2>1, <2>2, <2>4, <2>5
<1>6. Done = idx /\ Done' = idx + 1 BY <1>1, <1>3 DEF Done
<1>7. TypeOK'
  <2>1. heights' \in [StackSlots -> Nat] BY <1>3 DEF IInv, TypeOK
  <2>2. DOMAIN stack' = StackSlots BY <1>3 DEF IInv, TypeOK
  <2>3. DOMAIN auth' = Levels
    <3>1. DOMAIN auth = Levels BY DEF IInv, TypeOK
    <3>2. auth' = auth \/ auth' = [auth EXCEPT ![0] = GenLeaf(Subtree, idx + O)]
      BY DEF PushLeaf
    <3> QED BY <3>1, <3>2
  <2>4. offset' \in Nat BY <1>1, <1>3
  <2>5. leafIdx \in Leaves /\ idx \in 0..Pow2[TreeHeight] BY DEF IInv, TypeOK
  <2> QED BY <1>3, <2>1, <2>2, <2>3, <2>4, <2>5 DEF TypeOK
<1>8. \A p \in 0..(offset - 1)' : p \in 0..(n - 1) \/ p = n BY <1>1, <1>3
<1>9. n # 0 => n - 1 \in 0..(n - 1) BY <1>1
<1>10. Frontier'
  <2>1. offset' # 0 /\ Done' # 0 BY <1>1, <1>2, <1>3, <1>6
  <2>2. ASSUME NEW p \in 0..(offset - 1)'
        PROVE  /\ stack'[p] # Junk /\ stack'[p].index \in Nat
               /\ stack'[p] = Node(Subtree, heights'[p], stack'[p].index)
               /\ Start(p)' = IF p = 0 THEN O ELSE End(p - 1)'
    <3>1. CASE p = n
      <4>1. idx + O \in Nat BY <1>2
      <4>2. n = 0 => idx + O = O BY <1>0, <1>2, <1>6 DEF IInv, Frontier
      <4>3. n # 0 => idx + O = End(n - 1)
        <5>1. n # 0 => End(n - 1) = O + idx
          BY <1>0, <1>1, <1>6 DEF IInv, Frontier
        <5>2. O + idx = idx + O BY <1>2
        <5> QED BY <5>1, <5>2
      <4>4. n # 0 => idx + O = End(n - 1)' BY <1>4, <1>9, <4>3
      <4> QED BY <1>5, <3>1, <4>1, <4>2, <4>4
    <3>2. CASE p \in 0..(n - 1)
      <4>1. p # 0 => p - 1 \in 0..(n - 1) BY <1>1, <3>2
      <4>2. p # 0 => End(p - 1)' = End(p - 1) BY <1>4, <4>1
      <4>3. /\ stack[p] # Junk /\ stack[p].index \in Nat
            /\ stack[p] = Node(Subtree, heights[p], stack[p].index)
            /\ Start(p) = IF p = 0 THEN O ELSE End(p - 1)
        BY <1>0, <3>2 DEF IInv, Frontier
      <4> QED BY <1>4, <3>2, <4>2, <4>3
    <3> QED BY <1>8, <3>1, <3>2
  <2>3. End(offset - 1)' = O + Done'
    <3>1. (offset - 1)' = n BY <1>1, <1>3
    <3>2. End(offset - 1)' = End(n)' BY <3>1 DEF End
    <3> QED BY <1>5, <1>6, <3>2
  <2>4. ASSUME NEW p \in 1..(offset - 1)'
        PROVE  \/ heights'[p] < heights'[p - 1]
               \/ /\ heights'[p] = heights'[p - 1]
                  /\ p = (offset - 1)' /\ pc' = "merge"
    <3>1. p \in 1..n BY <1>1, <1>3
    <3>2. CASE p = n
      <4>1. n - 1 \in 0..(n - 1) BY <1>1, <3>1
      <4>2. heights'[n - 1] \in Nat BY <1>0, <1>4, <4>1, Block
      <4> QED BY <1>1, <1>3, <1>5, <3>2, <4>2
    <3>3. CASE p # n
      <4>1. p \in 1..(n - 1) /\ p \in 0..(n - 1) /\ p - 1 \in 0..(n - 1)
        BY <1>1, <3>1, <3>3
      <4>2. heights[p] < heights[p - 1] BY <1>0, <1>1, <4>1 DEF IInv, Frontier
      <4> QED BY <1>4, <4>1, <4>2
    <3> QED BY <3>2, <3>3
  <2> QED BY <2>1, <2>2, <2>3, <2>4 DEF Frontier
<1>11. Spread'
  <2>1. ASSUME NEW p \in 0..(offset - 1)' PROVE End(p)' <= O + Done'
    <3>1. CASE p = n BY <1>2, <1>5, <1>6, <3>1
    <3>2. CASE p \in 0..(n - 1)
      <4>1. End(p) <= O + idx BY <1>0, <1>6, <3>2 DEF IInv, Spread
      <4>2. End(p) \in Nat BY <1>0, <3>2, Block
      <4> QED BY <1>2, <1>4, <1>6, <3>2, <4>1, <4>2
    <3> QED BY <1>8, <3>1, <3>2
  <2>2. ASSUME NEW p \in Settled'
        PROVE  /\ heights'[p] + p <= heights'[0]
               /\ End(p)' + Pow2[heights'[p]] <= O + 2 * Pow2[heights'[0]]
    <3>1. Settled' = 0..(n - 1) BY <1>1, <1>3 DEF Settled
    <3>2. p \in 0..(n - 1) /\ 0 \in 0..(n - 1) BY <1>1, <3>1
    <3>3. Settled = 0..(n - 1) BY <1>0, <1>1 DEF Settled
    <3> QED BY <1>4, <3>2, <3>3 DEF IInv, Spread
  <2> QED BY <2>1, <2>2 DEF Spread
<1>12. Control' BY <1>2, <1>3 DEF Control
<1>13. PathSoFar'
  <2> SUFFICES ASSUME NEW h \in Levels, PathDone(h)'
               PROVE  auth'[h] = Node(Subtree, h, Shr(O, h) + PathIdx(h))
    BY <1>3 DEF PathSoFar, PathIdx
  <2>1. h \in Nat /\ 0 \in Levels /\ DOMAIN auth = Levels
    BY <1>2 DEF Levels, IInv, TypeOK
  <2>2. PathIdx(h) \in Nat /\ PathIdx(0) \in Nat
    BY <2>1, PathInTree DEF IInv
  <2>3. Pow2[0] = 1 BY Pow2Recursion
  <2>4. OnAuthPath(0, idx) <=> PathIdx(0) = idx BY DEF OnAuthPath, PathIdx
  <2>5. auth' = IF PathIdx(0) = idx
                THEN [auth EXCEPT ![0] = Node(Subtree, 0, idx + O)] ELSE auth
    BY <2>4 DEF PushLeaf, GenLeaf
  <2>6. \/ (PathIdx(h) + 1) * Pow2[h] <= idx
        \/ (PathIdx(h) + 1) * Pow2[h] = idx + 1 /\ h <= heights'[(offset - 1)']
    BY <1>3 DEF PathDone, PathIdx
  <2>7. CASE (PathIdx(h) + 1) * Pow2[h] <= idx
    <3>1. auth[h] = Node(Subtree, h, Shr(O, h) + PathIdx(h))
      BY <2>7 DEF IInv, PathSoFar, PathDone
    <3>2. h = 0 => PathIdx(0) # idx
      <4> SUFFICES ASSUME h = 0, PathIdx(0) = idx PROVE FALSE OBVIOUS
      <4>1. (idx + 1) * 1 <= idx BY <2>3, <2>7
      <4> QED BY <1>2, <4>1
    <3> QED BY <2>1, <2>5, <3>1, <3>2
  <2>8. CASE (PathIdx(h) + 1) * Pow2[h] = idx + 1 /\ h <= heights'[(offset - 1)']
    <3>1. (offset - 1)' = n BY <1>1, <1>3
    <3>2. h = 0 BY <1>5, <2>1, <2>8, <3>1
    <3>3. (PathIdx(0) + 1) * 1 = idx + 1 BY <2>3, <2>8, <3>2
    <3>4. PathIdx(0) = idx BY <1>2, <2>2, <3>3
    <3>5. Shr(O, 0) \in Nat /\ O = Shr(O, 0) * 1
      BY <1>2, <2>3, OffsetMultiple
    <3>6. idx + O = Shr(O, 0) + PathIdx(0) BY <1>2, <3>4, <3>5
    <3> QED BY <2>1, <2>5, <3>2, <3>4, <3>6
  <2> QED BY <2>6, <2>7, <2>8
<1>14. offset' <= TreeHeight + 1 BY <1>1, <1>2, <1>3
<1> QED BY <1>7, <1>10, <1>11, <1>12, <1>13, <1>14 DEF IInv

(* The two topmost nodes are merged.                                         *)
LEMMA MergeIInv == IInv /\ Merge => IInv'
<1> SUFFICES ASSUME IInv, Merge PROVE IInv' OBVIOUS
<1> DEFINE O == IdxOffset
<1>1. pc = "merge" /\ Tied BY DEF Merge
<1>2. PICK q, h, y, c :
        q = offset - 2 /\ h = heights[offset - 1] /\ y = TreeIdx
        /\ c = Shr(O, h + 1)
  OBVIOUS
<1> DEFINE i == y + c
           T == Pow2[h + 1]
<1>3. /\ h \in Nat /\ h < TreeHeight /\ offset \in Nat /\ offset >= 2
      /\ y \in Nat /\ i \in Nat
      /\ stack[offset - 2] = Node(Subtree, h, 2 * i)
      /\ stack[offset - 1] = Node(Subtree, h, 2 * i + 1)
      /\ Start(q) = i * T /\ (i + 1) * T = O + idx + 1 /\ (y + 1) * T = idx + 1
  BY <1>1, <1>2, Siblings
<1>4. /\ q \in Nat /\ q \in StackSlots /\ offset = q + 2 /\ offset - 1 = q + 1
      /\ heights[q] = h /\ T \in Nat \ {0}
      /\ O \in Nat /\ TreeHeight \in Nat /\ idx \in Nat
  <2>1. TreeHeight \in Nat /\ O \in Nat /\ idx \in Nat
    BY TreeHeightAssumption, IdxOffsetAssumption, Pow2Recursion
       DEF IInv, TypeOK
  <2>2. h + 1 \in Nat BY <1>3
  <2>3. T \in Nat \ {0} BY <2>2, Pow2Recursion
  <2>4. q \in Nat /\ offset = q + 2 /\ offset - 1 = q + 1 BY <1>2, <1>3
  <2>5. q \in StackSlots BY <2>1, <2>4 DEF IInv, StackSlots
  <2> QED BY <1>1, <1>2, <2>1, <2>3, <2>4, <2>5 DEF Tied
<1>5. /\ offset' = q + 1 /\ idx' = idx /\ leafIdx' = leafIdx /\ pc' = "merge"
      /\ stack' = [stack EXCEPT ![q] = Node(Subtree, h + 1, i)]
      /\ heights' = [heights EXCEPT ![q] = h + 1]
      /\ auth' = IF OnAuthPath(h + 1, y)
                 THEN [auth EXCEPT ![h + 1] = Node(Subtree, h + 1, i)]
                 ELSE auth
  <2>1. HashPair(Subtree, h, i, stack[offset - 2], stack[offset - 1])
          = Node(Subtree, h + 1, i)
    BY <1>3 DEF HashPair
  <2>2. TreeIdx + Shr(IdxOffset, heights[offset - 1] + 1) = i BY <1>2
  <2> HIDE DEF i
  <2> QED BY <1>2, <1>4, <2>1, <2>2 DEF Merge
<1>6. ASSUME NEW p \in 0..(q - 1)
      PROVE  /\ heights'[p] = heights[p] /\ stack'[p] = stack[p]
             /\ Start(p)' = Start(p) /\ End(p)' = End(p)
             /\ p \in 0..(offset - 1)
  <2>1. p \in StackSlots /\ p # q /\ p \in 0..(offset - 1) BY <1>4 DEF StackSlots
  <2>2. heights'[p] = heights[p] /\ stack'[p] = stack[p]
    BY <1>5, <2>1 DEF IInv, TypeOK
  <2> QED BY <2>1, <2>2 DEF Start, End
<1>7. /\ heights'[q] = h + 1 /\ stack'[q] = Node(Subtree, h + 1, i)
      /\ stack'[q].index = i /\ stack'[q] # Junk
      /\ Start(q)' = Start(q) /\ End(q)' = O + (idx + 1)
  <2>1. heights'[q] = h + 1 /\ stack'[q] = Node(Subtree, h + 1, i)
    BY <1>4, <1>5 DEF IInv, TypeOK
  <2>2. stack'[q].index = i /\ stack'[q] # Junk BY <2>1, NodeParts
  <2>3. Start(q)' = i * T /\ End(q)' = (i + 1) * T
    BY <2>1, <2>2 DEF Start, End
  <2>4. O + idx + 1 = O + (idx + 1) BY <1>4
  <2> QED BY <1>3, <2>1, <2>2, <2>3, <2>4
<1>8. Done = idx + 1 /\ Done' = idx + 1 BY <1>1, <1>5 DEF Done
<1>9. \A p \in 0..(offset - 1)' : p \in 0..(q - 1) \/ p = q BY <1>4, <1>5
<1>10. q # 0 => heights[q - 1] \in Nat /\ h + 1 <= heights[q - 1]
  <2> SUFFICES ASSUME q # 0
               PROVE  heights[q - 1] \in Nat /\ h + 1 <= heights[q - 1]
    OBVIOUS
  <2>1. q \in 1..(offset - 1) /\ q - 1 \in 0..(offset - 1) /\ q # offset - 1
    BY <1>4
  <2>2. heights[q] < heights[q - 1] BY <2>1 DEF IInv, Frontier
  <2>3. heights[q - 1] \in Nat BY <2>1, Block
  <2> QED BY <1>3, <1>4, <2>2, <2>3
<1>11. TypeOK'
  <2>1. h + 1 \in Nat BY <1>3
  <2>2. heights' \in [StackSlots -> Nat] BY <1>5, <2>1 DEF IInv, TypeOK
  <2>3. DOMAIN stack' = StackSlots BY <1>5 DEF IInv, TypeOK
  <2>4. DOMAIN auth' = Levels BY <1>5 DEF IInv, TypeOK
  <2>5. offset' \in Nat BY <1>4, <1>5
  <2>6. leafIdx \in Leaves /\ idx \in 0..Pow2[TreeHeight] BY DEF IInv, TypeOK
  <2> QED BY <1>5, <2>2, <2>3, <2>4, <2>5, <2>6 DEF TypeOK
<1>12. Frontier'
  <2>1. offset' # 0 /\ Done' # 0 BY <1>4, <1>5, <1>8
  <2>2. ASSUME NEW p \in 0..(offset - 1)'
        PROVE  /\ stack'[p] # Junk /\ stack'[p].index \in Nat
               /\ stack'[p] = Node(Subtree, heights'[p], stack'[p].index)
               /\ Start(p)' = IF p = 0 THEN O ELSE End(p - 1)'
    <3>1. p \in 0..(offset - 1) BY <1>4, <1>5
    <3>2. Start(p) = IF p = 0 THEN O ELSE End(p - 1)
      BY <3>1 DEF IInv, Frontier
    <3>3. p # 0 => p - 1 \in 0..(q - 1) BY <1>4, <1>9
    <3>4. p # 0 => End(p - 1)' = End(p - 1) BY <1>6, <3>3
    <3>5. CASE p = q BY <1>3, <1>7, <3>2, <3>4, <3>5
    <3>6. CASE p \in 0..(q - 1)
      <4>1. /\ stack[p] # Junk /\ stack[p].index \in Nat
            /\ stack[p] = Node(Subtree, heights[p], stack[p].index)
        BY <3>1 DEF IInv, Frontier
      <4> QED BY <1>6, <3>2, <3>4, <3>6, <4>1
    <3> QED BY <1>9, <3>5, <3>6
  <2>3. End(offset - 1)' = O + Done'
    <3>1. (offset - 1)' = q BY <1>4, <1>5
    <3>2. End(offset - 1)' = End(q)' BY <3>1 DEF End
    <3> QED BY <1>7, <1>8, <3>2
  <2>4. ASSUME NEW p \in 1..(offset - 1)'
        PROVE  \/ heights'[p] < heights'[p - 1]
               \/ /\ heights'[p] = heights'[p - 1]
                  /\ p = (offset - 1)' /\ pc' = "merge"
    <3>1. p \in 1..q BY <1>4, <1>5
    <3>2. CASE p = q
      <4>1. q # 0 /\ q - 1 \in 0..(q - 1) BY <1>4, <3>1, <3>2
      <4>2. heights'[q - 1] = heights[q - 1] BY <1>6, <4>1
      <4> QED BY <1>3, <1>4, <1>5, <1>7, <1>10, <3>2, <4>1, <4>2
    <3>3. CASE p # q
      <4>1. p \in 0..(q - 1) /\ p - 1 \in 0..(q - 1)
            /\ p \in 1..(offset - 1) /\ p # offset - 1
        BY <1>4, <3>1, <3>3
      <4>2. heights[p] < heights[p - 1] BY <4>1 DEF IInv, Frontier
      <4> QED BY <1>6, <4>1, <4>2
    <3> QED BY <3>2, <3>3
  <2> QED BY <2>1, <2>2, <2>3, <2>4 DEF Frontier
<1>13. Spread'
  <2>1. ASSUME NEW p \in 0..(offset - 1)' PROVE End(p)' <= O + Done'
    <3>1. CASE p = q
      <4>1. O + (idx + 1) <= O + (idx + 1) BY <1>4
      <4> QED BY <1>7, <1>8, <3>1, <4>1
    <3>2. CASE p \in 0..(q - 1)
      <4>1. p \in 0..(offset - 1) BY <1>6, <3>2
      <4>2. End(p) <= O + Done BY <4>1 DEF IInv, Spread
      <4> QED BY <1>6, <1>8, <3>2, <4>2
    <3> QED BY <1>9, <3>1, <3>2
  <2>2. ASSUME NEW p \in Settled'
        PROVE  /\ heights'[p] + p <= heights'[0]
               /\ End(p)' + Pow2[heights'[p]] <= O + 2 * Pow2[heights'[0]]
    <3>1. Settled' = 0..(q - 1)
      <4>1. offset' - 2 = q - 1 BY <1>4, <1>5
      <4> QED BY <1>5, <4>1 DEF Settled
    <3>2. p \in 0..(q - 1) /\ 0 \in 0..(q - 1) BY <1>4, <3>1
    <3>3. p \in Settled
      <4>1. Settled = 0..q BY <1>1, <1>2 DEF Settled
      <4> QED BY <1>4, <3>2, <4>1
    <3> QED BY <1>6, <3>2, <3>3 DEF IInv, Spread
  <2> QED BY <2>1, <2>2 DEF Spread
<1>14. Control' BY <1>1, <1>5 DEF IInv, Control
<1>15. PathSoFar'
  <2> SUFFICES ASSUME NEW k \in Levels, PathDone(k)'
               PROVE  auth'[k] = Node(Subtree, k, Shr(O, k) + PathIdx(k))
    BY <1>5 DEF PathSoFar, PathIdx
  <2>1. k \in Nat /\ DOMAIN auth = Levels BY <1>4 DEF Levels, IInv, TypeOK
  <2>2. PathIdx(k) \in Nat BY <2>1, PathInTree DEF IInv
  <2>3. OnAuthPath(h + 1, y) <=> PathIdx(h + 1) = y BY DEF OnAuthPath, PathIdx
  <2>4. \/ (PathIdx(k) + 1) * Pow2[k] <= idx
        \/ (PathIdx(k) + 1) * Pow2[k] = idx + 1 /\ k <= h + 1
    <3>1. (offset - 1)' = q BY <1>4, <1>5
    <3> QED BY <1>5, <1>7, <3>1 DEF PathDone, PathIdx
  <2>5. CASE k = h + 1 /\ PathIdx(k) = y
    <3>1. auth'[k] = Node(Subtree, k, i) BY <1>5, <2>1, <2>3, <2>5
    <3>2. c \in Nat
      <4>1. h + 1 \in Nat /\ h + 1 <= TreeHeight BY <1>3, <1>4
      <4> QED BY <1>2, <4>1, OffsetMultiple
    <3>3. i = c + y BY <1>3, <3>2
    <3>4. c = Shr(O, k) BY <1>2, <2>5
    <3> HIDE DEF i
    <3> QED BY <2>5, <3>1, <3>3, <3>4
  <2>6. CASE ~(k = h + 1 /\ PathIdx(k) = y)
    <3>1. auth'[k] = auth[k]
      <4>1. OnAuthPath(h + 1, y) => k # h + 1 BY <2>3, <2>6
      <4> QED BY <1>5, <2>1, <4>1
    <3>2. PathDone(k)
      <4>1. ASSUME (PathIdx(k) + 1) * Pow2[k] = idx + 1, k <= h + 1
            PROVE  k <= heights[offset - 1]
        <5>1. k # h + 1
          <6> SUFFICES ASSUME k = h + 1 PROVE FALSE OBVIOUS
          <6>1. PathIdx(k) + 1 \in Nat /\ y + 1 \in Nat BY <1>3, <2>2
          <6>2. (PathIdx(k) + 1) * T = (y + 1) * T BY <1>3, <4>1
          <6> HIDE DEF T
          <6>3. PathIdx(k) + 1 = y + 1 BY ONLY <1>4, <6>1, <6>2, Cancel
          <6> QED BY <1>3, <2>2, <2>6, <6>3
        <5> QED BY <1>2, <1>3, <2>1, <4>1, <5>1
      <4> QED BY <1>1, <2>4, <4>1 DEF PathDone
    <3> QED BY <3>1, <3>2 DEF IInv, PathSoFar
  <2> QED BY <2>5, <2>6
<1>16. offset' <= TreeHeight + 1 BY <1>4, <1>5 DEF IInv
<1> QED BY <1>11, <1>12, <1>13, <1>14, <1>15, <1>16 DEF IInv

(* No more can be merged, and the loop goes on to the next leaf.             *)
LEMMA NextLeafIInv == IInv /\ NextLeaf => IInv'
<1> SUFFICES ASSUME IInv, NextLeaf PROVE IInv' OBVIOUS
<1> DEFINE O == IdxOffset
<1>1. /\ pc = "merge" /\ ~Tied /\ pc' = "leaf" /\ idx' = idx + 1
      /\ leafIdx' = leafIdx /\ stack' = stack /\ heights' = heights
      /\ offset' = offset /\ auth' = auth /\ root' = root
  BY DEF NextLeaf
<1>2. /\ O \in Nat /\ TreeHeight \in Nat /\ idx \in Nat /\ offset \in Nat
      /\ Pow2[TreeHeight] \in Nat /\ idx < Pow2[TreeHeight]
  BY <1>1, TreeHeightAssumption, IdxOffsetAssumption, Pow2Recursion
     DEF IInv, TypeOK, Control
<1>3. Done = idx + 1 /\ Done' = idx + 1 BY <1>1 DEF Done
<1>4. \A p : Start(p)' = Start(p) /\ End(p)' = End(p) BY <1>1 DEF Start, End
<1>5. PICK n : n = offset - 1 OBVIOUS
<1>6. n \in Nat /\ offset = n + 1 BY <1>2, <1>3, <1>5 DEF IInv, Frontier
<1>7. TypeOK'
  <2>1. idx' \in 0..Pow2[TreeHeight] BY <1>1, <1>2
  <2> QED BY <1>1, <2>1 DEF IInv, TypeOK
<1>8. \A p \in 1..(offset - 1) : heights[p] < heights[p - 1]
  <2> SUFFICES ASSUME NEW p \in 1..(offset - 1), ~(heights[p] < heights[p - 1])
               PROVE  FALSE
    OBVIOUS
  <2>1. heights[p] = heights[p - 1] /\ p = offset - 1 BY DEF IInv, Frontier
  <2>2. offset >= 2 /\ p - 1 = offset - 2 BY <1>2, <2>1
  <2> QED BY <1>1, <2>1, <2>2 DEF Tied
<1>9. Frontier'
  <2>1. offset' = 0 <=> Done' = 0 BY <1>1, <1>3 DEF IInv, Frontier
  <2>2. ASSUME NEW p \in 0..(offset' - 1)
        PROVE  /\ stack'[p] # Junk /\ stack'[p].index \in Nat
               /\ stack'[p] = Node(Subtree, heights'[p], stack'[p].index)
               /\ Start(p)' = IF p = 0 THEN O ELSE End(p - 1)'
    BY <1>1, <1>4 DEF IInv, Frontier
  <2>3. End(offset - 1)' = O + Done'
    <3>1. End(offset - 1)' = End(offset - 1) BY <1>1 DEF End
    <3>2. offset > 0 BY <1>6
    <3> QED BY <1>3, <3>1, <3>2 DEF IInv, Frontier
  <2> QED BY <1>1, <1>8, <2>1, <2>2, <2>3 DEF Frontier
<1>10. Spread'
  <2>1. ASSUME NEW p \in 0..(offset' - 1) PROVE End(p)' <= O + Done'
    BY <1>1, <1>3, <1>4 DEF IInv, Spread
  <2>2. Settled = 0..(n - 1) /\ Settled' = 0..n
    <3>1. offset - 2 = n - 1 BY <1>6
    <3> QED BY <1>1, <1>5, <3>1 DEF Settled
  <2>3. ASSUME NEW p \in 0..n
        PROVE  heights[p] + p <= heights[0]
               /\ End(p) + Pow2[heights[p]] <= O + 2 * Pow2[heights[0]]
    <3>1. CASE p # n
      <4>1. p \in Settled BY <1>6, <2>2, <3>1
      <4> QED BY <4>1 DEF IInv, Spread
    <3>2. CASE p = n /\ n = 0
      <4>1. 0 \in 0..(offset - 1) BY <1>6
      <4>2. Start(0) = O BY <4>1 DEF IInv, Frontier
      <4>3. /\ heights[0] \in Nat /\ Pow2[heights[0]] \in Nat
            /\ End(0) = Start(0) + Pow2[heights[0]]
        BY <4>1, Block
      <4> QED BY <1>2, <3>2, <4>2, <4>3
    <3>3. CASE p = n /\ n # 0
      <4>1. n \in 1..(offset - 1) /\ n \in 0..(offset - 1) /\ n - 1 \in Settled
            /\ n - 1 \in 0..(offset - 1) /\ 0 \in 0..(offset - 1)
        BY <1>6, <2>2, <3>3
      <4>2. /\ heights[n] \in Nat /\ Pow2[heights[n]] \in Nat
            /\ End(n) = Start(n) + Pow2[heights[n]]
        BY <4>1, Block
      <4>3. /\ heights[n - 1] \in Nat /\ Pow2[heights[n - 1]] \in Nat
            /\ End(n - 1) \in Nat
        BY <4>1, Block
      <4>4. heights[0] \in Nat /\ Pow2[heights[0]] \in Nat BY <4>1, Block
      <4>5. heights[n] < heights[n - 1] BY <1>8, <4>1
      <4>6. 2 * Pow2[heights[n]] <= Pow2[heights[n - 1]]
        BY <4>2, <4>3, <4>5, Twice
      <4>7. Start(n) = End(n - 1) BY <3>3, <4>1 DEF IInv, Frontier
      <4>8. /\ heights[n - 1] + (n - 1) <= heights[0]
            /\ End(n - 1) + Pow2[heights[n - 1]] <= O + 2 * Pow2[heights[0]]
        BY <4>1 DEF IInv, Spread
      <4>9. heights[n] + n <= heights[0]
        BY <1>6, <4>2, <4>3, <4>4, <4>5, <4>8
      <4>10. End(n) + Pow2[heights[n]] <= O + 2 * Pow2[heights[0]]
        BY <1>2, <4>2, <4>3, <4>4, <4>6, <4>7, <4>8
      <4> QED BY <3>3, <4>9, <4>10
    <3> QED BY <3>1, <3>2, <3>3
  <2> QED BY <1>1, <1>4, <2>1, <2>2, <2>3 DEF Spread
<1>11. Control' BY <1>1 DEF Control
<1>12. PathSoFar'
  <2> SUFFICES ASSUME NEW k \in Levels, PathDone(k)' PROVE PathDone(k)
    BY <1>1 DEF IInv, PathSoFar, PathIdx
  <2>1. k \in Nat /\ k <= TreeHeight BY <1>2 DEF Levels
  <2>2. PathIdx(k) + 1 \in Nat /\ Pow2[k] \in Nat
    BY <2>1, PathInTree, Pow2Recursion DEF IInv
  <2>3. (PathIdx(k) + 1) * Pow2[k] <= idx + 1 BY <1>1 DEF PathDone, PathIdx
  <2> DEFINE y == PathIdx(k) + 1
             t == Pow2[k]
  <2>4. y * t = idx + 1 => k <= heights[offset - 1]
    <3> HIDE DEF y
    <3> QED BY <1>1, <2>1, <2>2, TopIsHigh DEF y
  <2>5. y * t <= idx \/ y * t = idx + 1
    <3> HIDE DEF y, t
    <3>1. y * t \in Nat BY ONLY <2>2 DEF y, t
    <3>2. y * t <= idx + 1 BY <2>3 DEF y, t
    <3> QED BY <1>2, <3>1, <3>2
  <2> QED BY <1>1, <2>4, <2>5 DEF PathDone
<1> QED BY <1>1, <1>7, <1>9, <1>10, <1>11, <1>12 DEF IInv

(* The last leaf has been read, and the root is copied out.                  *)
LEMMA FinishIInv == IInv /\ Finish => IInv'
<1> SUFFICES ASSUME IInv, Finish PROVE IInv' OBVIOUS
<1>1. /\ pc = "leaf" /\ ~MoreLeaves /\ pc' = "done" /\ idx' = idx
      /\ leafIdx' = leafIdx /\ stack' = stack /\ heights' = heights
      /\ offset' = offset /\ auth' = auth /\ root' = stack[0]
  BY DEF Finish
<1>2. idx = Pow2[TreeHeight]
  <2>1. idx \in 0..Pow2[TreeHeight] /\ Pow2[TreeHeight] \in Nat
    BY TreeHeightAssumption, Pow2Recursion DEF IInv, TypeOK
  <2> QED BY <1>1, <2>1 DEF MoreLeaves
<1>3. Done' = Done /\ Settled' = Settled BY <1>1 DEF Done, Settled
<1>4. \A p : Start(p)' = Start(p) /\ End(p)' = End(p) BY <1>1 DEF Start, End
<1>5. TypeOK' BY <1>1 DEF IInv, TypeOK
<1>6. Frontier'
  <2>1. End(offset - 1)' = End(offset - 1) BY <1>1 DEF End
  <2> QED BY <1>1, <1>3, <1>4, <2>1 DEF IInv, Frontier
<1>7. Spread' BY <1>1, <1>3, <1>4 DEF IInv, Spread
<1>8. Control' BY <1>1, <1>2 DEF Control
<1>9. PathSoFar' BY <1>1 DEF IInv, PathSoFar, PathDone, PathIdx
<1> QED BY <1>1, <1>5, <1>6, <1>7, <1>8, <1>9 DEF IInv

(* IInv holds in every reachable state.                                      *)
LEMMA Invariance == Spec => []IInv
<1>1. IInv /\ [Next]_vars => IInv'
  <2> SUFFICES ASSUME IInv, [Next]_vars PROVE IInv' OBVIOUS
  <2>1. CASE PushLeaf BY <2>1, PushLeafIInv
  <2>2. CASE Merge BY <2>2, MergeIInv
  <2>3. CASE NextLeaf BY <2>3, NextLeafIInv
  <2>4. CASE Finish BY <2>4, FinishIInv
  <2>5. CASE UNCHANGED vars
    BY <2>5 DEF vars, IInv, TypeOK, Frontier, Spread, Settled, Control,
                PathSoFar, PathDone, PathIdx, Start, End, Done
  <2> QED BY <2>1, <2>2, <2>3, <2>4, <2>5 DEF Next
<1> QED BY InitIInv, <1>1, PTL DEF Spec

-----------------------------------------------------------------------------
(* The variables of treehash keep their types.                               *)
THEOREM TypeCorrect == Spec => []TypeOK
<1>1. IInv => TypeOK BY DEF IInv
<1> QED BY Invariance, <1>1, PTL

(* For every height, the tree_height + 1 slots of the arrays stack and       *)
(* heights are enough: treehash never writes beyond them.                    *)
THEOREM StackSuffices == Spec => []StackBound
<1>1. IInv => StackBound
  <2> SUFFICES ASSUME IInv, pc = "leaf", idx < Pow2[TreeHeight]
               PROVE  offset <= TreeHeight
    BY DEF IInv, StackBound
  <2> QED BY Room DEF MoreLeaves
<1> QED BY Invariance, <1>1, PTL

(* Between two iterations the stack of treehash covers the leaves read, from *)
(* left to right and without a gap, by nodes of the tree.                    *)
THEOREM FrontierHolds == Spec => []Frontier
<1>1. IInv => Frontier BY DEF IInv
<1> QED BY Invariance, <1>1, PTL

(* For every height, every leaf and every offset the callers can pass,       *)
(* treehash returns the root of the subtree and the authentication path of   *)
(* the leaf.                                                                 *)
THEOREM TreehashIsCorrect == Spec => []TreehashCorrect
<1>1. IInv => TreehashCorrect
  <2> SUFFICES ASSUME IInv, pc = "done" PROVE
        /\ root = Node(Subtree, TreeHeight, Shr(IdxOffset, TreeHeight))
        /\ \A h \in Levels :
             auth[h] = Node(Subtree, h,
                            Shr(IdxOffset, h) + Sibling(Shr(leafIdx, h)))
    BY DEF TreehashCorrect
  <2> DEFINE O == IdxOffset
             T == Pow2[TreeHeight]
             n == offset - 1
  <2>1. idx = T /\ root = stack[0] BY DEF IInv, Control
  <2>2. TreeHeight \in Nat /\ O \in Nat /\ T \in Nat \ {0} /\ offset \in Nat
    BY TreeHeightAssumption, IdxOffsetAssumption, Pow2Recursion
       DEF IInv, TypeOK
  <2>3. Done = T BY <2>1 DEF Done
  <2>4. offset # 0 BY <2>2, <2>3 DEF IInv, Frontier
  <2>5. n \in 0..(offset - 1) /\ n \in Settled /\ 0 \in 0..(offset - 1)
    BY <2>2, <2>4 DEF Settled
  <2>6. /\ heights[n] \in Nat /\ Pow2[heights[n]] \in Nat \ {0}
        /\ heights[0] \in Nat /\ Pow2[heights[0]] \in Nat
    BY <2>5, Block
  <2>7. End(n) = O + T BY <2>2, <2>3, <2>4 DEF IInv, Frontier
  <2>8. End(n) + Pow2[heights[n]] <= O + 2 * Pow2[heights[0]]
    BY <2>5 DEF IInv, Spread
  <2>9. T < 2 * Pow2[heights[0]] BY <2>2, <2>6, <2>7, <2>8
  <2>10. heights[0] = TreeHeight
    <3>1. heights[0] <= TreeHeight BY <2>4, Lowest
    <3>2. heights[0] < TreeHeight => 2 * Pow2[heights[0]] <= T
      BY <2>2, <2>6, Twice
    <3> QED BY <2>2, <2>6, <2>9, <3>1, <3>2
  <2>11. stack[0] = Node(Subtree, TreeHeight, Shr(O, TreeHeight))
    <3>1. /\ stack[0] = Node(Subtree, TreeHeight, stack[0].index)
          /\ stack[0].index \in Nat
      BY <2>5, <2>10 DEF IInv, Frontier
    <3>2. stack[0].index * T = O BY <2>5, <2>10 DEF IInv, Frontier, Start
    <3>3. Shr(O, TreeHeight) = stack[0].index
      BY <2>2, <3>1, <3>2, ShrMultiple
    <3> QED BY <3>1, <3>3
  <2>12. ASSUME NEW h \in Levels
         PROVE  auth[h] = Node(Subtree, h, Shr(O, h) + Sibling(Shr(leafIdx, h)))
    <3>1. h \in Nat /\ h < TreeHeight BY <2>2 DEF Levels
    <3>2. (PathIdx(h) + 1) * Pow2[h] <= T BY <3>1, PathInTree DEF IInv
    <3>3. PathDone(h) BY <2>1, <3>2 DEF PathDone
    <3> QED BY <3>3 DEF IInv, PathSoFar, PathIdx
  <2> QED BY <2>1, <2>11, <2>12
<1> QED BY Invariance, <1>1, PTL
=============================================================================
