----------------------------- MODULE TuningWots -----------------------------
(***************************************************************************)
(* tunning-wots: for every w and m of two arrays the program fills one     *)
(* cell of eight tables, walking each with a pointer of its own, and then  *)
(* prints the tables by indices.  The pointers to the tables move          *)
(* together, as one offset.                                                *)
(***************************************************************************)
EXTENDS Integers, Sequences, FiniteSetsExt

CONSTANTS
  WArray, MArray,   \* w_array and m_array
  Junk              \* what a cell holds that was never written

ArraysAssumption ==
  /\ WArray \in Seq(Nat \ {0}) /\ MArray \in Seq(Nat \ {0})
  /\ Junk \notin Nat

VARIABLES
  pW, pM,     \* the pointers into w_array and m_array, as offsets
  p,          \* the offset of the pointers to the tables
  call,       \* the function called next
  table,      \* the tables: from names to cells
  file        \* the rows of table1.txt

vars == <<pW, pM, p, call, table, file>>
-----------------------------------------------------------------------------
W == Len(WArray)
M == Len(MArray)
Tables == {"t1", "t2", "t2_a", "nc", "nu", "nu_a", "t2w", "t2w_a"}
Cells == 0..(W * M - 1)

Pow(k) == 2^k
CeilDiv(a, b) == (a + b - 1) \div b
(* floor(log10(t) / log10(2)) + 1, exact on the numbers that occur.          *)
Bits(t) == Min({k \in 1..30 : t < Pow(k)})
PowersOfTwo == {Pow(k) : k \in 1..8}

(* n of t2_nc_calc; its logarithm of a power of two is exact.                *)
NBits(t) == IF t \in PowersOfTwo THEN Bits(t) - 1 ELSE Bits(t)

Init ==
  /\ pW = 0 /\ pM = 0 /\ p = 0 /\ call = "t1_calc"
  /\ table = [t \in Tables |-> [c \in Cells |-> Junk]]
  /\ file = <<>>

w == WArray[pW + 1]
m == MArray[pM + 1]
Cell(t) == table[t][p]
Write(t, x) == [table[t] EXCEPT ![p] = x]

(* The quotient of two integers: ceil has nothing left to round up.          *)
T1 == m \div w

T1Calc ==
  /\ call = "t1_calc"
  /\ table' = [table EXCEPT !["t1"] = Write("t1", T1)]
  /\ call' = "t2_nc_calc"
  /\ UNCHANGED <<pW, pM, p, file>>

Digits(n) == CeilDiv(n, w)

(* pT1++ to pT2w_a++, and the last turn of the loops.                        *)
NextCell(q) == q + 1
LastCell(q) == q + 1 >= W * M

T2NcCalc ==
  LET n == NBits(Cell("t1"))
  IN  /\ call = "t2_nc_calc"
      /\ table' = [table EXCEPT !["t2"] = Write("t2", Digits(n + w)),
                                !["nc"] = Write("nc", n + w),
                                !["t2_a"] = Write("t2_a", Digits(Bits(Cell("t1")) + w))]
      /\ call' = "nu_t2w_calc"
      /\ UNCHANGED <<pW, pM, p, file>>

(* The ends of the two loops; m starts over for the next w.                  *)
NextPair ==
  IF pM + 1 < M THEN pM' = pM + 1 /\ pW' = pW ELSE pM' = 0 /\ pW' = pW + 1

NuT2wCalc ==
  /\ call = "nu_t2w_calc"
  /\ table' = [table EXCEPT !["nu"] = Write("nu", Cell("t2") * w - Cell("nc")),
                            !["t2w"] = Write("t2w", Cell("t2") * w),
                            !["nu_a"] = Write("nu_a", Cell("t2_a") * w - Cell("nc")),
                            !["t2w_a"] = Write("t2w_a", Cell("t2_a") * w)]
  /\ IF LastCell(p)
       THEN p' = p /\ pW' = 0 /\ pM' = 0 /\ call' = "print"
       ELSE p' = NextCell(p) /\ NextPair /\ call' = "t1_calc"
  /\ UNCHANGED file

(* Mutant: the tables are read as if w ran faster. *)
CellAtTransposed(i, j) == j * W + i
(* [i][j] of a table. *)
CellAt(i, j) == i * M + j

(* One fprintf, of the cells [i][j] under *pW and *pM.                       *)
LastRow == Len(file) + 1 = W * M

PrintRow ==
  LET i == Len(file) \div M
      j == Len(file) % M
  IN  /\ call = "print"
      /\ file' = Append(file, [t \in Tables \cup {"w", "m"} |->
                               CASE t = "w" -> w [] t = "m" -> m
                                 [] OTHER -> table[t][CellAt(i, j)]])
      /\ IF LastRow THEN UNCHANGED <<pW, pM>> /\ call' = "done"
           ELSE NextPair /\ call' = call
      /\ UNCHANGED <<p, table>>

Next == T1Calc \/ T2NcCalc \/ NuT2wCalc \/ PrintRow

Spec == Init /\ [][Next]_vars
-----------------------------------------------------------------------------
(* Offsets are inside of the arrays, and what a function reads has been      *)
(* written: a cell of junk is never used and never printed.                  *)
TypeOK ==
  /\ pW \in 0..(W - 1) /\ pM \in 0..(M - 1) /\ p \in Cells
  /\ call \in {"t1_calc", "t2_nc_calc", "nu_t2w_calc", "print", "done"}
  /\ \A k \in DOMAIN file : \A t \in Tables : file[k][t] \in Int

MaxChecksum(row) == row["t1"] * (Pow(row["w"]) - 1)

(* Every row of the file says of its own w how long the checksum of t1       *)
(* digits is: the greatest one fits in nc bits and in no fewer.              *)
ChecksumBits ==
  \A k \in DOMAIN file :
    LET row == file[k]
    IN  /\ MaxChecksum(row) < Pow(row["nc"])
        /\ MaxChecksum(row) >= Pow(row["nc"] - 1)

(* Of every row t2 is the least number of w-bit digits that holds the        *)
(* checksum, nu the bits left over in them; t2' may be one digit more.       *)
ChecksumDigits ==
  \A k \in DOMAIN file :
    LET row == file[k]
    IN  /\ row["nu"] \in 0..(row["w"] - 1)
        /\ row["t2w"] = row["nc"] + row["nu"]
        /\ row["t2_a"] - row["t2"] \in {0, 1}
        /\ row["nu_a"] - row["nu"] = row["t2w_a"] - row["t2w"]

(* The rows are those of the pairs, each pair once: the pointers of the      *)
(* first loop and the indices of the second meet.  The cells of a row are    *)
(* its own: t1 words of w bits are the m bits up to less than a word, which  *)
(* leaves open how the quotient is rounded.                                  *)
EveryPairOnce ==
  call = "done" =>
    /\ {<<file[k]["w"], file[k]["m"]>> : k \in DOMAIN file} =
         {<<WArray[a], MArray[b]>> : a \in 1..W, b \in 1..M}
    /\ \A k \in DOMAIN file :
         file[k]["t1"] * file[k]["w"] - file[k]["m"] \in
           (1 - file[k]["w"])..(file[k]["w"] - 1)

(* "t1 = ceil(m/w);" (t1_calc.c:4): t1 digits of w bits hold the m bits.     *)
T1IsCeiling ==
  \A k \in DOMAIN file : file[k]["t1"] = CeilDiv(file[k]["m"], file[k]["w"])
=============================================================================
