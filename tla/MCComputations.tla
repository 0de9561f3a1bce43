--------------------------- MODULE MCComputations ---------------------------
(***************************************************************************)
(* The computations that end by themselves and meet no state of another    *)
(* component: treehash on one subtree; the parameters behind the wrappers  *)
(* of xmss.c; the tables of tunning-wots.  They share nothing, so a        *)
(* behaviour is one of one of them.                                        *)
(*                                                                         *)
(* The subtree has 16 leaves, numbered from 32 on as in the third tree of  *)
(* a FORS instance of height 4.  The OIDs are all of both families, the    *)
(* ones next to them and the example in the comments of params.h.  The     *)
(* arrays are the program's own.                                           *)
(***************************************************************************)
EXTENDS Treehash

CONSTANTS
  Oids, BdsKs,        \* of the wrappers
  WArray, MArray,     \* of the tables
  Unwritten           \* a cell of the tables that was never written

VARIABLES
  part,
  name, oid, pk, sk, made, call,       \* of the wrappers
  pW, pM, p, turn, table, file         \* of the tables

wrapperVars == <<name, oid, pk, sk, made, call>>
tablesVars == <<pW, pM, p, turn, table, file>>

Wrappers == INSTANCE Api
Tables == INSTANCE TuningWots WITH call <- turn, Junk <- Unwritten

ASSUME TablesAssumption == Tables!ArraysAssumption

MCSubtree == <<0, 5>>
MCOids == (0..34) \cup {16777217}
MCBdsKs == {0, 2, 4}
MCWArray == <<2, 4, 6, 8, 10, 12, 14, 16>>
MCMArray == <<128, 192, 256, 512>>

InitParts ==
  /\ part \in {"treehash", "wrappers", "tables"}
  /\ Init /\ (part # "treehash" => leafIdx = 0)
  /\ Wrappers!Init
  /\ Tables!Init

TreehashStep(A) == part = "treehash" /\ A /\ UNCHANGED <<part, wrapperVars, tablesVars>>
WrapperStep(A) == part = "wrappers" /\ A /\ UNCHANGED <<part, vars, tablesVars>>
TablesStep(A) == part = "tables" /\ A /\ UNCHANGED <<part, vars, wrapperVars>>

NextParts ==
  \/ TreehashStep(PushLeaf)
  \/ TreehashStep(Merge)
  \/ TreehashStep(NextLeaf)
  \/ TreehashStep(Finish)
  \/ \E f, g \in Wrappers!Families : \E i \in DOMAIN Wrappers!Names(g) :
       WrapperStep(Wrappers!StrToOid(f, Wrappers!Names(g)[i]))
  \/ \E o \in Oids : WrapperStep(Wrappers!SetOid(o))
  \/ \E f \in Wrappers!Families : WrapperStep(Wrappers!Keypair(f))
  \/ \E f \in Wrappers!Families : WrapperStep(Wrappers!Sign(f))
  \/ \E f \in Wrappers!Families : WrapperStep(Wrappers!SignOpen(f))
  \/ TablesStep(Tables!T1Calc)
  \/ TablesStep(Tables!T2NcCalc)
  \/ TablesStep(Tables!NuT2wCalc)
  \/ TablesStep(Tables!PrintRow)

SpecParts == InitParts /\ [][NextParts]_<<part, vars, wrapperVars, tablesVars>>
-----------------------------------------------------------------------------
(* A key pair gets the parameters its name says, and the functions of its    *)
(* own family find them again by the OID in the key; an OID that is in no    *)
(* table of the family is refused and changes nothing (xmss.c:10-109,        *)
(* params.c:7-450).  Nothing is said of the functions of the other family,   *)
(* which take the key for one of theirs.  The OIDs are those of the tables:  *)
(* the example that params.h:35, 42, 48 and 54 give of an OID that is put    *)
(* out and accepted, 0x01000001, is in none of them and is refused.          *)
KeysKeepTheirParameters ==
  Wrappers!TypeOK /\ Wrappers!NameHonoured /\ Wrappers!OidIdentifies /\ Wrappers!FailsWhole

(* The derived sizes fit the parameters, and what serialising the traversal  *)
(* state writes is what deserialising reads, to the last byte of the key     *)
(* (params.c:453-496, xmss_core_fast.c:38-136).                              *)
SizesAndLayoutFit == Wrappers!SizesFit /\ Wrappers!StateLayoutAgrees

(* Every pair of w and m has one row, with cells that were written for that  *)
(* pair and checksum columns that are right for the t1 of the row            *)
(* (tunning-wots.c, t2_nc_calc.c, nu_t2w_calc.c).  Whether that t1 is the    *)
(* right one is T1AsCommented.                                               *)
RowsRight ==
  /\ Tables!TypeOK /\ Tables!EveryPairOnce
  /\ Tables!ChecksumBits /\ Tables!ChecksumDigits

(* The comment t1_calc.c:4, "t1 = ceil(m/w);", of every row printed.         *)
T1AsCommented == Tables!T1IsCeiling
=============================================================================
