----------------------------- MODULE MCXmssCore -----------------------------
(***************************************************************************)
(* Small key pairs: one layer of 4 leaves with index bytes to spare, two   *)
(* layers of 2 leaves whose index wraps exactly when it is used up (as the *)
(* 5 index bytes of the XMSSMT parameter sets of height 40 do), and three  *)
(* layers of 2 leaves.                                                     *)
(***************************************************************************)
EXTENDS XmssCore, TLC

CONSTANTS m1, m2

MCParamSets == {[th |-> 2, d |-> 1, space |-> 8],
                [th |-> 1, d |-> 2, space |-> 4],
                [th |-> 1, d |-> 3, space |-> 8]}
MCMessages == {m1, m2}
MCSymmetry == Permutations(MCMessages)
=============================================================================
