----------------------------- MODULE MCXmssFast -----------------------------
(***************************************************************************)
(* Trees of up to 64 leaves with the trade-off parameters for which the    *)
(* budget of updates suffices: bds_k = 0 is what every standard parameter  *)
(* set uses, bds_k = tree_height retains the whole tree.                   *)
(***************************************************************************)
EXTENDS XmssFast

CONSTANT m1

MCMessages == {m1}

MCParamSets ==
  {[th |-> th, k |-> k, d |-> 1, space |-> 256] :
     <<th, k>> \in {p \in (1..6) \X (0..6) :
                    p[2] <= p[1] /\ (p[2] <= 1 \/ (p[1] - p[2]) % 2 = 0)}}
=============================================================================
