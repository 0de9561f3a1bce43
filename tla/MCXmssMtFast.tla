---------------------------- MODULE MCXmssMtFast ----------------------------
(***************************************************************************)
(* Hypertrees of two and three layers.  The trees of d - 2 layers have a    *)
(* next tree that is paid for out of the budget of (th - k) / 2 updates.   *)
(* The passing runs have as many updates as such layers; MCStarvedSets are *)
(* the smallest sets with more layers than updates.                        *)
(***************************************************************************)
EXTENDS XmssMtFast

CONSTANT m1

MCMessages == {m1}

P(th, k, d, space) == [th |-> th, k |-> k, d |-> d, space |-> space]

(* The space of the index bytes is 256^ceil(th * d / 8), as params.c:488 has *)
(* it, so that the index of the key pairs with 2^8 leaves wraps around.      *)
MCParamSets == {P(2, 0, 2, 256), P(2, 0, 3, 256), P(3, 0, 2, 256), P(3, 1, 3, 65536),
                P(3, 0, 3, 65536), P(4, 0, 2, 256), P(4, 2, 2, 256),
                P(5, 0, 2, 65536), P(5, 3, 2, 65536), P(4, 0, 3, 65536)}

(* Two layers of next trees to build above layer 0 and one update for both,  *)
(* as XMSSMT 40/8 has six for two updates.                                   *)
MCStarvedSets == {P(2, 0, 4, 256)}

(* Three layers, so that two trees can end at once, and one update. *)
MCCarrySets == {P(2, 0, 3, 256)}

(* The proofs of XmssMtFastProofs are about the sets of the passing runs, and *)
(* not about the starved ones.                                               *)
ASSUME MCSufficesAssumption ==
  /\ \A p \in MCParamSets \cup MCCarrySets : Suffices(p)
  /\ \A p \in MCStarvedSets : ~Suffices(p)
=============================================================================
