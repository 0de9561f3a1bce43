----------------------------- MODULE MCSphincs -----------------------------
(***************************************************************************)
(* Two key pairs, a hypertree of two layers of height 2 and three FORS     *)
(* trees of height 3, whose nine index bits end in a second byte.  The     *)
(* digests meet: two select the same leaf and differ only in the ninth     *)
(* bit, two are the same leaf after masking, two share a tree.             *)
(***************************************************************************)
EXTENDS Sphincs

Symmetry == Permutations(Keys) \cup Permutations(Optrands)

MCDigests ==
  {[md |-> <<0, 0>>,     tree |-> 0, leaf |-> 0],
   [md |-> <<0, 1>>,     tree |-> 0, leaf |-> 0],
   [md |-> <<165, 254>>, tree |-> 6, leaf |-> 7],
   [md |-> <<90, 1>>,    tree |-> 2, leaf |-> 3],
   [md |-> <<255, 255>>, tree |-> 2, leaf |-> 2]}
=============================================================================
