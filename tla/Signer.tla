------------------------------- MODULE Signer -------------------------------
(***************************************************************************)
(* What a stateful hash-based signer promises, whatever it keeps in its    *)
(* secret key: call number i of a fresh key pair yields the signature with *)
(* index i and nothing else, an index is never handed out twice, and a     *)
(* call that is cut short costs its index.  xmss_core.c recomputes every   *)
(* tree for each signature and xmss_core_fast.c carries traversal state    *)
(* from one to the next; the Makefile links the same tests with either, so *)
(* both have to implement this module.                                     *)
(***************************************************************************)
EXTENDS HashTree

CONSTANTS Messages, NoOutput

VARIABLES
  params,   \* the parameter set
  next,     \* the next index
  out       \* the last signature returned

vars == <<params, next, out>>

(* The signature with index idx on m: on layer 0 the digest of the message,  *)
(* on every other layer the root of the subtree below, each signed with the  *)
(* leaf the index selects and followed by that leaf's path.                  *)
Canonical(p, idx, m) ==
  LET a(l) == <<l, TreeAt(p, idx, l)>>
      msg(l) == IF l = 0 THEN Digest(idx, idx, m) ELSE TreeRoot(p.th, a(l - 1))
  IN  [idx |-> idx, r |-> idx, msg |-> m,
       wots |-> [l \in 0..(p.d - 1) |->
                   WotsSign(a(l), LeafAt(p, idx, l), msg(l))],
       auth |-> [l \in 0..(p.d - 1) |->
                   TreeAuth(p.th, a(l), LeafAt(p, idx, l))]]

Init ==
  /\ next = 0
  /\ out = NoOutput

Issue(m) ==
  /\ next < Capacity(params)
  /\ out' = Canonical(params, next, m)
  /\ next' = next + 1
  /\ UNCHANGED params

(* A call after the last index returns too, with an output that does not     *)
(* verify -- until the bytes of the index wrap around to 0.                  *)
Overrun ==
  /\ next >= Capacity(params)
  /\ next' = next + 1
  /\ out' # NoOutput
  /\ next < params.space =>
       ~SignOpen(params, TreeRoot(params.th, <<params.d - 1, 0>>), out')
  /\ UNCHANGED params

(* A call that was cut short. *)
Lose ==
  /\ next' = next + 1
  /\ UNCHANGED <<params, out>>

Next ==
  \/ \E m \in Messages : Issue(m)
  \/ Overrun
  \/ Lose

Spec == Init /\ [][Next]_vars
=============================================================================
