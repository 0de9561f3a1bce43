---------------------------- MODULE MCXmssCrash ----------------------------
(***************************************************************************)
(* Key pairs of both signers whose calls may be cut short: XmssFast for    *)
(* the parameter sets of one layer, XmssMtFast for the others.  The two    *)
(* keep the same fields of the secret key but for the traversal state, and *)
(* their OneTimeKey is the same formula of the fields and of used.         *)
(***************************************************************************)
EXTENDS XmssMtFast

CONSTANTS
  m1,
  SingleTreeCrashes   \* bound: calls cut short of a key pair of one layer

VARIABLE state        \* the traversal state of a key pair of one layer

P(th, k, d, space) == [th |-> th, k |-> k, d |-> d, space |-> space]

(* Small enough for a crash at every point of a key pair's life. *)
MCCrashSets == {P(2, 0, 2, 256), P(2, 0, 3, 256), P(3, 0, 2, 256), P(3, 1, 2, 256),
                P(4, 0, 2, 256), P(4, 2, 2, 256), P(3, 0, 3, 65536)}

(* Small enough for three crashes anywhere. *)
MCSingleTreeSets ==
  {P(th, k, 1, 256) : <<th, k>> \in {q \in (1..4) \X (0..4) :
                        q[2] <= q[1] /\ (q[2] <= 1 \/ (q[1] - q[2]) % 2 = 0)}}

MCMessages == {m1}

SingleTree == INSTANCE XmssFast WITH
  ParamSets <- MCSingleTreeSets, MaxCrashes <- SingleTreeCrashes

HypertreeVars == <<states, wotsSigs, left>>

(* The signer without the other one's part of the key. *)
InitBoth ==
  \/ Init /\ state = Junk
  \/ SingleTree!Init /\ states = Junk /\ wotsSigs = Junk /\ left = 0

HypertreeStep(A) == params.d > 1 /\ A /\ UNCHANGED state
SingleTreeStep(A) == params.d = 1 /\ A /\ UNCHANGED HypertreeVars

NextBoth ==
  \/ HypertreeStep(Keypair)
  \/ \E m \in Messages : HypertreeStep(Sign(m))
  \/ \E m \in Messages : HypertreeStep(Crash(m))
  \/ SingleTreeStep(SingleTree!Keypair)
  \/ \E m \in Messages : SingleTreeStep(SingleTree!Sign(m))
  \/ \E m \in Messages : SingleTreeStep(SingleTree!Crash(m))

SpecBoth == InitBoth /\ [][NextBoth]_<<vars, state>>
=============================================================================
