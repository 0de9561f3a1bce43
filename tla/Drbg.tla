-------------------------------- MODULE Drbg --------------------------------
(***************************************************************************)
(* The AES-CTR generator of sphincsp/rng.c that the known-answer drivers   *)
(* seed: randombytes_init and randombytes on the global DRBG_ctx.          *)
(*                                                                         *)
(* An encrypted block is the record of its key and plaintext; V is the     *)
(* value it last had from a block, and how often it was incremented since  *)
(* (fewer than 2^128 times).                                               *)
(***************************************************************************)
EXTENDS Integers, Sequences, FiniteSets, SequencesExt, Bits

CONSTANTS
  Block,       \* 16
  Seeds,       \* values of entropy_input
  Strings,     \* values of personalization_string, NULL among them
  NULL,
  Lengths,     \* values of xlen
  MaxInits, MaxCalls    \* bounds on the calls

BoundsAssumption ==
  /\ Block \in Nat \ {0} /\ Lengths \subseteq Nat
  /\ MaxInits \in Nat /\ MaxCalls \in Nat

VARIABLES
  key, v,       \* DRBG_ctx
  seed,         \* history: the arguments of the last randombytes_init
  encrypted,    \* history: the blocks encrypted since then, in order
  asked, given, \* history: the lengths asked for since then and the bytes given
  transcripts,  \* history: all of [seed, asked, given] there have been
  inits, calls

vars == <<key, v, seed, encrypted, asked, given, transcripts, inits, calls>>

Zero == <<>>
ZeroV == [of |-> Zero, plus |-> 0]

AES(k, w) == [key |-> k, v |-> w]
Plus(w, n) == [w EXCEPT !.plus = @ + n]

(* Mutant: V is incremented once, before the loop over the three blocks. *)
UpdateVOnce(w, i) == Plus(w, 1)

(* V of block i of an update, incremented before each. *)
UpdateV(w, i) == Plus(w, i)

(* AES256_CTR_DRBG_Update: three blocks, the data xored in, are the new key  *)
(* and the new V.                                                            *)
Update(data, k, w) ==
  LET block(i) == AES(k, UpdateV(w, i))
      temp(i)  == [block |-> block(i), xor |-> IF data = NULL THEN <<>> ELSE <<data, i>>]
  IN  [key |-> <<temp(1), temp(2)>>, v |-> [of |-> temp(3), plus |-> 0],
       encrypted |-> [i \in 1..3 |-> block(i)]]

Init ==
  /\ key = Zero /\ v = ZeroV
  /\ seed = <<>> /\ encrypted = <<>> /\ asked = <<>> /\ given = <<>>
  /\ transcripts = {} /\ inits = 0 /\ calls = 0

(* memset(DRBG_ctx.V, 0x00, 16). *)
FirstV == ZeroV

(* The personalization string, if there is one, is xored into the entropy.   *)
SeedMaterial(e, s) == IF s = NULL THEN <<e>> ELSE <<e, s>>

RandomBytesInit(e, s) ==
  LET u == Update(SeedMaterial(e, s), Zero, FirstV)
  IN  /\ inits < MaxInits
      /\ key' = u.key /\ v' = u.v
      /\ seed' = <<e, s>>
      /\ encrypted' = u.encrypted
      /\ asked' = <<>> /\ given' = <<>>
      /\ inits' = inits + 1
      /\ UNCHANGED <<transcripts, calls>>

(* The iterations of the loop of randombytes. *)
BlocksFor(n) == (n + Block - 1) \div Block

(* Mutant: the update is forgotten. *)
AfterNone(w) == [key |-> key, v |-> w, encrypted |-> <<>>]

(* The update that ends randombytes. *)
After(w) == Update(NULL, key, w)

(* randombytes: V is incremented and encrypted for every block, and of the   *)
(* last only what is wanted is copied.                                       *)
RandomBytes(n) ==
  LET block(b) == AES(key, Plus(v, b))
      blocks == [b \in 1..BlocksFor(n) |-> block(b)]
      u == After(Plus(v, BlocksFor(n)))
  IN  /\ seed # <<>>
      /\ calls < MaxCalls
      /\ given' = given \o [k \in 1..n |-> <<block(((k - 1) \div Block) + 1), (k - 1) % Block>>]
      /\ key' = u.key /\ v' = u.v
      /\ encrypted' = encrypted \o blocks \o u.encrypted
      /\ asked' = Append(asked, n)
      /\ transcripts' = transcripts \cup {[seed |-> seed, asked |-> asked', given |-> given']}
      /\ calls' = calls + 1
      /\ UNCHANGED <<seed, inits>>

Next ==
  \/ \E e \in Seeds, s \in Strings : RandomBytesInit(e, s)
  \/ \E n \in Lengths : RandomBytes(n)

Spec == Init /\ [][Next]_vars
-----------------------------------------------------------------------------
(* Type correctness: as many bytes are given as were asked for, from as few  *)
(* blocks as hold them, and three more blocks for every update.              *)
TypeOK ==
  /\ inits \in 0..MaxInits /\ calls \in 0..MaxCalls
  /\ Len(given) = SumTo([j \in 0..(Len(asked) - 1) |-> asked[j + 1]], Len(asked))
  /\ seed # <<>> => Len(encrypted) = 3 * (Len(asked) + 1)
       + SumTo([j \in 0..(Len(asked) - 1) |-> (asked[j + 1] + Block - 1) \div Block], Len(asked))

(* No block is encrypted twice under one seed, by the loop of randombytes or *)
(* the update at its end, whatever lengths are asked for (rng.c:171, 206).   *)
BlocksFresh ==
  Cardinality(ToSet(encrypted)) = Len(encrypted)

(* Between two calls the key is none that has made a byte given out: what    *)
(* the generator holds does not yield what it gave (rng.c:182).              *)
KeyErased ==
  \A k \in DOMAIN given : given[k][1].key # key

(* The bytes depend on the seed and on the lengths asked for since, and on   *)
(* nothing from before: the known answers can be reproduced in any order.    *)
Reproducible ==
  \A s, t \in transcripts :
    s.seed = t.seed /\ s.asked = t.asked => s.given = t.given

=============================================================================
