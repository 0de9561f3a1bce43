---------------------------- MODULE SeedExpander ----------------------------
(***************************************************************************)
(* The seed expander of sphincsp/rng.c: AES in counter mode under a seed,  *)
(* with what is left of the last block kept for the next request and a     *)
(* count of the bytes that may still be asked for.                         *)
(*                                                                         *)
(* A block is named by the counter it was made from; key and diversifier   *)
(* are fixed.  The block length, the radix of a byte and the number of     *)
(* counter bytes are parameters.                                           *)
(***************************************************************************)
EXTENDS Integers, Sequences, FiniteSets

CONSTANTS
  Block,      \* 16
  Radix,      \* 256
  CtrBytes,   \* 4, ctr[12] to ctr[15]
  Lengths,    \* values of maxlen tried
  Requests    \* values of xlen tried

(* Radix^n. *)
Power[n \in Nat] == IF n = 0 THEN 1 ELSE Radix * Power[n - 1]

(* 256^4, the maxlen that seedexpander_init refuses. *)
Limit == Power[CtrBytes]

SizesAssumption ==
  /\ Block \in Nat \ {0} /\ Radix \in Nat \ {0, 1} /\ CtrBytes \in Nat \ {0}
  /\ Lengths \subseteq Nat /\ Requests \subseteq Nat

VARIABLES
  maxlen,            \* the argument of seedexpander_init
  lengthRemaining,   \* length_remaining
  ctr,               \* ctr[12..15], the highest byte first
  buffer, bufferPos, \* the counter of the block in the buffer; buffer_pos
  xlen,              \* bytes the running request still wants
  x,                 \* what it has written
  taken,             \* history: counters encrypted
  answered,          \* history: bytes of requests that have returned
  answer,            \* the bytes of the last of them
  pc

vars == <<maxlen, lengthRemaining, ctr, buffer, bufferPos, xlen, x, taken,
          answered, answer, pc>>

Zeros == <<"zeros">>

Init ==
  /\ maxlen = 0 /\ lengthRemaining = 0
  /\ ctr = [j \in 1..CtrBytes |-> 0]
  /\ buffer = Zeros /\ bufferPos = Block
  /\ xlen = 0 /\ x = <<>>
  /\ taken = <<>> /\ answered = 0 /\ answer = <<>>
  /\ pc = "new"

(* maxlen >= 0x100000000. *)
TooLong(n) == n >= Limit

(* seedexpander_init. *)
SeedExpanderInit(n) ==
  /\ pc = "new"
  /\ ~TooLong(n)
  /\ maxlen' = n /\ lengthRemaining' = n
  /\ pc' = "idle"
  /\ UNCHANGED <<ctr, buffer, bufferPos, xlen, x, taken, answered, answer>>

(* x == NULL: RNG_BAD_OUTBUF. *)
BadOutbuf ==
  /\ pc = "idle"
  /\ answer' = <<>>
  /\ UNCHANGED <<maxlen, lengthRemaining, ctr, buffer, bufferPos, xlen, x, taken,
                 answered, pc>>

(* xlen >= ctx->length_remaining. *)
BadRequest(n) == n >= lengthRemaining

(* RNG_BAD_REQ_LEN. *)
Refuse(n) ==
  /\ pc = "idle" /\ BadRequest(n)
  /\ answer' = <<>>
  /\ UNCHANGED <<maxlen, lengthRemaining, ctr, buffer, bufferPos, xlen, x, taken,
                 answered, pc>>

Request(n) ==
  /\ pc = "idle" /\ ~BadRequest(n)
  /\ lengthRemaining' = lengthRemaining - n
  /\ xlen' = n /\ x' = <<>>
  /\ pc' = "loop"
  /\ UNCHANGED <<maxlen, ctr, buffer, bufferPos, taken, answered, answer>>

InBuffer == Block - bufferPos

(* n bytes of the buffer from buffer_pos on. *)
Bytes(n) == [k \in 1..n |-> <<buffer, bufferPos + k - 1>>]

Return ==
  /\ answered' = answered + Len(x')
  /\ answer' = x'
  /\ pc' = "idle"

(* Mutant: buffer_pos is not moved. *)
BufferPosKept(n) == bufferPos

(* buffer_pos += xlen. *)
BufferPosAfter(n) == bufferPos + n

(* The buffer has what the request still needs. *)
TakeLast ==
  /\ pc = "loop" /\ xlen > 0 /\ xlen <= InBuffer
  /\ x' = x \o Bytes(xlen)
  /\ bufferPos' = BufferPosAfter(xlen)
  /\ xlen' = 0
  /\ Return
  /\ UNCHANGED <<maxlen, lengthRemaining, ctr, buffer, taken>>

(* Increment the counter: a byte at 0xff becomes 0 and the next one is       *)
(* looked at, any other is incremented and ends the loop.                    *)
Increment(c) ==
  [j \in 1..CtrBytes |->
     IF \A l \in (j + 1)..CtrBytes : c[l] = Radix - 1 THEN (c[j] + 1) % Radix ELSE c[j]]

(* Take all the buffer has and fill it with the next block. *)
NextBlock ==
  /\ pc = "loop" /\ xlen > InBuffer
  /\ x' = x \o Bytes(InBuffer)
  /\ xlen' = xlen - InBuffer
  /\ buffer' = ctr /\ taken' = Append(taken, ctr)
  /\ bufferPos' = 0
  /\ ctr' = Increment(ctr)
  /\ UNCHANGED <<maxlen, lengthRemaining, answered, answer, pc>>

ReturnAtOnce ==
  /\ pc = "loop" /\ xlen = 0
  /\ UNCHANGED x
  /\ Return
  /\ UNCHANGED <<maxlen, lengthRemaining, ctr, buffer, bufferPos, xlen, taken>>

Next ==
  \/ \E n \in Lengths : SeedExpanderInit(n)
  \/ BadOutbuf
  \/ \E n \in Requests : Refuse(n) \/ Request(n)
  \/ TakeLast \/ NextBlock \/ ReturnAtOnce

Spec == Init /\ [][Next]_vars
-----------------------------------------------------------------------------
(* Type correctness. *)
TypeOK ==
  /\ maxlen \in 0..(Limit - 1) /\ lengthRemaining \in 0..maxlen
  /\ ctr \in [1..CtrBytes -> 0..(Radix - 1)]
  /\ bufferPos \in 0..Block
  /\ xlen \in Nat
  /\ pc \in {"new", "idle", "loop"}

(* No counter is encrypted twice under a seed, carries included: the bytes   *)
(* maxlen allows end before the counter wraps around (rng.c:31, 90).         *)
BlocksFresh ==
  \A j, k \in DOMAIN taken : j # k => taken[j] # taken[k]

(* length_remaining accounts for every byte given or on its way, and less    *)
(* than maxlen are ever given: the request that would reach it is refused    *)
(* (rng.c:67).                                                               *)
LengthAccounted ==
  /\ answered + (IF pc = "loop" THEN Len(x) + xlen ELSE 0) = maxlen - lengthRemaining
  /\ maxlen > 0 => lengthRemaining > 0

(* Byte k of the stream, whatever requests it is read by: the bytes of the   *)
(* blocks of counters 0, 1, 2, ... one after the other.                      *)
CtrValue(n) == [j \in 1..CtrBytes |-> (n \div Power[CtrBytes - j]) % Radix]
StreamByte(k) == <<CtrValue(k \div Block), k % Block>>

TheXof == INSTANCE Xof WITH Stream <- StreamByte, given <- answered

(* seedexpander implements Xof: its answers are consecutive pieces of one    *)
(* stream (rng.c:73-97).                                                     *)
ImplementsXof == TheXof!Spec
=============================================================================
