----------------------------- MODULE SignBuffers -----------------------------
(***************************************************************************)
(* The caller's buffers during a call of sign and a call of sign_open: the *)
(* message is moved behind the place of the signature, the hash's prefix   *)
(* is written just before it, over bytes that belong to the signature, and *)
(* the signature is put in place around them.  sphincsp lets sm and m be   *)
(* the same buffer.  Three programs: "core" (xmss_core.c), "fast"          *)
(* (xmss_core_fast.c), both verified by xmss_commons.c, and "sphincs".     *)
(*                                                                         *)
(* Memory is counted in blocks.  A block of the signature after the index  *)
(* and R is a function of its position and of what was hashed.             *)
(***************************************************************************)
EXTENDS Bits, Sequences, SequencesExt

CONSTANTS
  Programs,    \* those checked: a subset of {"core", "fast", "sphincs"}
  BodyLen,     \* blocks of a signature after the index and R
  MaxMlen      \* bound on the blocks of a message

(* A prefix of 4 n bytes (of 3 N bytes for sphincs) fits in the body. *)
BoundsAssumption ==
  /\ Programs \subseteq {"core", "fast", "sphincs"}
  /\ BodyLen \in Nat /\ BodyLen >= 4
  /\ MaxMlen \in Nat

VARIABLES
  prog,       \* the program
  mlen,       \* blocks of the message
  mIn, mOut,  \* the buffers that hold the message of sign and of sign_open
  mem,        \* the blocks of all buffers
  todo,       \* the statements left of the running call
  phase,      \* "sign", "signed", "open", "opened"
  digest,     \* what hash_message was given
  rand,       \* R, while it is in a local variable
  sigCopy,    \* the local array sig of sphincsp's crypto_sign_open
  altered,    \* history: the offset of the block of sm changed in between, or -1
  ret, outLen \* what sign_open returns: its value and *mlen

vars == <<prog, mlen, mIn, mOut, mem, todo, phase, digest, rand, sigCopy,
          altered, ret, outLen>>

HeadLen(q) == IF q = "sphincs" THEN 1 ELSE 2
SigLen(q) == HeadLen(q) + BodyLen
ROffset(q) == HeadLen(q) - 1

Buffers == {"sm", "m", "mout"}
Free == <<"free">>
M(k) == <<"M", k>>
Message == [k \in 1..mlen |-> M(k - 1)]

(* Every buffer has a block in front of it and one behind it that no call    *)
(* may touch.                                                                *)
Offsets(q) == -1..(SigLen(q) + MaxMlen)

Read(f, buf, from, n) == [k \in 1..n |-> f[<<buf, from + k - 1>>]]

Write(f, buf, from, blocks) ==
  [c \in DOMAIN f |->
     IF c[1] = buf /\ c[2] - from + 1 \in DOMAIN blocks
     THEN blocks[c[2] - from + 1] ELSE f[c]]

(* The statements of each program that touch a buffer, in order. *)
SignStatements(q) ==
  CASE q = "core"    -> <<"moveIn", "putIndex", "putR", "hash", "putBody">>
    [] q = "fast"    -> <<"moveIn", "hash", "putIndex", "putR", "putBody", "moveIn">>
    [] q = "sphincs" -> <<"moveIn", "random", "hash", "putBody">>

OpenStatements(q) ==
  IF q = "sphincs" THEN <<"moveOut", "copySig", "hash", "check">>
                   ELSE <<"moveOut", "hash", "check">>

Init ==
  /\ prog \in Programs
  /\ mlen \in 0..MaxMlen
  /\ mIn \in IF prog = "sphincs" THEN {"m", "sm"} ELSE {"m"}
  /\ mOut \in IF prog = "sphincs" THEN {"mout", "sm"} ELSE {"mout"}
  /\ mem = Write([c \in Buffers \X Offsets(prog) |-> Free], mIn, 0, Message)
  /\ todo = SignStatements(prog)
  /\ phase = "sign"
  /\ digest = <<>> /\ sigCopy = [k \in 1..SigLen(prog) |-> Free]
  /\ rand = IF prog = "sphincs" THEN Free ELSE <<"R">>
  /\ altered = -1
  /\ ret = 0 /\ outLen = 0

(* The buffer the running call hashes in. *)
Buf == IF phase = "sign" THEN "sm" ELSE mOut

At(statement) == todo # <<>> /\ Head(todo) = statement /\ todo' = Tail(todo)
-----------------------------------------------------------------------------
(* Mutant: the loop copies from front to back. *)
CopyOrderForward(k) == k

(* for (i = mlen; i > 0; i--): the block copied in iteration k. *)
CopyOrder(k) == mlen - 1 - k

(* The message goes to its place behind the signature: block by block in     *)
(* sphincsp, where source and destination may overlap.                       *)
MoveIn ==
  /\ phase = "sign" /\ At("moveIn")
  /\ mem' = IF prog = "sphincs"
            THEN Loop(LAMBDA k, f : Write(f, "sm", SigLen(prog) + CopyOrder(k),
                                          Read(f, mIn, CopyOrder(k), 1)), mlen, mem)
            ELSE Write(mem, "sm", SigLen(prog), Read(mem, mIn, 0, mlen))
  /\ UNCHANGED <<prog, mlen, mIn, mOut, phase, digest, rand, sigCopy, altered, ret, outLen>>

PutIndex ==
  /\ At("putIndex")
  /\ mem' = Write(mem, "sm", 0, <<<<"idx">>>>)
  /\ UNCHANGED <<prog, mlen, mIn, mOut, phase, digest, rand, sigCopy, altered, ret, outLen>>

PutR ==
  /\ At("putR")
  /\ mem' = Write(mem, "sm", ROffset(prog), <<rand>>)
  /\ UNCHANGED <<prog, mlen, mIn, mOut, phase, digest, rand, sigCopy, altered, ret, outLen>>

(* gen_message_random: hash the secret and optrand in front of the message.  *)
Random ==
  LET f == Write(mem, "sm", SigLen(prog) - 2, <<<<"sk_prf">>, <<"optrand">>>>)
      r == <<"R", Read(f, "sm", SigLen(prog) - 2, mlen + 2)>>
  IN  /\ At("random")
      /\ mem' = Write(f, "sm", ROffset(prog), <<r>>)
      /\ UNCHANGED <<prog, mlen, mIn, mOut, phase, digest, rand, sigCopy, altered, ret, outLen>>

(* R and the index as the running call reads them for the hash. *)
RUsed == CASE phase = "sign" /\ prog = "fast" -> rand
           [] phase = "open" /\ prog = "sphincs" -> sigCopy[1 + ROffset(prog)]
           [] OTHER -> mem[<<"sm", ROffset(prog)>>]
IdxUsed == IF phase = "sign" THEN <<"idx">> ELSE mem[<<"sm", 0>>]

(* What hash_message writes in front of the message. *)
Prefix(r, idx) ==
  IF prog = "sphincs" THEN <<r, <<"pub_seed">>, <<"root">>>>
                      ELSE <<<<"pad">>, r, <<"root">>, idx>>

(* hash_message: mine-wots is handed the place of the prefix, 4 n bytes      *)
(* before the message, sphincsp the message.                                 *)
Hash ==
  LET from == SigLen(prog) - (IF prog = "sphincs" THEN 3 ELSE 4)
      f == Write(mem, Buf, from, Prefix(RUsed, IdxUsed))
  IN  /\ At("hash")
      /\ mem' = f
      /\ digest' = Read(f, Buf, from, SigLen(prog) - from + mlen)
      /\ UNCHANGED <<prog, mlen, mIn, mOut, phase, rand, sigCopy, altered, ret, outLen>>

Body(d) == [k \in 1..BodyLen |-> <<"sig", k, d>>]

(* The one-time signatures and paths, and the end of the call. *)
PutBody ==
  /\ At("putBody")
  /\ mem' = Write(mem, "sm", HeadLen(prog), Body(digest))
  /\ UNCHANGED <<prog, mlen, mIn, mOut, phase, digest, rand, sigCopy, altered, ret, outLen>>

SignReturn ==
  /\ phase = "sign" /\ todo = <<>>
  /\ phase' = "signed"
  /\ UNCHANGED <<prog, mlen, mIn, mOut, mem, todo, digest, rand, sigCopy, altered, ret, outLen>>

(* The signed message on its way: as it is, or with one block changed. *)
SignOpen(k) ==
  /\ phase = "signed"
  /\ phase' = "open" /\ todo' = OpenStatements(prog)
  /\ altered' = k
  /\ mem' = IF k = -1 THEN mem
            ELSE Write(mem, "sm", k, <<<<"altered", mem[<<"sm", k>>]>>>>)
  /\ UNCHANGED <<prog, mlen, mIn, mOut, digest, rand, sigCopy, ret, outLen>>

(* *mlen = smlen - sig_bytes. *)
OutLength == mlen

MoveOut ==
  /\ At("moveOut")
  /\ outLen' = OutLength
  /\ mem' = Write(mem, mOut, SigLen(prog), Read(mem, "sm", SigLen(prog), mlen))
  /\ UNCHANGED <<prog, mlen, mIn, mOut, phase, digest, rand, sigCopy, altered, ret>>

CopySig ==
  /\ At("copySig")
  /\ sigCopy' = Read(mem, "sm", 0, SigLen(prog))
  /\ UNCHANGED <<prog, mlen, mIn, mOut, mem, phase, digest, rand, altered, ret, outLen>>

(* Mutant: what is zeroed on failure is not counted by *mlen. *)
FailureBlocksNone == <<>>

(* memset(m, 0, *mlen). *)
FailureBlocks == [k \in 1..mlen |-> <<"zero">>]

(* Climb to the root and compare it: it is the public one exactly if the     *)
(* body is that of a signature on what was hashed.                           *)
Check ==
  LET body == IF prog = "sphincs" THEN SubSeq(sigCopy, HeadLen(prog) + 1, SigLen(prog))
              ELSE Read(mem, "sm", HeadLen(prog), BodyLen)
      from == IF prog = "sphincs" THEN mOut ELSE "sm"
  IN  /\ At("check")
      /\ phase' = "opened"
      /\ IF body = Body(digest)
           THEN /\ mem' = Write(mem, mOut, 0, Read(mem, from, SigLen(prog), mlen))
                /\ ret' = 0 /\ UNCHANGED outLen
           ELSE /\ mem' = Write(mem, mOut, 0, FailureBlocks)
                /\ ret' = -1 /\ outLen' = 0
      /\ UNCHANGED <<prog, mlen, mIn, mOut, digest, rand, sigCopy, altered>>

Next ==
  \/ MoveIn \/ PutIndex \/ PutR \/ Random \/ Hash \/ PutBody \/ SignReturn
  \/ \E k \in -1..(SigLen(prog) + mlen - 1) : SignOpen(k)
  \/ MoveOut \/ CopySig \/ Check

Spec == Init /\ [][Next]_vars

-----------------------------------------------------------------------------
(* Type correctness: the calls move through their phases and every block of  *)
(* every buffer keeps a value.                                               *)
TypeOK ==
  /\ prog \in Programs /\ mlen \in 0..MaxMlen
  /\ phase \in {"sign", "signed", "open", "opened"}
  /\ DOMAIN mem = Buffers \X Offsets(prog)
  /\ ret \in {0, -1} /\ outLen \in {0, mlen}

(* What the signature and the message in sm must be, computed from the       *)
(* caller's message alone.                                                   *)
ExpectedR == IF prog = "sphincs"
             THEN <<"R", <<<<"sk_prf">>, <<"optrand">>>> \o Message>> ELSE <<"R">>
ExpectedSm ==
  (IF prog = "sphincs" THEN <<>> ELSE <<<<"idx">>>>)
    \o <<ExpectedR>> \o Body(Prefix(ExpectedR, <<"idx">>) \o Message) \o Message

(* When sign returns, sm holds the signature of the message and the message: *)
(* nothing of the hash's prefix is left, no part was overwritten before it   *)
(* was read, and the same holds when the message came in sm itself.          *)
SignedMessageComplete ==
  phase = "signed" => Read(mem, "sm", 0, SigLen(prog) + mlen) = ExpectedSm

(* A signed message that arrives as it was signed is accepted, and m begins  *)
(* with the message, also when m is sm (sign.c:184).                         *)
OpensAsSigned ==
  phase = "opened" /\ altered = -1 =>
    ret = 0 /\ outLen = mlen /\ Read(mem, mOut, 0, mlen) = Message

(* A change of any block is noticed, and then m begins with zeros and *mlen  *)
(* is 0.                                                                     *)
AlteredGivesNothing ==
  phase = "opened" /\ altered # -1 =>
    ret = -1 /\ outLen = 0 /\ \A k \in 0..(mlen - 1) : mem[<<mOut, k>>] = <<"zero">>

(* Arguments declared const stay as they were unless the caller shares the   *)
(* buffer, and no call writes in front of a buffer or behind its end.        *)
ArgumentsKept ==
  /\ mIn = "m" => Read(mem, "m", 0, mlen) = Message
  /\ phase = "opened" /\ mOut # "sm" /\ altered = -1 =>
       Read(mem, "sm", 0, SigLen(prog) + mlen) = ExpectedSm
  /\ \A b \in Buffers, k \in Offsets(prog) \ 0..(SigLen(prog) + mlen - 1) :
       mem[<<b, k>>] = Free
=============================================================================
