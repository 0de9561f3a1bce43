----------------------------- MODULE MCSigning -----------------------------
(***************************************************************************)
(* What the signers rest on and the other modules abstract from: the WOTS+ *)
(* chains, the buffer a signed message is put together in, and the         *)
(* addresses of the hash calls.  They are three views of the same calls    *)
(* and have no state in common, so a behaviour is one of them.             *)
(***************************************************************************)
EXTENDS Integers

CONSTANTS
  ParamSets, Addresses, OtherBytes,                               \* Wots
  Programs, BodyLen, MaxMlen,                                     \* SignBuffers
  TreeHeight, D, NumChains, W, WordBits, Indices, Digits, MaxSigns  \* HashAddress

VARIABLES
  part,
  p, pc, i, addr, msg, opened, lengths, pk, sig, pk2,
  prog, mlen, mIn, mOut, mem, todo, phase, digest, rand, sigCopy, altered, ret, outLen,
  ots, ltree, node, signer, call, idx, layer, leaf, heights, signed, signs, prfs, seeds

chainsVars == <<p, pc, i, addr, msg, opened, lengths, pk, sig, pk2>>
bufferVars == <<prog, mlen, mIn, mOut, mem, todo, phase, digest, rand, sigCopy,
                altered, ret, outLen>>
hashesVars == <<ots, ltree, node, signer, call, idx, layer, leaf, heights, signed,
                signs, prfs, seeds>>

Chains == INSTANCE Wots
Buffer == INSTANCE SignBuffers
Hashes == INSTANCE HashAddress WITH WotsLen <- NumChains

ASSUME ChainsAssumption == Chains!ParamSetsAssumption /\ Chains!ValuesAssumption
ASSUME BufferAssumption == Buffer!BoundsAssumption
ASSUME HashesAssumption == Hashes!SizesAssumption

(* Wots: messages of one byte with w = 4 and w = 16, every one of them, with *)
(* the checksum lengths of initialize_params; and of three bytes with few    *)
(* values, so that the checksum needs all its digits.                        *)
Set(w, logw, n, len2, secrets, bytes) ==
  [w |-> w, logw |-> logw, len1 |-> (8 * n) \div logw, len2 |-> len2,
   secrets |-> secrets, bytes |-> bytes]
MCParamSets ==
  {Set(16, 4, 1, 3, "ctr", 0..255), Set(16, 4, 1, 3, "addr", 0..255),
   Set(4, 2, 1, 5, "ctr", 0..255),
   Set(16, 4, 3, 3, "addr", {0, 1, 16, 239, 255}),
   Set(4, 2, 3, 5, "ctr", {0, 1, 63, 252, 255})}
MCAddresses == {[chain |-> 0, hash |-> h] : h \in {0, 7}}
MCOtherBytes == {0, 90, 255}

(* SignBuffers: signatures of 6 blocks (5 for sphincs) and messages of 0 to  *)
(* 7, so that a message may be longer than the signature it is moved past.   *)
MCPrograms == {"core", "fast", "sphincs"}

(* HashAddress: three layers of height 2, so that the trees of the lowest    *)
(* one need both words of a tree index when a word has 2 bits; three chains, *)
(* so that the L-tree lifts a node.  The indices lie in the same tree, in    *)
(* trees that agree in the low word, and at the end.                         *)
MCIndices == {0, 1, 16, 39, 63}
MCDigits == {[c \in 0..2 |-> t[c + 1]] : t \in {<<0, 3, 1>>, <<2, 0, 3>>}}
-----------------------------------------------------------------------------
(* The parts that are not the one checked keep one initial state. *)
InitParts ==
  /\ part \in {"chains", "buffer", "hashes"}
  /\ Chains!Init /\ Buffer!Init /\ Hashes!Init
  /\ part # "chains" =>
       p = (CHOOSE q \in ParamSets : TRUE) /\ addr = (CHOOSE a \in Addresses : TRUE)
  /\ part # "buffer" => prog = "core" /\ mlen = 0

Only(name, A) == part = name /\ A /\ UNCHANGED part
ChainsStep(A) == Only("chains", A) /\ UNCHANGED <<bufferVars, hashesVars>>
BufferStep(A) == Only("buffer", A) /\ UNCHANGED <<chainsVars, hashesVars>>
HashesStep(A) == Only("hashes", A) /\ UNCHANGED <<chainsVars, bufferVars>>

NextParts ==
  \/ ChainsStep(Chains!PkGenChain)
  \/ \E m \in Chains!Messages(p) : ChainsStep(Chains!SignBegin(m))
  \/ ChainsStep(Chains!SignChain)
  \/ \E m \in {msg} \cup Chains!Tried(p) : ChainsStep(Chains!OpenBegin(m))
  \/ ChainsStep(Chains!OpenChain)
  \/ BufferStep(Buffer!MoveIn)
  \/ BufferStep(Buffer!PutIndex)
  \/ BufferStep(Buffer!PutR)
  \/ BufferStep(Buffer!Random)
  \/ BufferStep(Buffer!Hash)
  \/ BufferStep(Buffer!PutBody)
  \/ BufferStep(Buffer!SignReturn)
  \/ \E k \in -1..(Buffer!SigLen(prog) + mlen - 1) : BufferStep(Buffer!SignOpen(k))
  \/ BufferStep(Buffer!MoveOut)
  \/ BufferStep(Buffer!CopySig)
  \/ BufferStep(Buffer!Check)
  \/ HashesStep(Hashes!Keypair)
  \/ HashesStep(Hashes!TreehashLeaf)
  \/ HashesStep(Hashes!TreehashMerge)
  \/ \E k \in Indices : HashesStep(Hashes!SignBegin(k))
  \/ \E d \in Digits : HashesStep(Hashes!SignLayer(d))
  \/ HashesStep(Hashes!OpenBegin)
  \/ \E d \in Digits : HashesStep(Hashes!OpenLayer(d))
  \/ HashesStep(Hashes!Return)

SpecParts == InitParts /\ [][NextParts]_<<part, chainsVars, bufferVars, hashesVars>>
-----------------------------------------------------------------------------
(* A one-time signature leads to the public key for its own message and no   *)
(* other, and carries the whole checksum (wots.c:50-171).                    *)
PkRecovered == Chains!TypeOK /\ Chains!PkRecovered /\ Chains!ChecksumKept

(* No one-time signature gives away one on another message: some digit of    *)
(* the other one is lower (wots.c:76-102).                                   *)
NoDominance == Chains!NoDominance

(* What sign leaves in sm is the signature and the message, computed from    *)
(* the caller's bytes wherever they were put, and what sign_open gives back  *)
(* is that message; both change nothing else (xmss_core.c:161-235,           *)
(* xmss_core_fast.c:577-700, xmss_commons.c:173-236,                         *)
(* sphincsp/sign.c:70-240).                                                  *)
OpensAsSigned ==
  /\ Buffer!TypeOK /\ Buffer!SignedMessageComplete
  /\ Buffer!OpensAsSigned /\ Buffer!ArgumentsKept

(* A signed message altered in any block is refused, with zeros for the      *)
(* message and a length of 0 (xmss_commons.c:224-231,                        *)
(* sphincsp/sign.c:228-234).                                                 *)
AlteredGivesNothing == Buffer!AlteredGivesNothing

(* Key generation, signing and verification hash the same thing at the same  *)
(* address and no two things at one (hash_address.c:3-65, hash.c:83-144,     *)
(* xmss_core.c:14-86, 212-232, xmss_commons.c:16-136, 195-222).              *)
AddressesAgree ==
  /\ Hashes!TypeOK /\ Hashes!AddressUnique
  /\ Hashes!CallsAgree /\ Hashes!SeedsAgree
=============================================================================
