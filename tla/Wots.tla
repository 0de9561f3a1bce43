-------------------------------- MODULE Wots --------------------------------
(***************************************************************************)
(* WOTS+ as mine-wots/wots.c and sphincsp/wots.c compute it: digits of the *)
(* message and of its checksum, and chains walked from them, one action    *)
(* per chain.  A chain value is symbolic: where its secret came from and   *)
(* the addresses of the hash calls on it, so two values are equal exactly  *)
(* when the same calls were made.  addr is the caller's address, whose     *)
(* chain and hash fields every function leaves as its last call set them.  *)
(***************************************************************************)
EXTENDS Bits, SequencesExt

CONSTANTS
  ParamSets,    \* [w, logw, len1, len2, secrets, bytes]: see below
  Addresses,    \* the caller's address when a key pair is generated
  OtherBytes    \* signatures are also tried on messages of one of these repeated

(* secrets says where the chains' secrets come from: "ctr" for expand_seed   *)
(* of mine-wots, "addr" for wots_gen_sk of sphincsp.  bytes are the values a *)
(* byte of a message may take.  The largest checksum fits its len2 digits,   *)
(* and these do not fill their bytes: for w = 256, which params.c knows and  *)
(* no parameter set has, CsumShifted would lose the highest digit.           *)
ParamSetsAssumption ==
  \A p \in ParamSets :
    /\ p.w = Pow2[p.logw] /\ p.logw \in {2, 4}
    /\ p.len1 \in Nat \ {0} /\ (p.len1 * p.logw) % 8 = 0
    /\ p.len2 \in Nat \ {0}
    /\ (p.len2 * p.logw) % 8 # 0 /\ p.len1 * (p.w - 1) < Pow2[p.len2 * p.logw]
    /\ p.secrets \in {"ctr", "addr"}
    /\ p.bytes \subseteq 0..255
ValuesAssumption ==
  OtherBytes \subseteq 0..255 /\ Addresses \subseteq [chain : Nat, hash : Nat]

VARIABLES
  p,         \* the parameters
  pc,        \* the function running, or the last one that has returned
  i,         \* its loop counter, the chain
  addr,      \* the caller's address: chain and hash field
  msg,       \* the message signed
  opened,    \* the message verification is given
  lengths,   \* the chain lengths of the running call
  pk, sig, pk2   \* the key, the signature, and the key recomputed from it

vars == <<p, pc, i, addr, msg, opened, lengths, pk, sig, pk2>>

WotsLen(q) == q.len1 + q.len2
MessageBytes(q) == 0..(((q.len1 * q.logw) \div 8) - 1)
Tried(q) == {[k \in MessageBytes(q) |-> b] : b \in OtherBytes}
Messages(q) == [MessageBytes(q) -> q.bytes]
-----------------------------------------------------------------------------
(* base_w: outLen digits of logw bits, most significant bits of a byte first. *)
BaseW(q, in, outLen) ==
  LET perByte == 8 \div q.logw
  IN  [k \in 0..(outLen - 1) |->
         Shr(in[k \div perByte], q.logw * (perByte - 1 - (k % perByte))) % q.w]

(* ull_to_bytes: the low outLen bytes of n, most significant first. *)
ToBytes(n, outLen) == [k \in 0..(outLen - 1) |-> Shr(n, 8 * (outLen - 1 - k)) % 256]

(* Mutant: the digits themselves are summed, not what is left of the chains. *)
CsumOfDigits(q, digits) == SumTo(digits, q.len1)

Csum(q, digits) == SumTo([k \in 0..(q.len1 - 1) |-> q.w - 1 - digits[k]], q.len1)

(* The checksum moved up, so that the unused bits of its bytes are the low   *)
(* ones.                                                                     *)
CsumShifted(q, csum) == csum * Pow2[8 - ((q.len2 * q.logw) % 8)]

CsumBytes(q, csum) == ToBytes(CsumShifted(q, csum), (q.len2 * q.logw + 7) \div 8)

(* chain_lengths: the digits of the message and those of its checksum.       *)
ChainLengths(q, m) ==
  LET digits == BaseW(q, m, q.len1)
      cs == BaseW(q, CsumBytes(q, Csum(q, digits)), q.len2)
  IN  [k \in 0..(WotsLen(q) - 1) |-> IF k < q.len1 THEN digits[k] ELSE cs[k - q.len1]]
-----------------------------------------------------------------------------
(* Mutant: the secret is made from the address as the last chain left it.   *)
SecretStale(q, a) == IF q.secrets = "ctr" THEN <<"ctr", a.chain>> ELSE <<"addr", a>>

(* The secret of the chain in a: expand_seed counts, wots_gen_sk hashes the  *)
(* address with the hash field set to 0.                                     *)
Secret(q, a) ==
  IF q.secrets = "ctr" THEN <<"ctr", a.chain>> ELSE <<"addr", [a EXCEPT !.hash = 0]>>

(* The chain value before any hash call, and the hash field after it.        *)
Start(q, a) == [val |-> <<Secret(q, a)>>,
                addr |-> IF q.secrets = "ctr" THEN a ELSE [a EXCEPT !.hash = 0]]

(* The addresses of gen_chain's hash calls: at most steps of them, and none  *)
(* for w or beyond.                                                          *)
HashCalls(q, a, start, steps) ==
  LET end == IF start + steps < q.w THEN start + steps ELSE q.w
  IN  [k \in 1..(end - start) |-> [a EXCEPT !.hash = start + k - 1]]

(* gen_chain: the value it leads to, and the address it leaves behind.       *)
GenChain(q, s, start, steps) ==
  LET calls == HashCalls(q, s.addr, start, steps)
  IN  [val |-> s.val \o calls,
       addr |-> IF calls = <<>> THEN s.addr ELSE Last(calls)]

OnChain(a, k) == [a EXCEPT !.chain = k]
-----------------------------------------------------------------------------
Init ==
  /\ p \in ParamSets
  /\ pc = "pkgen"
  /\ i = 0
  /\ addr \in Addresses
  /\ msg = <<>> /\ opened = <<>> /\ lengths = <<>>
  /\ pk = <<>> /\ sig = <<>> /\ pk2 = <<>>

(* One iteration of wots_pkgen, wots_gen_pk. *)
PkGenChain ==
  LET g == GenChain(p, Start(p, OnChain(addr, i)), 0, p.w - 1)
  IN  /\ pc = "pkgen" /\ i < WotsLen(p)
      /\ pk' = Append(pk, g.val)
      /\ addr' = g.addr
      /\ i' = i + 1
      /\ UNCHANGED <<p, pc, msg, opened, lengths, sig, pk2>>

SignBegin(m) ==
  /\ pc = "pkgen" /\ i = WotsLen(p)
  /\ pc' = "sign" /\ i' = 0
  /\ msg' = m
  /\ lengths' = ChainLengths(p, m)
  /\ UNCHANGED <<p, addr, opened, pk, sig, pk2>>

(* One iteration of wots_sign. *)
SignChain ==
  LET g == GenChain(p, Start(p, OnChain(addr, i)), 0, lengths[i])
  IN  /\ pc = "sign" /\ i < WotsLen(p)
      /\ sig' = Append(sig, g.val)
      /\ addr' = g.addr
      /\ i' = i + 1
      /\ UNCHANGED <<p, pc, msg, opened, lengths, pk, pk2>>

OpenBegin(m) ==
  /\ pc = "sign" /\ i = WotsLen(p)
  /\ pc' = "open" /\ i' = 0
  /\ opened' = m
  /\ lengths' = ChainLengths(p, m)
  /\ UNCHANGED <<p, addr, msg, pk, sig, pk2>>

(* One iteration of wots_pk_from_sig. *)
OpenChain ==
  LET s == [val |-> sig[i + 1], addr |-> OnChain(addr, i)]
      g == GenChain(p, s, lengths[i], p.w - 1 - lengths[i])
  IN  /\ pc = "open" /\ i < WotsLen(p)
      /\ pk2' = Append(pk2, g.val)
      /\ addr' = g.addr
      /\ i' = i + 1
      /\ UNCHANGED <<p, pc, msg, opened, lengths, pk, sig>>

Next ==
  \/ PkGenChain
  \/ \E m \in Messages(p) : SignBegin(m)
  \/ SignChain
  \/ \E m \in {msg} \cup Tried(p) : OpenBegin(m)
  \/ OpenChain

Spec == Init /\ [][Next]_vars

-----------------------------------------------------------------------------
Signed == pc = "open" /\ i = 0

(* Type correctness: every length is a number of steps of a chain of w       *)
(* values, and a value has no more hash calls than its chain has steps.      *)
TypeOK ==
  /\ p \in ParamSets
  /\ pc \in {"pkgen", "sign", "open"}
  /\ i \in 0..WotsLen(p)
  /\ \A k \in DOMAIN lengths : lengths[k] \in 0..(p.w - 1)
  /\ \A s \in {pk, sig} : \A k \in DOMAIN s : Len(s[k]) <= p.w

(* A signature leads to the public key exactly for the message it was made   *)
(* on, whatever the address held when key generation began (test/wots.c:37   *)
(* tries one message).                                                       *)
PkRecovered ==
  pc = "open" /\ i = WotsLen(p) => (pk2 = pk <=> opened = msg)

(* Nothing signed gives away a signature on something else: of any other     *)
(* message at least one chain lies before the published value.  This is what *)
(* the checksum is for.                                                      *)
NoDominance ==
  Signed => \A m \in Messages(p) \ {msg} :
              LET other == ChainLengths(p, m)
              IN  \E k \in DOMAIN other : other[k] < ChainLengths(p, msg)[k]

(* The last len2 digits, read in base w, are the checksum: the zero bits     *)
(* expected (wots.c:90) end up where no digit is taken from.                 *)
ChecksumKept ==
  pc = "sign" =>
    SumTo([k \in 0..(p.len2 - 1) |-> lengths[p.len1 + k] * Pow2[p.logw * (p.len2 - 1 - k)]],
          p.len2)
      = SumTo([k \in 0..(p.len1 - 1) |-> p.w - 1 - lengths[k]], p.len1)
=============================================================================
