--------------------------------- MODULE Api ---------------------------------
(***************************************************************************)
(* xmss.c: what a caller sees.  A name is turned into an OID, key          *)
(* generation writes the OID in front of both keys, and every later call   *)
(* finds its parameter set from there.  The core functions are only        *)
(* recorded with the parameters they are called with; XmssCore and         *)
(* XmssMtFast say what they do.  One behaviour has one key pair: the calls *)
(* that prepare one stop when it is made.                                  *)
(***************************************************************************)
EXTENDS XmssParams

CONSTANTS
  Oids,       \* OIDs a caller may pass to key generation
  BdsKs       \* values of bds_k the sizes of the key are checked for

Families == {"xmss", "xmssmt"}
NoKey == <<>>

VARIABLES
  name,       \* the name last asked for, <<>> if oid does not come from a name
  oid,        \* the caller's variable
  pk, sk,     \* the OID bytes the keys begin with
  made,       \* history: family and parameters of the key pair
  call        \* the last call: function, family, return value, the core's parameters

vars == <<name, oid, pk, sk, made, call>>

Call(fn, family, r) == [fn |-> fn, family |-> family, ret |-> r.ret, params |-> r.params]
NoCall == Call("none", "xmss", [ret |-> 0, params |-> UnsetParams])

Init ==
  /\ name = <<>>
  /\ oid = 0
  /\ pk = NoKey
  /\ sk = NoKey
  /\ made = NoCall
  /\ call = NoCall

(* xmss_str_to_oid, xmssmt_str_to_oid: a name that is not known leaves *oid. *)
StrToOid(family, s) ==
  LET found == OidOf(family, s)
      ret == IF found = 0 THEN -1 ELSE 0
  IN  /\ sk = NoKey
      /\ oid' = IF ret = 0 THEN found ELSE oid
      /\ name' = IF ret = 0 THEN <<family, s>> ELSE name
      /\ call' = Call("str_to_oid", family, [ret |-> ret, params |-> UnsetParams])
      /\ UNCHANGED <<pk, sk, made>>

(* A caller that sets the OID itself, as test/wots.c:13 does. *)
SetOid(o) ==
  /\ sk = NoKey
  /\ oid' = o
  /\ name' = <<>>
  /\ call' = NoCall
  /\ UNCHANGED <<pk, sk, made>>

(* pk[4 - i - 1] = (oid >> (8 * i)) & 0xFF, i = 0..3. *)
OidBytes(o) == [i \in 1..4 |-> Shr(o, 8 * (4 - i)) % 256]

(* oid |= sk[4 - i - 1] << (i * 8), i = 0..3. *)
OidIn(key) == Total([i \in 1..4 |-> key[i] * Pow2[8 * (4 - i)]])

Keypair(family) ==
  LET r == ParseOid(family, UnsetParams, oid)
  IN  /\ sk = NoKey
      /\ call' = Call("keypair", family, r)
      /\ IF r.ret = 0
           THEN /\ pk' = OidBytes(oid)
                /\ sk' = OidBytes(oid)
                /\ made' = call'
           ELSE UNCHANGED <<pk, sk, made>>
      /\ UNCHANGED <<name, oid>>

Sign(family) ==
  /\ sk # NoKey
  /\ call' = Call("sign", family, ParseOid(family, UnsetParams, OidIn(sk)))
  /\ UNCHANGED <<name, oid, pk, sk, made>>

SignOpen(family) ==
  /\ pk # NoKey
  /\ call' = Call("sign_open", family, ParseOid(family, UnsetParams, OidIn(pk)))
  /\ UNCHANGED <<name, oid, pk, sk, made>>

Next ==
  \/ \E f, g \in Families : \E i \in DOMAIN Names(g) : StrToOid(f, Names(g)[i])
  \/ \E o \in Oids : SetOid(o)
  \/ \E f \in Families : Keypair(f) \/ Sign(f) \/ SignOpen(f)

Spec == Init /\ [][Next]_vars

-----------------------------------------------------------------------------
(* Type correctness: a parameter set a core function is called with has      *)
(* every field, and a key pair has the same OID in both keys.                *)
TypeOK ==
  /\ oid \in Oids \cup (0..32)
  /\ pk = sk
  /\ call.fn \in {"none", "str_to_oid", "keypair", "sign", "sign_open"}
  /\ call.fn \in {"keypair", "sign", "sign_open"} /\ call.ret = 0 =>
       call.params \in [func : {"SHA2", "SHAKE"}, n : {32, 64},
                        full_height : {10, 16, 20, 40, 60}, d : {1, 2, 3, 4, 6, 8, 12}]

(* What a name says is what its key pair is made with: the strings, the OIDs *)
(* and the four switches are tables kept by hand in params.c.                *)
NameHonoured ==
  call.fn = "keypair" /\ name # <<>> /\ name[1] = call.family =>
    LET s == name[2]
    IN  /\ call.ret = 0
        /\ call.params = [func |-> s.func, n |-> s.bits \div 8,
                          full_height |-> s.height, d |-> s.d]

(* A parse that fails has assigned nothing: all switches of a parse function *)
(* know the same OIDs.                                                       *)
FailsWhole == call.ret = -1 => call.params = UnsetParams

(* With the functions of the family it was made by, a key is used under the  *)
(* parameter set it was made with.                                           *)
OidIdentifies ==
  call.fn \in {"sign", "sign_open"} /\ call.family = made.family =>
    call.ret = 0 /\ call.params = made.params

(* The sizes derived for a parameter set fit it: the layers add up to the    *)
(* whole height, wots_len2 is floor(log_w(len1 * (w - 1))) + 1 as the        *)
(* comments of initialize_params say, the index fits index_bytes, and        *)
(* sig_bytes is what signing writes.                                         *)
SizesFit ==
  call.fn = "keypair" /\ call.ret = 0 =>
    LET p == call.params
        fits(w) ==
          LET q == Derived(p, w)
              top == q.wots_len1 * (w - 1)
              e == WotsLogW(w)
          IN  /\ q.tree_height * p.d = p.full_height
              /\ Pow2[e * (q.wots_len2 - 1)] <= top /\ top < Pow2[e * q.wots_len2]
              /\ q.wots_len1 * e = 8 * p.n
              /\ p.full_height <= 8 * q.index_bytes
              /\ q.sig_bytes = Total(SigLayout(p, q))
    IN  \A w \in {4, 16, 256} : fits(w)

(* Serialising the traversal state visits the bytes that deserialising       *)
(* reads, field by field, and both end where the secret key ends.            *)
StateLayoutAgrees ==
  call.fn = "keypair" /\ call.ret = 0 =>
    LET p == call.params
        q == Derived(p, WotsW)
    IN  \A k \in BdsKs :
          LET wr == SerializedTree(p, q, k)
              rd == DeserializedTree(p, q, k)
          IN  /\ DOMAIN wr = DOMAIN rd
              /\ \A i \in DOMAIN wr :
                   wr[i][2] = rd[i][2] /\ (wr[i][1] # "skip" => wr[i][1] = rd[i][1])
              /\ LayoutEnd(p, q, rd) = FastSkBytes(p, q, k)
=============================================================================
