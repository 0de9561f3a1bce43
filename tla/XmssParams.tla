----------------------------- MODULE XmssParams -----------------------------
(***************************************************************************)
(* params.c: the names of the parameter sets, their OIDs, the switches     *)
(* that fill a params struct, and the sizes derived from it; with the      *)
(* layout of the secret key that xmss_core_fast.c walks.  A name is what   *)
(* its text says.                                                          *)
(***************************************************************************)
EXTENDS Bits, Sequences, SequencesExt

Name(func, height, d, bits) ==
  [func |-> func, height |-> height, d |-> d, bits |-> bits]

(* xmss_str_to_oid: the name tested k-th, which gets the OID k. *)
XmssNames ==
  <<Name("SHA2", 10, 1, 256), Name("SHA2", 16, 1, 256), Name("SHA2", 20, 1, 256),
    Name("SHA2", 10, 1, 512), Name("SHA2", 16, 1, 512), Name("SHA2", 20, 1, 512),
    Name("SHAKE", 10, 1, 256), Name("SHAKE", 16, 1, 256), Name("SHAKE", 20, 1, 256),
    Name("SHAKE", 10, 1, 512), Name("SHAKE", 16, 1, 512), Name("SHAKE", 20, 1, 512)>>

(* The eight heights and layers of xmssmt_str_to_oid, listed once per hash   *)
(* function and width: <<func, bits>> of each run of eight.                  *)
XmssMtShapes ==
  <<<<20, 2>>, <<20, 4>>, <<40, 2>>, <<40, 4>>, <<40, 8>>, <<60, 3>>, <<60, 6>>, <<60, 12>>>>
XmssMtRuns == <<<<"SHA2", 256>>, <<"SHA2", 512>>, <<"SHAKE", 256>>, <<"SHAKE", 512>>>>

XmssMtNames ==
  [k \in 1..32 |->
     LET shape == XmssMtShapes[((k - 1) % 8) + 1]
         run   == XmssMtRuns[((k - 1) \div 8) + 1]
     IN  Name(run[1], shape[1], shape[2], run[2])]

Names(family) == IF family = "xmss" THEN XmssNames ELSE XmssMtNames

(* The OID of a name, 0 for a name that is not found. *)
OidOf(family, name) ==
  IF name \in ToSet(Names(family)) THEN SelectInSeq(Names(family), LAMBDA s : s = name) ELSE 0
-----------------------------------------------------------------------------
(* A switch: the cases that lead to each value it assigns. *)
FuncXmss == {<<1..6, "SHA2">>, <<7..12, "SHAKE">>}
NXmss == {<<{1, 2, 3, 7, 8, 9}, 32>>, <<{4, 5, 6, 10, 11, 12}, 64>>}
HeightXmss == {<<{1, 4, 7, 10}, 10>>, <<{2, 5, 8, 11}, 16>>, <<{3, 6, 9, 12}, 20>>}
LayersXmss == {<<Nat, 1>>}

FuncXmssMt == {<<1..16, "SHA2">>, <<17..32, "SHAKE">>}
NXmssMt == {<<(1..8) \cup (17..24), 32>>, <<(9..16) \cup (25..32), 64>>}
HeightXmssMt == {<<{1, 2, 9, 10, 17, 18, 25, 26}, 20>>,
                 <<{3, 4, 5, 11, 12, 13, 19, 20, 21, 27, 28, 29}, 40>>,
                 <<{6, 7, 8, 14, 15, 16, 22, 23, 24, 30, 31, 32}, 60>>}

(* Mutant: two case labels of the d switch are exchanged. *)
LayersXmssMtSwapped == {<<{1, 3, 9, 11, 17, 19, 25, 27}, 2>>,
                        <<{2, 4, 10, 12, 18, 20, 26, 28}, 4>>,
                        <<{5, 13, 21, 30}, 8>>, <<{6, 14, 22, 29}, 3>>,
                        <<{7, 15, 23, 31}, 6>>, <<{8, 16, 24, 32}, 12>>}

LayersXmssMt == {<<{1, 3, 9, 11, 17, 19, 25, 27}, 2>>,
                 <<{2, 4, 10, 12, 18, 20, 26, 28}, 4>>,
                 <<{5, 13, 21, 29}, 8>>, <<{6, 14, 22, 30}, 3>>,
                 <<{7, 15, 23, 31}, 6>>, <<{8, 16, 24, 32}, 12>>}

(* The switches in the order in which parse_oid runs them. *)
Switches(family) ==
  IF family = "xmss"
  THEN <<<<"func", FuncXmss>>, <<"n", NXmss>>, <<"full_height", HeightXmss>>, <<"d", LayersXmss>>>>
  ELSE <<<<"func", FuncXmssMt>>, <<"n", NXmssMt>>, <<"full_height", HeightXmssMt>>,
         <<"d", LayersXmssMt>>>>

(* The struct on the stack before the call: fields that have not been set.   *)
UnsetParams == [func |-> "none", n |-> 0, full_height |-> 0, d |-> 0]

Knows(switch, oid) == \E c \in switch[2] : oid \in c[1]
Assigned(switch, oid) == (CHOOSE c \in switch[2] : oid \in c[1])[2]

(* xmss_parse_oid and xmssmt_parse_oid: the first switch without a case for  *)
(* the OID returns -1, and what the ones before it have assigned stays.      *)
ParseOid(family, params, oid) ==
  LET s == Switches(family)
      reached == {i \in DOMAIN s : \A j \in 1..i : Knows(s[j], oid)}
  IN  [ret |-> IF reached = DOMAIN s THEN 0 ELSE -1,
       params |-> [f \in DOMAIN params |->
                     IF \E i \in reached : s[i][1] = f
                     THEN Assigned(s[CHOOSE i \in reached : s[i][1] = f], oid)
                     ELSE params[f]]]
-----------------------------------------------------------------------------
(* wots_w as the parse functions set it. *)
WotsW == 16

(* wots_log_w and wots_len2 by wots_w; any other wots_w is refused. *)
WotsLogW(w) == CASE w = 4 -> 2 [] w = 16 -> 4 [] w = 256 -> 8
WotsLen2(w) == CASE w = 4 -> 5 [] w = 16 -> 3 [] w = 256 -> 2

IndexBytes(p) == IF p.d = 1 THEN 4 ELSE (p.full_height + 7) \div 8

(* xmss_xmssmt_initialize_params; the size of the secret key is a field of   *)
(* its own, as it depends on the core that is linked.                        *)
Derived(p, w) ==
  LET len1 == (8 * p.n) \div WotsLogW(w)
      len  == len1 + WotsLen2(w)
      sig  == len * p.n
  IN  [tree_height |-> p.full_height \div p.d,
       wots_len1 |-> len1, wots_len2 |-> WotsLen2(w),
       wots_len |-> len, wots_sig_bytes |-> sig,
       index_bytes |-> IndexBytes(p),
       sig_bytes |-> IndexBytes(p) + p.n + p.d * sig + p.full_height * p.n,
       pk_bytes |-> 2 * p.n]
-----------------------------------------------------------------------------
(* The body of a loop, run n times. *)
Repeat(s, n) == [i \in 1..(n * Len(s)) |-> s[((i - 1) % Len(s)) + 1]]

Total(sizes) == FoldLeft(LAMBDA a, b : a + b, 0, sizes)

(* What xmssmt_core_sign advances sm by: index, R, and for each layer the    *)
(* one-time signature and the path.                                          *)
SigLayout(p, q) ==
  <<q.index_bytes, p.n>> \o Repeat(<<q.wots_sig_bytes, q.tree_height * p.n>>, p.d)

(* xmss_xmssmt_core_sk_bytes of xmss_core_fast.c. *)
FastSkBytes(p, q, k) ==
  q.index_bytes + 4 * p.n
    + (2 * p.d - 1)
        * ((q.tree_height + 1) * p.n + 4 + q.tree_height + 1
             + q.tree_height * p.n + (q.tree_height \div 2) * p.n
             + (q.tree_height - k) * (7 + p.n)
             + (Pow2[k] - k - 1) * p.n + 4)
    + (p.d - 1) * q.wots_sig_bytes

(* Mutant: the keep nodes are taken to be as many as the auth nodes. *)
KeepLong(p, q) == q.tree_height * p.n

KeepBytes(p, q) == (q.tree_height \div 2) * p.n

(* The state of one tree as xmssmt_serialize_state steps over it: fields it  *)
(* writes are named, arrays that already lie in the key are "skip".          *)
SerializedTree(p, q, k) ==
  <<<<"skip", (q.tree_height + 1) * p.n>>, <<"stackoffset", 4>>,
    <<"skip", q.tree_height + 1>>, <<"skip", q.tree_height * p.n>>,
    <<"skip", (q.tree_height \div 2) * p.n>>>>
  \o Repeat(<<<<"h", 1>>, <<"next_idx", 4>>, <<"stackusage", 1>>, <<"completed", 1>>,
              <<"skip", p.n>>>>, q.tree_height - k)
  \o <<<<"skip", (Pow2[k] - k - 1) * p.n>>, <<"next_leaf", 4>>>>

(* The same as xmssmt_deserialize_state reads it, where the arrays get their *)
(* pointers.                                                                 *)
DeserializedTree(p, q, k) ==
  <<<<"stack", (q.tree_height + 1) * p.n>>, <<"stackoffset", 4>>,
    <<"stacklevels", q.tree_height + 1>>, <<"auth", q.tree_height * p.n>>,
    <<"keep", KeepBytes(p, q)>>>>
  \o Repeat(<<<<"h", 1>>, <<"next_idx", 4>>, <<"stackusage", 1>>, <<"completed", 1>>,
              <<"node", p.n>>>>, q.tree_height - k)
  \o <<<<"retain", (Pow2[k] - k - 1) * p.n>>, <<"next_leaf", 4>>>>

(* Where the walk over the key ends: index and seeds, 2d - 1 trees, and the *)
(* prepared signatures, to which wots_sigs points.                           *)
LayoutEnd(p, q, tree) ==
  q.index_bytes + 4 * p.n
    + (2 * p.d - 1) * Total([i \in DOMAIN tree |-> tree[i][2]])
    + (p.d - 1) * q.wots_sig_bytes
=============================================================================
