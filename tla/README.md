# Verification of the hash-based signatures in this repository

TLA+ models, TLC runs and TLAPS proofs kept beside `src/HBS`. The subject is
what makes stateful hash-based signatures hard: a secret key that changes with
every signature, one-time keys that must never sign twice, and a tree traversal
that prepares thousands of signatures in advance what a later one will publish.

## Inventory

| Part (source) | State | Operations | Interacts with | Correct when |
|---|---|---|---|---|
| Stateless-traversal signer (`mine-wots/xmss_core.c`) | the index in the secret key | `xmssmt_core_keypair`, `xmssmt_core_sign`, `treehash` | recomputes every subtree through `gen_leaf_wots`; output is read by `sign_open` | no one-time key signs two values, also when a call is cut short; every signature within capacity verifies; none beyond it does |
| BDS signer, one tree (`mine-wots/xmss_core_fast.c`: `xmss_core_*`) | index and one `bds_state` (stack, path, `keep`, treehash instances, `retain`) in the secret key | `treehash_init`, `bds_round`, `bds_treehash_update`, `treehash_update` | instances share one stack and one budget of updates per signature | same output as the signer above; every instance is finished when `bds_round` takes its node; the shared stack never overflows |
| BDS signer, hypertree (same file: `xmssmt_core_*`) | index, `2d - 1` BDS states, `d - 1` prepared WOTS signatures | the same, `bds_state_update`, `deep_state_swap` | all layers share one budget; a next tree is built while the current one is used | every next tree is complete when it is swapped in; same output as above |
| Verification (`xmss_commons.c`) | output buffer | `xmssmt_core_sign_open`, `compute_root`, `l_tree` | reads what the signers put out | accepts exactly the signatures of the key pair |
| WOTS+ (`mine-wots/wots.c`, `sphincsp/wots.c`) | the caller's address | chains, `base_w`, checksum, `wots_sign`, `wots_pk_from_sig` | called per leaf | a signature leads to the public key for its own message and no other; no digit vector dominates another |
| Hashing, addresses (`hash.c`, `hash_address.c`) | address arrays that outlive calls | keyed hashes, address words | all of the above | signer, `treehash` and verifier hash the same thing at the same address, and no two things at one |
| Parameter sets and API (`params.c`, `xmss.c`) | the OID in front of keys | name, OID and size tables, dispatch | the core functions | a key keeps the set its name says; sizes and the state's layout fit |
| System randomness (`randombytes.c`), conversions (`utils.c`) | the descriptor of `/dev/urandom` | `open` and `read` with retries | operating system | the buffer is filled once and in order; calls return |
| SPHINCS+ (`sphincsp/sign.c`, `fors.c`, `utils.c`, `hash_haraka.c`, `hash_address.c`) | Haraka's round constants, global | `crypto_sign_keypair`, `crypto_sign`, `crypto_sign_open` | all keys share the constants | what was signed opens and nothing else; no address or secret serves twice |
| Generators (`sphincsp/rng.c`) | key and counter; the seed expander's buffer | `randombytes_init`, `randombytes`, `seedexpander` | AES | no block is used twice; requests read one stream |
| Known-answer programs (`sphincsp/PQCgenKAT_sign.c` and three checks) | files | write request and response, read them back, verify | all of SPHINCS+ and the generator | answers are determined; a check accepts one key pair's records only |
| Parameter tables (`tunning-wots`) | eight tables, walked by pointers | `t1`, `t2`, checksum width, printing | | each row belongs to its own `w` and `m` |
| SHA-3, AES, the Haraka permutation, test drivers, NTRU notebooks | | | | not modelled, see below |

Nothing here runs concurrently. What is hard is **long sequences of legal calls**
(a tree that is needed 2^20 signatures after its first leaf was computed),
**shared budgets and stacks**, **index arithmetic per layer**, **exhaustion**,
**values left over from an earlier call** (addresses, constants, buffers),
**reads that fail or come short**, and **what a process that is killed has stored**. `PROJECT.json` lists
these hazards at their lines with the properties that cover them, or why none does.

## Modules

| Module | Models | Uses |
|---|---|---|
| `Bits` | shifts, powers of two, `^ 1`, bounded loops | |
| `HashTree` | nodes, hashes, one-time signatures, `compute_root`, `xmssmt_core_sign_open` | `Bits` |
| `Treehash` | `treehash` of `xmss_core.c` and `sphincsp/utils.c`, one action per loop step | `HashTree` |
| `Signer` | **abstract specification** of a stateful signer | `HashTree` |
| `XmssCore` | `xmss_core.c`, one action per layer signed, calls cut short | `HashTree`, refines `Signer` |
| `Bds` | `bds_state` and every function on it, as operators | `HashTree` |
| `XmssFast` | `xmss_core_keypair`, `xmss_core_sign` of `xmss_core_fast.c` | `Bds`, refines `Signer` |
| `XmssMtFast` | `xmssmt_core_keypair`, `xmssmt_core_sign` of `xmss_core_fast.c` | `Bds`, refines `Signer` |
| `Wots` | WOTS+ of both programs, one action per chain | `Bits` |
| `SignBuffers` | the caller's buffers during `sign` and `sign_open`, one action per copy | `Bits` |
| `HashAddress` | addresses word by word in key generation, signing, opening | `Bits` |
| `XmssParams` | names, OIDs, `parse_oid`, derived sizes, the layout of the stored state | `Bits` |
| `Api` | the wrappers of `xmss.c` | `XmssParams` |
| `Sphincs` | `crypto_sign_keypair`, `crypto_sign`, `crypto_sign_open`, FORS, hypertree, Haraka's constants | `Bits` |
| `RandomBytes` | `randombytes` of `mine-wots`, one action per system call | |
| `Drbg` | `randombytes_init`, `randombytes` of `sphincsp/rng.c` | `Bits` |
| `Xof` | **abstract specification** of a stream read in pieces | |
| `SeedExpander` | `seedexpander_init`, `seedexpander`, one action per block | refines `Xof` |
| `Kat` | `PQCgenKAT_sign.c` and the three checks, one step per statement that touches a file, the generator or the scheme | |
| `TuningWots` | the loops of `tunning-wots.c` with their three calculations | |
| `TreeProofs` | lemmas: powers of two, shifts, sums, induction; climbing trees and layers; every operation on a `bds_state`, for trees of every height | `Bits`, `HashTree`, `Bds` |
| `XmssCoreProofs` | theorems: one-time keys; what is put out, and the refinement | `XmssCore` |
| `XmssFastProofs` | theorems: the shared stack, the deadlines, what is put out, the refinement, and one-time keys with calls cut short | `XmssFast`, `TreeProofs` |
| `XmssMtFastProofs` | theorems: one-time keys of a hypertree with calls cut short; stacks, next trees, what is put out, the refinement | `XmssMtFast`, `TreeProofs` |
| `SphincsProofs` | theorems: what `crypto_sign_open` accepts, addresses, one-time keys, bits of the digest | `Sphincs`, `TreeProofs` |
| `SigningProofs` | theorems: one-time signatures and their checksum, for every message; the buffers, for every length; the addresses of hashes, for every size | `MCSigning`, `Wots`, `SignBuffers`, `HashAddress`, `TreeProofs` |
| `TreehashProofs` | lemmas and theorems: the root and path of a tree | `Treehash` |
| `RandomBytesProofs` | theorems: the buffer of `randombytes`; fresh blocks, erased keys and the stream of the seed expander; the known-answer programs and their files | `MCRandomness`, `RandomBytes`, `Drbg`, `SeedExpander`, `Kat`, `TreeProofs` |
| `MC*` | instances for TLC | |

`MCXmssCrash`, `MCComputations`, `MCSigning` and `MCRandomness` each check several
modules that have no variable in common in the code (a
signature's chains, its buffer, its addresses; the two generators and
`randombytes`; the computations that end by themselves: `treehash`, the parameters, the tables). A variable `part` says in the initial state which of them moves;
the others stay where they began, so that the state space is the sum and not
the product, and each conjunct of their invariants is a property of one module.

The components meet through what they promise each other: `XmssCore`,
`XmssFast` and `XmssMtFast` use a one-time signature as a whole, which `Wots` opens
up; they use the root and path of a tree, which `Treehash` computes; a node
carries its address, which `HashAddress` puts together; the signed message is a
record, which `SignBuffers` lays out in memory; and a parameter set is a record
that `XmssParams` fills.

### How state and actions correspond to the code

*Values.* Hashes are constructors. `Node(a, h, i)` is the node of height `h` and
index `i` of the subtree at address `a = <<layer, tree>>`; `HashPair` gives the
parent only if both children are the right ones under the right address and
`Junk` otherwise, so any slip in an index, a height or an address ends in a
value that nothing accepts. `Junk` also stands for memory never written. The
digest of a message keeps the randomizer, the index and the message apart. The
randomizer itself is a function of the index (`prf`), and is modelled as it.

*`Treehash`.* `idx`, `stack`, `heights`, `offset` are the function's locals; `pc`
says at which of its two loop tests it stands. `PushLeaf`, `Merge`, `NextLeaf`,
`Finish` are the loop bodies and exits. `xmss_core.c` is the case
`IdxOffset = 0`. `TreeRoot` and `TreeAuth` of `HashTree`, which the signers use,
are what `TreehashCorrect` shows it to return.

*`XmssCore`.* `skIdx` is the index in the secret key, `call` the locals of a
running `xmssmt_core_sign` (`root`, the shifted `idx`, the part of `sm` written
so far). `SignBegin` is the code up to the loop; `SignLayer` one iteration of
it; `Abort` ends the process in between. What survives is the secret key as of
`xmss_core.c:195-199`, where the code marks the point at which it is to be
stored. `calls` and `used` are history variables.

*`Bds`.* One record per `struct bds_state`; `KeepNode`, `MergeTop`, `AddLeaf`,
`TreehashInit`, `BdsStateUpdate`, `TreehashUpdate`, `BdsTreehashUpdate`,
`BdsRound` translate the functions of those names or loop bodies they share.
Key generation leaves part of the key unwritten: those fields start at values
(level 255, instance height 255) that no tree has. The stack has two slots more
than the code's array, so that `StackBound` is a statement and not an error.
`updates` is an unsigned 32-bit number in the code, and passes through a
`char`; it is kept as the signed number of the same bits (`Char`, `Available`).

*`XmssFast`, `XmssMtFast`.* One call is one step: nothing else runs. The output
comes from the state before the call, then `Advance` prepares the next.
`Crash` is a call that ends where the comments at l.619-621 and l.816-818 say the key
is to be written: the index has moved on, the traversal state has not. The loop
over the layers is `Loop` over `LayerStep`, whose two branches are `StayInTree`
and `SwapIn`.

*`Wots`.* A chain value is the address its secret came from and the hash calls
made on it. `addr` is the caller's address, which every function leaves as its
last call set it; `PkGenChain`, `SignChain`, `OpenChain` are the loop bodies.
Whether secrets come from a counter (`expand_seed`) or from the address
(`wots_gen_sk` of `sphincsp`) is part of the parameter set.

*`SignBuffers`.* Memory in blocks. `todo` is the list of copies and writes of the
program at hand (`SignStatements`, `OpenStatements`), one action each, with the
message in place (`sphincsp`, `sm = m`) or not. What is hashed is what stands in
memory at that moment, the prefix over the signature's own bytes included.
`SignOpen(k)` alters block `k` of the signed message, or none for `k = -1`.

*`HashAddress`.* The arrays `ots_addr`, `ltree_addr`, `node_addr` and those of the
signer keep all their words between calls. `Thash`, `GenChain`, `LTree`, `GetSeed` set
words and record the call to `prf`; `TreehashLeaf`, `TreehashMerge`, `SignLayer` and
`OpenLayer` are the loop bodies that use them. A word has `WordBits` bits.

*`XmssParams`, `Api`.* The tables are translated entry by entry; a name is what
its text says. `Api` keeps the OID bytes of a key pair and the parameters the
core function was last called with. A field of `params` that no switch sets keeps
what it held.

*`Sphincs`.* A hash is the record of its constants, address and input.
`constants` are the global arrays that `tweak_constants` sets: `Sign` sets both,
`Open` one. `hashes` has the calls of `thash` but for those inside of WOTS chains, which are `Wots`'s and
`HashAddress`'s subject. FORS indices are taken bit by bit; trees and leaves of the layers come
from shifting as in `sign.c:141`.

*`RandomBytes`.* `fd` is the static descriptor; `OpenWorks`, `OpenFails`,
`ReadWorks(n)`, `ReadFails` are the answers of the system, `Wake` the end of
`sleep(1)`. The device's bytes are numbered as they are drawn.

*`Drbg`, `SeedExpander`.* An encrypted block is named by key and counter. In
`SeedExpander` radix and length of the counter are parameters, so that carries
and the limit lie within reach.

*`Kat`.* A program is the list of its statements, `Execute` runs one. A file is a
list of lines `[tag, val, len]`. `Kill` ends a program anywhere and leaves of the file being
written any part (what stdio had flushed), the last line possibly cut.
Variables that C leaves uninitialised start at any value of `Garbage`. `Copy` is the
user who, as `sphincsp/README.txt` says, copies keys and a message of a response that has all its lines into files of their own.

*`TuningWots`.* The pointers are offsets; tables are filled by `Write` at the
offset and printed by `CellAt`. The floating-point logarithm is modelled as the number of
bits it stands for, which is exact for numbers far below 2^53.

## Runs

| Run | Question | Instance |
|---|---|---|
| `computations` | `TypeOK`, `StackBound`, `Frontier`, `TreehashCorrect` (`treehash`); `KeysKeepTheirParameters`, `SizesAndLayoutFit` (parameters); `RowsRight` (tables) | 16 leaves, offset 32 (the third tree of a FORS instance), every `leaf_idx`; every name and OID of both families and some that are none, `bds_k` 0, 2, 4; all 32 pairs of the program's arrays |
| `xmss_core` | `TypeOK`, `OneTimeKey`, `SignaturesOpen`, `ExhaustedRejected`, `AlteredRejected`, `ImplementsSigner` | 4 leaves; 2 layers of 2; 3 layers of 2; two messages, six calls, each cut short anywhere |
| `xmss_fast` | `StackBound`, `StackAccounted`, `InstancesOnTime`, `OpensIffInRange`, `ImplementsSigner` | heights 1 to 6 and every usable `bds_k`, from the first call to two past the last |
| `xmssmt_fast` | `StackBound`, `NextTreeReady`, `SignaturesOpen`, `ImplementsSigner` | ten shapes of two and three layers, up to 2^12 signatures, whole life |
| `xmss_crash` | `OneTimeKey`: no leaf of either BDS signer signs twice | one tree: heights 1 to 4, up to three calls cut short anywhere; hypertree: seven shapes, one call cut short at any index |
| `signing` | `PkRecovered`, `NoDominance` (chains); `OpensAsSigned`, `AlteredGivesNothing` (buffers); `AddressesAgree` (addresses) | w = 4 and 16 with every message of one byte and some of three; both signers and SPHINCS+, messages of 0 to 7 blocks, every block altered; three layers of height 2, two-bit words |
| `sphincs` | `OpensIffSigned`, `AddressUnique`, `OneTimeKey`, `EveryBitCounts` | two keys, two layers of height 2, FORS of three trees of height 3, two signatures in any order with openings |
| `randomness` | `Filled`, `WrittenOnce`, `Returns` (`RandomBytes`); `BlocksFresh`, `KeyErased` (`Drbg`, `SeedExpander`); `ImplementsXof`; `VerifiedTogether`, `Ends` (`Kat`) | chunks of 3, buffers to 7; blocks of 4 and 2 bytes, a seed expander run to its limit; two records, two runs of the four programs |
| `xmss_fast_stored` | finding 3 | one crash |
| `xmssmt_fast_starved` | finding 1 | `tree_height` 2, four layers |
| `xmssmt_fast_carry` | finding 2 | `tree_height` 2, three layers |
| `tables_rounded` | finding 4: `T1AsCommented` | the tables of `computations` |

**Bounds.** `MaxCalls`, `Overtime` and `MaxCrashes` bound the number of calls,
the calls after the last index and the calls cut short. The systems stop at
these bounds, hence `CHECK_DEADLOCK FALSE`. For the BDS signers a key pair's
whole life is one behaviour, so the runs cover every index of every shape. The
shapes are enough in this sense: `bds_round` acts differently by `tau`,
by the parity of `tau`, by whether an instance, `retain` or neither holds a
level, and by whether the next instance still fits in the tree; all of them
occur from height 4 on, and heights up to 6 are run. In a hypertree the cases
are: no tree ends, the lowest ends, several end at once, the last of a layer
ends; three layers have them all, and a middle layer that has both a next tree
and a layer above.

**Index width.** `space` is `256^index_bytes`. In `MCXmssMtFast` it is as
`params.c:488` computes it, and for the shapes with exactly 2^8 signatures the
index wraps to 0 within the run. In `MCXmssFast` 256 stands for 2^32, which no
tree of the run reaches. In `MCXmssCore` small spaces stand for the index of the
sets of full height 40, whose five bytes are used up exactly. After a wrap the
keys start over; the properties are stated up to that point (`calls <= space`).
`OneTimeKey` holds for all of these calls, also those after capacity: the
addresses are then outside of the hypertree.

**Left out of the passing runs.** `tree_height - bds_k` odd with `bds_k >= 2`:
half the instances in updates is then one too few and `InstancesOnTime` fails (the
theorems carry the same condition as a hypothesis, `BudgetSuffices` of `XmssFast`).
`params.c:450` offers `bds_k` as an option but sets it to 0 for every OID. And
the shapes of findings 1 and 2.

In the other instances: words of two bits make the low word of a tree index
overflow with 64 signatures, as 32 bits do with 2^60; three chains make the L-tree lift a node
to the next row without hashing; a body of four blocks is as long as the hash prefix, the
shortest that holds it, and messages are both shorter and longer than the
signature they are moved past; a seed expander of radix 2 with three counter bytes carries through two
of them and can be asked up to its last byte; FORS trees of height 3 have
indices that straddle byte boundaries.

**Liveness and fairness.** `Returns`: every call of `randombytes` returns. The
loops are those of one thread, so each step that is enabled is taken (`WF`);
`open` and `read` may fail any number of times, but a device that is asked again
and again answers at last (`SF_vars(OpenWorks)`, `SF_vars(ReadWorks)`, each of at least one byte). Without the strong
fairness the property fails, as the code promises no more: it sleeps and tries
again forever. `Ends`: a known-answer program that is started ends. Assumed is
that a running program executes its next statement (`WF` of `Execute`); `Kill` and
the start of programs need no fairness. Nothing else has anything to wait
for: the signers' calls are terminating loops, and what must happen in time there (a tree
completed, an instance finished) is stated as the safety property that the deadline is met
(`NextTreeReady`, `InstancesOnTime`).

## Findings

1. **The budget is spent on trees that are already complete**
   (`xmss_core_fast.c:919`). `next_leaf` is compared with `2^full_height`
   instead of `2^tree_height`. A complete next tree keeps costing one update per
   call and the layers above get none. For shapes with more layers of next
   trees (`d - 2`) than updates, a next tree is swapped in incomplete and every
   later signature is invalid. Of the registered sets these are XMSSMT 40/8 and
   60/12, from signature 2^20 on.
2. **The budget wraps** (`xmss_core_fast.c:938`). Several roots signed in one
   call cost more than the budget; `updates` is unsigned, and the rest of the
   call then does all the work there is. Output stays right, the bound on work
   per signature does not.
3. **The key is not storable where the comment says** (`xmss_core_fast.c:619`).
   Index and traversal state move on at different points. No one-time key is
   reused after such a crash (`xmss_crash`), but
   signatures do not verify. The traversal state is not only late: a round that
   is skipped leaves an instance restarted with its nodes still on the shared
   stack, so `StackAccounted` fails too, and `StackBound` with it once enough
   calls have been cut short (seven or more with 32 leaves). Both are therefore
   stated of lives without crashes only.
4. **`t1` is rounded down** (`tunning-wots/t1_calc.c:8`). The comment at l.4 says `t1 = ceil(m/w)`;
   `ceil(*m/(*w))` rounds a quotient of integers that is truncated already. In the 14 of the 32
   rows whose `w` does not divide `m` there is one word too few: for `w` = 6 and `m` = 128 it is 21 instead
   of 22 (`table1.txt:11`), 126 bits. The other columns are computed from this `t1`.
   `RowsRight` takes no side: it says that the cells of a row belong to its `w` and `m`, `t1` words being `m` bits up
   to less than a word either way, and that the checksum's columns are right for the `t1` that is printed.

Observations met while modelling, by reading and not by a run of their own; the
passing runs state what does hold in their place:

* Both families number their OIDs from 1 and a key does not say which it is of.
  The other family's functions parse it without an error (`xmss.c:36`, comment
  at l.6). `KeysKeepTheirParameters` therefore speaks of functions of the
  family the key was made with; of the others' no property holds.
* `params.h:35`, `42`, `48` and `54` say that OIDs "such as 0x01000001" are put out for a name
  and accepted. No parameter set has such an OID: the names of `params.c` give 0x00000001 to 0x0000000c and
  0x00000001 to 0x00000020 (and `test/wots.c:13` uses 0x00000001), and both parse functions return -1 for
  0x01000001, for want of a case. The comments are wrong about this code, which is consistent in itself. The run
  `computations` includes 0x01000001 (`MCOids`), and `KeysKeepTheirParameters`, which speaks of the OIDs of
  the tables, says that it is refused without a field being set.
* The checksum is shifted by `8 - (len2 * log_w) % 8`, which is 8 instead of 0 for
  w = 256 (`mine-wots/wots.c:91`; `params.c:468` accepts it), and in `sphincsp/wots.c:89` for
  hashes of at most 8 bytes. The digits are then not the checksum. No OID and no compiled set has these
  values; the run `signing` uses w = 4 and 16 with the lengths of `params.c`.
* After a failed verification the buffer still holds the copy of the message that
  was made for hashing; only `mlen` bytes from its beginning are zeroed
  (`xmss_commons.c:226`, `sphincsp/sign.c:230`). `AlteredGivesNothing` states the zeros.
* `PQCgenKAT_sign_check.c:225-227` and `single_sign_check.c:137` write through
  a stream other than the one just opened, which is closed already.
  The model drops these lines (`StrayLine`).
* `single_sign_check.c:117` verifies a length, `smlen`, that nothing has set. In `Kat` it is
  any value of `Garbage`, so the check may refuse what it should accept;
  `VerifiedTogether` does not claim otherwise for this program.
* A check that reads a response cut before `smlen = ` goes on with a length that nothing has set
  (`PQCgenKAT_sign_check_v1.c:88`), and `ReadHex` begins by zeroing that many bytes (l.181), perhaps behind the
  buffer. In `Kat` the program goes on with the length as any value of `Garbage`, or is ended there (`Kill`); memory that it
  overwrites without being ended is not modelled.

## Proofs

`XmssCoreProofs` proves of `XmssCore`, for every set of parameter sets that
satisfies `ParamSetsAssumption`, every set of messages and every `MaxCalls`:

* `TypeCorrect`: `Spec => []TypeOK`. Among other things every one-time key signed with
  is a leaf of an existing layer.
* `OneTimeKeyHolds`: `Spec => []OneTimeKey`.

`OneTimeKey` is not inductive: from an arbitrary state nothing prevents the next
index from selecting a key already used. `IInv` adds that

* `Fresh`: before the index bytes wrap the index in the key equals the number of calls,
  and every index used is below it; a running call's is the last (`CallsCounted`, `Pending`);
* `RootBelow`: the value a running call signs next on a layer above 0 is the root of
  the subtree its index selects below;
* `UpperMessages`: whatever was signed above layer 0 is the root of the subtree that the
  key determines, so that signing again with the same key signs the same value;
* `LowestUsed`, `LowestOnce`: layer 0 keys in use belong to indices already
  given out, and two signatures with one of them are the same.

The upper layers are therefore safe because what they sign is a function of the
key, layer 0 because the index is stored before it is used. The arithmetic
(taking an index apart into leaf and tree is unique: `SplitAt`, `SplitUnique`, and the
powers of two behind it) opens `TreeProofs`.

The second part of `XmssCoreProofs` proves what the same signer puts out, from `ParamSetsAssumption`
and `NoOutputAssumption` (the value for "no signature yet" is not a signature):

* `SignaturesOpenHolds`: `Spec => []SignaturesOpen`;
* `ExhaustedRejectedHolds`: `Spec => []ExhaustedRejected`;
* `AlteredRejectedHolds`: `Spec => []AlteredRejected`;
* `ImplementsSignerHolds`: `Spec => ImplementsSigner`, the refinement: a call holds its
  index until it returns (`Issue`, or `Overrun` past the last index) or is cut short (`Lose`),
  every other step is a stutter.

The invariant is `SInv`: `IInv`, and `InProgress` (the layers a running call has
signed are those that its index and message determine, and it is about to sign the
root of the last), `Numbered` (until the bytes wrap, call number `i` has index `i`) and `Returned`
(what was put out is `Canonical` for some index and message). What is left is
about the values alone and is in `TreeProofs`. `compute_root` and `sign_open` are
recursive functions, so their recursions are first shown to exist
(`ClimbExists`, `OpenLayersExists`, by induction over the set of the heights for
which they do: `SetInduction`); then an honest path climbs to the root
(`HonestClimb`), an honest signature opens exactly if its last root is the public one
(`HonestRoot`), which is so exactly if the index is below the capacity
(`TopTreeOfIndex`), and a layer that yields `Junk` makes all layers above it yield
`Junk` (`JunkClimb`, `JunkRejected`). TLC finds `SInv`, and with it `IInv`, to hold in every
state of the instance of run `xmss_core`.

`TreehashProofs` proves of `Treehash`, for every height, every `IdxOffset` that is
a multiple of the number of leaves, and every `leaf_idx`, all that the run
`computations` checks of it on 16 leaves:

* `TypeCorrect`: `Spec => []TypeOK`;
* `StackSuffices`: `Spec => []StackBound`, no write beyond the `tree_height + 1` slots;
* `FrontierHolds`: `Spec => []Frontier`, the invariant of the loops;
* `TreehashIsCorrect`: `Spec => []TreehashCorrect`, the root and the authentication
  path returned are those of the tree.

`Frontier` says how the nodes on the stack adjoin, not how many there can be,
nor what has been copied to `auth_path`. `IInv` adds `Spread` (the node in slot `p` is at
least `p` levels below the one in slot 0, and together they end before a second
node as large as that one would), from which `Room` bounds the stack and at the end only the
root can be in slot 0; `Control`; and `PathSoFar` (a node of the path is in
`auth_path` as soon as its last leaf is read and its merges are done). The steps of
the argument: strictly falling heights make a node start at a multiple of twice
its size (`Aligned`), hence two nodes of equal height are siblings, and `tree_idx`,
though computed from the leaf at hand, is the index of their parent
(`Siblings`); when nothing is left to merge, the node on top is as high as the
number of leaves read allows (`TopIsHigh`), so no node of the path is missed.

The last part of `TreeProofs`, and `XmssFastProofs`, prove of `XmssFast`, for every height of the tree,
every `bds_k` with a sufficient budget and any number of calls, all that the run
`xmss_fast` checks on heights 1 to 6:

* `StackBoundHolds`: `Spec => []StackBound`, the shared stack never overflows;
* `StackAccountedHolds`: `Spec => []StackAccounted`, it holds the unfinished nodes and
  no others;
* `InstancesOnTimeHolds`: `Spec => []InstancesOnTime`, every deadline of `bds_round` is met;
* `OpensIffInRangeHolds`: `Spec => []OpensIffInRange`;
* `ImplementsSignerHolds`: `Spec => ImplementsSigner`, so that this signer puts out
  what `XmssCore` does.

They have one hypothesis about the parameters, `BudgetSuffices` of `XmssFast`: `bds_k` is 0 or 1, or
the number of instances is even. Every set in `params.c` has `bds_k = 0`
(l.233, 438). The refinement also needs that `NoOutput` is not a signature (`NoOutputIsNone`).
`Spec` is without crashes: finding 3 is about what happens with them.

None of the properties is inductive, and none can be had without the others: the stack
is in order because of which instance is served first, the deadlines are met
because the stack is in order, and the path is right because the
deadlines are met. `IInv` says of the state before the signature of leaf `x`:

* `Shared`: the nodes of an instance lie together on the stack, those of lower instances
  above those of higher ones, levels fall strictly from the bottom to the
  top, and an instance has a node there for each one bit of the number of its leaves.
  Hence `treehash_update` merges with its own nodes only (`TreehashUpdateResult`), and
  a stack of strictly falling levels below `tree_height` cannot exceed `tree_height`
  nodes (`UpdateStep`).
* `Work`: an unfinished instance of height `h` works on the right node after the one that
  the path of `x` has at height `h`.
* `InBudget`: for every unfinished instance `h`, what is updated before it is finished
  (`Demand`: what lower instances still need and will need for the nodes they begin
  until then, `Again`, and the share of higher ones that are in the middle of a node
  of height `h`) is no more than the calls left before its deadline give. The code
  serves the instance whose lowest node on the stack is lowest, and of those the first one
  (`Neediest`); that no update goes to an instance that is not counted is what `Load` and
  `NeediestOnTop` state. One update lowers every demand by one (`UpdateSpends`); `bds_round`
  begins instances again and the sum of what they add is what the budget for the
  calls between gives (`RoundKeepsOrder`). At the deadline the demand is zero (`OnTime`).
* `Path`: `auth` is the path of `x`, `keep` has the left nodes whose parents are due,
  `retain` every right node of the `bds_k` top levels, and each finished
  instance the right node that `bds_round` will take next. `RoundPath` takes it from leaf `x` to
  `x + 1`; `PathIsTreeAuth` compares it with what `treehash` computes.

Key generation is proved as the loop it is: `AddLeafResult` takes a tree under construction from
`n` leaves to `n + 1`, `TreehashInitResult` states the root and the state with which the life of the key begins.
The loops of `treehash_update`, `bds_treehash_update`, `AddLeaf` and `treehash_init` are recursive
functions whose recursions are shown to exist first (`MergingExists`, `UpdatingExists`,
`JoiningExists`, `GrowingExists`). The lemmas are stated for a tree at any address
of a hypertree.

`XmssMtFastProofs`, and the last part of `XmssFastProofs`, prove
`OneTimeKeyHolds`: `CrashSpec => []OneTimeKey`, for every shape, every `bds_k` and any
number of calls, whichever of them are cut short. The parameters only have to
satisfy `FastParamSetsAssumption`; the traversal states may hold anything. The
invariant is `KeysInv`: the index counts the calls until it wraps (`IndexCounts`), and
a key in use was used once and is `Spent`, which is to say of an index that is used up.
Key number `c` of layer `i + 1` comes into use in the call that takes the index to
`c * 2^(tree_height * (i + 1))` (`UpperKey`), as the loop signs the root of layer
`i` only when a tree of that layer ends (`AdvanceWots`); a layer's number and `c` determine the key
(`KeyOfUnique`). So the keys of a call are none of those spent before it (`CallKeysNew`),
and a call that is cut short has spent them as one that returns has.

The second part of `XmssMtFastProofs` proves what the run `xmssmt_fast` checks on ten shapes, for
every shape whose budget suffices and any number of calls:

* `StackBoundHolds`: `Spec => []StackBound`, no stack of current or next trees overflows;
* `NextTreeReadyHolds`: `Spec => []NextTreeReady`, a tree that is swapped in is complete;
* `SignaturesOpenHolds`: `Spec => []SignaturesOpen`;
* `ImplementsSignerHolds`: `Spec => ImplementsSigner` (with `NoOutputIsNone`), so that this signer, too, puts out
  what `XmssCore` does.

`BudgetSuffices` of `XmssMtFast` is the hypothesis that every parameter set satisfies `Suffices`: updates
are enough for one tree (`bds_k` 0 or 1, or an even number of instances); `d - 2`, the number of layers with a
next tree above the lowest, is at most the budget `(tree_height - bds_k) / 2`; the budget is at most 127, as a `char`
returns what is left of it; and `space` is a multiple of `2^full_height`, as `params.c:488` makes it. Only
`d - 2 <= budget` excludes registered sets, XMSSMT 40/8 and 60/12, and it is what finding 1 is
about: `xmssmt_fast_starved` shows what happens without it. TLC evaluates
`Suffices` for the instances of the run and of finding 2, where it holds, and of finding 1, where it does
not (`MCSufficesAssumption`).

How much work a layer gets in a call depends on what the layers below leave of the budget.
The invariant `IInv` has for every layer (`Layer`)

* the current tree (`Current`): in order and on time as in `XmssFastProofs`, but with an optional root
  below the instances' nodes, which a tree that was swapped in leaves there, and with the updates
  counted in the parts in which they come (`Served`, `Demanded`);
* the next tree (`Coming`): it is a tree of `next_leaf` leaves (`Built`), and what its missing leaves and
  the instances of the current tree still need is no more than the calls offer until the current tree ends (`Fed`);
* the signature on its root (`RootSignature`).

What the calls offer rests on *quiet* calls. At the leaves `2^tree_height - 3` and `2^tree_height - 2` of a tree no instance
has work left, since none is begun again so late. In a call that is quiet for all layers below `i` (`Quiet`), the
layers below take one update each for their next trees, so that layer `i` is offered the budget but for
these (`Offer`). `Calm` counts such calls: between two steps of layer `i` it finds `i + 1`, the
last of which ends the layers below, and together they offer at least the budget of one call of a
single tree (`OfferFits`). The loop over the layers in `xmssmt_core_sign` keeps `Halfway`: the layers passed
have what the next call needs, the others what this one did, and `Left` of the budget remains what the next
layer is due. `LayersReady` holds beyond the last index and through the wrap of the index as well, where only paths and
root signatures are those of the last trees (`WrapLayer`). `Returned` is the property, that what was
put out is honest for its index, from which the refinement follows as in `XmssFastProofs`.

`SphincsProofs` proves of `Sphincs`, for all heights of the trees, any number of layers, FORS
trees, key pairs and signatures, and whatever digests `hash_message` returns, all that
the run `sphincs` checks on one shape:

* `OpensIffSignedHolds`: `Spec => []OpensIffSigned`;
* `AddressUniqueHolds`: `Spec => []AddressUnique`;
* `OneTimeKeyHolds`: `Spec => []OneTimeKey`;
* `EveryBitCountsHolds`: `Spec => []EveryBitCounts`.

They assume `SizesAssumption` (no height, number of layers or of FORS trees is 0) and
`DigestsAssumption` (a digest is as many bytes as the FORS indices need).
The work is to say what the nested loops compute. Each of them is a *run*, a sequence
of turns (`RunTurns`, `LoopRuns`). A turn of `fors_sign` leaves its tree's
numbers in the address that the next turn uses, and `ForsAlike` shows that what it
leaves makes no difference. So the trees are terms in the seeds of the key pair
and their address alone (`Tree`, `ForsNodes`, `WotsNodes`), and `crypto_sign` returns what the
digest selects in them (`ForsSignIs`, `HyperSignIs`).

For `OpensIffSigned`, `compute_root` comes to the root of such a tree exactly from the
right leaf with the right siblings (`ClimbIff`, by induction down from the
root). Hence the FORS key comes out exactly if every part is right (`ForsOpens`), and, going
down from the top layer, the root in the public key exactly if every layer is
(`HyperOpens`). `Altered` shows that a signature changed in any part has one that is not
right; under another key pair already the constants of the top one-time signature
differ (`HyperConstants`). `OpenInv` adds to the property what the roots in the public keys are, that
answers of `hash_message` are digests, and that `out` is what `crypto_sign` returns for its answer.

For `AddressUnique` every hash made is one of three kinds of calls (`HashInv`, `Called`): a node of a FORS
tree, a FORS key, a node of the hypertree. The address of a call determines the call (`CallUnique`):
the type tells the kinds apart, and in the FORS trees, which share one range of indices, the index
and the height give back tree and node (`IndexSplit`). For `OneTimeKey`, what a leaf signs is a function of
its place (`UsedInv`, `SignUses`), since the tree below leaf `f` of tree `t` is tree
`t * 2^TreeHeight + f` of the layer below (`UpLayers`). For `EveryBitCounts`, an index and its height give back
its bits (`IndexBits`).

`SigningProofs` proves of `Wots`, in the composition `MCSigning` that the run `signing` checks, for every
parameter set with `w` = 4 or 16 whose checksum fits its digits, messages of any length with bytes of
any values, and any address the caller begins with:

* `PkRecoveredHolds`: `SpecParts => []PkRecovered`;
* `NoDominanceHolds`: `SpecParts => []NoDominance`.

The assumption `ParamSetsAssumption` is what `initialize_params` yields for every OID: the largest checksum,
`len1 * (w - 1)`, is below `w^len2`, and `len2 * log_w` is no multiple of 8. The second half is needed:
with `w` = 256 and two bytes TLC finds a message that dominates another (see *Findings*), as the
shift by 8 drops the highest byte. `base_w` and `ull_to_bytes` are first read as digits of a number
(`WordDigits`, `ChecksumDigits`: the zero bits expected end up where no digit is taken, `LowBits`), and a
number is its digits (`DigitsDetermine`, `DigitsSum`). `SomeShorterChain` is the argument the checksum is
made for: if no chain of `m2` were shorter than that of `m1`, what is left of the chains would not
be more, nor, digit by digit (`DigitsOrder`), less; so the digits would be equal, and the messages
(`DigitsOfMessage`). For `PkRecovered` a chain is its secret and the calls on it: resumed at another
length than it stopped at, it does not end where the key's does (`ResumedRight`). `ChainsInv` says of the
loops that what they have appended so far is a part of the key, of the signature and of the key recomputed,
whatever the address held before.

The second part of `SigningProofs` proves of `SignBuffers`, for messages of any length up to any
`MaxMlen`, signatures of any `BodyLen` from 4 blocks up, and all places `sphincsp`'s caller may give the
message:

* `OpensAsSignedHolds`: `SpecParts => []OpensAsSigned`;
* `AlteredGivesNothingHolds`: `SpecParts => []AlteredGivesNothing`.

`BodyLen >= 4` is what the prefix of `hash_message` needs to lie behind the index and R; it holds
for every parameter set. `BufferInv` says after each statement of each call what the buffers hold so far, and that
nothing is written outside the signed message. The loop of `sphincsp` that moves the
message is shown to be one write of what was there before, though source and destination may
overlap (`CopyTurns`: a block is read before the copies reach it, as they run from the back).
`core` hashes with the index and R in place, `fast` before they are, and in both the prefix, written over
the signature's place, is gone when `putBody` has run (`PutBodyKeeps`). In `sphincsp`'s `crypto_sign_open`
with one buffer the prefix overwrites the signature itself, and the comparison uses the copy (`CheckedIs`).
What is hashed again equals what was hashed exactly if no block of index, R or message is changed
(`RehashedIs`); if the changed block is in the body, that block differs, and if not, every block of the body that
would have to be there does (`BodyIs`).

The third part of `SigningProofs` proves of `HashAddress`, for trees of any height, any number of layers and chains,
words of any width, and any sequence of key generations, signatures and openings:

* `AddressesAgreeHolds`: `SpecParts => []AddressesAgree`.

`SizesAssumption` says what a word must hold: `d`, `w`, the number of chains and the tree height fit one word, the
index of a tree two. Words of 32 bits do for every set of `params.c`. A call of `prf` is *lawful* (`Lawful`) if its
address is the one that belongs to what it is for; then either determines the other (`HashDetermined`: the type
tells the kind of hash, the two tree words give back the tree, `HalvesDetermine`). So it is enough that every call is lawful. The
loops of `gen_chain`, of the chains, of `l_tree` and `compute_root` are turns (`HashLoop`) that keep the address in its
place and the history lawful (`Good`, `ChainsGood`, `LTreeGood`, `ClimbGood`); that `l_tree` halves its rows while
the heights stay below a word is `RowLenRecursion` and `RowsRange`. `HashesInv` says which words of
the addresses of the running call are right, whatever was left in the others (`CallInPlace`), and of the stack of `treehash`
that its nodes are adjoining subtrees of falling height, the last two perhaps alike (`Stacked`), from which it never holds more than the height of the
tree and one (`StackRoom`).

`RandomBytesProofs` proves of `RandomBytes`, for every chunk size, buffer length
and number of calls, and however often `open` and `read` fail or come short:

* `TypeCorrect`: `Spec => []TypeOK`; no read asks for more than a chunk or than is
  still wanted;
* `FilledHolds`: `Spec => []Filled`; a call that returns has filled its buffer
  with the bytes drawn, in order and each once, and nothing behind it;
* `OpenedOnceHolds`: `Spec => []OpenedOnce`; the device is opened at most once;
* `WrittenOnceHolds`: `Spec => WrittenOnce`, an action property: a byte given is not
  written again.

The invariant behind them says where the call stands: `pos` is what has been
drawn since it began, `pos + xlen = len`, the buffer up to `pos` holds those bytes
and the rest is unwritten. That calls return is liveness and stays with TLC.

Of the two generators of `rng.c` it proves, about `SpecParts` and for every value of the constants
(`GeneratorAssumption`, `ExpanderAssumption`: blocks are not empty, a byte has at least two values,
there is at least one counter byte):

* `ImplementsXofHolds`: `SpecParts => ImplementsXof`, step by step. `ExpanderInv` says that the counters
  encrypted are the bytes of 0, 1, 2, ..., that bytes read and bytes left in the buffer add up
  to those blocks, and that what a request has so far is the next piece of the stream. That the loop over `ctr[12..15]`
  counts is `IncrementCounts`: dividing the next number by the radix again and again changes what is left exactly as long
  as a carry runs (`CarryRuns`, by induction over the digits);
* `BlocksFreshHolds`: `SpecParts => []BlocksFresh`. For the expander, numbers below `Limit` differ in a
  byte (`CtrValueInjective`), and the bytes still owed keep the counter below it. For the generator, `KeysChained`:
  each key was made by encrypting under the one before it (`Prev`), back to the key of zeros, so that a key that
  came back would have its predecessor come back, and the present key has not been used. Under one key the counter only grows;
* `KeyErasedHolds`: `SpecParts => []KeyErased`. Bytes given come from keys that were used, and the key held is none;
  what was given is replayed from the seed and the lengths alone (`Replayed`, and `ReplayUnique` by induction over the calls).

Of the known-answer programs it proves `VerifiedTogetherHolds`: `SpecParts => []VerifiedTogether`, for any number of
records and of runs, in whatever order the programs are run and wherever each of them is killed. Assumed are
(`SizesAssumption`) at least one record, signatures that are not empty, and that the programs are among the four
modelled. What a check may rely on is only what earlier runs left in the files, so the invariant `AnswersInv` has two parts:

* what holds of the files whoever wrote them: `RspOk`, a response is right line by line and only its last line
  may be cut, because a kill leaves a part of what had been put; `CopiedOk`, the files a check reads are not there
  or were copied, message and secret key from one record and the public key from one that may be another; `KatTypes`,
  types and that a program has only its own statements left;
* what the running program knows (`Knows`): for each statement of `PQCgenKAT_sign_check_v1.c` (`FirstAt`) and of
  `PQCgenKAT_sign_check.c` (`CheckAt`), what has been read, computed and compared by then; for `PQCgenKAT_sign.c`
  (`GenerateAt`), also the loops: which record is written, how much of the request is read, how often the
  generator was drawn from since it was seeded, and that the response is right up to the last line put (`RspRight`).

`ResultsOk` then says what the result of a program means. Without the line-by-line `RspOk`, a check after a killed
`PQCgenKAT_sign` would start from files of which nothing is known; without the draws, a signature could not be told to be
the one that the record's seed determines. The proof has one lemma per kind of statement, and the scan for the next tag
(`ReadNumber`, `ReadHex`) is reduced to the place of each line in a response (`PlaceOf`, `WantedIs`). Nothing
is claimed of the results of `single_sign_check.c`, which verifies a length that nothing has set (see "Findings").

The abstraction of hashes to constructors is an assumption of all of this:
collisions and forgeries are not modelled.

**Only model-checked:** the parameters (`KeysKeepTheirParameters`,
`SizesAndLayoutFit`, `RowsRight`: the tables of `params.c` and `tunning-wots` are finite and the runs go through
every row of them, so TLC leaves nothing to prove but other `n` and `w`), and liveness (`Returns`, `Ends`),
which under fairness is beyond the provers used.

## Not modelled

* **SHA-3 (`fips202.c`), AES, the Haraka permutation**: computation over bits without a state
  worth a state space. Only whole calls of them appear, as injective constructors.
  Of Haraka the round constants are modelled, because calls share them.
* **The bits of masks and padding** in `hash.c`, and the choice between OpenSSL and Keccak.
* **`PQCgenKAT_sign_from_file.c`, `interface.c`, `FileReading.c`**: not built by the
  `Makefile`, and reading one record whose lengths are fixed in headers.
* **Tests, speed measurements and command-line helpers** of `mine-wots`: straight-line drivers. What
  the tests assert of the signers is a source of the properties.
* **NTRU notebooks**: teaching material for Mathematica.
* **Threads and signals**: nothing in the repository uses them.

## Plan

Every safety property of a program that the runs check is proved. Left to TLC are the tables of parameters, which
it goes through completely, and liveness. The next things to model would be `PQCgenKAT_sign_from_file.c` and the
readers of `FileReading.c`, once something builds them.
