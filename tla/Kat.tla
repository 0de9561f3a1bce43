-------------------------------- MODULE Kat --------------------------------
(***************************************************************************)
(* The known-answer programs of sphincsp: PQCgenKAT_sign writes a request  *)
(* file, reads it back and writes a response file; the three checks read   *)
(* keys, messages and signatures from files, looking for markers and only  *)
(* ever forwards.  A program is the list of its statements that touch a    *)
(* file, the generator or the signature scheme; one step executes one of   *)
(* them.  A program may be killed at any of them, which leaves of a file   *)
(* that is being written whatever part has left its buffer, and may be     *)
(* started again.                                                          *)
(*                                                                         *)
(* A file is a sequence of lines [tag, val, len], "tag = val" with len the *)
(* number of bytes val stands for; values are symbolic.                    *)
(***************************************************************************)
EXTENDS Integers, Sequences, SequencesExt

CONSTANTS
  Records,       \* the records of a request file: 1, or 100 before it was changed
  SigBytes,      \* CRYPTO_BYTES
  Garbage,       \* what an uninitialised number may hold
  Programs,      \* the programs that may be run
  MaxRuns        \* bound on the runs

SizesAssumption ==
  /\ Records \in Nat \ {0} /\ SigBytes \in Nat \ {0}
  /\ Garbage \subseteq Nat /\ MaxRuns \in Nat
  /\ Programs \subseteq {"generate", "check_v1", "check", "single"}

VARIABLES
  files,     \* the files, Absent before they are written
  pos,       \* how many lines of each the running program is past
  prog,      \* the running program, "none"
  todo,      \* its statements left
  v,         \* its variables
  drbg,      \* DRBG_ctx: the seed and the draws since
  ret,       \* the last program and what it returned, "none" while one runs
  runs

vars == <<files, pos, prog, todo, v, drbg, ret, runs>>
-----------------------------------------------------------------------------
Absent == <<[tag |-> "absent", val |-> <<>>, len |-> 0]>>
FileNames == {"req", "rsp", "msg", "sk", "pk", "sig", "messages", "m1"}
Numbers == {"count", "mlen", "smlen"}
Missing(f) == files[f] # <<>> /\ files[f][1].tag = "absent"
Line(t, x, n) == [tag |-> t, val |-> x, len |-> n]

None == <<"none", "none">>
Entropy == <<"entropy">>
Unset == <<"unset">>
KeyLen == 64

(* The statements. *)
Open(f, m)        == [op |-> "open", file |-> f, mode |-> m]
Close(f)          == [op |-> "close", file |-> f]
Number(f, t, x, e) == [op |-> "number", file |-> f, tag |-> t, var |-> x, fail |-> e]
Hex(f, t, x, n)   == [op |-> "hex", file |-> f, tag |-> t, var |-> x, len |-> n]
Put(f, t, x, n)   == [op |-> "put", file |-> f, tag |-> t, var |-> x, len |-> n]
Stray(f, t, x)    == [op |-> "stray", file |-> f, tag |-> t, var |-> x]
Blank(f)          == [op |-> "blank", file |-> f]
Set(x, val)       == [op |-> "set", var |-> x, val |-> val]
Init256(x)        == [op |-> "init", var |-> x]
Draw(x)           == [op |-> "draw", var |-> x]
Do(fn)            == [op |-> fn]
Verify(sm, m, n)  == [op |-> "verify", sm |-> sm, var |-> m, len |-> n]
Same(n, m)        == [op |-> "same", len |-> n, var |-> m]

(* PQCgenKAT_sign: a record of the request; its last four lines have no      *)
(* blank behind the = and are found by no marker.                            *)
Request(i) ==
  <<Set("count", i), Put("req", "count", "count", "none"),
    Draw("seed"), Put("req", "seed", "seed", "none"),
    Set("mlen", 33 * (i + 1)), Put("req", "mlen", "mlen", "none"),
    Draw("m"), Put("req", "msg", "m", "mlen"), Blank("req")>>

(* One turn of its do loop: left when there is no count any more.            *)
Response ==
  <<Number("req", "count", "count", "done"), Put("rsp", "count", "count", "none"),
    Hex("req", "seed", "seed", "none"), Put("rsp", "seed", "seed", "none"),
    Init256("seed"),
    Number("req", "mlen", "mlen", "data"), Put("rsp", "mlen", "mlen", "none"),
    Hex("req", "msg", "m", "mlen"), Put("rsp", "msg", "m", "mlen"),
    Do("keypair"), Put("rsp", "pk", "pk", "none"), Put("rsp", "sk", "sk", "none"),
    Do("sign"), Put("rsp", "smlen", "smlen", "none"), Put("rsp", "sm", "sm", "smlen"),
    Verify("sm", "m1", "mlen1"), Same("mlen1", "m1"), Do("again")>>

Generate ==
  <<Open("req", "w"), Open("rsp", "w"), Set("seed", Entropy), Init256("seed")>>
    \o FlattenSeq([i \in 1..Records |-> Request(i - 1)])
    \o <<Close("req"), Open("req", "r"), Blank("rsp")>> \o Response

(* PQCgenKAT_sign_check_v1. *)
CheckV1 ==
  <<Open("rsp", "r"), Number("rsp", "mlen", "mlen", "go"), Hex("rsp", "msg", "m", "mlen"),
    Hex("rsp", "pk", "pk", "none"), Hex("rsp", "sk", "sk", "none"),
    Number("rsp", "smlen", "smlen", "go"), Hex("rsp", "sm", "sm", "smlen"),
    Do("sign"), Verify("sm", "m1", "mlen1"), Same("mlen1", "m1"), Close("rsp")>>

(* PQCgenKAT_sign_check; messages.txt is opened as fp_m1 and written through *)
(* fp_sig, which is closed.                                                  *)
Check ==
  <<Open("msg", "r"), Number("msg", "mlen", "mlen", "go"), Hex("msg", "msg", "m", "mlen"),
    Number("msg", "smlen", "smlen", "go"), Close("msg"),
    Open("sk", "r"), Hex("sk", "sk", "sk", "none"), Close("sk"),
    Open("pk", "r"), Hex("pk", "pk", "pk", "none"), Close("pk"),
    Open("sig", "w"), Do("sign"), Put("sig", "sm", "sm", "smlen"), Close("sig"),
    Open("sig", "r"), Hex("sig", "sm", "sm1", "smlen"), Close("sig"),
    Verify("sm", "m1", "mlen1"), Same("mlen1", "m1"),
    Verify("sm1", "m2", "mlen2"), Same("mlen2", "m2"),
    Open("messages", "w"), Stray("messages", "m", "m"), Stray("messages", "m1", "m1"),
    Stray("messages", "m1", "m2"), Close("messages")>>

(* single_sign_check: smlen is given to crypto_sign_open without ever being  *)
(* set; m1.txt too is written through a closed stream.                       *)
SingleCheck ==
  <<Set("mlen", 33),
    Open("sk", "r"), Hex("sk", "sk", "sk", "none"), Close("sk"),
    Open("pk", "r"), Hex("pk", "pk", "pk", "none"), Close("pk"),
    Open("rsp", "r"), Set("siglen", 33 + SigBytes), Hex("rsp", "sm", "sm", "siglen"), Close("rsp"),
    Verify("sm", "m1", "mlen1"),
    Open("m1", "w"), Stray("m1", "m1", "m1"), Close("m1")>>

Statements(p) ==
  CASE p = "generate" -> Generate [] p = "check_v1" -> CheckV1
    [] p = "check" -> Check [] p = "single" -> SingleCheck

(* The variables of a program that starts: numbers hold what the stack held. *)
Variables(g) ==
  LET values == {"seed", "m", "sm", "sm1", "m1", "m2", "pk", "sk"}
      numbers == {"count", "mlen", "smlen", "siglen", "mlen1", "mlen2"}
  IN  [x \in values \cup numbers |-> IF x \in values THEN Unset ELSE g]
-----------------------------------------------------------------------------
Init ==
  /\ files = [f \in FileNames |-> Absent]
  /\ pos = [f \in FileNames |-> 0]
  /\ prog = "none" /\ todo = <<>> /\ v = Variables(0)
  /\ drbg = [seed |-> <<"zero">>, draws |-> 0]
  /\ ret = None /\ runs = 0

Start(p, g) ==
  /\ prog = "none" /\ runs < MaxRuns
  /\ prog' = p /\ todo' = Statements(p) /\ v' = Variables(g)
  /\ drbg' = [seed |-> <<"zero">>, draws |-> 0]
  /\ ret' = None /\ runs' = runs + 1
  /\ UNCHANGED <<files, pos>>

Finish(r) == prog' = "none" /\ todo' = <<>> /\ ret' = <<prog, r>>

(* A statement that has done what it should. *)
Advance == todo' = Tail(todo) /\ UNCHANGED <<prog, ret>>

Stmt == Head(todo)
At(op) == todo # <<>> /\ Stmt.op = op

(* fopen; "w" empties the file. *)
OpenFile ==
  /\ At("open")
  /\ pos' = [pos EXCEPT ![Stmt.file] = 0]
  /\ IF Stmt.mode = "w"
       THEN Advance /\ files' = [files EXCEPT ![Stmt.file] = <<>>]
       ELSE /\ UNCHANGED files
            /\ IF Missing(Stmt.file) THEN Finish("file") ELSE Advance
  /\ UNCHANGED <<v, drbg, runs>>

CloseFile == At("close") /\ Advance /\ UNCHANGED <<files, pos, v, drbg, runs>>

(* The marker "mlen = " is found in a line of smlen as well.                 *)
Matches(t, line) == line.tag = t \/ (t = "mlen" /\ line.tag = "smlen")

(* FindMarker: the next line from here on, 0 if there is none. *)
Found(f, t) ==
  LET hits == {k \in (pos[f] + 1)..Len(files[f]) : Matches(t, files[f][k])}
  IN  IF hits = {} THEN 0 ELSE CHOOSE k \in hits : \A j \in hits : k <= j

(* Mutant: the test for EOF is missing and FindMarker never returns. *)
MoveToForever(f, k) == k # 0 /\ pos' = [pos EXCEPT ![f] = k]

(* Without the marker all of the file has been read. *)
MoveTo(f, k) == pos' = [pos EXCEPT ![f] = IF k = 0 THEN Len(files[f]) ELSE k]

(* What is left of a line that was cut: of a number its first digits, or     *)
(* none, which fscanf does not take for a number.                            *)
CutLine(line) ==
  [line EXCEPT !.len = 1, !.val = IF line.tag \in Numbers THEN @ \div 10 ELSE @]
Digits(line) == line.len # 1 \/ line.val # 0

(* FindMarker and fscanf; if there is no marker the program returns, leaves  *)
(* its loop, or prints a line and goes on.                                   *)
ReadNumber ==
  LET k == Found(Stmt.file, Stmt.tag)
  IN  /\ At("number")
      /\ MoveTo(Stmt.file, k)
      /\ CASE k # 0 ->
              /\ Advance
              /\ v' = IF Digits(files[Stmt.file][k])
                      THEN [v EXCEPT ![Stmt.var] = files[Stmt.file][k].val] ELSE v
           [] k = 0 /\ Stmt.fail = "go" -> Advance /\ UNCHANGED v
           [] k = 0 /\ Stmt.fail = "data" -> Finish("data") /\ UNCHANGED v
           [] k = 0 /\ Stmt.fail = "done" -> Finish("success") /\ UNCHANGED v
      /\ UNCHANGED <<files, drbg, runs>>

(* ReadHex with Length = 0 does not look for the marker. *)
NothingToRead(n) == n # "none" /\ v[n] = 0

(* ReadHex: of a value of another length not all is kept.  It begins by      *)
(* zeroing Length bytes of A; when the file was cut before the number, in a  *)
(* variable that nothing had set, these may reach behind the buffer.  Then   *)
(* the program is either ended by the system, which Kill covers at every     *)
(* statement, or goes on as below; what it overwrote is not modelled.        *)
ReadHex ==
  LET k == Found(Stmt.file, Stmt.tag)
      line == files[Stmt.file][k]
      want == IF Stmt.len = "none" THEN KeyLen ELSE v[Stmt.len]
  IN  /\ At("hex")
      /\ IF NothingToRead(Stmt.len)
           THEN Advance /\ v' = [v EXCEPT ![Stmt.var] = <<"empty">>] /\ UNCHANGED pos
           ELSE /\ MoveTo(Stmt.file, k)
                /\ IF k = 0 THEN Finish("data") /\ UNCHANGED v
                   ELSE Advance /\ v' = [v EXCEPT ![Stmt.var] =
                                         IF line.len = want THEN line.val ELSE <<"part">>]
      /\ UNCHANGED <<files, drbg, runs>>

(* fprintf and fprintBstr. *)
PutLine ==
  /\ At("put")
  /\ files' = [files EXCEPT ![Stmt.file] =
       Append(@, Line(Stmt.tag, v[Stmt.var], IF Stmt.len = "none" THEN KeyLen ELSE v[Stmt.len]))]
  /\ Advance /\ UNCHANGED <<pos, v, drbg, runs>>

PutBlank ==
  /\ At("blank")
  /\ files' = [files EXCEPT ![Stmt.file] = Append(@, Line("none", <<>>, 0))]
  /\ Advance /\ UNCHANGED <<pos, v, drbg, runs>>

(* A write to a closed stream: it reaches the file whose fopen was given the *)
(* memory of that stream, or is lost.                                        *)
StrayLine ==
  /\ At("stray")
  /\ \/ files' = [files EXCEPT ![Stmt.file] = Append(@, Line(Stmt.tag, v[Stmt.var], v.mlen))]
     \/ UNCHANGED files
  /\ Advance /\ UNCHANGED <<pos, v, drbg, runs>>

SetVar ==
  /\ At("set")
  /\ v' = [v EXCEPT ![Stmt.var] = Stmt.val]
  /\ Advance /\ UNCHANGED <<files, pos, drbg, runs>>

RandomBytesInit ==
  /\ At("init")
  /\ drbg' = [seed |-> v[Stmt.var], draws |-> 0]
  /\ Advance /\ UNCHANGED <<files, pos, v, runs>>

Random == <<"rand", drbg.seed, drbg.draws>>
Drawn == [drbg EXCEPT !.draws = @ + 1]

DrawBytes ==
  /\ At("draw")
  /\ v' = [v EXCEPT ![Stmt.var] = Random] /\ drbg' = Drawn
  /\ Advance /\ UNCHANGED <<files, pos, runs>>

Keypair ==
  /\ At("keypair")
  /\ v' = [v EXCEPT !.pk = <<"pk", Random>>, !.sk = <<"sk", Random>>] /\ drbg' = Drawn
  /\ Advance /\ UNCHANGED <<files, pos, runs>>

(* crypto_sign over mlen bytes of m. *)
Sign ==
  /\ At("sign")
  /\ v' = [v EXCEPT !.sm = <<"sm", v.sk, v.m, Random, v.mlen>>, !.smlen = SigBytes + v.mlen]
  /\ drbg' = Drawn
  /\ Advance /\ UNCHANGED <<files, pos, runs>>

(* Mutant: any signature is good under any key. *)
OpensAny(sm, n, pk) == Len(sm) = 5 /\ n = SigBytes + sm[5]

(* A signature of that key pair, with the length it has. *)
Opens(sm, n, pk) ==
  /\ Len(sm) = 5 /\ Len(sm[2]) = 2 /\ Len(pk) = 2
  /\ sm[2][1] = "sk" /\ pk[1] = "pk" /\ sm[2][2] = pk[2]
  /\ n = SigBytes + sm[5]

(* crypto_sign_open. *)
VerifySig ==
  /\ At("verify")
  /\ LET sm == v[Stmt.sm]
     IN  IF Opens(sm, v.smlen, v.pk)
         THEN Advance /\ v' = [v EXCEPT ![Stmt.var] = sm[3], ![Stmt.len] = sm[5]]
         ELSE Finish("crypto") /\ UNCHANGED v
  /\ UNCHANGED <<files, pos, drbg, runs>>

(* mlen is compared with what was opened, then the message.                  *)
Compare ==
  /\ At("same")
  /\ IF v[Stmt.len] = v.mlen /\ v[Stmt.var] = v.m THEN Advance ELSE Finish("crypto")
  /\ UNCHANGED <<files, pos, v, drbg, runs>>

Again ==
  /\ At("again")
  /\ todo' = Response
  /\ UNCHANGED <<files, pos, prog, v, drbg, ret, runs>>

Return ==
  /\ prog # "none" /\ todo = <<>>
  /\ Finish("success")
  /\ UNCHANGED <<files, pos, v, drbg, runs>>

(* The file a program has open for writing at this point of it. *)
Writing(f) ==
  /\ ~Contains(todo, Open(f, "w"))
  /\ CASE f = "req" -> prog = "generate" /\ Contains(todo, Close("req"))
       [] f = "rsp" -> prog = "generate"
       [] f = "sig" -> prog = "check" /\ Contains(todo, Close("sig"))
       [] OTHER -> FALSE

(* What may have left the buffer: some lines, the last perhaps in part.      *)
Flushed(f) ==
  IF ~Writing(f) \/ Missing(f) THEN {files[f]}
  ELSE {SubSeq(files[f], 1, k) : k \in 0..Len(files[f])}
         \cup {[SubSeq(files[f], 1, k) EXCEPT ![k] = CutLine(@)] : k \in 1..Len(files[f])}

(* The program is killed; what it had in memory does not matter any more.    *)
Kill ==
  /\ prog # "none"
  /\ \E req \in Flushed("req"), rsp \in Flushed("rsp"), sig \in Flushed("sig") :
       files' = [files EXCEPT !["req"] = req, !["rsp"] = rsp, !["sig"] = sig]
  /\ Finish("killed")
  /\ v' = Variables(0) /\ pos' = [f \in FileNames |-> 0]
  /\ UNCHANGED <<drbg, runs>>

(* "Create file msg.txt, sk.txt and pk.txt using data from" the response:    *)
(* message and secret key of record i, public key of record j.  A record is  *)
(* eight lines, behind a blank one and the records before it.                *)
Copy(i, j) ==
  LET of(t, r) ==
        files["rsp"][CHOOSE k \in (8 * r - 6)..(8 * r + 1) : files["rsp"][k].tag = t]
  IN  /\ prog = "none" /\ Len(files["rsp"]) = 8 * Records + 1
      /\ files' = [files EXCEPT !["msg"] = <<of("mlen", i), of("msg", i), of("smlen", i)>>,
                                !["sk"] = <<of("sk", i)>>, !["pk"] = <<of("pk", j)>>]
      /\ ret' = None
      /\ UNCHANGED <<pos, prog, todo, v, drbg, runs>>

Execute ==
  \/ OpenFile \/ CloseFile \/ ReadNumber \/ ReadHex \/ PutLine \/ PutBlank \/ StrayLine
  \/ SetVar \/ RandomBytesInit \/ DrawBytes \/ Keypair \/ Sign \/ VerifySig
  \/ Compare \/ Again \/ Return

Next ==
  \/ \E p \in Programs, g \in Garbage : Start(p, g)
  \/ Execute \/ Kill
  \/ \E i, j \in 1..Records : Copy(i, j)

(* A program that runs is given the processor. *)
Spec == Init /\ [][Next]_vars /\ WF_vars(Execute)
-----------------------------------------------------------------------------
(* Every program has its statements left to execute, or none runs and the    *)
(* last one's result is known.                                               *)
TypeOK ==
  /\ \A f \in FileNames : \A k \in DOMAIN files[f] :
       DOMAIN files[f][k] = {"tag", "val", "len"} /\ files[f][k].len \in Nat
  /\ \A f \in FileNames : pos[f] \in 0..Len(files[f])
  /\ prog \in Programs \cup {"none"}
  /\ prog = "none" => todo = <<>>
  /\ drbg.draws \in Nat /\ runs \in 0..MaxRuns
  /\ ret[2] \in {"none", "success", "file", "data", "crypto", "killed"}

(* What record i says, by the generator alone. *)
Expected(i) ==
  LET rand(s, n) == <<"rand", s, n>>
      seed == rand(Entropy, 2 * i - 2)
      m == rand(Entropy, 2 * i - 1)
      sk == <<"sk", rand(seed, 0)>>
      sm == <<"sm", sk, m, rand(seed, 1), 33 * i>>
  IN  <<Line("count", i - 1, KeyLen), Line("seed", seed, KeyLen),
        Line("mlen", 33 * i, KeyLen), Line("msg", m, 33 * i),
        Line("pk", <<"pk", rand(seed, 0)>>, KeyLen), Line("sk", sk, KeyLen),
        Line("smlen", SigBytes + 33 * i, KeyLen), Line("sm", sm, SigBytes + 33 * i)>>
Complete ==
  files["rsp"] = <<Line("none", <<>>, 0)>> \o FlattenSeq([i \in 1..Records |-> Expected(i)])

(* The answers are known: whenever PQCgenKAT_sign succeeds its response file *)
(* holds the records the fixed entropy determines, whatever earlier runs     *)
(* were killed in the middle of.                                             *)
Reproducible == ret = <<"generate", "success">> => Complete

(* A check that succeeds has used a secret key, a public key and a message   *)
(* that were read in full, and the keys are those of one key pair: public    *)
(* and secret keys copied from different records are never called good.      *)
VerifiedTogether ==
  ret \in {<<"check_v1", "success">>, <<"check", "success">>} =>
    /\ v.sk[1] = "sk" /\ v.pk = <<"pk", v.sk[2]>>
    /\ v.m[1] = "rand" /\ v.m1 = v.m

(* The markers, looked for forwards only, find the lines of one record: a    *)
(* check of a complete response, or of files copied from one record of it,   *)
(* does not fail.                                                            *)
Copied == \E i \in 1..Records :
  /\ Complete
  /\ files["sk"] = <<Expected(i)[6]>> /\ files["pk"] = <<Expected(i)[5]>>
  /\ files["msg"] = <<Expected(i)[3], Expected(i)[4], Expected(i)[7]>>
CompleteAccepted ==
  /\ Complete /\ ret[1] = "check_v1" => ret[2] \in {"success", "killed"}
  /\ ret[1] = "check" /\ Copied => ret[2] \in {"success", "killed"}

(* Every program ends: the loop of PQCgenKAT_sign runs out of count lines.   *)
Ends == prog # "none" ~> prog = "none"
=============================================================================
