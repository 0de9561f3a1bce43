---------------------------- MODULE RandomBytes ----------------------------
(***************************************************************************)
(* randombytes of mine-wots/randombytes.c, from which key generation takes *)
(* its seeds: open the device once, trying again every second, and read in *)
(* chunks until the buffer is full, whatever read returns each time.       *)
(*                                                                         *)
(* The bytes of the device are numbered in the order they are drawn.       *)
(***************************************************************************)
EXTENDS Integers

CONSTANTS
  Chunk,      \* 1048576
  MaxLen,     \* bound on xlen, and the last byte behind the caller's buffers
  MaxCalls    \* bound on the calls

ASSUME BoundsAssumption ==
  Chunk \in Nat \ {0} /\ MaxLen \in Nat /\ MaxCalls \in Nat

VARIABLES
  fd,            \* the static descriptor
  opens,         \* history: how often open succeeded
  xlen, pos,     \* bytes still wanted; where x points in the caller's buffer
  i,             \* what read is asked for
  len, buf,      \* the caller's: the length asked for, the buffer
  base, drawn,   \* history: bytes drawn before the call and so far
  calls, pc

vars == <<fd, opens, xlen, pos, i, len, buf, base, drawn, calls, pc>>

Unwritten == -1

Init ==
  /\ fd = -1 /\ opens = 0
  /\ xlen = 0 /\ pos = 0 /\ i = 0
  /\ len = 0 /\ buf = [k \in 0..MaxLen |-> Unwritten]
  /\ base = 0 /\ drawn = 0
  /\ calls = 0 /\ pc = "idle"

Call(n) ==
  /\ pc = "idle"
  /\ calls < MaxCalls
  /\ calls' = calls + 1
  /\ len' = n /\ xlen' = n /\ pos' = 0
  /\ buf' = [k \in 0..MaxLen |-> Unwritten]
  /\ base' = drawn
  /\ pc' = "open"
  /\ UNCHANGED <<fd, opens, i, drawn>>

(* if (fd == -1). *)
MustOpen == fd = -1

HasOpened ==
  /\ pc = "open" /\ ~MustOpen
  /\ pc' = "loop"
  /\ UNCHANGED <<fd, opens, xlen, pos, i, len, buf, base, drawn, calls>>

OpenWorks ==
  /\ pc = "open" /\ MustOpen
  /\ fd' = 3 /\ opens' = opens + 1
  /\ pc' = "loop"
  /\ UNCHANGED <<xlen, pos, i, len, buf, base, drawn, calls>>

OpenFails ==
  /\ pc = "open" /\ MustOpen
  /\ pc' = "sleepOpen"
  /\ UNCHANGED <<fd, opens, xlen, pos, i, len, buf, base, drawn, calls>>

(* Mutant: whole words only, which never ask for the last odd byte. *)
AskedWords == xlen - (xlen % 2)

Asked == IF xlen < Chunk THEN xlen ELSE Chunk

Ask ==
  /\ pc = "loop" /\ xlen > 0
  /\ i' = Asked
  /\ pc' = "read"
  /\ UNCHANGED <<fd, opens, xlen, pos, len, buf, base, drawn, calls>>

(* Mutants: x is not advanced, or by what was asked for. *)
AdvanceNone(n) == 0
AdvanceAsked(n) == i

(* x += i. *)
Advance(n) == n

(* read puts the next n bytes of the device where x points. *)
ReadWorks(n) ==
  /\ pc = "read"
  /\ buf' = [k \in 0..MaxLen |->
               IF pos <= k /\ k < pos + n THEN drawn + (k - pos) ELSE buf[k]]
  /\ drawn' = drawn + n
  /\ pos' = pos + Advance(n)
  /\ xlen' = xlen - n
  /\ pc' = "loop"
  /\ UNCHANGED <<fd, opens, i, len, base, calls>>

(* read returns 0 or -1: after a second the loop goes on as if nothing had   *)
(* been tried.                                                               *)
ReadFails ==
  /\ pc = "read"
  /\ pc' = "sleepRead"
  /\ UNCHANGED <<fd, opens, xlen, pos, i, len, buf, base, drawn, calls>>

Wake ==
  /\ \/ pc = "sleepOpen" /\ pc' = "open"
     \/ pc = "sleepRead" /\ pc' = "loop"
  /\ UNCHANGED <<fd, opens, xlen, pos, i, len, buf, base, drawn, calls>>

Return ==
  /\ pc = "loop" /\ xlen = 0
  /\ pc' = "idle"
  /\ UNCHANGED <<fd, opens, xlen, pos, i, len, buf, base, drawn, calls>>

Next ==
  \/ \E n \in 0..MaxLen : Call(n)
  \/ HasOpened \/ OpenWorks \/ OpenFails
  \/ Ask
  \/ \E n \in 1..i : ReadWorks(n)
  \/ ReadFails \/ Wake \/ Return

(* The process keeps running, and a device that is tried again and again     *)
(* answers at last: the loops have no other way out.                         *)
Fairness ==
  /\ WF_vars(HasOpened \/ Ask \/ Wake \/ Return)
  /\ WF_vars(OpenWorks \/ OpenFails)
  /\ WF_vars(ReadFails \/ \E n \in 1..i : ReadWorks(n))
  /\ SF_vars(OpenWorks)
  /\ SF_vars(\E n \in 1..i : ReadWorks(n))

Spec == Init /\ [][Next]_vars /\ Fairness
-----------------------------------------------------------------------------
(* Type correctness: no read asks for more than a chunk or than is wanted. *)
TypeOK ==
  /\ fd \in {-1, 3} /\ opens \in Nat
  /\ len \in 0..MaxLen /\ xlen \in 0..len /\ pos \in 0..len
  /\ i \in 0..Chunk /\ (pc = "read" => i \in 1..xlen)
  /\ buf \in [0..MaxLen -> Nat \cup {Unwritten}]
  /\ base \in Nat /\ drawn \in Nat
  /\ calls \in 0..MaxCalls
  /\ pc \in {"idle", "open", "sleepOpen", "loop", "read", "sleepRead"}

(* When randombytes returns, the buffer holds the bytes drawn since the      *)
(* call, in their order and each once, and at no time is a byte behind the   *)
(* end written (randombytes.c:24-40).                                        *)
Filled ==
  /\ pc = "idle" =>
       /\ drawn = base + len
       /\ \A k \in 0..(len - 1) : buf[k] = base + k
  /\ \A k \in len..MaxLen : buf[k] = Unwritten

(* A byte that has been given is not written again, by a later read either.  *)
WrittenOnce ==
  [][pc # "idle" => \A k \in 0..MaxLen : buf[k] # Unwritten => buf'[k] = buf[k]]_vars

(* The device is opened once in the life of the process, however often and   *)
(* wherever open or read fails.                                              *)
OpenedOnce == opens <= 1 /\ (fd = -1 <=> opens = 0)

(* Every call returns: a short or failed read, or a device not there yet,    *)
(* delays it but does not stop it.                                           *)
Returns == pc # "idle" ~> pc = "idle"
=============================================================================
