-------------------------------- MODULE Xof --------------------------------
(***************************************************************************)
(* What a seed expander promises: its caller reads one stream of bytes,    *)
(* however the requests cut it, and a request is either answered in full   *)
(* or refused and then costs nothing.                                      *)
(***************************************************************************)
EXTENDS Integers, Sequences

CONSTANTS
  Stream(_),   \* byte number k of the stream
  Requests     \* the lengths asked for

VARIABLES
  given,       \* bytes given so far
  answer       \* what the last request yielded

vars == <<given, answer>>

Init == given = 0 /\ answer = <<>>

Give(n) ==
  /\ answer' = [k \in 1..n |-> Stream(given + k - 1)]
  /\ given' = given + n

Refuse == answer' = <<>> /\ given' = given

Next == (\E n \in Requests : Give(n)) \/ Refuse

Spec == Init /\ [][Next]_vars
=============================================================================
