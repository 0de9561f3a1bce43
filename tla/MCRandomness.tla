---------------------------- MODULE MCRandomness ----------------------------
(***************************************************************************)
(* Where the bytes come from that keys are made of: randombytes of         *)
(* mine-wots, the generator and the seed expander of sphincsp, and the     *)
(* known-answer programs that draw from the generator.  No state is shared *)
(* by programs that use different ones, so a behaviour is one of the four. *)
(***************************************************************************)
EXTENDS RandomBytes

CONSTANTS
  DrbgBlock, Seeds, Strings, NULL, DrbgLengths, MaxInits, MaxDraws,  \* Drbg
  XofBlock, Radix, CtrBytes, Lengths, Requests,                      \* SeedExpander
  Records, SigBytes, Garbage, Programs, MaxRuns                      \* Kat

VARIABLES
  part,
  key, v, seed, encrypted, asked, given, transcripts, inits, draws,
  maxlen, lengthRemaining, ctr, buffer, bufferPos, wanted, x, taken, answered, answer, at,
  files, lines, prog, todo, locals, drbg, ret, runs

generatorVars == <<key, v, seed, encrypted, asked, given, transcripts, inits, draws>>
expanderVars == <<maxlen, lengthRemaining, ctr, buffer, bufferPos, wanted, x, taken,
                  answered, answer, at>>
answersVars == <<files, lines, prog, todo, locals, drbg, ret, runs>>

Generator == INSTANCE Drbg WITH
  Block <- DrbgBlock, Lengths <- DrbgLengths, MaxCalls <- MaxDraws, calls <- draws

Expander == INSTANCE SeedExpander WITH Block <- XofBlock, xlen <- wanted, pc <- at

Answers == INSTANCE Kat WITH pos <- lines, v <- locals

ASSUME GeneratorAssumption == Generator!BoundsAssumption
ASSUME ExpanderAssumption == Expander!SizesAssumption
ASSUME AnswersAssumption == Answers!SizesAssumption

(* Drbg: blocks of 4 bytes; lengths of no block, part of one, one, and parts *)
(* of two and three.  Two seeds, each with and without a string, and three   *)
(* calls after up to two initialisations.                                    *)
MCStrings == {NULL, "p"}

(* SeedExpander: blocks of 2 bytes and counters of 3 bytes of radix 2, so    *)
(* that 7 bytes can be asked for and the carry runs through two bytes; and   *)
(* maxlen 8, the first one that is refused.                                  *)
MCLengths == 0..8
-----------------------------------------------------------------------------
InitParts ==
  /\ part \in {"device", "generator", "expander", "answers"}
  /\ Init /\ Generator!Init /\ Expander!Init /\ Answers!Init

DeviceStep(A) ==
  part = "device" /\ A /\ UNCHANGED <<part, generatorVars, expanderVars, answersVars>>
GeneratorStep(A) ==
  part = "generator" /\ A /\ UNCHANGED <<part, vars, expanderVars, answersVars>>
ExpanderStep(A) ==
  part = "expander" /\ A /\ UNCHANGED <<part, vars, generatorVars, answersVars>>
AnswersStep(A) ==
  part = "answers" /\ A /\ UNCHANGED <<part, vars, generatorVars, expanderVars>>

NextParts ==
  \/ \E n \in 0..MaxLen : DeviceStep(Call(n))
  \/ DeviceStep(HasOpened)
  \/ DeviceStep(OpenWorks)
  \/ DeviceStep(OpenFails)
  \/ DeviceStep(Ask)
  \/ \E n \in 1..i : DeviceStep(ReadWorks(n))
  \/ DeviceStep(ReadFails)
  \/ DeviceStep(Wake)
  \/ DeviceStep(Return)
  \/ \E e \in Seeds, s \in Strings : GeneratorStep(Generator!RandomBytesInit(e, s))
  \/ \E n \in DrbgLengths : GeneratorStep(Generator!RandomBytes(n))
  \/ \E n \in Lengths : ExpanderStep(Expander!SeedExpanderInit(n))
  \/ ExpanderStep(Expander!BadOutbuf)
  \/ \E n \in Requests : ExpanderStep(Expander!Refuse(n))
  \/ \E n \in Requests : ExpanderStep(Expander!Request(n))
  \/ ExpanderStep(Expander!TakeLast)
  \/ ExpanderStep(Expander!NextBlock)
  \/ ExpanderStep(Expander!ReturnAtOnce)
  \/ \E p \in Programs, g \in Garbage : AnswersStep(Answers!Start(p, g))
  \/ AnswersStep(Answers!OpenFile)
  \/ AnswersStep(Answers!CloseFile)
  \/ AnswersStep(Answers!ReadNumber)
  \/ AnswersStep(Answers!ReadHex)
  \/ AnswersStep(Answers!PutLine)
  \/ AnswersStep(Answers!PutBlank)
  \/ AnswersStep(Answers!StrayLine)
  \/ AnswersStep(Answers!SetVar)
  \/ AnswersStep(Answers!RandomBytesInit)
  \/ AnswersStep(Answers!DrawBytes)
  \/ AnswersStep(Answers!Keypair)
  \/ AnswersStep(Answers!Sign)
  \/ AnswersStep(Answers!VerifySig)
  \/ AnswersStep(Answers!Compare)
  \/ AnswersStep(Answers!Again)
  \/ AnswersStep(Answers!Return)
  \/ AnswersStep(Answers!Kill)
  \/ \E r, s \in 1..Records : AnswersStep(Answers!Copy(r, s))

(* The fairness of randombytes, and of a program that is running. *)
SpecParts ==
  /\ InitParts
  /\ [][NextParts]_<<part, vars, generatorVars, expanderVars, answersVars>>
  /\ Fairness
  /\ WF_answersVars(Answers!Execute)
-----------------------------------------------------------------------------
(* No block of AES is used twice, by the generator between two seedings      *)
(* (rng.c:162-206) or by the expander in all of its stream, whose length is  *)
(* accounted for to the byte (rng.c:31-97).                                  *)
BlocksFresh ==
  /\ Generator!TypeOK /\ Generator!BlocksFresh
  /\ Expander!TypeOK /\ Expander!BlocksFresh /\ Expander!LengthAccounted

(* What the generator holds after a call yields none of the bytes it gave,   *)
(* and nothing from before the seeding has come into them (rng.c:138-213).   *)
KeyErased == Generator!KeyErased /\ Generator!Reproducible

(* The requests to the seed expander read one stream: see Xof                *)
(* (rng.c:60-102).                                                           *)
ImplementsXof == Expander!ImplementsXof

(* A response file that is complete holds the known answers, a check calls   *)
(* it good, and no check calls keys of two records good, with programs       *)
(* killed anywhere in between (PQCgenKAT_sign.c, PQCgenKAT_sign_check.c).    *)
VerifiedTogether ==
  /\ Answers!TypeOK /\ Answers!Reproducible
  /\ Answers!CompleteAccepted /\ Answers!VerifiedTogether

(* Every program that is started ends: its file readers come to a marker or  *)
(* to the end of the file, and the loops over the records run out of them    *)
(* (PQCgenKAT_sign.c:82-201, PQCgenKAT_sign_check.c:49-237).                 *)
Ends == prog # "none" ~> prog = "none"
=============================================================================
