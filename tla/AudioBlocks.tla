---------------------------- MODULE AudioBlocks -----------------------------
(***************************************************************************)
(* What a host owes the extractor: its samples, in order, cut into blocks  *)
(* of which each starts Step samples after the one before.  Samples are    *)
(* numbered from 0; what is before the first and after the last one is     *)
(* silence.  AudioReader (the command line) and OlafProcessor (the         *)
(* browser) implement this specification.                                  *)
(***************************************************************************)
EXTENDS Integers

CONSTANTS
  Block,     \* audioBlockSize
  Step,      \* audioStepSize
  Silence    \* a sample that is zero because there is no audio

VARIABLES
  length,    \* the samples there are in all
  heard,     \* the samples the host has taken, silence at the end included
  due,       \* the next block is full at this many samples
  window     \* the last block that was cut

vars == <<length, heard, due, window>>

Sample(p) == IF p \in 0 .. length - 1 THEN p ELSE Silence

\* The block that ends before sample number end.
WindowUpTo(end) == [i \in 0 .. Block - 1 |-> Sample(end - Block + i)]

NoWindow == [i \in 0 .. Block - 1 |-> Silence]

\* The first block may begin with silence, but skips no sample.
Init ==
  /\ length \in Nat
  /\ heard = 0
  /\ due \in 1 .. Block
  /\ window = NoWindow

\* Samples are taken up to the end of a block, but not beyond.
Hear ==
  /\ heard < due
  /\ heard' \in (heard + 1) .. due
  /\ UNCHANGED <<length, due, window>>

\* A block that is full is analysed.
Cut ==
  /\ heard = due
  /\ window' = WindowUpTo(due)
  /\ due' = due + Step
  /\ UNCHANGED <<length, heard>>

Next == Hear \/ Cut

Spec == Init /\ [][Next]_vars

=============================================================================
