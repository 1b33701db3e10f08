---------------------------- MODULE AudioConfig -----------------------------
(***************************************************************************)
(* The part of the configuration that the two hosts of the extractor,      *)
(* AudioReader and OlafProcessor, have in common.                          *)
(***************************************************************************)
EXTENDS Integers

CONSTANTS
  Block,     \* audioBlockSize, which is also what fits in inputAudioPtr
  Step,      \* audioStepSize
  Silence    \* a sample of zero, from calloc or the padding at the end

\* A block as calloc makes it.
Zeros == [i \in 0 .. Block - 1 |-> Silence]

=============================================================================
