---------------------------- MODULE AudioReader -----------------------------
(***************************************************************************)
(* olaf_reader_read and the loop of olaf_stream_processor_process around   *)
(* it: a file of samples is read a step at a time into a block, which is   *)
(* analysed after every read but the first.                                *)
(*                                                                         *)
(* Samples are numbers: the first one of the file is 0.                    *)
(***************************************************************************)
EXTENDS AudioConfig

CONSTANT
  MaxLength   \* bound: samples in the file

\* The first two reads must fit in a block.
ASSUME ReaderAssumption ==
  /\ Step \in Nat \ {0}
  /\ Block \in Nat
  /\ 2 * Step <= Block
  /\ Silence \notin Nat
  /\ MaxLength \in Nat

VARIABLES
  length,     \* samples in the file
  at,         \* where the loop is
  total,      \* total_samples_read
  reads,      \* calls of olaf_reader_read that returned, in samples
  read,       \* samples_read: what the last call returned
  audio_data, \* the block, as it was read last
  fft_in,     \* the block that was analysed last
  blocks      \* audioBlockIndex

readerVars == <<length, at, total, reads, read, audio_data, fft_in, blocks>>

ReaderInit ==
  /\ length \in 0 .. MaxLength
  /\ at = "prime"
  /\ total = 0
  /\ reads = 0
  /\ read = 0
  /\ audio_data = Zeros
  /\ fft_in = Zeros
  /\ blocks = 0

-----------------------------------------------------------------------------

OverlapSize == Block - Step

\* What fread finds: a step, or what is left of the file.
Available == IF length - total < Step THEN length - total ELSE Step

\* Variant of Filled: the end of the block is not padded.
MutFilled ==
  [i \in 0 .. Block - 1 |->
     IF i < OverlapSize THEN audio_data[i + Step]
     ELSE IF i < OverlapSize + Available THEN total + i - OverlapSize
     ELSE audio_data[i]]

\* The block after a read: shifted by a step, then the samples of the file,
\* and zeros when there are not enough of them.
Filled ==
  [i \in 0 .. Block - 1 |->
     IF i < OverlapSize THEN audio_data[i + Step]
     ELSE IF i < OverlapSize + Available THEN total + i - OverlapSize
     ELSE Silence]

olaf_reader_read ==
  /\ audio_data' = Filled
  /\ read' = Available
  /\ total' = total + Available
  /\ reads' = reads + Step
  /\ UNCHANGED length

\* The read before the loop.
ReadFirst ==
  /\ at = "prime"
  /\ olaf_reader_read
  /\ at' = "loop"
  /\ UNCHANGED <<fft_in, blocks>>

\* The loop goes on for as long as the last read was a whole step.
ReadNext ==
  /\ at = "loop"
  /\ read = Step
  /\ olaf_reader_read
  /\ at' = "analyse"
  /\ UNCHANGED <<fft_in, blocks>>

\* What the extractor does with the block is in FingerprintExtractor.
Analyse ==
  /\ at = "analyse"
  /\ fft_in' = audio_data
  /\ blocks' = blocks + 1
  /\ at' = "loop"
  /\ UNCHANGED <<length, total, reads, read, audio_data>>

\* Variant of StreamEnds: the loop ends at the end of the file.
MutStreamEnds ==
  /\ at = "loop"
  /\ read # Step \/ total = length
  /\ at' = "end"
  /\ UNCHANGED <<length, total, reads, read, audio_data, fft_in, blocks>>

StreamEnds ==
  /\ at = "loop"
  /\ read # Step
  /\ at' = "end"
  /\ UNCHANGED <<length, total, reads, read, audio_data, fft_in, blocks>>

ReaderNext == ReadFirst \/ ReadNext \/ Analyse \/ StreamEnds

\* One thread, which never waits.
ReaderSpec == ReaderInit /\ [][ReaderNext]_readerVars /\ WF_readerVars(ReaderNext)

-----------------------------------------------------------------------------
(* Types and the inductive invariant. *)

ReaderTypeOK ==
  /\ length \in 0 .. MaxLength
  /\ at \in {"prime", "loop", "analyse", "end"}
  /\ {total, reads, blocks} \subseteq Nat
  /\ read \in 0 .. Step
  /\ audio_data \in [0 .. Block - 1 -> Nat \cup {Silence}]
  /\ fft_in \in [0 .. Block - 1 -> Nat \cup {Silence}]

Sample(p) == IF p \in 0 .. length - 1 THEN p ELSE Silence

\* What was read, and the padding, end at reads.
ReadInv ==
  /\ total = IF reads <= length THEN reads ELSE length
  /\ at = "prime" => reads = 0
  /\ at # "prime" =>
       /\ reads >= Step
       /\ read = Step <=> reads <= length
       /\ reads - Step <= length
  /\ at = "analyse" => reads >= 2 * Step

FilledInv == audio_data = [i \in 0 .. Block - 1 |-> Sample(reads - Block + i)]

\* The block that was analysed last ends where the last read does.
WindowInv ==
  /\ at = "prime" => blocks = 0
  /\ at # "prime" /\ reads # Step => reads >= 2 * Step /\ length >= Step
  /\ at \in {"loop", "end"} =>
       IF reads = Step THEN blocks = 0 ELSE fft_in = [i \in 0 .. Block - 1 |-> Sample(reads - Block + i)]
  /\ at = "end" => reads > length

ReaderInv == ReaderTypeOK /\ ReadInv /\ FilledInv /\ WindowInv

-----------------------------------------------------------------------------
(* Properties *)

\* Blocks are cut as AudioBlocks says: no sample is left out or doubled, and
\* the block at the end of the file has silence, not old samples, after it.
ReaderBlocks == INSTANCE AudioBlocks WITH
  heard <- reads,
  due <- IF at = "analyse" THEN reads ELSE IF at = "prime" THEN 2 * Step ELSE reads + Step,
  window <- fft_in

ReaderBlocksSpec == ReaderBlocks!Spec

\* When the stream ends the last block that was analysed has the last sample
\* of the file in it, unless the file is shorter than a step: then there is no
\* block at all (olaf_stream_processor.c:137).
LastSampleIsAnalysed ==
  at = "end" =>
    IF length < Step THEN blocks = 0
    ELSE \A p \in length - Step .. length - 1 : \E i \in 0 .. Block - 1 : fft_in[i] = p

\* Reading comes to an end.
Terminates == <>(at = "end")

=============================================================================
