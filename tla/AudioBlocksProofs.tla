------------------------- MODULE AudioBlocksProofs --------------------------
(***************************************************************************)
(* The two hosts of the extractor implement AudioBlocks, for every size of *)
(* block and step: the reader of files, AudioReader, for every file, and   *)
(* the worklet of the browser, OlafProcessor, whatever a quantum is        *)
(* resampled to.                                                           *)
(***************************************************************************)
EXTENDS AudioReader, OlafProcessor, TLAPS

-----------------------------------------------------------------------------
(* The reader of files.  Its loop and its variables have names of their own.   *)

USE ReaderAssumption

LEMMA InitReaderInv == ReaderInit => ReaderInv
  BY DEF ReaderInit, ReaderInv, ReaderTypeOK, ReadInv, FilledInv, WindowInv, Zeros, Sample

\* A read keeps the block equal to the end of what was read and padded.
LEMMA ReadContent ==
  ASSUME ReaderTypeOK, FilledInv, olaf_reader_read,
         total = IF reads <= length THEN reads ELSE length,
         reads <= length
  PROVE  /\ audio_data' = [i \in 0 .. Block - 1 |-> Sample(reads + Step - Block + i)]
         /\ total' = IF reads + Step <= length THEN reads + Step ELSE length
         /\ read' = Step <=> reads + Step <= length
         /\ read' \in 0 .. Step
         /\ total' \in Nat
<1> USE DEF ReaderTypeOK
<1>1. total = reads
  OBVIOUS
<1>2. Available \in 0 .. Step /\ Available = IF reads + Step <= length THEN Step ELSE length - reads
  BY <1>1 DEF Available
<1>3. ASSUME NEW i \in 0 .. Block - 1
      PROVE  Filled[i] = Sample(reads + Step - Block + i)
  <2>1. CASE i < OverlapSize
    <3>1. Filled[i] = audio_data[i + Step]
      BY <2>1 DEF Filled
    <3>2. i + Step \in 0 .. Block - 1 /\ reads - Block + (i + Step) = reads + Step - Block + i
      BY <2>1 DEF OverlapSize
    <3> QED
      BY <3>1, <3>2 DEF FilledInv
  <2>2. CASE i >= OverlapSize /\ i < OverlapSize + Available
    <3>1. Filled[i] = total + i - OverlapSize
      BY <2>2, <1>2 DEF Filled, OverlapSize
    <3>2. reads + Step - Block + i \in 0 .. length - 1 /\ total + i - OverlapSize = reads + Step - Block + i
      BY <2>2, <1>1, <1>2, SMTT(30) DEF OverlapSize
    <3> QED
      BY <3>1, <3>2 DEF Sample
  <2>3. CASE i >= OverlapSize + Available
    <3>1. Filled[i] = Silence
      BY <2>3, <1>2 DEF Filled, OverlapSize
    <3>2. reads + Step - Block + i \notin 0 .. length - 1
      BY <2>3, <1>2, SMTT(30) DEF OverlapSize
    <3> QED
      BY <3>1, <3>2 DEF Sample
  <2> QED
    BY <2>1, <2>2, <2>3, <1>2 DEF OverlapSize
<1>4. audio_data' = Filled /\ Filled = [i \in 0 .. Block - 1 |-> Filled[i]]
  BY DEF olaf_reader_read, Filled
<1> QED
  BY <1>1, <1>2, <1>3, <1>4, SMTT(30) DEF olaf_reader_read

LEMMA SampleType == ASSUME ReaderTypeOK, NEW p \in Int PROVE Sample(p) \in Nat \cup {Silence}
  BY DEF Sample, ReaderTypeOK

LEMMA NextReaderInv == ReaderInv /\ [ReaderNext]_readerVars => ReaderInv'
<1> SUFFICES ASSUME ReaderInv, [ReaderNext]_readerVars PROVE ReaderInv'
  OBVIOUS
<1> USE DEF ReaderInv
<1>1. ASSUME ReadFirst \/ ReadNext PROVE ReaderInv'
  <2>1. reads <= length /\ length' = length /\ reads' = reads + Step /\ olaf_reader_read
    BY <1>1 DEF ReadFirst, ReadNext, olaf_reader_read, ReadInv, ReaderTypeOK
  <2>2. /\ audio_data' = [i \in 0 .. Block - 1 |-> Sample(reads + Step - Block + i)]
        /\ total' = IF reads + Step <= length THEN reads + Step ELSE length
        /\ read' = Step <=> reads + Step <= length
        /\ read' \in 0 .. Step
        /\ total' \in Nat
    BY <2>1, ReadContent DEF ReadInv
  <2>3. ReaderTypeOK'
    <3>1. audio_data' \in [0 .. Block - 1 -> Nat \cup {Silence}]
      BY <2>2, SampleType DEF ReaderTypeOK
    <3> QED
      BY <3>1, <2>1, <2>2, <1>1, SMTT(30) DEF ReaderTypeOK, ReadFirst, ReadNext
  <2>4. ReadInv'
    <3>1. at' \in {"loop", "analyse"} /\ (at' = "analyse" => reads >= Step)
      BY <1>1 DEF ReadFirst, ReadNext, ReadInv
    <3>2. reads \in Nat /\ length \in Nat
      BY DEF ReaderTypeOK
    <3> QED
      BY <2>1, <2>2, <3>1, <3>2 DEF ReadInv
  <2>5. FilledInv'
    <3>1. \A i \in 0 .. Block - 1 : Sample(reads - Block + i)' = Sample(reads + Step - Block + i)
      BY <2>1, SMTT(30) DEF Sample, ReaderTypeOK
    <3>2. FilledInv' <=> audio_data' = [i \in 0 .. Block - 1 |-> Sample(reads - Block + i)']
      BY DEF FilledInv
    <3> QED
      BY <2>2, <3>1, <3>2
  <2>6. WindowInv'
    BY <2>1, <1>1 DEF WindowInv, ReadInv, ReadFirst, ReadNext, ReaderTypeOK
  <2> QED
    BY <2>3, <2>4, <2>5, <2>6
<1>2. ASSUME Analyse PROVE ReaderInv'
  BY <1>2 DEF Analyse, ReaderTypeOK, ReadInv, FilledInv, WindowInv, Sample
<1>3. ASSUME StreamEnds PROVE ReaderInv'
  BY <1>3 DEF StreamEnds, ReaderTypeOK, ReadInv, FilledInv, WindowInv, Sample
<1>4. CASE UNCHANGED readerVars
  BY <1>4 DEF readerVars, ReaderTypeOK, ReadInv, FilledInv, WindowInv, Sample
<1> QED
  BY <1>1, <1>2, <1>3, <1>4 DEF ReaderNext

\* The inductive invariant: what is in the block is the end of what was read.
THEOREM ReaderInvariance == ReaderSpec => []ReaderInv
  BY InitReaderInv, NextReaderInv, PTL DEF ReaderSpec

\* The variables stay in their types.
THEOREM ReaderTypeCorrect == ReaderSpec => []ReaderTypeOK
  BY ReaderInvariance, PTL DEF ReaderInv

\* A file that is at least a step long is analysed up to its last sample; of a
\* shorter one there is no block.
THEOREM LastSampleAnalysed == ReaderSpec => []LastSampleIsAnalysed
<1>1. ReaderInv => LastSampleIsAnalysed
  <2> SUFFICES ASSUME ReaderInv, at = "end"
               PROVE  IF length < Step THEN blocks = 0
                      ELSE \A p \in length - Step .. length - 1 : \E i \in 0 .. Block - 1 : fft_in[i] = p
    BY DEF LastSampleIsAnalysed
  <2> USE DEF ReaderInv, ReaderTypeOK, ReadInv, WindowInv
  <2>1. CASE length < Step
    BY <2>1
  <2>2. ASSUME length >= Step, NEW p \in length - Step .. length - 1
        PROVE  \E i \in 0 .. Block - 1 : fft_in[i] = p
    <3>1. reads > length /\ reads - Step <= length /\ reads # Step
      BY <2>2
    <3>2. p - reads + Block \in 0 .. Block - 1 /\ reads - Block + (p - reads + Block) = p
      BY <2>2, <3>1
    <3>3. fft_in[p - reads + Block] = Sample(p)
      BY <3>1, <3>2
    <3>4. Sample(p) = p
      BY <2>2 DEF Sample
    <3> QED
      BY <3>2, <3>3, <3>4
  <2> QED
    BY <2>1, <2>2
<1> QED
  BY <1>1, ReaderInvariance, PTL

-----------------------------------------------------------------------------

LEMMA InitReaderBlocks == ReaderInit => ReaderBlocks!Init
  BY DEF ReaderInit, ReaderBlocks!Init, Zeros, ReaderBlocks!NoWindow

LEMMA StepReaderBlocks == ReaderInv /\ [ReaderNext]_readerVars => [ReaderBlocks!Next]_ReaderBlocks!vars
<1> SUFFICES ASSUME ReaderInv, [ReaderNext]_readerVars PROVE ReaderBlocks!Next \/ UNCHANGED ReaderBlocks!vars
  OBVIOUS
<1> USE DEF ReaderInv, ReaderTypeOK, ReaderBlocks!vars, ReaderBlocks!Next
<1>1. ASSUME ReadFirst PROVE ReaderBlocks!Hear
  BY <1>1 DEF ReadFirst, olaf_reader_read, ReaderBlocks!Hear, ReadInv
<1>2. ASSUME ReadNext PROVE ReaderBlocks!Hear
  BY <1>2 DEF ReadNext, olaf_reader_read, ReaderBlocks!Hear
<1>3. ASSUME Analyse PROVE ReaderBlocks!Cut
  BY <1>3 DEF Analyse, ReaderBlocks!Cut, FilledInv, ReaderBlocks!WindowUpTo, Sample, ReaderBlocks!Sample
<1>4. ASSUME StreamEnds PROVE UNCHANGED ReaderBlocks!vars
  BY <1>4 DEF StreamEnds
<1>5. CASE UNCHANGED readerVars
  BY <1>5 DEF readerVars
<1> QED
  BY <1>1, <1>2, <1>3, <1>4, <1>5 DEF ReaderNext

\* Reading a file cuts it into blocks as AudioBlocks says (refinement).
THEOREM ReaderImplementsBlocks == ReaderSpec => ReaderBlocksSpec
<1>1. ReaderInit => ReaderBlocks!Init
  BY InitReaderBlocks
<1>2. ReaderInv /\ [ReaderNext]_readerVars => [ReaderBlocks!Next]_ReaderBlocks!vars
  BY StepReaderBlocks
<1> QED
  BY <1>1, <1>2, ReaderInvariance, PTL DEF ReaderSpec, ReaderBlocksSpec, ReaderBlocks!Spec

HIDE ReaderAssumption

-----------------------------------------------------------------------------
(* The worklet of the browser. *)

USE ProcessorAssumption DEF jsVars, callVars, ringVars, vars

LEMMA InitIInv == Init => IInv
<1> SUFFICES ASSUME Init PROVE IInv
  OBVIOUS
<1>1. TypeOK
  <2>1. Zeros \in [0 .. Block - 1 -> Nat \cup {Silence}]
    BY DEF Zeros
  <2>2. {given, size, added, blockSize, stepSize, pos, blockIndex} \subseteq Nat
    BY DEF Init
  <2>3. audio = Zeros /\ window = Zeros
    BY DEF Init
  <2>4. /\ resample \in BOOLEAN
        /\ src \in {"pending", "ready", "failed"}
        /\ olaf \in {"pending", "ready"}
        /\ dead \in BOOLEAN
        /\ atNull \in AtNull
        /\ pc \in {"js", "enter", "add", "full"}
        /\ started \in BOOLEAN
    BY DEF Init
  <2> QED
    BY <2>1, <2>2, <2>3, <2>4 DEF TypeOK
<1>2. RingInv
  BY DEF Init, RingInv, Heard
<1>3. ContentInv
  BY DEF Init, ContentInv
<1> QED
  BY <1>1, <1>2, <1>3 DEF IInv

-----------------------------------------------------------------------------

LEMMA StepJs ==
  ASSUME IInv, SrcCreated \/ SrcFails \/ OlafLoaded \/ ProcessIgnored \/ ProcessWithoutInput \/ NotCalledAgain
  PROVE  IInv'
<1> USE DEF IInv
<1>1. /\ UNCHANGED <<resample, atNull, pc, callVars, ringVars>>
      /\ dead' \in {dead, TRUE}
      /\ src' \in {"pending", "ready", "failed"}
      /\ olaf' \in {"pending", "ready"}
  BY DEF SrcCreated, SrcFails, OlafLoaded, ProcessIgnored, ProcessWithoutInput, NotCalledAgain, TypeOK
<1>2. TypeOK'
  BY <1>1 DEF TypeOK
<1>3. RingInv'
  <2>1. UNCHANGED <<atNull, pc, given, size, added, blockSize, stepSize, started, pos>>
    BY <1>1
  <2>2. dead' = dead \/ dead'
    BY <1>1
  <2> QED
    BY <2>1, <2>2 DEF RingInv, Heard, InFirstCall
<1>4. ContentInv'
  BY <1>1 DEF ContentInv, Heard
<1> QED
  BY <1>2, <1>3, <1>4

LEMMA LengthType == Lengths \subseteq 0 .. Block - 1
  BY DEF Lengths

LEMMA StepProcess ==
  ASSUME IInv, NEW n \in Lengths, Process(n)
  PROVE  IInv'
<1> USE DEF IInv, Process, MayProcess
<1>1. n \in 0 .. Block - 1
  BY LengthType
<1>2. TypeOK'
  BY <1>1 DEF TypeOK
<1>3. RingInv'
  BY <1>1 DEF TypeOK, RingInv, Heard, InFirstCall
<1>4. ContentInv'
  BY <1>1 DEF TypeOK, RingInv, ContentInv, Heard
<1> QED
  BY <1>2, <1>3, <1>4

LEMMA StepEnterC == ASSUME IInv, EnterC PROVE IInv'
<1> USE DEF IInv, EnterC
<1>1. TypeOK'
  BY DEF TypeOK, Zeros
<1>2. RingInv'
  BY DEF TypeOK, RingInv, Heard, InFirstCall
<1>3. ContentInv'
  BY DEF TypeOK, RingInv, ContentInv, Heard
<1> QED
  BY <1>1, <1>2, <1>3

LEMMA StepAddSample == ASSUME IInv, AddSample PROVE IInv'
<1> USE DEF IInv, AddSample
<1>1. atNull = 0 /\ pos < Block
  BY SMTT(30) DEF TypeOK, RingInv, Heard
<1>2. TypeOK'
  BY SMTT(30) DEF TypeOK
<1>3. RingInv'
  BY <1>1, SMTT(30) DEF TypeOK, RingInv, Heard, InFirstCall
<1>4. ContentInv'
  <2>1. pos' = pos + 1 /\ Heard' = Heard + 1 /\ Heard \in Nat /\ Heard >= pos
    <3>1. started
      BY DEF RingInv
    <3>2. Heard >= pos
      BY <1>1, <3>1 DEF ContentInv
    <3>3. given \in Nat /\ added \in Nat /\ given' = given /\ added' = added + 1
      BY DEF TypeOK
    <3>4. Heard \in Nat /\ Heard' = Heard + 1
      BY <3>3 DEF Heard
    <3> QED
      BY <3>2, <3>4
  <2>2. ASSUME NEW i \in 0 .. pos
        PROVE  audio'[i] = Heard - pos + i
    <3>1. CASE i = pos
      BY <1>1, <2>1, <3>1 DEF TypeOK, Heard
    <3>2. CASE i # pos
      <4>1. i \in 0 .. pos - 1 /\ i \in 0 .. Block - 1
        BY <1>1, <2>1, <3>2, SMTT(30) DEF TypeOK
      <4>2. audio'[i] = audio[i]
        BY <3>2, <4>1
      <4>3. started /\ audio[i] = Heard - pos + i
        BY <1>1, <4>1 DEF ContentInv, RingInv
      <4> QED
        BY <4>2, <4>3
    <3> QED
      BY <3>1, <3>2
  <2>3. pos \in Nat /\ started' = started /\ started
    BY DEF TypeOK, RingInv
  <2>4. Heard' - pos' = Heard - pos /\ pos' - 1 = pos /\ Heard' >= pos'
    BY <2>1, <2>3
  <2> QED
    BY <2>2, <2>3, <2>4 DEF ContentInv
<1> QED
  BY <1>2, <1>3, <1>4

LEMMA StepTrap == ASSUME IInv, Trap PROVE IInv'
  BY DEF IInv, TypeOK, RingInv, ContentInv, Heard, InFirstCall, Trap

LEMMA StepProcessBlock == ASSUME IInv, ProcessBlock PROVE IInv'
<1> USE DEF IInv, ProcessBlock
<1>1. atNull = 0 /\ pos = Block /\ blockSize = Block /\ stepSize = Step /\ Overlap = Block - Step
  BY DEF TypeOK, RingInv, Overlap
<1>2. Shifted = [i \in 0 .. Block - 1 |-> IF i < Block - Step THEN audio[i + Step] ELSE audio[i]]
  BY <1>1 DEF Shifted
<1>3. TypeOK'
  BY <1>1, <1>2 DEF TypeOK
<1>4. RingInv'
  BY <1>1 DEF TypeOK, RingInv, Heard, InFirstCall
<1>5. ContentInv'
  <2>1. pos' = Block - Step /\ Heard' = Heard /\ Heard \in Nat /\ started
    BY <1>1 DEF TypeOK, RingInv, Heard
  <2>2. Heard >= Block /\ \A i \in 0 .. Block - 1 : audio[i] = Heard - Block + i
    BY <1>1, <2>1 DEF TypeOK, ContentInv
  <2>3. ASSUME NEW i \in 0 .. Block - Step - 1
        PROVE  audio'[i] = Heard - (Block - Step) + i
    BY <1>2, <2>1, <2>2
  <2> QED
    BY <2>1, <2>2, <2>3 DEF ContentInv
<1> QED
  BY <1>3, <1>4, <1>5

LEMMA StepReturn == ASSUME IInv, ReturnFromC PROVE IInv'
  BY DEF IInv, TypeOK, RingInv, ContentInv, Heard, InFirstCall, ReturnFromC

LEMMA NextIInv == IInv /\ [Next]_vars => IInv'
<1>1. ASSUME IInv, UNCHANGED vars PROVE IInv'
  BY <1>1 DEF IInv, TypeOK, RingInv, ContentInv, Heard, InFirstCall
<1> QED
  BY <1>1, StepJs, StepProcess, StepEnterC, StepAddSample, StepTrap, StepProcessBlock, StepReturn DEF Next, InC

\* The inductive invariant: what is in the array before the index is the end of
\* what the C code was given, and the index is where the calls so far put it.
THEOREM Invariance == Spec => []IInv
  BY InitIInv, NextIInv, PTL DEF Spec

\* The variables stay in their types.
THEOREM TypeCorrect == Spec => []TypeOK
  BY Invariance, PTL DEF IInv

\* Nothing is ever written behind the end of state.audio but what traps.
THEOREM NothingBehindTheArray == Spec => []StaysInArray
<1>1. IInv => StaysInArray
  BY DEF IInv, TypeOK, RingInv, StaysInArray, Heard
<1> QED
  BY <1>1, Invariance, PTL

-----------------------------------------------------------------------------

LEMMA InitBlocks == Init => Blocks!Init
  BY DEF Init, Blocks!Init, Zeros, Blocks!NoWindow, Heard

LEMMA StepBlocks == IInv /\ [Next]_vars => [Blocks!Next]_Blocks!vars
<1> SUFFICES ASSUME IInv, [Next]_vars PROVE Blocks!Next \/ UNCHANGED Blocks!vars
  OBVIOUS
<1> USE DEF IInv, Blocks!vars, Blocks!Next
<1>1. ASSUME AddSample PROVE Blocks!Hear
  <2>1. atNull = 0 /\ pos < Block /\ started
    BY <1>1, SMTT(30) DEF AddSample, TypeOK, RingInv, Heard
  <2> QED
    <3>1. Heard' = Heard + 1 /\ pos' = pos + 1 /\ Heard \in Nat /\ UNCHANGED <<started, atNull, window>>
      BY <1>1, <2>1, SMTT(30) DEF AddSample, TypeOK, Heard
    <3>2. Heard + Block - pos = Heard' + Block - pos' /\ Heard + 1 <= Heard + Block - pos
      <4>1. pos \in Nat
        BY DEF TypeOK
      <4> QED
        BY <2>1, <3>1, <4>1
    <3> QED
      BY <2>1, <3>1, <3>2, SMTT(30) DEF Blocks!Hear, TypeOK
<1>2. ASSUME ProcessBlock PROVE Blocks!Cut
  <2>1. atNull = 0 /\ pos = Block /\ blockSize = Block /\ stepSize = Step /\ started
    BY <1>2 DEF ProcessBlock, TypeOK, RingInv
  <2>2. Heard \in Nat /\ Heard <= MaxSamples
    BY DEF TypeOK, RingInv, Heard
  <2>3. audio = Blocks!WindowUpTo(Heard)
    <3>1. ASSUME NEW i \in 0 .. Block - 1
          PROVE  audio[i] = Heard - Block + i /\ Heard - Block + i \in 0 .. MaxSamples - 1
      BY <2>1, <2>2 DEF ContentInv, TypeOK
    <3> QED
      BY <3>1 DEF Blocks!WindowUpTo, Blocks!Sample, TypeOK
  <2> QED
    BY <1>2, <2>1, <2>2, <2>3 DEF ProcessBlock, Blocks!Cut, Overlap, Heard, TypeOK
<1>3. ASSUME ReturnFromC PROVE UNCHANGED Blocks!vars
  BY <1>3 DEF ReturnFromC, Heard, TypeOK
<1>4. ASSUME EnterC PROVE UNCHANGED Blocks!vars
  BY <1>4 DEF EnterC, Heard, TypeOK, RingInv
<1>5. ASSUME SrcCreated \/ SrcFails \/ OlafLoaded \/ ProcessIgnored \/ ProcessWithoutInput \/ NotCalledAgain \/ Trap
      PROVE  UNCHANGED Blocks!vars
  BY <1>5 DEF SrcCreated, SrcFails, OlafLoaded, ProcessIgnored, ProcessWithoutInput, NotCalledAgain, Trap, Heard
<1>6. ASSUME NEW n \in Lengths, Process(n) PROVE UNCHANGED Blocks!vars
  BY <1>6 DEF Process, MayProcess, Heard, RingInv, TypeOK
<1>7. CASE UNCHANGED vars
  BY <1>7 DEF Heard
<1> QED
  BY <1>1, <1>2, <1>3, <1>4, <1>5, <1>6, <1>7 DEF Next, InC

\* The worklet and its C code cut the samples they are given into blocks as
\* AudioBlocks says (refinement).
THEOREM ImplementsBlocks == Spec => BlocksSpec
<1>1. Init => Blocks!Init
  BY InitBlocks
<1>2. IInv /\ [Next]_vars => [Blocks!Next]_Blocks!vars
  BY StepBlocks
<1> QED
  BY <1>1, <1>2, Invariance, PTL DEF Spec, BlocksSpec, Blocks!Spec

=============================================================================
