--------------------------- MODULE OlafProcessor ----------------------------
(***************************************************************************)
(* The audio worklet of the browser: process() of OlafProcessor            *)
(* (olaf_processor_edit.js) is called for each render quantum of 128       *)
(* samples, resamples it to 16 kHz and calls olaf_fingerprint_match        *)
(* (olaf_wasm.c), which keeps a block of samples between its calls.        *)
(*                                                                         *)
(* Two promises of the constructor are resolved, or not, while process()   *)
(* is already called.  An exception in process() is its last call.  All of *)
(* it runs on the audio thread: nothing happens during a call.             *)
(*                                                                         *)
(* Samples are numbers: the first one the C code is given is 0.            *)
(***************************************************************************)
EXTENDS AudioConfig

CONSTANTS
  Quantum,     \* samples in a render quantum
  Resampled,   \* the lengths the resampler may make of a quantum
  AtNull,      \* what a read of audioBlockSize through NULL may give
  HeapTop,     \* audio[HeapTop] and up are outside of the memory of the module
  MaxSamples   \* bound: samples given to the C code

\* Resampled: 128 samples at 8 kHz are 256 at 16 kHz, a quarter of a block.
\* AtNull: memory below the first variable is zero, but for guard words that
\* are large numbers.  audioStepSize reads as zero.
ASSUME ProcessorAssumption ==
  /\ Block \in Nat \ {0}
  /\ Step \in 1 .. Block
  /\ Silence \notin Nat
  /\ Quantum \in 1 .. Block - 1
  /\ Resampled \subseteq 0 .. Block - 1
  /\ HeapTop \in Nat
  /\ HeapTop > Block
  /\ AtNull \subseteq {0} \cup {n \in Nat : n >= HeapTop}
  /\ MaxSamples \in Nat

VARIABLES
  resample,    \* the sample rate of the audio context is not 16 kHz
  src,         \* the promise of the resampler: pending, ready, failed
  olaf,        \* the promise of the module: pending, ready
  dead,        \* process() threw an exception
  atNull,      \* what is in memory where the size of a block is read
  pc,          \* outside of the C code, or where in it
  given,       \* samples given to the C code in calls that returned
  size,        \* audio_buffer_size of this call
  added,       \* i of the loop over it
  started,     \* state.fftSetup is there
  blockSize,   \* block_size, a local of the C function
  stepSize,    \* step_size, a local of the C function
  audio,       \* state.audio
  pos,         \* state.audio_sample_index
  blockIndex,  \* state.audio_block_index
  window       \* state.fft_in: the block that was analysed last

jsVars == <<resample, src, olaf, dead, atNull>>
callVars == <<given, size, added, blockSize, stepSize>>
ringVars == <<started, audio, pos, blockIndex, window>>
vars == <<jsVars, pc, callVars, ringVars>>

Init ==
  /\ resample \in BOOLEAN
  /\ src = "pending"
  /\ olaf = "pending"
  /\ dead = FALSE
  /\ atNull \in AtNull
  /\ pc = "js"
  /\ given = 0
  /\ size = 0
  /\ added = 0
  /\ started = FALSE
  /\ blockSize = 0
  /\ stepSize = 0
  /\ audio = Zeros
  /\ pos = 0
  /\ blockIndex = 0
  /\ window = Zeros

-----------------------------------------------------------------------------
(* The constructor's promises. *)

SrcCreated ==
  /\ pc = "js"
  /\ src = "pending"
  /\ src' = "ready"
  /\ UNCHANGED <<resample, olaf, dead, atNull, pc, callVars, ringVars>>

\* Logged, and nothing else: this.src stays undefined.
SrcFails ==
  /\ pc = "js"
  /\ src = "pending"
  /\ src' = "failed"
  /\ UNCHANGED <<resample, olaf, dead, atNull, pc, callVars, ringVars>>

\* The module is there, with memory for the samples and a wrapped function.
OlafLoaded ==
  /\ pc = "js"
  /\ olaf = "pending"
  /\ olaf' = "ready"
  /\ UNCHANGED <<resample, src, dead, atNull, pc, callVars, ringVars>>

-----------------------------------------------------------------------------
(* process() *)

\* Until both are there process() returns at once; the resampler is waited for
\* even if it is not needed.
Ready == src = "ready" /\ olaf = "ready"

MayProcess == pc = "js" /\ ~dead /\ Ready

Lengths == IF resample THEN Resampled ELSE {Quantum}

\* The quantum is gone.
ProcessIgnored ==
  /\ pc = "js"
  /\ ~dead
  /\ ~Ready
  /\ UNCHANGED vars

\* A quantum, resampled if need be, is copied to the memory of the module and
\* olaf_fingerprint_match is called.
Process(n) ==
  /\ MayProcess
  /\ n \in Lengths
  /\ given + n <= MaxSamples
  /\ size' = n
  /\ added' = 0
  /\ pc' = "enter"
  /\ UNCHANGED <<jsVars, given, blockSize, stepSize, ringVars>>

\* inputs[0] has no channel when nothing is connected: a TypeError.
ProcessWithoutInput ==
  /\ MayProcess
  /\ dead' = TRUE
  /\ UNCHANGED <<resample, src, olaf, atNull, pc, callVars, ringVars>>

\* The browser does not call process() again after an exception.
NotCalledAgain ==
  /\ dead
  /\ UNCHANGED vars

-----------------------------------------------------------------------------
(* olaf_fingerprint_match *)

\* The sizes are read before the first call has set state.config: what is read
\* then is what happens to be at the start of the memory.
EnterC ==
  /\ pc = "enter"
  /\ pc' = "add"
  /\ blockSize' = IF started THEN Block ELSE atNull
  /\ stepSize' = IF started THEN Step ELSE 0
  /\ started' = TRUE
  /\ IF started THEN UNCHANGED <<audio, pos, blockIndex>>
     ELSE /\ audio' = Zeros
          /\ pos' = atNull
          /\ blockIndex' = 0
  /\ UNCHANGED <<jsVars, given, size, added, window>>

\* Variant of AddSample: the index is compared before it is increased.
MutAddSample ==
  /\ pc = "add"
  /\ added < size
  /\ pos < HeapTop
  /\ audio' = [i \in 0 .. Block - 1 |-> IF i = pos THEN given + added ELSE audio[i]]
  /\ pos' = pos + 1
  /\ added' = added + 1
  /\ pc' = IF pos = blockSize THEN "full" ELSE "add"
  /\ UNCHANGED <<jsVars, given, size, blockSize, stepSize, started, blockIndex, window>>

\* A sample is added; what is beyond the array is overwritten unseen.
AddSample ==
  /\ pc = "add"
  /\ added < size
  /\ pos < HeapTop
  /\ audio' = [i \in 0 .. Block - 1 |-> IF i = pos THEN given + added ELSE audio[i]]
  /\ pos' = pos + 1
  /\ added' = added + 1
  /\ pc' = IF pos + 1 = blockSize THEN "full" ELSE "add"
  /\ UNCHANGED <<jsVars, given, size, blockSize, stepSize, started, blockIndex, window>>

\* A sample written outside of the memory: an exception.
Trap ==
  /\ pc = "add"
  /\ added < size
  /\ pos >= HeapTop
  /\ dead' = TRUE
  /\ pc' = "js"
  /\ UNCHANGED <<resample, src, olaf, atNull, callVars, ringVars>>

Overlap == blockSize - stepSize

\* Variant of Shifted: the block moves by one sample less.
MutShifted ==
  [i \in 0 .. Block - 1 |-> IF i < Overlap /\ i + stepSize > 0 THEN audio[i + stepSize - 1] ELSE audio[i]]

\* What is left for the next block moves to the front.
Shifted == [i \in 0 .. Block - 1 |-> IF i < Overlap THEN audio[i + stepSize] ELSE audio[i]]

\* Variant of ProcessBlock: the next sample goes to the end of the block.
MutProcessBlock ==
  /\ pc = "full"
  /\ window' = audio
  /\ blockIndex' = blockIndex + 1
  /\ audio' = Shifted
  /\ UNCHANGED pos
  /\ pc' = "add"
  /\ UNCHANGED <<jsVars, callVars, started>>

\* A full block is analysed: FingerprintExtractor and FingerprintMatcher are
\* what happens to it, the results go to the page (WorkletPage).
ProcessBlock ==
  /\ pc = "full"
  /\ window' = audio
  /\ blockIndex' = blockIndex + 1
  /\ audio' = Shifted
  /\ pos' = Overlap
  /\ pc' = "add"
  /\ UNCHANGED <<jsVars, callVars, started>>

ReturnFromC ==
  /\ pc = "add"
  /\ added = size
  /\ pc' = "js"
  /\ given' = given + size
  /\ size' = 0
  /\ added' = 0
  /\ UNCHANGED <<jsVars, blockSize, stepSize, ringVars>>

-----------------------------------------------------------------------------

InC == EnterC \/ AddSample \/ Trap \/ ProcessBlock \/ ReturnFromC

Next ==
  \/ SrcCreated
  \/ SrcFails
  \/ OlafLoaded
  \/ ProcessIgnored
  \/ \E n \in Lengths : Process(n)
  \/ ProcessWithoutInput
  \/ NotCalledAgain
  \/ InC

\* The C code runs to its end, promises are settled, and the audio thread
\* renders quanta: the resampler does not keep all of them to itself.
Fairness ==
  /\ WF_vars(InC)
  /\ WF_vars(OlafLoaded)
  /\ WF_vars(SrcCreated \/ SrcFails)
  /\ SF_vars(\E n \in Lengths \ {0} : Process(n))

Spec == Init /\ [][Next]_vars /\ Fairness

-----------------------------------------------------------------------------
(* Types, and the parts of the inductive invariant. *)

TypeOK ==
  /\ resample \in BOOLEAN
  /\ src \in {"pending", "ready", "failed"}
  /\ olaf \in {"pending", "ready"}
  /\ dead \in BOOLEAN
  /\ atNull \in AtNull
  /\ pc \in {"js", "enter", "add", "full"}
  /\ {given, size, added, blockSize, stepSize, pos, blockIndex} \subseteq Nat
  /\ started \in BOOLEAN
  /\ audio \in [0 .. Block - 1 -> Nat \cup {Silence}]
  /\ window \in [0 .. Block - 1 -> Nat \cup {Silence}]

\* The samples the C code has taken.
Heard == given + added

\* In the first call block_size is not the size of a block, and no block is
\* ever full; after it the array is not full between two calls.
InFirstCall == blockSize = atNull /\ stepSize = 0

RingInv ==
  /\ added <= size
  /\ size < Block
  /\ given + size <= MaxSamples
  /\ pc = "enter" => added = 0
  /\ pc = "js" /\ ~dead => size = 0
  /\ ~started => Heard = 0 /\ pos = 0 /\ pc \in {"js", "enter"}
  /\ pc \in {"add", "full"} =>
       \/ blockSize = Block /\ stepSize = Step
       \/ InFirstCall /\ given = 0 /\ pos = atNull + added /\ pc = "add"
  /\ started /\ atNull = 0 => IF pc = "full" THEN pos = Block ELSE pos < Block
  /\ started /\ atNull # 0 =>
       /\ pos = atNull
       /\ Heard = 0
       /\ pc # "full"

\* The samples before pos are the last ones the C code has taken.
ContentInv ==
  started /\ atNull = 0 =>
    /\ Heard >= pos
    /\ \A i \in 0 .. pos - 1 : audio[i] = Heard - pos + i

IInv == TypeOK /\ RingInv /\ ContentInv

-----------------------------------------------------------------------------
(* Properties *)

\* However many samples a quantum is resampled to, and whatever the first call
\* reads, a sample is never put behind the end of state.audio, where it would
\* overwrite something else without anyone noticing (olaf_wasm.c:99).
StaysInArray == (pc = "add" /\ added < size /\ pos < HeapTop) => pos < Block

\* From the first sample that is given to the C code on, no sample is left
\* out, doubled or out of place: blocks are cut as AudioBlocks says, across
\* calls of any length.  The first block has no silence in it, since the first
\* call leaves the index at the beginning of the array.
Blocks == INSTANCE AudioBlocks WITH
  length <- MaxSamples,
  heard <- Heard,
  due <- IF started /\ atNull = 0 THEN Heard + Block - pos ELSE Block,
  window <- window

BlocksSpec == Blocks!Spec

\* Once both promises are kept, blocks are analysed one after the other for as
\* long as there is audio and the microphone is connected: no length of quanta
\* makes the index miss the end of the block (olaf_wasm.c:101), after which the
\* samples would be written ever further up in memory.
AudioGoesOn ==
  \A k \in 0 .. MaxSamples :
    (Ready /\ atNull = 0 /\ blockIndex = k) ~>
      \/ blockIndex > k
      \/ dead /\ size = 0
      \/ \A n \in Lengths \ {0} : given + n > MaxSamples

=============================================================================
