# Olaf: specifications, model checking and proofs

Olaf is an acoustic fingerprinting system: audio goes in, fingerprints come out, and these are stored
in an index or looked up in it. This folder holds TLA+ models of its core, TLC configurations that
check them on small instances, and proofs, checked by TLAPS, of what holds for every instance.

Paths below are those of the repository (`src/` holds the C library, `cli/` the command line program in
Zig and its bridge to C). `PROJECT.json` gives the lines behind every definition.

```
tlc -workers 2 -config MCCache.cfg MCCachePipeline.tla     # any .cfg, with its MC module
tlapm CachePipelineProofs.tla                              # any *Proofs.tla
```

## 1. The system

### 1.1 Components

| component | state it keeps | operations | what is hard about it | what makes it correct |
|---|---|---|---|---|
| **Fingerprint extraction** `olaf_stream_processor.c`, `olaf_ep_extractor.c`, `olaf_fp_extractor.c` | one array of event points shared by two extractors, its fill index, an array of fingerprints, the block counter | per audio block: find maxima, append event points; when there are enough: scan with three nested loops, emit fingerprints, mark, sort (unstable `qsort`), find the new end; once more at the end of the stream | a long sequence of scans on one array; three limits that cut loops short; loops that break on values they change | the array stays usable by both; no point is doubled, or lost between scans; arrays do not overflow; loops end |
| **Index and its writers** `olaf_db.c`, `olaf_fp_db_writer.c`, `olaf_runner.c`, `olaf_cli_threading.zig`, `store`, `delete` | `olaf_fingerprints` and `olaf_resource_map` in LMDB, a transaction and a buffer per worker, a lock per process, LMDB's lock, the queue of files | store a file, delete a file, by pools of threads in several processes | interleavings, two locks in order, kills, a full map, files that fail, a fixed buffer | a file is in the index as a whole or not at all; one environment per process; every run ends; a pool stores what can be stored |
| **Matcher** `olaf_fp_matcher.c`, `olaf_db_find`, the result filter of `olaf_cli_bridge.c` | a hash table of tallies per file and time difference, the result array of a lookup, the time of the last report | look up a range of hashes, tally hits, age, rank, report, also during a stream | hits out of order, negative time differences, a table in hash order, ageing | lookups are complete, tallies exact, the best are reported, only old ones are forgotten |
| **Cache files** `cache`, `store_cached`, `olaf_fp_file_writer.c`, `olaf_fp_db_writer_cache.c` | a folder of `.tdb` and `.meta` files, raw audio under temporary names, the index | many threads write cache files, one process stores them | two commands on one folder at once, kills, partial files, name clashes, a missing database | a stored file is whole and made from its own audio; what is complete is stored |
| **Audio reader** `olaf_reader_stream.c` and the loop of `olaf_stream_processor.c` | a block of samples, how many were read | read a step, pad the end | the last read is short, or empty | every sample is analysed, none twice; silence after the end |
| **Browser: worklet and C code** `wasm/js/olaf_processor_edit.js`, `olaf_wasm.c` | a ring of samples between calls, two promises of the constructor, the state of the C module | `process()` per quantum, `olaf_fingerprint_match` per call | quanta of any length after resampling; sizes read through NULL in the first call; calls before and after the promises | the same blocks as on the command line; nothing is written behind the array; the audio goes on |
| **Browser: pages** `wasm/basic.html`, `resample.html`, `resample_processor.js` | one button, one audio context, the match on display, a chain of animation frames | start and stop, messages from the worklet | callbacks of promises use a variable that may have changed; two starts at once | the microphone is off when the page says so; shown matches are those of this microphone; the display comes to rest |
| **Index in memory** `olaf_db_mem.c`, `olaf_fp_ref_mem.h`, `olaf_fp_db_writer_mem.c` | a sorted constant array of packed fingerprints | lookup by binary search and two walks | comparison cut to an int, an unsigned loop to zero, a range that wraps, a length that counts what was left out | a lookup returns the entries of its range, each once, and ends |
| **Readers beside writers** `olaf_db_new(.., true)`, `mdb.c` | the snapshots of read-only environments opened with `MDB_NOLOCK`, pages in use and free | open, read, close, while others commit or are killed | LMDB cannot see these readers | a query does not read pages that were reused; a kill leaves the committed tree as it was |
| **Max filters** `olaf_max_filter_*.c`, `olaf_deque.c` | a window of values | the maxima of a spectrum in a perceptual neighbourhood | four implementations of one definition | they agree |
| **FFT, hashes, configuration** `olaf_fft.c`, `olaf_fp_extractor_hash`, `olaf_db_identifier_id`, `olaf_config.c`, `olaf_cli_config.zig` | tables, constants | pure functions | numeric detail | |
| **Other commands** `query`, `dedup`, `stats`, `clear`, `config`, `to_raw`, `to_wav` | what is on the command line | pools of threads for query and dedup, conversion | one file of many fails | every file gets an answer |
| **ESP32 and Python** `ESP32/`, `python-wrapper/` | a ring of samples; the output of a process | the same extractor and matcher, sample by sample; starts the program | | |
| **Vendored** `mdb.c`, `midl.c`, `hash-table.c`, `queue.c`, `pffft.c`, `olaf_window.h` | | | | relied on, not checked; what the code needs of the pages of LMDB is in `SnapshotReaders` |

### 1.2 How they interact

* A **stream processor** belongs to one audio file. It calls the extractors for each block and hands each
  batch of fingerprints to one consumer, which depends on the mode: the matcher (query), the database
  writer (store, delete) or the file writer (print, cache). Everything in one stream is a sequence of calls
  in one thread; the extractors share their array by pointer.
* A **command** with `--threads n` runs a pool: `min(n, files)` threads and the main thread, which helps
  while it waits. Every worker has a runner, a stream processor and, for store, an LMDB environment of
  its own. Workers share the queue, the list of errors, the process-wide writer lock, the temporary folder
  and whatever is on disk.
* **Processes** share the database folder (LMDB's lock file lets one of them write) and the cache folder,
  for which there is no lock at all.
* In the **browser** the page makes an audio context, whose thread calls the worklet, which calls the C module. Results
  go back through a callback, a variable of the module and a port, to whatever the page is doing by then.
* **Readers** (query, dedup, the duplicate check of store_cached) open the database with `MDB_NOLOCK`: they share its
  pages with writers, but not LMDB's table of readers.
* Errors of LMDB end the process (`exit(-42)` in `e()` of `olaf_db.c`), with all of its threads.

## 2. The modules

```
FingerprintExtractor <- MCFingerprintExtractor          FingerprintMatcher <- MCFingerprintMatcher
        ^------------- FingerprintExtractorProofs               ^------------ FingerprintMatcherProofs

OlafIndex  (abstract: a database of files; proofs in CachePipelineProofs)
    ^ implemented by
    |-- CachePipeline  <- MCCachePipeline, CachePipelineProofs
    |-- StoreThreads   <- MCStoreThreads,  StoreThreadsProofs

AudioConfig (sizes of blocks and steps)
    ^
AudioBlocks  (abstract: samples cut into blocks)
    ^ implemented by
    |-- AudioReader    <- MCAudioReader   \
    |-- OlafProcessor  <- MCOlafProcessor  > AudioBlocksProofs

WorkletPage     <- MCWorkletPage,     WorkletPageProofs
SnapshotReaders <- MCSnapshotReaders, SnapshotReadersProofs
MemoryIndex     <- MCMemoryIndex,     MemoryIndexProofs
```

Batches tie the modules together: `FingerprintExtractor` produces batches of at most `maxFingerprints`
(`BatchFits`) with the times `OrderInv` of the matcher asks for; `StoreThreads`, `FingerprintMatcher` and
`CachePipeline` consume them as constants (`Audio`, `Streams`). Both hosts of the extractor are shown to cut the audio
as `AudioBlocks` says, so a block of `FingerprintExtractor` means the same on the command line and in the browser.
What `StoreThreads` takes for granted, that an open transaction is not in the database before its commit, whatever is
killed, is `CommittedIsIntact` of `SnapshotReaders`.

Every module also has a few operators called "Variant of ..." just before the one they vary: the same
operation with a plausible slip in it. They are not part of any specification. For each property of the
passing runs there is a variant that breaks it (`mutants` in `PROJECT.json`), which is how we know that the
property depends on the code.

### 2.1 FingerprintExtractor

The loop of `olaf_stream_processor_process` with both extractors. `points` and `epIndex` are the shared
array; `i`, `j`, `k` the nested loops, each iteration an action (`FirstPoint`, `SecondPointStops`,
`SecondPointSkipped`, `PairEmitted`, `SecondPointAccepted`, `ThirdPointStops`, `ThirdPointSkipped`,
`TripleEmitted`); `PrepareEventPoints` is all that follows the loops: marking, sorting, the search for the
first marked slot. `Orders` gives every order `qsort` may leave equal times in. Which bins are maxima in a
block is a choice (`ExtractEventPoint`), so the model covers every audio signal and every max filter.
Magnitudes are left out: they do not decide anything after the peak is found.

* `LiveSlotsSortedThenMarked`, `PointsDistinct`: the array stays usable, and no point is in it twice.
* `ScanAssertions`: the four `assert`s on times.
* `BatchFits`: `fingerprints[]` is not overrun, batches are not counted twice.
* `BatchHasNoDoubles`: no fingerprint is twice in one batch. From one batch to the next it may be: a point that survives
  a scan is combined with the same partners again.
* `AgedPointsWereCombined`: wherever scans fall in the stream, a point is given up for its age only after it was combined
  with all it could be combined with of what is in the array, and when no later block can bring it a partner. Only where
  no limit cut the scan short (`NoLimitReached`), and only for live partners: a point that an earlier scan dropped for its
  usages is not there any more, whoever might have used it.
* `NoEventPointIgnored`: the size of the array has no effect when it has room for the points of the last `maxTimeDistance`
  blocks, or for those below the threshold if these are more, and for one block more (`ArrayIsLargeEnough`). The shipped
  configuration (60 slots, 33 blocks) does not promise that for every audio signal.
* `Terminates`: the stream comes to an end.

### 2.2 OlafIndex and StoreThreads

`OlafIndex` says what a database should be: `StoreFile(f)` and `DeleteFile(f)` change entries and meta data
of a file in one step. `StoredIsComplete` and `NoOrphans` are its invariants.

`StoreThreads` is what is there: processes with workers that take a file, convert it, wait for the writer
lock of the process, open an environment, begin a transaction (waiting for LMDB's lock), write batch
after batch through a buffer that is flushed past a threshold, write the meta data, commit, close, unlock.
A map that is full poisons the transaction, as in `mdb.c`, and the process ends at the next result that is
looked at. A kill is possible in every state.

* `IndexSpec`: all of that implements `OlafIndex`, with the committed state as the abstract state.
* `OneEnvironmentPerProcess`: LMDB must not be opened twice for writing in a process; the claim of the comment
  above `olaf_db_writer_lock`.
* `BufferHoldsBatch`: `keys[]` and `values[]` are not overrun, which nothing in the code tests. `StoreAssumption` has
  `Threshold + MaxBatch <= BufferSize`, as shipped (3276 + 300 <= 4096); a configuration with a `maxFingerprints` above 820
  is not covered.
* `NoOrphans`, `EndedPoolStoredTheRest`, `Terminates`: nothing is left of a deleted file; a pool stores the rest
  when one file fails; no process hangs on the locks.

The run has three processes on one database: a pool that stores `f4` (which cannot be converted), `f1` and `f2`, a
`delete` of `f1` before, while or after it is stored, and a store of `f3` (which cannot be read) and of `f1` once more.
Their numbers are unique. For files that share a number there are the theorems `ImplementsIndex` and `StoredFilesAreWhole`.

### 2.3 FingerprintMatcher

A query against an index that does not change. `SetRange`, `ExamineEntry`, `FindEnds` are the cursor loop of
`olaf_db_find`, and `ExamineNoEntry` its odd round after a search that found nothing; `Tally` is one hit; `RankMatch(k)`
one step of the iteration over the hash table, in any order; `Report` what is printed after the filters;
`Forget` the removal of old matches. `hits` is a history variable: all hits of each match.

* `LookupIsComplete`: the entries of the range, each once, or the first `MaxDBCollisions` of them if there are more;
  nothing if the index has none at or above the range.
* `TallyIsExact`: count, first, last and latest of a match agree with its hits in whatever order these came.
* `QueryTimesAreClose`: reported query times are less than four blocks (the shift by two) off, below zero too.
* `BestAreReported`: no match that is left out is better than one that is reported.
* `ForgottenWereOld`: an action property: only what was not hit for `keepMatchesFor`, less the overlap of
  fingerprints, is removed.
* `Terminates`: a query comes to its last report.

### 2.4 CachePipeline

`cache` and `store_cached`, as two commands that run side by side, one after the other, again, and are killed
anywhere. It extends `OlafIndex` for the database. `rows`, `path`, `present` are the cache folder: the lines of
`<i>.tdb`, `path=` of `<i>.meta`, and whether the first exists. `raw`, `whole` are the temporary files: whose
audio is in them, and is all of it there. A worker goes through `TakeTask`, `SkipPresent` or `NameRawFile`,
`ConversionBegins`, `ConversionEnds`, `OpenCacheFiles`, `Extract`, `CloseCacheFile`, `WriteMetaFile`, `FileIsCached`;
`store_cached` through `NextCacheFile` or `SkipIncomplete`, `SkipDuplicate` or `IsNew` or `DatabaseIsMissing`, and
`StoreCachedFile`. What stdio has written of a `.tdb` file before it is closed is any number of batches. The names a
worker may make up for its raw file are a constant, `NamesFor`: disjoint, or not, as for two workers in the same
millisecond. `StoreCachedFile` is one step: the locks and the transaction it uses are those of `StoreThreads`.

* `CachedFromOwnAudio`: a finished cache file holds the fingerprints of the audio it is named for.
* `EndedCacheIsComplete`, `CachedIsStored`: a cache that ends has cached all that can be converted; a
  `store_cached` that ends has stored all that was complete when it began.
* `IndexSpec` (and with it `StoredIsComplete`): nothing partial, and nothing of another file, gets into the index; storing from
  the cache is `StoreFile` of `OlafIndex`.

### 2.5 AudioBlocks, AudioReader and OlafProcessor

`AudioBlocks` is what the extractor is owed: `Hear` takes samples, `Cut` makes a block of the last `Block` of them, each
`Step` after the one before, with silence before the first sample and after the last. Samples are numbers, so that one
that is lost, doubled or moved shows.

The sizes of blocks and steps are in `AudioConfig`, which both implementations extend.

`AudioReader` is `olaf_reader_read` with the loop around it: `ReadFirst`, `ReadNext` (shift, `fread`, padding),
`Analyse`, `StreamEnds`.

* `ReaderBlocksSpec`: it implements `AudioBlocks`, for files of every length.
* `LastSampleIsAnalysed`: the last step of samples is in the last block; a file shorter than a step has no block at all.

`OlafProcessor` is the worklet: `SrcCreated`, `SrcFails`, `OlafLoaded` settle the promises of the constructor;
`ProcessIgnored`, `Process(n)`, `ProcessWithoutInput` are the ways through `process()`; `EnterC`, `AddSample`,
`ProcessBlock`, `ReturnFromC` are `olaf_fingerprint_match`, one sample at a time. In the first call the sizes are read
through a pointer that is still NULL: `AtNull` is what may be in memory there, zero or a guard word. With zero the first
call fills the array from its start without ever finding it full; the resampled quantum is shorter than a block, so the
second call goes on from there. With a guard word the first sample is written outside of the memory (`Trap`).

* `StaysInArray`: no sample is written between the end of the array and the end of the memory.
* `BlocksSpec`: from the first sample on, blocks are those of `AudioBlocks`, across calls of any length.
* `AudioGoesOn`: with both promises kept there is always another block; the index never misses the block's end.

### 2.6 WorkletPage

Both pages, with a button, the promises of `getUserMedia` and `addModule`, the processors on the thread of each context
and the ports between. A start is a number, which also names its microphone, context and node. `ClickStarts` and `ClickStops`
are the button; `MicrophoneIsThere` and `NodeIsMade` (or `NodeIsNotMade`, `NodeIsNotConnected`) are the callbacks, which
use `audioContext` as they find it; `MatchIsPosted` goes through the variable `processor` of the module; `Handle` is
`onmessage` and `ShowEstimatedTime` an animation frame. `patient` is a user who does not click while a start is under way.

* `MicrophoneIsHeld`: a microphone is on exactly as long as its context is the page's, or was overwritten by that of an
  overlapping start; nobody can stop the latter.
* `ShownMatchesAreOwn`: what is shown was found in the sound of the node's own microphone, although it is posted to the
  processor constructed last.
* `PatienceIsEnough`: with a patient user no context is overwritten, and no node is left without a listener.
* `ClockStops`: after a stop the frames end.

### 2.7 MemoryIndex

The writer that makes the array (`Store`, `WriteHeader`), with the length that `olaf_db_store_meta_data` gives it in the
header: that counts all fingerprints of the audio, those included that the writer ignored when it was full. And a lookup: `Find` with the bounds of the range in unsigned
arithmetic (`% KeySpace`), `Probe`, `Match`, `NoMatch` for `bsearch` with the comparator that cuts a difference to an int
(`Cut`), `WalkDown`, `TurnRound`, `WalkUp`, `FindReturns`. Which entry `bsearch` tries is open, as in the C standard.
`bsearch`, both walks and `olaf_db_find_single` trust the length, and so read words behind the array when it is too large;
the walk down also reads the word before the array. `around` says what is in these words, and `HashAt` is a hash in the array
or there. That such a read may end the program is left out: nothing is returned then.

* `LookupIsExact`: entries of the range only, each once, all of them or as many as fit, and some if and only if
  `olaf_db_find_single` finds one. All of it asks for `HadRoom`: the writer ignored nothing. Completeness
  asks for `SpreadFits` too: hashes less than 2^31 apart (together `Searchable`). Hashes of two event
  points, as in the browser and on the ESP32, have 28 bits and meet it; those of three have 34 and need not.
* `LookupReturns`: a lookup ends, whatever is behind the array, unless the walk down comes to the word before the array and
  that one is in the range.
* `LengthIsNumberOfElements` is what `olaf_db_mem.c:36` says of the length. It holds if the writer has room for everything
  (`LengthIsRight`); as an invariant of `MCMemory.cfg`, where it may have not, TLC finds it violated.

### 2.8 SnapshotReaders

Pages of the database, named by the transaction that wrote them last; a tree is a set of pages with the free pages and who
freed them. `Touch` copies a page, `Grow` and `Shrink` take and give back one, `Flush` writes one, `Commit` switches to the new
tree, `Crash` ends the writer at any point. `mdb_find_oldest` sees no readers, since those of Olaf are opened without locks.

* `CommittedIsIntact`: no page of the committed tree is ever overwritten, whatever is killed.
* `PagesAreAccountedFor`: a page is in use or free, never both or neither, through any number of kills.
* `SnapshotOutlivesTwoWriters`: a query may rely on its snapshot until a third transaction after it is begun; `store` has a
  transaction per file. With three, the property fails; `lmdb.h:619-624` leaves this to the caller.

## 3. The runs

| run | shows | bounds |
|---|---|---|
| `ep_pairs` | the array, batches and termination, two points per fingerprint | 2 bins, 6 blocks, 4 slots, 3 fingerprints, 2 usages: each limit is hit |
| `ep_triples` | assertions, distinct points, nothing lost between scans or ignored, three points per fingerprint | 2 bins, 7 blocks, `MostKept` slots and one block more (with one slot less `NoEventPointIgnored` fails) |
| `store` | locks, buffer, orphans, the rest of a pool, refinement of `OlafIndex`, termination | three processes (section 2.2), a pool of 2 threads and the main thread, 3 batches, threshold 2; kills and a full map anywhere |
| `match_query` | all properties of the matcher | an index of 6 entries of 3 files, every query of two batches of up to 2 fingerprints out of 4, and streams with a pause; results for 1 match, 2 collisions where up to three entries are in range, and a hash above the index |
| `cache` | all properties of the pipeline, refinement of `OlafIndex` | 3 files, one that cannot be converted, 2 threads and the main thread, each command twice, kills, with a database and without one |
| `reader` | the last sample, refinement of `AudioBlocks` | blocks of 8, steps of 3 (not a divisor), files of 0 to 20 samples |
| `processor` | the array, refinement of `AudioBlocks`, the audio goes on | blocks of 8, steps of 2, quanta of 1 or resampled to 0, 1, 3, 7; 26 samples, which is 10 blocks |
| `page` | all properties of the pages | 2 starts, 2 messages at a port, 2 frames: two starts overlap in every order, a third has no new pair |
| `mem_index` | exactness and end of a lookup | up to 5 fingerprints out of 8 for a writer with room for 4, a word before and one behind the array, both in range or not, ints of 4 bits, 3 results, lookups of 7 hashes, 0 (which wraps) included |
| `snapshots` | all properties of pages and readers | 5 pages, transactions 2 to 5, a reader; a third transaction after the snapshot is within reach |
| `cache_last_batch` | **violation**: the last batch is not cached | no kills |
| `cache_race` | **violation**: two workers share a raw file | names of two workers overlap |

Why these bounds are enough to be of use: every limit in the code that is a number (slots, usages, fingerprints,
threshold, collisions, results, blocks, steps) is within reach of the instance, so both sides of each comparison occur;
there are at least two actors of each kind that compete (threads of a pool, processes, commands, starts), and where it
matters a third that can profit from their mistake. Readers do not act on anything, so one of them sees all there is to see.
Every command can run again after it was killed. A stream has at least two scans with points that survive the first, which
is what the invariants of the array are about. TLC reports that every action is taken. The theorems of section 5 do not
depend on the bounds.

`TypeOK` and `IInv` are theorems of every module, and not repeated in most of the runs; `TypeOK` of `WorkletPage` and of
`SnapshotReaders` is an invariant of their runs as well.

Bounds that are in the models: `MaxBlocks` (length of a stream), `MaxRuns` (runs of a command), `MaxLength` and
`MaxSamples` (audio), `MaxStarts`, `MaxMessages`, `MaxFrames` (of the pages), `MaxStored` (fingerprints in memory),
`MaxTxn` and `MaxPages`. All others are parameters of the code. `CHECK_DEADLOCK FALSE` is used where the system does stop: at
the end of a stream (`ep_pairs`, `ep_triples`, `reader`), when the starts are used up (`page`), after a lookup that ran out of
the array (`mem_index`). In the other modules the end of everything is a step of its own, and TLC shows that nothing
else can get stuck.

## 4. Fairness

* `FingerprintExtractor`, `FingerprintMatcher`, `AudioReader`: `WF` of the whole next-state relation. They are one thread that never waits; the
  operating system runs it, and the audio is finite.
* `StoreThreads`: `WF` of every worker and of the end of every process, not of kills. A worker that waits for a lock is
  enabled only while the lock is free, so weak fairness does not promise it the lock; it is enough all the same, since
  files are finite and every holder gives the lock up or dies (LMDB recovers its lock from the dead).
* `OlafProcessor`: `WF` of the C code, which never waits, and of the promises, which are settled one way or the other.
  `SF` of a quantum with samples in it: the browser calls `process()` again and again, and a resampler that makes nothing of
  a quantum makes something of a later one. None for a disconnected input.
* `WorkletPage`: `WF` of promises, messages, frames and the closing of contexts: the browser's event loop. None for the
  audio thread and for the user.
* `MemoryIndex`: `WF` of a lookup that was called.
* `CachePipeline`, `SnapshotReaders`: none. Their properties are safety; that no command hangs is what the deadlock check
  says.

## 5. What is proved

Every safety property of the runs that are expected to pass is a theorem: type correctness, the invariants, the action
property of the matcher and the four refinements. The theorems hold for every value of the constants that the assumptions
(`ConfigAssumption`, `StoreAssumption`, `IndexAssumption`, `MatcherAssumption`, `CacheAssumption`, `ReaderAssumption`,
`ProcessorAssumption`, `MemoryAssumption`, `PageAssumption`, `PagesAssumption`) allow. TLC evaluates these assumptions in the
runs. What a theorem needs beyond them is in its statement, and named in the last column.

| module | theorem | states | also needs |
|---|---|---|---|
| `FingerprintExtractorProofs` | `Invariance`, `TypeCorrect`, `ArrayStaysUsable`, `ScanAssertionsHold`, `BatchesFit`, `PointsStayDistinct` | `Spec => []` `IInv`, `TypeOK`, `LiveSlotsSortedThenMarked`, `ScanAssertions`, `BatchFits`, `PointsDistinct` | |
| | `BatchesHoldNoDoubles`, `AgedPointsAreCombined` | `BatchHasNoDoubles`, `AgedPointsWereCombined` | |
| | `LargeArrayIgnoresNothing` | `NoEventPointIgnored` | `ArrayIsLargeEnough` |
| `CachePipelineProofs` | `StoredStaysComplete`, `NothingIsOrphaned` | of the abstract index: `StoredIsComplete`, `NoOrphans` | `EntriesCarryTheirId`; for the second `IdsAreUnique` |
| | `Invariance`, `TypeCorrect`, `FilesHoldTheirOwnAudio`, `ImplementsIndex`, `CachedFilesStayComplete` | `Spec => []` `IInv`, `TypeOK`, `CachedFromOwnAudio`; `Spec => IndexSpec`; `Spec => []StoredIsComplete` | `IdsAreUnique`, `NamesAreUnique`, `QueueHasNoDoubles` |
| | `CachedFilesAreStored`, `FirstRunIsComplete` | `CachedIsStored`, `EndedCacheIsComplete` | the same |
| `StoreThreadsProofs` | `Invariance`, `TypeCorrect`, `NeverTwoEnvironments`, `BufferIsLargeEnough`, `PoolStoresTheRest`, `ImplementsIndex` | `Spec => []` `IInv`, `TypeOK`, `OneEnvironmentPerProcess`, `BufferHoldsBatch`, `EndedPoolStoredTheRest`; `Spec => IndexSpec` | |
| | `StoredFilesAreWhole` | `StoredIsComplete` of the abstract index, also when files share a number | |
| | `NothingIsLeftBehind` | `NoOrphans` | `IdsAreUnique` |
| `FingerprintMatcherProofs` | `Invariance`, `TypeCorrect`, `LookupsAreComplete`, `TalliesAreExact`, `ReportedTimesAreClose`, `BestOnesReported`, `OnlyOldOnesForgotten` | `Spec => []` `IInv`, `TypeOK`, `LookupIsComplete`, `TallyIsExact`, `QueryTimesAreClose`, `BestAreReported`; the action property `ForgottenWereOld` | |
| `AudioBlocksProofs` | `ReaderTypeCorrect`, `LastSampleAnalysed`, `ReaderImplementsBlocks` | `ReaderSpec => []` `ReaderTypeOK`, `LastSampleIsAnalysed`; `ReaderSpec => ReaderBlocksSpec` | |
| | `TypeCorrect`, `NothingBehindTheArray`, `ImplementsBlocks` | `Spec => []` `TypeOK`, `StaysInArray`; `Spec => BlocksSpec` | |
| `WorkletPageProofs` | `TypeCorrect`, `MicrophonesAreHeld`, `MatchesAreOwn`, `PatienceHelps` | `Spec => []` `TypeOK`, `MicrophoneIsHeld`, `ShownMatchesAreOwn`, `PatienceIsEnough` | |
| `MemoryIndexProofs` | `Invariance`, `TypeCorrect`, `FindsInRange`, `FindsAll`, `FindsExactly` | `Spec => []` `IInv`, `TypeOK`, `ResultsAreInRange`, `ResultsAreComplete`, `LookupIsExact` | (the properties name `HadRoom` and `SpreadFits` where they ask for them) |
| | `LengthIsRight` | `LengthIsNumberOfElements` | `MaxStored <= HashesSize` |
| `SnapshotReadersProofs` | `TypeCorrect`, `KillsAreHarmless`, `NoPageIsLost`, `SnapshotsAreKept` | `Spec => []` `TypeOK`, `CommittedIsIntact`, `PagesAreAccountedFor`, `SnapshotOutlivesTwoWriters` | |

The arguments:

* **Extractor.** That the array is sorted after `PrepareEventPoints` is clear; that it stays sorted while points are
  appended is not. `IInv` adds where the loops are (`LoopInv`) and that no point is later than the block examined,
  nor equal to it in a bin still to come (`TimeInv`). Then an appended point is the latest, and new.
  What a scan emits needs three more invariants, each built on `IInv`. `EmittedInv`: every fingerprint of the batch is that of
  slots which the loops have passed (`Passed`), and since times and bins tell slots apart, the next one is new. `ScanInv`, the other
  way round: while no limit is reached, slots that can be combined (`Partners`) and were passed have a fingerprint in the batch. The
  loops stop early at a point that is too late, and as the array is sorted so are all that follow; that is where the order is
  needed. `RoomInv` counts: after a scan the live points are of the last `maxTimeDistance` blocks, at most one per bin and block, so
  there is room for one block more. The bound holds whatever the limits cut short.
* **Store threads.** `LockInv` (whoever has an environment or a transaction open owns the lock for it) makes
  transactions exclusive; hence `TxnInv`: an open transaction is the committed state plus exactly what its worker
  has produced up to its batch, with what is still in the buffer. A commit is then `StoreFile` or `DeleteFile`, and
  every other step, a kill or a full map included, leaves the committed state alone. `NoOrphans` (`OrphanInv`)
  and `StoredIsComplete` (`StoredInv`) are kept by the steps of the abstract index, hence by those of the threads. `BufferInv` bounds the buffer between batches, so one more batch fits if
  `Threshold + MaxBatch <= BufferSize` (3276 + 300 <= 4096 as shipped). For `EndedPoolStoredTheRest`, `QueueInv` says that a process that
  has ended has no queue and no worker at work, and `PoolInv` where every file that can be stored is before that: in the queue, with a
  worker that has still to commit, or in the database. A commit or delete by anyone else keeps what is in the database, which is
  why the property leaves out numbers that some process deletes.
* **Matcher.** `TallyIsExact` is its own inductive invariant but for the types; ageing needs that the fingerprints
  still to come do not start much before those that were matched (`OrderInv`); ranking needs that the chosen ones are
  the best of those visited (`RankInv`). `FindInv`: in the loop of a lookup the cursor has everything below the range behind it and
  nothing above, and the results are the entries of the range it has passed, as many as there are of them; one step of the
  cursor adds one to both sides, so no induction over the index is needed, the run of the loop is the induction.
* **Cache.** Under `QueueHasNoDoubles`, `IdsAreUnique` and `NamesAreUnique` a file is with one worker (`TaskInv`), a raw
  file belongs to one worker from conversion to extraction (`RawInv`), so what is extracted is the worker's own audio
  (`MadeInv`); a path is written last, over finished lines (`PathInv`), and is never touched again, since a `.tdb` file
  that exists is skipped: what `store_cached` has read stays true (`ReadInv`). That gives `IndexSpec`, and
  `CachedFilesStayComplete` then is `StoredStaysComplete` of the abstract index. `FirstRunInv`: in a first run, what exists in the
  folder is finished or is being made by a worker, so a file is skipped only when it is done with, and every file is waiting, with
  a worker, or has its path (`DoneInv`). `VisitInv`: a number that was complete when `store_cached` started is still to be visited, or
  being visited, or in the index. `cache_race` shows what happens without `NamesAreUnique`.
* **Audio reader.** After every read the block holds the samples up to `reads` (`FilledInv`), padding counted, and what
  was read last says whether the file goes on (`ReadInv`). The step from one window to the next (`WindowInv`) is then
  `Hear` and `Cut`. Two steps must fit in a block, which `ReaderAssumption` asks for.
* **Worklet.** `RingInv` separates the first call, whose local sizes match nothing, from all others; after it the index is
  under `Block` between calls, because no quantum is as long as a block. `ContentInv`: what is before the index are the
  last samples in order. Where the first call reads a guard word, nothing is ever written.
* **Index in memory.** `ArrayInv`: the array has as many entries as there were fingerprints, or as there was room for, so
  it is shorter than its length in the header only when the writer was full. `BsearchInv`: entries given up are on the right
  side, and hashes tried before are not there, if the array is as long as it is said to be and differences keep their sign
  (`Searchable`); `WalkInv`: what was passed on either side of the hit is in the results, until they are full. Words behind the
  array count as entries in both, which is why types and indices are right in any case, and exactness only with `HadRoom`.
* **Pages.** `StartInv` ties what there is of a start (context, node, connection, handler) to how far it is; `MicrophoneIsHeld` is then
  inductive, because the only way out of `audioContext` that is not the button is to be replaced. `ProcessorInv`: the variable the
  callback uses is a processor of the context it runs in. So a message comes from a connected node, and the port it waits at is
  that of a node made in the same context (`PortInv`); a node that has a handler is alone with the connected one: it is that one.
  `PatienceInv`: with a patient user one start at a time is under way, and `audioContext` is as it left it.
* **Readers beside writers.** `Keeps(later, earlier)`: a page of an earlier tree is in a later one, or was freed in a transaction
  after the earlier one. A writer may only reuse what was freed two transactions before its own, so it spares the committed tree
  (`WriterInv`), wherever it is killed, and the tree of a snapshot until a third transaction begins (`ReaderInv`).

Only model-checked: liveness (`Terminates`, `AudioGoesOn`, `ClockStops`, `LookupReturns`), which is out of reach of TLAPS
together with `ENABLED`; and the two violations.

## 6. What was found

| run | code | the text it disagrees with |
|---|---|---|
| `cache_race` | `cli/olaf_cli_commands/olaf_cli_cmd_cache.zig:69` names the raw file after the millisecond only; the fingerprints of one song can be cached and stored under another | `cli/olaf_cli_threading.zig:14-15` on why a counter is needed |
| `cache_last_batch` | `src/olaf_stream_processor.c:223-234` drops the fingerprints of the last extraction when printing or caching | `README.md:264`, "later store all prints in the index" |

Worth knowing, from reading the code and the models; no run is about these, but where a property has to step around one
its comment says so:

* Extractor: usages are tested for equality, which a scan can step over, and the point stays
  (`olaf_fp_extractor.c:398`, against the comment at line 397). Points that survive a scan are combined with the same
  partners again, and the matcher counts some fingerprints twice. A stream of 2^23 blocks has times that look like the
  mark of a free slot.
* Matcher: no line at all is printed when every match was filtered (`cli/olaf_cli_bridge.c:286`, against the comment at
  lines 284-285). After a pause matches of any age are reported once more before they are removed
  (`olaf_fp_matcher.c:241`).
* Stores: `olaf_store` reports success for a raw file it cannot open. Results of the writes to a full database are ignored,
  but the process ends at the meta data, where the comment at `olaf_db.c:79` says that it fails silently.
* Cache: `store_cached` with `skip_duplicates` (the default) on a folder without a database opens it to read, and exits
  (`olaf_cli_cmd_store_cached.zig:13`, `olaf_db.c:98`). A killed `cache` leaves a partial `.tdb` file that no later `cache`
  replaces and `store_cached` skips. The header line of a `.tdb` file is stored as a fingerprint with hash 0
  (`olaf_fp_db_writer_cache.c:101`).
* Readers: a query that is running when a third file is stored may read pages that were reused, where `README.md:262` says
  that multiple readers are allowed beside the one writer.
* Browser: a second click before the microphone is granted leaves a microphone on that no button stops
  (`basic.html:82`). A resampler that fails silences the worklet even where no resampling is needed. The first call of the C
  code reads sizes through NULL (`olaf_wasm.c:69`).
* Index in memory: the length of the array is printed as all fingerprints that were extracted (`olaf_db_mem.c:207`), the ones
  included that the writer ignored (`olaf_fp_db_writer_mem.c:65`), where `olaf_db_mem.c:36` says that it is the "Number of elements in
  the reference fingerprint array"; lookups go on behind the array. The walk down goes on while an unsigned `i >= 0`
  (`olaf_db_mem.c:112`), and may take the word before the array for a result. The comparator cuts a 48 bit difference to an
  int (`olaf_db_mem.c:79`).

## 7. What is not modelled

* FFT, window, magnitudes and max filters: floating point without state between calls. The extractor takes any set of
  peaks, so this only matters to *which* fingerprints there are.
* Hash functions and bit packing: a hash or a number is a value. Numbers may collide in `OlafIndex` and
  `StoreThreads`; `IdsAreUnique` is named wherever it is needed. The packing of `MemoryIndex` is modelled.
* Inside LMDB and the containers, but for what section 2.8 has; the other models rely on one writer, atomic commits, key
  order, and an iteration order that is unknown. `SnapshotReaders` leaves out the shape of the trees, pages that a
  transaction takes and gives back itself, and the order of the two meta pages.
* Durations, output, wording, logging, text areas. Statistics, `clear`, `config`, `to_raw`, `to_wav`: no state that another
  part reads.
* `query` and `dedup` with threads: each worker is a `FingerprintMatcher` with its own environment; they share output.
* ESP32 and Python: the ring of samples of the ESP32 is that of `OlafProcessor` without promises; the wrapper starts the
  program.
* Streams of 2^23 blocks or more (18.6 hours), where a time looks like the mark of a free slot (`ConfigAssumption`).
* Lookups in LMDB of hashes below the search range, which wrap (`HashesInRange`); in `MemoryIndex` they are included.
* Two files with one number, or the same file twice, on the command line of `cache` (`QueueHasNoDoubles`).

## 8. Plan

Done, in this order: `FingerprintExtractor`, `OlafIndex`, `StoreThreads`, `FingerprintMatcher`, `CachePipeline`, then
`AudioBlocks` with `AudioReader` and `OlafProcessor`, `WorkletPage`, `MemoryIndex`, `SnapshotReaders`.

Proofs: of all of them, for every safety property that a run checks.

Next, the most valuable first:

1. The steps towards liveness that are not themselves liveness: variants that go down in each step of a lookup, a scan and a
   call of the C code, as action properties.
2. `MaxFilters`: naive, Lemire, van Herk and perceptual filters as functions over bounded arrays of small numbers,
   against the definition of a maximum in a window; the invariant of Lemire's deque.
3. `QueryThreads`: `query` and `dedup` with a pool, fragments, and errors; the composition with the matcher and with
   `SnapshotReaders`.
4. End to end: a file that is stored and not deleted is found by a query for itself, `FingerprintExtractor` to
   `FingerprintMatcher` over `OlafIndex`.
