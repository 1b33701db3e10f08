--------------------------- MODULE CachePipeline ----------------------------
(***************************************************************************)
(* `olaf cache --threads n` and `olaf store_cached`: fingerprints are      *)
(* extracted to text files by many threads, and put in the index by one    *)
(* process that reads these files.  The commands run side by side, one     *)
(* after the other, again, and are killed anywhere.                        *)
(*                                                                         *)
(* For an audio file with number i, <i>.tdb holds a header line and a line *)
(* per fingerprint, <i>.meta the path of the audio.  The audio is first    *)
(* converted to a raw file with a temporary name.                          *)
(*                                                                         *)
(* The index is that of OlafIndex; Contents[f] are the entries that the    *)
(* cache file of f gives.                                                  *)
(***************************************************************************)
EXTENDS OlafIndex, Integers, Sequences, Functions

CONSTANTS
  Queue,           \* the audio files on the command line of cache, in order
  NumThreads,      \* --threads
  Prints,          \* fingerprints: a hash and a time
  Header,          \* what the header line is read as: hash 0 at time 0
  Audio,           \* per file: its batches of fingerprints, the last one is
                   \* that of the extraction after the stream has ended
  Names,           \* names for raw files
  NamesFor,        \* per worker: the names it may make up
  Unconvertible,   \* files ffmpeg fails on
  SkipDuplicates,  \* skip_duplicates
  MayBeNew,        \* may there be no database yet
  MaxRuns,         \* bound: runs of each command
  MayCrash         \* may a run be killed

\* The lines of a .tdb file after k batches.
RowsUpTo(f, k) == {Header} \cup UNION {Range(Audio[f][i]) : i \in 1 .. k}

\* The lines of a finished .tdb file: batches are written from within the
\* stream loop only, not the one that is extracted after it.
LastWritten(f) == IF Audio[f] = <<>> THEN 0 ELSE Len(Audio[f]) - 1
Rows(f) == RowsUpTo(f, LastWritten(f))

Commands == {"cache", "store_cached"}

ASSUME CacheAssumption ==
  /\ Queue \in Seq(Files)
  /\ NumThreads \in Nat
  /\ Audio \in [Files -> Seq(Seq(Prints))]
  /\ Contents = [f \in Files |-> Rows(f) \X {Id[f]}]
  /\ None \notin Names \cup Ids
  /\ Unconvertible \subseteq Files
  /\ MaxRuns \in [Commands -> Nat]
  /\ NamesFor \in [0 .. NumThreads -> SUBSET Names]
  /\ {SkipDuplicates, MayBeNew, MayCrash} \subseteq BOOLEAN

VARIABLES
  exists,       \* the database is there to be read
  present,      \* the numbers with a .tdb file
  rows,         \* per number: the lines in its .tdb file
  path,         \* per number: path= in its .meta file, or None
  raw,          \* per name: the audio in the raw file, or None
  whole,        \* per name: is all of it there
  runs,         \* per command: runs started
  status,       \* per command: running, or how its last run ended
  queue,        \* cache: the files no worker has taken yet
  errors,       \* cache: error_list, the files that failed
  pc,           \* per worker of cache: where it is
  file,         \* per worker: the audio file it works on, or None
  temp,         \* per worker: the name of its raw file, or None
  source,       \* per worker: the audio its fingerprints come from, or None
  listed,       \* store_cached: the numbers in the cache folder at its start
  visited,      \* store_cached: the numbers it has handled
  step,         \* store_cached: where it is
  entry,        \* store_cached: the number it works on, or None
  filename,     \* store_cached: the path it read for that number, or None
  complete      \* history, for CachedIsStored: numbers that had a path when
                \* store_cached started

index   == <<fps, meta, exists>>
folder  == <<present, rows, path>>
rawFiles == <<raw, whole>>
worker  == <<pc, file, temp, source>>
storer  == <<listed, visited, step, entry, filename, complete>>

run     == <<runs, status, queue, errors>>

vars == <<index, folder, rawFiles, run, worker, storer>>

\* executeCacheParallel: a pool of min(--threads, files) and the main thread,
\* or the main thread alone.
ActualThreads == IF NumThreads < Len(Queue) THEN NumThreads ELSE Len(Queue)
Parallel == ActualThreads > 1
Workers  == IF Parallel THEN 0 .. ActualThreads ELSE {0}

\* No two threads make up a name in the same millisecond.
NamesAreUnique == \A v, w \in Workers : v # w => NamesFor[v] \cap NamesFor[w] = {}

Init ==
  /\ IndexInit
  /\ exists \in BOOLEAN
  /\ MayBeNew \/ exists
  /\ present = {}
  /\ rows = [i \in Ids |-> {}]
  /\ path = [i \in Ids |-> None]
  /\ raw = [n \in Names |-> None]
  /\ whole = [n \in Names |-> FALSE]
  /\ runs = [c \in Commands |-> 0]
  /\ status = [c \in Commands |-> "ended"]
  /\ queue = <<>>
  /\ errors = {}
  /\ pc = [w \in Workers |-> "idle"]
  /\ file = [w \in Workers |-> None]
  /\ temp = [w \in Workers |-> None]
  /\ source = [w \in Workers |-> None]
  /\ listed = {}
  /\ visited = {}
  /\ step = "ended"
  /\ entry = None
  /\ filename = None
  /\ complete = {}

(***************************************************************************)
(* cache: one file, as a worker handles it.                                *)
(***************************************************************************)
StartCache ==
  /\ status["cache"] # "running"
  /\ runs["cache"] < MaxRuns["cache"]
  /\ runs' = [runs EXCEPT !["cache"] = runs["cache"] + 1]
  /\ status' = [status EXCEPT !["cache"] = "running"]
  /\ queue' = Queue
  /\ errors' = {}
  /\ UNCHANGED <<index, folder, rawFiles, worker, storer>>

TakeTask(w) ==
  /\ pc[w] = "idle"
  /\ queue # <<>>
  /\ file' = [file EXCEPT ![w] = Head(queue)]
  /\ queue' = Tail(queue)
  /\ pc' = [pc EXCEPT ![w] = "check"]
  /\ UNCHANGED <<index, folder, rawFiles, runs, status, errors, temp, source, storer>>

\* A file with a .tdb file, whoever made it and however far, is left alone.
SkipPresent(w) ==
  /\ pc[w] = "check"
  /\ Id[file[w]] \in present
  /\ file' = [file EXCEPT ![w] = None]
  /\ pc' = [pc EXCEPT ![w] = "idle"]
  /\ UNCHANGED <<index, folder, rawFiles, run, temp, source, storer>>

\* Variant of NameRawFile: all workers make up names in the same way.
NameRawFileShared(w) ==
  /\ pc[w] = "check"
  /\ Id[file[w]] \notin present
  /\ \E n \in Names :
       /\ \A v \in Workers : temp[v] = n => pc[v] = "convert"
       /\ temp' = [temp EXCEPT ![w] = n]
  /\ pc' = [pc EXCEPT ![w] = "convert"]
  /\ UNCHANGED <<index, folder, rawFiles, run, file, source, storer>>

\* createTempRawPath: the time in milliseconds is all that tells names apart.
\* A name can be had again as long as the time is the same; to start ffmpeg takes
\* longer.
NameRawFile(w) ==
  /\ pc[w] = "check"
  /\ Id[file[w]] \notin present
  /\ \E n \in NamesFor[w] :
       /\ \A v \in Workers : temp[v] = n => pc[v] = "convert"
       /\ temp' = [temp EXCEPT ![w] = n]
  /\ pc' = [pc EXCEPT ![w] = "convert"]
  /\ UNCHANGED <<index, folder, rawFiles, run, file, source, storer>>

\* The name is given up, and what is there by now is deleted.
DeleteRawFile(w) ==
  /\ raw' = [raw EXCEPT ![temp[w]] = None]
  /\ whole' = [whole EXCEPT ![temp[w]] = FALSE]
  /\ temp' = [temp EXCEPT ![w] = None]
  /\ file' = [file EXCEPT ![w] = None]
  /\ source' = [source EXCEPT ![w] = None]
  /\ pc' = [pc EXCEPT ![w] = "idle"]
  /\ UNCHANGED <<index, folder, storer>>

\* Variant of ConversionFails: an error ends the work of the pool too.
ConversionEndsPool(w) ==
  /\ pc[w] = "convert"
  /\ file[w] \in Unconvertible
  /\ errors' = errors \cup {file[w]}
  /\ queue' = <<>>
  /\ DeleteRawFile(w)
  /\ UNCHANGED <<runs, status>>

\* A worker of the pool notes the error and goes on; without a pool the error
\* leaves the loop over the files.
ConversionFails(w) ==
  /\ pc[w] = "convert"
  /\ file[w] \in Unconvertible
  /\ errors' = errors \cup {file[w]}
  /\ queue' = IF Parallel THEN queue ELSE <<>>
  /\ DeleteRawFile(w)
  /\ UNCHANGED <<runs, status>>

\* Variant of ConversionBegins: nobody waits for ffmpeg.
ConversionNotAwaited(w) ==
  /\ pc[w] = "convert"
  /\ file[w] \notin Unconvertible
  /\ raw' = [raw EXCEPT ![temp[w]] = file[w]]
  /\ whole' = [whole EXCEPT ![temp[w]] = FALSE]
  /\ pc' = [pc EXCEPT ![w] = "open"]
  /\ UNCHANGED <<index, folder, run, file, temp, source, storer>>

\* ffmpeg -y: what is under the name is overwritten ...
ConversionBegins(w) ==
  /\ pc[w] = "convert"
  /\ file[w] \notin Unconvertible
  /\ raw' = [raw EXCEPT ![temp[w]] = file[w]]
  /\ whole' = [whole EXCEPT ![temp[w]] = FALSE]
  /\ pc' = [pc EXCEPT ![w] = "converting"]
  /\ UNCHANGED <<index, folder, run, file, temp, source, storer>>

\* ... and is the audio of this file at the end, unless the name was deleted.
ConversionEnds(w) ==
  /\ pc[w] = "converting"
  /\ IF raw[temp[w]] = None
       THEN UNCHANGED rawFiles
       ELSE /\ raw' = [raw EXCEPT ![temp[w]] = file[w]]
            /\ whole' = [whole EXCEPT ![temp[w]] = TRUE]
  /\ pc' = [pc EXCEPT ![w] = "open"]
  /\ UNCHANGED <<index, folder, run, file, temp, source, storer>>

\* olaf_print_to_file (Zig): both files are made, empty, under their own names.
OpenCacheFiles(w) ==
  LET i == Id[file[w]] IN
  /\ pc[w] = "open"
  /\ present' = present \cup {i}
  /\ rows' = [rows EXCEPT ![i] = {}]
  /\ path' = [path EXCEPT ![i] = None]
  /\ pc' = [pc EXCEPT ![w] = "extract"]
  /\ UNCHANGED <<index, rawFiles, run, file, temp, source, storer>>

\* The stream loop: some of the lines have left the buffer of stdio.  Of a raw
\* file that is still being written only a part is read; without a raw file
\* nothing is written, closed or reported.
Extract(w) ==
  LET i == Id[file[w]]
      f == raw[temp[w]] IN
  /\ pc[w] = "extract"
  /\ IF f = None
       THEN /\ pc' = [pc EXCEPT ![w] = "delete"]
            /\ UNCHANGED <<rows, source>>
       ELSE /\ pc' = [pc EXCEPT ![w] = "close"]
            /\ \E k \in 0 .. LastWritten(f) : rows' = [rows EXCEPT ![i] = RowsUpTo(f, k)]
            /\ source' = [source EXCEPT ![w] = IF whole[temp[w]] THEN f ELSE None]
  /\ UNCHANGED <<index, present, path, rawFiles, run, file, temp, storer>>

\* olaf_fp_file_writer_destroy: first the .tdb file is closed, with all of its
\* lines ...
CloseCacheFile(w) ==
  LET i == Id[file[w]] IN
  /\ pc[w] = "close"
  /\ rows' = [rows EXCEPT ![i] = IF source[w] = None THEN rows[i] ELSE Rows(source[w])]
  /\ pc' = [pc EXCEPT ![w] = "path"]
  /\ UNCHANGED <<index, present, path, rawFiles, run, file, temp, source, storer>>

\* ... then path= is written to the .meta file and that is closed.
WriteMetaFile(w) ==
  LET i == Id[file[w]] IN
  /\ pc[w] = "path"
  /\ path' = [path EXCEPT ![i] = file[w]]
  /\ pc' = [pc EXCEPT ![w] = "delete"]
  /\ UNCHANGED <<index, present, rows, rawFiles, run, file, temp, source, storer>>

FileIsCached(w) ==
  /\ pc[w] = "delete"
  /\ DeleteRawFile(w)
  /\ UNCHANGED run

CacheEnds ==
  /\ status["cache"] = "running"
  /\ queue = <<>>
  /\ \A w \in Workers : pc[w] = "idle"
  /\ status' = [status EXCEPT !["cache"] = IF errors = {} THEN "ended" ELSE "failed"]
  /\ UNCHANGED <<index, folder, rawFiles, runs, queue, errors, worker, storer>>

\* A kill leaves the cache files as they are.  Raw files stay too, under names
\* whose millisecond is past.
CacheCrashes ==
  /\ MayCrash
  /\ status["cache"] = "running"
  /\ status' = [status EXCEPT !["cache"] = "killed"]
  /\ queue' = <<>>
  /\ raw' = [n \in Names |-> None]
  /\ whole' = [n \in Names |-> FALSE]
  /\ pc' = [w \in Workers |-> "idle"]
  /\ file' = [w \in Workers |-> None]
  /\ temp' = [w \in Workers |-> None]
  /\ source' = [w \in Workers |-> None]
  /\ UNCHANGED <<index, folder, runs, errors, storer>>

(***************************************************************************)
(* store_cached: one .tdb file of the folder after the other.              *)
(***************************************************************************)
\* An empty folder is the end; files that appear while it is read may be seen
\* or not.
StartStoreCached ==
  /\ status["store_cached"] # "running"
  /\ runs["store_cached"] < MaxRuns["store_cached"]
  /\ runs' = [runs EXCEPT !["store_cached"] = runs["store_cached"] + 1]
  /\ status' = [status EXCEPT !["store_cached"] = IF present = {} THEN "ended" ELSE "running"]
  /\ step' = IF present = {} THEN "ended" ELSE "folder"
  /\ listed' = present
  /\ complete' = {i \in present : path[i] # None}
  /\ visited' = {}
  /\ UNCHANGED <<index, folder, rawFiles, queue, errors, worker, entry, filename>>

\* Variant of SkipIncomplete: it is the end of the loop.
StopAtIncomplete ==
  /\ step = "folder"
  /\ \E i \in present \ visited :
       /\ path[i] = None
       /\ visited' = visited \cup listed
  /\ UNCHANGED <<index, folder, rawFiles, run, worker, listed, step, entry, filename, complete>>

\* Without a .meta file, or without path= in it, a warning is all there is.
SkipIncomplete ==
  /\ step = "folder"
  /\ \E i \in present \ visited :
       /\ path[i] = None
       /\ visited' = visited \cup {i}
  /\ UNCHANGED <<index, folder, rawFiles, run, worker, listed, step, entry, filename, complete>>

NextCacheFile ==
  /\ step = "folder"
  /\ \E i \in present \ visited :
       /\ path[i] # None
       /\ visited' = visited \cup {i}
       /\ entry' = i
       /\ filename' = path[i]
  /\ step' = IF SkipDuplicates THEN "has" ELSE "store"
  /\ UNCHANGED <<index, folder, rawFiles, run, worker, listed, complete>>

\* The process is gone.
ForgetLocals ==
  /\ step' = "ended"
  /\ listed' = {}
  /\ visited' = {}
  /\ entry' = None
  /\ filename' = None

\* olaf_has: opening a database that is not there ends the process.
DatabaseIsMissing ==
  /\ step = "has"
  /\ ~exists
  /\ status' = [status EXCEPT !["store_cached"] = "exited"]
  /\ ForgetLocals
  /\ UNCHANGED <<index, folder, rawFiles, runs, queue, errors, worker, complete>>

SkipDuplicate ==
  /\ step = "has"
  /\ exists
  /\ meta[Id[filename]] # None
  /\ step' = "folder"
  /\ entry' = None
  /\ filename' = None
  /\ UNCHANGED <<index, folder, rawFiles, run, worker, listed, visited, complete>>

IsNew ==
  /\ step = "has"
  /\ exists
  /\ meta[Id[filename]] = None
  /\ step' = "store"
  /\ UNCHANGED <<index, folder, rawFiles, run, worker, listed, visited, entry, filename, complete>>

\* olaf_store_cached_files: the lines and the meta data in one transaction.
StoreCachedFile ==
  /\ step = "store"
  /\ fps' = fps \cup (rows[entry] \X {Id[filename]})
  /\ meta' = [meta EXCEPT ![Id[filename]] = filename]
  /\ exists' = TRUE
  /\ step' = "folder"
  /\ entry' = None
  /\ filename' = None
  /\ UNCHANGED <<folder, rawFiles, run, worker, listed, visited, complete>>

StoreCachedEnds ==
  /\ step = "folder"
  /\ listed \subseteq visited
  /\ status' = [status EXCEPT !["store_cached"] = "ended"]
  /\ ForgetLocals
  /\ UNCHANGED <<index, folder, rawFiles, runs, queue, errors, worker, complete>>

StoreCachedCrashes ==
  /\ MayCrash
  /\ status["store_cached"] = "running"
  /\ status' = [status EXCEPT !["store_cached"] = "killed"]
  /\ ForgetLocals
  /\ UNCHANGED <<index, folder, rawFiles, runs, queue, errors, worker, complete>>

Cache(w) ==
  \/ TakeTask(w)
  \/ SkipPresent(w)
  \/ NameRawFile(w)
  \/ ConversionFails(w)
  \/ ConversionBegins(w)
  \/ ConversionEnds(w)
  \/ OpenCacheFiles(w)
  \/ Extract(w)
  \/ CloseCacheFile(w)
  \/ WriteMetaFile(w)
  \/ FileIsCached(w)

StoreCached ==
  \/ SkipIncomplete
  \/ NextCacheFile
  \/ DatabaseIsMissing
  \/ SkipDuplicate
  \/ IsNew
  \/ StoreCachedFile
  \/ StoreCachedEnds

AllEnded == \A c \in Commands : status[c] # "running"

Next ==
  \/ StartCache
  \/ \E w \in Workers : Cache(w)
  \/ CacheEnds
  \/ CacheCrashes
  \/ StartStoreCached
  \/ StoreCached
  \/ StoreCachedCrashes
  \/ AllEnded /\ UNCHANGED vars

Spec == Init /\ [][Next]_vars

(***************************************************************************)
(* Properties.                                                             *)
(***************************************************************************)
TypeOK ==
  /\ IndexTypeOK
  /\ exists \in BOOLEAN
  /\ present \subseteq Ids
  /\ rows \in [Ids -> SUBSET (Prints \cup {Header})]
  /\ path \in [Ids -> Files \cup {None}]
  /\ raw \in [Names -> Files \cup {None}]
  /\ whole \in [Names -> BOOLEAN]
  /\ runs \in [Commands -> Nat]
  /\ status \in [Commands -> {"running", "ended", "failed", "exited", "killed"}]
  /\ queue \in Seq(Files)
  /\ errors \subseteq Files
  /\ pc \in [Workers -> {"idle", "check", "convert", "converting", "open", "extract",
                         "close", "path", "delete"}]
  /\ file \in [Workers -> Files \cup {None}]
  /\ temp \in [Workers -> Names \cup {None}]
  /\ source \in [Workers -> Files \cup {None}]
  /\ listed \subseteq Ids
  /\ visited \subseteq Ids
  /\ complete \subseteq Ids
  /\ step \in {"folder", "has", "store", "ended"}
  /\ entry \in Ids \cup {None}
  /\ filename \in Files \cup {None}

\* A cache run that was not killed, after no other was, has cached everything
\* that can be converted, with the lines of that file, unless an error ended
\* a run without a pool.
Cacheable == Range(Queue) \ Unconvertible
EndedCacheIsComplete ==
  /\ status["cache"] = "ended" \/ (status["cache"] = "failed" /\ Parallel)
  /\ runs["cache"] = 1
  =>
    \A f \in Cacheable : path[Id[f]] = f /\ rows[Id[f]] = Rows(f)

\* What was complete when store_cached started is in the index when it ends,
\* whatever is incomplete or appears next to it.
CachedIsStored ==
  status["store_cached"] = "ended" => \A i \in complete : meta[i] # None

\* The comment on temporary names in olaf_cli_threading.zig: workers that start
\* in the same millisecond do not land on the same path.  Every finished cache
\* file holds the lines of the audio it is named for.
CachedFromOwnAudio == \A i \in Ids : path[i] # None => rows[i] = Rows(path[i])

\* README: cache the prints, and "later store all prints in the index".
AllPrints(f) == UNION {Range(Audio[f][i]) : i \in DOMAIN Audio[f]}
AllPrintsAreStored ==
  \A i \in Ids : meta[i] # None => AllPrints(meta[i]) \X {i} \subseteq fps

(***************************************************************************)
(* The inductive invariant behind the proofs.  It needs files with numbers *)
(* and raw files of their own.                                             *)
(***************************************************************************)
QueueHasNoDoubles == \A i, j \in DOMAIN Queue : Queue[i] = Queue[j] => i = j

WorkInv ==
  \A w \in Workers :
    /\ pc[w] = "idle" => file[w] = None
    /\ pc[w] # "idle" => file[w] \in Files
    /\ IF pc[w] \in {"idle", "check"} THEN temp[w] = None ELSE temp[w] \in NamesFor[w]

\* A file is in the queue or with one worker, once.
TaskInv ==
  /\ status["cache"] # "running" => queue = <<>> /\ \A w \in Workers : pc[w] = "idle"
  /\ \A i, j \in DOMAIN queue : queue[i] = queue[j] => i = j
  /\ \A w \in Workers, i \in DOMAIN queue : file[w] # queue[i]
  /\ \A v, w \in Workers : file[v] = file[w] /\ file[v] # None => v = w

\* From conversion to extraction the raw file holds the audio of its worker.
RawInv ==
  \A w \in Workers :
    /\ pc[w] \in {"converting", "open", "extract"} => raw[temp[w]] = file[w]
    /\ pc[w] \in {"open", "extract"} => whole[temp[w]]

\* What a worker has made of the cache files so far ...
MadeInv ==
  \A w \in Workers :
    /\ pc[w] \in {"convert", "converting", "open"} => Id[file[w]] \notin present
    /\ pc[w] \in {"extract", "close", "path"} => path[Id[file[w]]] = None
    /\ pc[w] \in {"extract", "close", "path"} => Id[file[w]] \in present
    /\ pc[w] = "close" => source[w] = file[w]
    /\ pc[w] = "path" => rows[Id[file[w]]] = Rows(file[w])

\* ... and what the path in a .meta file stands for.
PathInv ==
  \A i \in Ids : path[i] # None =>
    i \in present /\ Id[path[i]] = i /\ rows[i] = Rows(path[i])

\* What store_cached has read stays true.
ReadInv == step \in {"has", "store"} => entry \in Ids /\ filename \in Files /\ path[entry] = filename

\* A worker gives up its raw file once there is a path.
DoneInv == \A w \in Workers : pc[w] = "delete" => path[Id[file[w]]] = file[w]

\* What a first run finds of cache files is its own, so it loses sight of no
\* file that can be converted, unless an error takes the queue away.
FirstRunInv ==
  /\ runs["cache"] = 0 => status["cache"] = "ended"
  /\ status["cache"] = "ended" => errors = {}
  /\ runs["cache"] <= 1 /\ status["cache"] # "killed" =>
       /\ \A i \in present :
            \/ path[i] # None
            \/ \E w \in Workers : pc[w] \in {"extract", "close", "path"} /\ Id[file[w]] = i
       /\ runs["cache"] = 1 /\ (Parallel \/ errors = {}) =>
            \A f \in Cacheable :
              f \in Range(queue) \/ (\E w \in Workers : file[w] = f) \/ path[Id[f]] = f

\* store_cached is done with a number when it is in the index.
VisitInv ==
  step # "ended" =>
    \A i \in complete :
      /\ i \in listed /\ path[i] # None
      /\ i \in visited /\ meta[i] = None => step # "folder" /\ entry = i

IInv ==
  /\ TypeOK /\ WorkInv /\ TaskInv /\ RawInv /\ MadeInv /\ PathInv /\ ReadInv
  /\ DoneInv /\ FirstRunInv /\ VisitInv /\ CachedIsStored
=============================================================================
