---------------------------- MODULE StoreThreads ----------------------------
(***************************************************************************)
(* `olaf store --threads n` and `olaf delete`, run by several processes on *)
(* one database: the pool of olaf_cli_threading.zig, the runner and stream *)
(* processor in STORE and DELETE mode, the buffered writer of              *)
(* olaf_fp_db_writer.c and the write transactions of olaf_db.c.            *)
(*                                                                         *)
(* Two locks are involved.  Within a process olaf_db_writer_lock is taken  *)
(* before an environment is opened and released after it is closed.        *)
(* Between processes LMDB's own writer lock is held from the begin of a    *)
(* transaction to its end, and is recovered when its owner dies.           *)
(*                                                                         *)
(* A transaction works on the committed state plus its own writes.  The    *)
(* fingerprints of a file arrive in batches (see FingerprintExtractor).    *)
(***************************************************************************)
EXTENDS Integers, Sequences, Functions

CONSTANTS
  Processes,     \* runs of the program, started together
  Action,        \* per process: "Store" or "Delete"
  Queue,         \* per process: the audio files of its command line, in order
  NumThreads,    \* per process: --threads (delete has no threads: 1)
  Files, Ids, Id, None,   \* see OlafIndex
  Prints,        \* fingerprints: a hash and a time
  Audio,         \* per file: its batches of fingerprints
  Threshold,     \* the buffer is flushed when it holds more than this: 3276
  BufferSize,    \* size of the buffer: 4096
  MaxBatch,      \* maxFingerprints
  Unconvertible, \* files ffmpeg fails on
  Unreadable,    \* files whose raw audio cannot be opened
  MayNotFit,     \* files for which the map of the database may be too small
  MayCrash       \* may a process be killed

ASSUME StoreAssumption ==
  /\ Action \in [Processes -> {"Store", "Delete"}]
  /\ Queue \in [Processes -> Seq(Files)]
  /\ NumThreads \in [Processes -> Nat]
  /\ \A p \in Processes : Action[p] = "Delete" => NumThreads[p] = 1
  /\ Id \in [Files -> Ids]
  /\ None \notin Files /\ None \notin Processes \X Nat
  /\ Audio \in [Files -> Seq(Seq(Prints))]
  /\ \A f \in Files : \A i \in DOMAIN Audio[f] : Len(Audio[f][i]) <= MaxBatch
  /\ Threshold \in Nat /\ MaxBatch \in Nat /\ BufferSize \in Nat
  /\ Threshold + MaxBatch <= BufferSize
  /\ Unconvertible \subseteq Files /\ Unreadable \subseteq Files
  /\ MayNotFit \subseteq Files /\ MayCrash \in BOOLEAN

VARIABLES
  fps, meta,    \* the committed database, as in OlafIndex
  lmdbLock,     \* the worker that holds LMDB's writer lock, or None
  writerLock,   \* per process: the owner of olaf_db_writer_lock, or None
  status,       \* per process: running, ended or killed, and how it ended
  queue,        \* per process: files no worker has taken yet
  errors,       \* per process: error_list, the files that failed
  pc,           \* per worker: where it is
  file,         \* per worker: the file it works on, or None
  batch,        \* per worker: batches of that file handled so far
  buffer,       \* per worker: keys and values of the database writer
  txn           \* per worker: its write transaction

vars == <<fps, meta, lmdbLock, writerLock, status, queue, errors,
          pc, file, batch, buffer, txn>>

locks == <<lmdbLock, writerLock>>
run   == <<status, queue, errors>>
index == <<fps, meta>>

\* executeParallel starts min(--threads, files) threads; the main thread works
\* along while it waits for them.  With one thread or less there is no pool.
ActualThreads(p) == IF NumThreads[p] < Len(Queue[p]) THEN NumThreads[p] ELSE Len(Queue[p])
Parallel(p)  == ActualThreads(p) > 1
WorkersOf(p) == {p} \X (IF Parallel(p) THEN 0 .. ActualThreads(p) ELSE {0})
Workers      == UNION {WorkersOf(p) : p \in Processes}
ProcessOf(w) == w[1]

\* A write transaction: the entries and meta data as it sees them, and
\* whether LMDB has marked it as failed.
NoTxn == [fps |-> {}, meta |-> [i \in Ids |-> None], error |-> FALSE]

\* The value stored under the hash of a fingerprint: its time and the number
\* of the file.
Entry(f, x) == <<x, Id[f]>>
EntriesOf(f, prints) == [i \in DOMAIN prints |-> Entry(f, prints[i])]

\* A database that exists and holds nothing, as after its last file is deleted.
\* (delete opens it to read first, which ends the process when it is not there.)
Init ==
  /\ fps = {}
  /\ meta = [i \in Ids |-> None]
  /\ lmdbLock = None
  /\ writerLock = [p \in Processes |-> None]
  /\ status = [p \in Processes |-> "running"]
  /\ queue = Queue
  /\ errors = [p \in Processes |-> {}]
  /\ pc = [w \in Workers |-> "idle"]
  /\ file = [w \in Workers |-> None]
  /\ batch = [w \in Workers |-> 0]
  /\ buffer = [w \in Workers |-> <<>>]
  /\ txn = [w \in Workers |-> NoTxn]

(***************************************************************************)
(* Ends of a process.  exit(-42) in any worker ends all of them, as a kill *)
(* does: what is not committed is gone, LMDB recovers its writer lock.     *)
(***************************************************************************)
Dies(p, how) ==
  LET mine == {w \in Workers : ProcessOf(w) = p} IN
  /\ status' = [status EXCEPT ![p] = how]
  /\ queue' = [queue EXCEPT ![p] = <<>>]
  /\ writerLock' = [writerLock EXCEPT ![p] = None]
  /\ lmdbLock' = IF lmdbLock \in mine THEN None ELSE lmdbLock
  /\ pc' = [w \in Workers |-> IF w \in mine THEN "gone" ELSE pc[w]]
  /\ file' = [w \in Workers |-> IF w \in mine THEN None ELSE file[w]]
  /\ batch' = [w \in Workers |-> IF w \in mine THEN 0 ELSE batch[w]]
  /\ buffer' = [w \in Workers |-> IF w \in mine THEN <<>> ELSE buffer[w]]
  /\ txn' = [w \in Workers |-> IF w \in mine THEN NoTxn ELSE txn[w]]
  /\ UNCHANGED <<index, errors>>

Crash(p) ==
  /\ MayCrash
  /\ status[p] = "running"
  /\ Dies(p, "killed")

\* All files are handled: error.ProcessingFailed, or success.
ProcessEnds(p) ==
  /\ status[p] = "running"
  /\ queue[p] = <<>>
  /\ \A w \in WorkersOf(p) : pc[w] = "idle"
  /\ status' = [status EXCEPT ![p] = IF errors[p] = {} THEN "ended" ELSE "failed"]
  /\ UNCHANGED <<index, locks, queue, errors, pc, file, batch, buffer, txn>>

(***************************************************************************)
(* One file, as a worker handles it.                                       *)
(***************************************************************************)
TakeTask(w) ==
  /\ pc[w] = "idle"
  /\ status[ProcessOf(w)] = "running"
  /\ queue[ProcessOf(w)] # <<>>
  /\ file' = [file EXCEPT ![w] = Head(queue[ProcessOf(w)])]
  /\ queue' = [queue EXCEPT ![ProcessOf(w)] = Tail(queue[ProcessOf(w)])]
  /\ pc' = [pc EXCEPT ![w] = "convert"]
  /\ UNCHANGED <<index, locks, status, errors, batch, buffer, txn>>

\* Variant of ConversionFails: a file that failed is tried again.
ConversionRetried(w) ==
  LET p == ProcessOf(w) IN
  /\ pc[w] = "convert"
  /\ file[w] \in Unconvertible
  /\ errors' = [errors EXCEPT ![p] = errors[p] \cup {file[w]}]
  /\ queue' = [queue EXCEPT ![p] = Append(queue[p], file[w])]
  /\ pc' = [pc EXCEPT ![w] = "idle"]
  /\ file' = [file EXCEPT ![w] = None]
  /\ UNCHANGED <<index, locks, status, batch, buffer, txn>>

\* Variant of ConversionFails: the first error ends the work of the pool.
ConversionEndsPool(w) ==
  LET p == ProcessOf(w) IN
  /\ pc[w] = "convert"
  /\ file[w] \in Unconvertible
  /\ errors' = [errors EXCEPT ![p] = errors[p] \cup {file[w]}]
  /\ queue' = [queue EXCEPT ![p] = <<>>]
  /\ pc' = [pc EXCEPT ![w] = "idle"]
  /\ file' = [file EXCEPT ![w] = None]
  /\ UNCHANGED <<index, locks, status, batch, buffer, txn>>

\* A worker of the pool notes the error and goes on; without a pool the error
\* leaves the loop over the files.
ConversionFails(w) ==
  LET p == ProcessOf(w) IN
  /\ pc[w] = "convert"
  /\ file[w] \in Unconvertible
  /\ errors' = [errors EXCEPT ![p] = errors[p] \cup {file[w]}]
  /\ queue' = IF Parallel(p) THEN queue ELSE [queue EXCEPT ![p] = <<>>]
  /\ pc' = [pc EXCEPT ![w] = "idle"]
  /\ file' = [file EXCEPT ![w] = None]
  /\ UNCHANGED <<index, locks, status, batch, buffer, txn>>

\* olaf_runner_new opens the database: first the lock of the process ...
LockWriter(w) ==
  /\ pc[w] = "convert"
  /\ file[w] \notin Unconvertible
  /\ writerLock[ProcessOf(w)] = None
  /\ writerLock' = [writerLock EXCEPT ![ProcessOf(w)] = w]
  /\ pc' = [pc EXCEPT ![w] = "open"]
  /\ UNCHANGED <<index, lmdbLock, run, file, batch, buffer, txn>>

\* Variant of BeginTxn: LMDB's lock is taken without waiting for it.
BeginWithoutWaiting(w) ==
  /\ pc[w] = "open"
  /\ lmdbLock' = w
  /\ txn' = [txn EXCEPT ![w] = [fps |-> fps, meta |-> meta, error |-> FALSE]]
  /\ pc' = [pc EXCEPT ![w] = IF file[w] \in Unreadable THEN "commit" ELSE "stream"]
  /\ UNCHANGED <<index, writerLock, run, file, batch, buffer>>

\* ... then the environment and its transaction, which wait for the writer of
\* any other process.  Without a readable file the processor is not made, the
\* runner is destroyed and the file is not reported as an error.
BeginTxn(w) ==
  /\ pc[w] = "open"
  /\ lmdbLock = None
  /\ lmdbLock' = w
  /\ txn' = [txn EXCEPT ![w] = [fps |-> fps, meta |-> meta, error |-> FALSE]]
  /\ pc' = [pc EXCEPT ![w] = IF file[w] \in Unreadable THEN "commit" ELSE "stream"]
  /\ UNCHANGED <<index, writerLock, run, file, batch, buffer>>

\* Does LMDB run out of pages now (MDB_MAP_FULL).
MapFull(w) == IF file[w] \in MayNotFit THEN BOOLEAN ELSE {FALSE}

\* What the command of a process does to a set of entries.
Applied(p, base, entries) ==
  IF Action[p] = "Store" THEN base \cup entries ELSE base \ entries

\* olaf_db_store and olaf_db_delete of what is buffered.  Neither looks at the
\* result of LMDB, which refuses everything after the map was full once.
WriteToTxn(w, entries) ==
  \E full \in MapFull(w) :
    txn' = [txn EXCEPT ![w] = [fps   |-> Applied(ProcessOf(w), txn[w].fps, entries),
                               meta  |-> txn[w].meta,
                               error |-> full \/ txn[w].error]]

\* Variant of HandleBatch: flush only when the buffer cannot hold more.
HandleBatchLateFlush(w) ==
  LET filled == buffer[w] \o EntriesOf(file[w], Audio[file[w]][batch[w] + 1]) IN
  /\ pc[w] = "stream"
  /\ batch[w] < Len(Audio[file[w]])
  /\ batch' = [batch EXCEPT ![w] = batch[w] + 1]
  /\ IF Len(filled) >= BufferSize
       THEN /\ WriteToTxn(w, Range(filled))
            /\ buffer' = [buffer EXCEPT ![w] = <<>>]
       ELSE /\ buffer' = [buffer EXCEPT ![w] = filled]
            /\ UNCHANGED txn
  /\ UNCHANGED <<index, locks, run, pc, file>>

\* olaf_fp_db_writer_store, olaf_fp_db_writer_delete: append the batch, flush
\* when the threshold is passed.
HandleBatch(w) ==
  LET filled == buffer[w] \o EntriesOf(file[w], Audio[file[w]][batch[w] + 1]) IN
  /\ pc[w] = "stream"
  /\ batch[w] < Len(Audio[file[w]])
  /\ batch' = [batch EXCEPT ![w] = batch[w] + 1]
  /\ IF Len(filled) > Threshold
       THEN /\ WriteToTxn(w, Range(filled))
            /\ buffer' = [buffer EXCEPT ![w] = <<>>]
       ELSE /\ buffer' = [buffer EXCEPT ![w] = filled]
            /\ UNCHANGED txn
  /\ UNCHANGED <<index, locks, run, pc, file>>

\* Variant of EndOfStream: the rest is stored, also by a delete.
EndOfStreamStores(w) ==
  /\ pc[w] = "stream"
  /\ batch[w] = Len(Audio[file[w]])
  /\ txn' = [txn EXCEPT ![w].fps = txn[w].fps \cup Range(buffer[w])]
  /\ buffer' = [buffer EXCEPT ![w] = <<>>]
  /\ batch' = [batch EXCEPT ![w] = 0]
  /\ pc' = [pc EXCEPT ![w] = "meta"]
  /\ UNCHANGED <<index, locks, run, file>>

\* olaf_fp_db_writer_destroy writes the rest.
EndOfStream(w) ==
  /\ pc[w] = "stream"
  /\ batch[w] = Len(Audio[file[w]])
  /\ WriteToTxn(w, Range(buffer[w]))
  /\ buffer' = [buffer EXCEPT ![w] = <<>>]
  /\ batch' = [batch EXCEPT ![w] = 0]
  /\ pc' = [pc EXCEPT ![w] = "meta"]
  /\ UNCHANGED <<index, locks, run, file>>

\* olaf_db_store_meta_data replaces, olaf_db_delete_meta_data removes.
MetaOf(w) == IF Action[ProcessOf(w)] = "Store" THEN file[w] ELSE None

\* The meta data is the one write whose failure counts: delete of a number
\* that is not there, or any write after the map was full.
WriteMetaData(w) ==
  LET p == ProcessOf(w)
      i == Id[file[w]] IN
  /\ pc[w] = "meta"
  /\ \E full \in MapFull(w) :
       IF full \/ txn[w].error \/ (Action[p] = "Delete" /\ txn[w].meta[i] = None)
         THEN Dies(p, "exited")
         ELSE /\ txn' = [txn EXCEPT ![w] =
                           [fps   |-> txn[w].fps,
                            meta  |-> [txn[w].meta EXCEPT ![i] = MetaOf(w)],
                            error |-> FALSE]]
              /\ pc' = [pc EXCEPT ![w] = "commit"]
              /\ UNCHANGED <<index, locks, run, file, batch, buffer>>

\* Variant of Commit: the lock of the process is released with LMDB's, before
\* the environment is closed.
CommitAndUnlock(w) ==
  /\ pc[w] = "commit"
  /\ fps' = txn[w].fps
  /\ meta' = txn[w].meta
  /\ lmdbLock' = None
  /\ writerLock' = [writerLock EXCEPT ![ProcessOf(w)] = None]
  /\ txn' = [txn EXCEPT ![w] = NoTxn]
  /\ pc' = [pc EXCEPT ![w] = "close"]
  /\ UNCHANGED <<run, file, batch, buffer>>

\* olaf_db_destroy commits and does not look at the result: a commit that
\* needs a page the map does not have leaves the database as it was.
Commit(w) ==
  /\ pc[w] = "commit"
  /\ \E full \in MapFull(w) :
       IF full
         THEN UNCHANGED index
         ELSE /\ fps' = txn[w].fps
              /\ meta' = txn[w].meta
  /\ lmdbLock' = None
  /\ txn' = [txn EXCEPT ![w] = NoTxn]
  /\ pc' = [pc EXCEPT ![w] = "close"]
  /\ UNCHANGED <<writerLock, run, file, batch, buffer>>

\* The environment is closed before the lock of the process is released.
CloseAndUnlock(w) ==
  /\ pc[w] = "close"
  /\ writerLock' = [writerLock EXCEPT ![ProcessOf(w)] = None]
  /\ pc' = [pc EXCEPT ![w] = "idle"]
  /\ file' = [file EXCEPT ![w] = None]
  /\ UNCHANGED <<index, lmdbLock, run, batch, buffer, txn>>

Work(w) ==
  \/ TakeTask(w)
  \/ ConversionFails(w)
  \/ LockWriter(w)
  \/ BeginTxn(w)
  \/ HandleBatch(w)
  \/ EndOfStream(w)
  \/ WriteMetaData(w)
  \/ Commit(w)
  \/ CloseAndUnlock(w)

AllEnded == \A p \in Processes : status[p] # "running"

Next ==
  \/ \E w \in Workers : Work(w)
  \/ \E p \in Processes : ProcessEnds(p) \/ Crash(p)
  \/ AllEnded /\ UNCHANGED vars

Spec == Init /\ [][Next]_vars

\* The operating system runs every thread, and both locks are given to one of
\* those that wait; nothing says which one.
FairSpec ==
  /\ Spec
  /\ \A w \in Workers : WF_vars(Work(w))
  /\ \A p \in Processes : WF_vars(ProcessEnds(p))

(***************************************************************************)
(* Properties.                                                             *)
(***************************************************************************)
Txns == [fps: SUBSET (Prints \X Ids), meta: [Ids -> Files \cup {None}], error: BOOLEAN]

TypeOK ==
  /\ fps \subseteq Prints \X Ids
  /\ meta \in [Ids -> Files \cup {None}]
  /\ lmdbLock \in Workers \cup {None}
  /\ writerLock \in [Processes -> Workers \cup {None}]
  /\ status \in [Processes -> {"running", "ended", "failed", "exited", "killed"}]
  /\ queue \in [Processes -> Seq(Files)]
  /\ errors \in [Processes -> SUBSET Files]
  /\ pc \in [Workers -> {"idle", "convert", "open", "stream", "meta",
                         "commit", "close", "gone"}]
  /\ file \in [Workers -> Files \cup {None}]
  /\ batch \in [Workers -> Nat]
  /\ buffer \in [Workers -> Seq(Prints \X Ids)]
  /\ txn \in [Workers -> Txns]

\* The entries of a file in its first n batches, and all of them.
Produced(f, n) == UNION {Range(EntriesOf(f, Audio[f][i])) : i \in 1 .. n}
Contents == [f \in Files |-> Produced(f, Len(Audio[f]))]

\* The database changes by whole files only, whatever the threads and
\* processes do and wherever they are killed: stores and deletes of olaf_db.c
\* are atomic.
Index == INSTANCE OlafIndex WITH
           Files <- Files, Ids <- Ids, Id <- Id, None <- None,
           Contents <- Contents, fps <- fps, meta <- meta
IndexSpec == Index!IndexSpec

EnvOpen(w) == pc[w] \in {"open", "stream", "meta", "commit", "close"}

\* The comment above olaf_db_writer_lock: it is held for the full lifetime of
\* the environment, so that a process never has two open for writing.
OneEnvironmentPerProcess ==
  \A v, w \in Workers :
    EnvOpen(v) /\ EnvOpen(w) /\ ProcessOf(v) = ProcessOf(w) => v = w

\* keys[] and values[] have a fixed size that is not compared with anything
\* when a batch is appended.
BufferHoldsBatch ==
  \A w \in Workers :
    pc[w] = "stream" /\ batch[w] < Len(Audio[file[w]]) =>
      Len(buffer[w]) + Len(Audio[file[w]][batch[w] + 1]) <= BufferSize

\* A pool that came to its end has stored every file of the command line that
\* could be converted and read, and for which there was room, also when others
\* failed.
Storable == Files \ (Unconvertible \cup Unreadable \cup MayNotFit)
Deleted(i) == \E p \in Processes : Action[p] = "Delete" /\ i \in {Id[f] : f \in Range(Queue[p])}
EndedPoolStoredTheRest ==
  \A p \in Processes :
    /\ Action[p] = "Store"
    /\ status[p] = "ended" \/ (status[p] = "failed" /\ Parallel(p))
    =>
      \A f \in Range(Queue[p]) \cap Storable :
        ~Deleted(Id[f]) => Contents[f] \subseteq fps /\ meta[Id[f]] # None

\* README: a second writing process waits.  No run hangs: every process that
\* is not killed comes to an end.
Terminates == <>AllEnded

\* Nothing is left of a deleted file (see OlafIndex).
NoOrphans == Index!NoOrphans

(***************************************************************************)
(* The inductive invariant behind the proofs.                              *)
(***************************************************************************)
InTxn(w) == pc[w] \in {"stream", "meta", "commit"}

\* Whoever has an environment or a transaction open owns the lock for it.
LockInv ==
  \A w \in Workers :
    /\ EnvOpen(w) => writerLock[ProcessOf(w)] = w /\ file[w] \in Files
    /\ pc[w] = "convert" => file[w] \in Files
    /\ InTxn(w) => lmdbLock = w

\* Only a stream has something buffered, and never more than the threshold.
BufferInv ==
  \A w \in Workers :
    /\ pc[w] # "stream" => buffer[w] = <<>> /\ batch[w] = 0
    /\ pc[w] = "stream" => /\ Len(buffer[w]) <= Threshold
                           /\ batch[w] <= Len(Audio[file[w]])

\* An open transaction is the committed state with what the worker did so far:
\* nobody commits in between.
Exact(w) ==
  LET p == ProcessOf(w)
      f == file[w] IN
  /\ pc[w] = "stream" =>
       /\ txn[w].meta = meta
       /\ Applied(p, txn[w].fps, Range(buffer[w])) = Applied(p, fps, Produced(f, batch[w]))
  /\ pc[w] = "meta" =>
       /\ txn[w].meta = meta
       /\ txn[w].fps = Applied(p, fps, Contents[f])
  /\ pc[w] = "commit" =>
       \/ f \in Unreadable /\ txn[w].fps = fps /\ txn[w].meta = meta
       \/ /\ txn[w].fps = Applied(p, fps, Contents[f])
          /\ Action[p] = "Delete" => meta[Id[f]] # None
          /\ txn[w].meta = [meta EXCEPT ![Id[f]] = MetaOf(w)]
TxnInv == \A w \in Workers : Exact(w)

\* Processes handle the files of their own command line, and nothing once they
\* have ended.
QueueInv ==
  /\ \A p \in Processes :
       /\ Range(queue[p]) \subseteq Range(Queue[p])
       /\ status[p] # "running" =>
            queue[p] = <<>> /\ \A w \in WorkersOf(p) : pc[w] \in {"idle", "gone"}
       /\ status[p] = "ended" => errors[p] = {}
  /\ \A w \in Workers : file[w] # None => file[w] \in Range(Queue[ProcessOf(w)])

\* A store loses sight of no file that it can store: the file is in the queue,
\* with a worker that has still to commit, or in the database, where it stays.
IsStored(f) == Contents[f] \subseteq fps /\ meta[Id[f]] # None
InWork(p, f) ==
  \E w \in WorkersOf(p) :
    file[w] = f /\ pc[w] \in {"convert", "open", "stream", "meta", "commit"}
PoolInv ==
  \A p \in Processes :
    /\ Action[p] = "Store"
    /\ status[p] \notin {"exited", "killed"}
    /\ Parallel(p) \/ errors[p] = {}
    =>
      \A f \in Range(Queue[p]) \cap Storable :
        ~Deleted(Id[f]) => f \in Range(queue[p]) \/ InWork(p, f) \/ IsStored(f)

IInv == TypeOK /\ LockInv /\ BufferInv /\ TxnInv /\ QueueInv /\ PoolInv
=============================================================================
