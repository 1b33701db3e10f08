------------------------- MODULE StoreThreadsProofs -------------------------
(***************************************************************************)
(* Proofs about StoreThreads, for every number of processes, threads and   *)
(* files: the two locks do their work, the buffer of the writer is large   *)
(* enough, and the threads implement OlafIndex.                            *)
(***************************************************************************)
EXTENDS StoreThreads, SequenceTheorems, TLAPS

-----------------------------------------------------------------------------
\* Facts about the operators of the module.

\* Workers belong to a process, and None is not one of them.
LEMMA WorkerFacts ==
  \A w \in Workers : ProcessOf(w) \in Processes /\ w # None /\ w \in WorkersOf(ProcessOf(w))
<1> SUFFICES ASSUME NEW w \in Workers
             PROVE  ProcessOf(w) \in Processes /\ w # None /\ w \in WorkersOf(ProcessOf(w))
  OBVIOUS
<1>1. PICK p \in Processes : w \in WorkersOf(p)
  BY DEF Workers
<1>2. NumThreads[p] \in Nat /\ Len(Queue[p]) \in Nat
  BY StoreAssumption
<1>3. ActualThreads(p) \in Nat
  BY <1>2 DEF ActualThreads
<1>4. w \in {p} \X Nat
  BY <1>1, <1>3 DEF WorkersOf
<1>5. ProcessOf(w) = p
  BY <1>4 DEF ProcessOf
<1>6. w # None
  BY <1>4, StoreAssumption
<1> QED BY <1>1, <1>5, <1>6

\* The elements of two sequences one after the other.
LEMMA RangeOfConcat ==
  ASSUME NEW S, NEW s \in Seq(S), NEW t \in Seq(S)
  PROVE  Range(s \o t) = Range(s) \cup Range(t)
<1>1. s \o t \in Seq(S) /\ Len(s \o t) = Len(s) + Len(t)
  OBVIOUS
<1>2. ASSUME NEW x \in Range(s \o t) PROVE x \in Range(s) \cup Range(t)
  <2>1. PICK i \in 1 .. Len(s) + Len(t) : x = (s \o t)[i]
    BY <1>1, <1>2 DEF Range
  <2>2. CASE i <= Len(s)
    BY <2>1, <2>2 DEF Range
  <2>3. CASE i > Len(s)
    <3>1. i - Len(s) \in 1 .. Len(t) /\ x = t[i - Len(s)]
      BY <2>1, <2>3
    <3> QED BY <3>1 DEF Range
  <2> QED BY <2>1, <2>2, <2>3
<1>3. ASSUME NEW x \in Range(s) PROVE x \in Range(s \o t)
  <2>1. PICK i \in 1 .. Len(s) : x = s[i]
    BY <1>3 DEF Range
  <2>2. i \in 1 .. Len(s \o t) /\ (s \o t)[i] = x
    BY <1>1, <2>1
  <2> QED BY <1>1, <2>2 DEF Range
<1>4. ASSUME NEW x \in Range(t) PROVE x \in Range(s \o t)
  <2>1. PICK i \in 1 .. Len(t) : x = t[i]
    BY <1>4 DEF Range
  <2>2. i + Len(s) \in 1 .. Len(s \o t) /\ (s \o t)[i + Len(s)] = x
    BY <1>1, <2>1
  <2> QED BY <1>1, <2>2 DEF Range
<1> QED BY <1>2, <1>3, <1>4

\* The elements of a sequence over S are in S.
LEMMA RangeInSet ==
  ASSUME NEW S, NEW s \in Seq(S)
  PROVE  Range(s) \subseteq S
BY DEF Range

\* A batch gives as many entries as it has fingerprints.
LEMMA EntriesOfBatch ==
  ASSUME NEW f \in Files, NEW b \in Seq(Prints)
  PROVE  EntriesOf(f, b) \in Seq(Prints \X Ids) /\ Len(EntriesOf(f, b)) = Len(b)
<1>1. \A i \in 1 .. Len(b) : Entry(f, b[i]) \in Prints \X Ids
  BY StoreAssumption DEF Entry
<1>2. EntriesOf(f, b) = [i \in 1 .. Len(b) |-> Entry(f, b[i])]
  BY DEF EntriesOf
<1> QED BY <1>1, <1>2

\* The batches of a file, one by one.
LEMMA ProducedFacts ==
  ASSUME NEW f \in Files
  PROVE  /\ Len(Audio[f]) \in Nat
         /\ Produced(f, 0) = {}
         /\ Contents[f] = Produced(f, Len(Audio[f]))
         /\ \A n \in Nat : n < Len(Audio[f]) =>
              /\ Audio[f][n + 1] \in Seq(Prints)
              /\ Len(Audio[f][n + 1]) <= MaxBatch
              /\ Produced(f, n + 1) = Produced(f, n) \cup Range(EntriesOf(f, Audio[f][n + 1]))
<1>1. Audio[f] \in Seq(Seq(Prints))
  BY StoreAssumption
<1>2. Produced(f, 0) = {}
  BY DEF Produced
<1>3. Contents[f] = Produced(f, Len(Audio[f]))
  BY DEF Contents
<1>4. ASSUME NEW n \in Nat, n < Len(Audio[f])
      PROVE  /\ Audio[f][n + 1] \in Seq(Prints)
             /\ Len(Audio[f][n + 1]) <= MaxBatch
             /\ Produced(f, n + 1) = Produced(f, n) \cup Range(EntriesOf(f, Audio[f][n + 1]))
  <2>1. n + 1 \in DOMAIN Audio[f] /\ n + 1 \in 1 .. Len(Audio[f])
    BY <1>1, <1>4
  <2>2. 1 .. n + 1 = (1 .. n) \cup {n + 1}
    OBVIOUS
  <2>3. Produced(f, n + 1) = Produced(f, n) \cup Range(EntriesOf(f, Audio[f][n + 1]))
    BY <2>2 DEF Produced
  <2>4. Audio[f][n + 1] \in Seq(Prints)
    BY <1>1, <2>1
  <2> QED BY <2>1, <2>3, <2>4, StoreAssumption
<1> QED BY <1>1, <1>2, <1>3, <1>4

\* What a command does to a set, done in two portions.
LEMMA AppliedTwice ==
  ASSUME NEW p, NEW base, NEW one, NEW two
  PROVE  /\ Applied(p, base, {}) = base
         /\ Applied(p, Applied(p, base, one), two) = Applied(p, base, one \cup two)
BY DEF Applied

-----------------------------------------------------------------------------
\* Type correctness, action by action.
LEMMA InitType == Init => TypeOK
<1> SUFFICES ASSUME Init PROVE TypeOK
  OBVIOUS
<1>1. NoTxn \in Txns
  BY DEF NoTxn, Txns
<1>2. txn \in [Workers -> Txns]
  BY <1>1 DEF Init
<1> QED BY <1>2, StoreAssumption DEF Init, TypeOK

LEMMA DiesType ==
  ASSUME TypeOK, NEW p \in Processes, NEW how \in {"exited", "killed"}, Dies(p, how)
  PROVE  TypeOK'
<1>1. NoTxn \in Txns
  BY DEF NoTxn, Txns
<1>2. txn' \in [Workers -> Txns]
  BY <1>1 DEF Dies, TypeOK
<1>3. buffer' \in [Workers -> Seq(Prints \X Ids)]
  BY DEF Dies, TypeOK
<1>4. queue' \in [Processes -> Seq(Files)]
  BY DEF Dies, TypeOK
<1>5. /\ pc' \in [Workers -> {"idle", "convert", "open", "stream", "meta",
                             "commit", "close", "gone"}]
      /\ file' \in [Workers -> Files \cup {None}]
      /\ batch' \in [Workers -> Nat]
  BY DEF Dies, TypeOK
<1>6. /\ lmdbLock' \in Workers \cup {None}
      /\ writerLock' \in [Processes -> Workers \cup {None}]
      /\ status' \in [Processes -> {"running", "ended", "failed", "exited", "killed"}]
      /\ fps' \subseteq Prints \X Ids
      /\ meta' \in [Ids -> Files \cup {None}]
      /\ errors' \in [Processes -> SUBSET Files]
  BY DEF Dies, TypeOK, index
<1> QED BY <1>2, <1>3, <1>4, <1>5, <1>6 DEF TypeOK

LEMMA WriteType ==
  ASSUME TypeOK, NEW w \in Workers, NEW entries, WriteToTxn(w, entries),
         Applied(ProcessOf(w), txn[w].fps, entries) \subseteq Prints \X Ids
  PROVE  txn' \in [Workers -> Txns]
<1> DEFINE new(full) == [fps   |-> Applied(ProcessOf(w), txn[w].fps, entries),
                         meta  |-> txn[w].meta,
                         error |-> full \/ txn[w].error]
<1>1. PICK full \in MapFull(w) : txn' = [txn EXCEPT ![w] = new(full)]
  BY DEF WriteToTxn
<1>2. (full \/ txn[w].error) \in BOOLEAN
  OBVIOUS
<1>3. txn[w].meta \in [Ids -> Files \cup {None}]
  BY DEF TypeOK, Txns
<1>4. new(full) \in Txns
  BY <1>2, <1>3 DEF Txns
<1> HIDE DEF new
<1> QED BY <1>1, <1>4 DEF TypeOK

LEMMA TypeStep == TypeOK /\ LockInv /\ [Next]_vars => TypeOK'
<1> SUFFICES ASSUME TypeOK, LockInv, [Next]_vars PROVE TypeOK'
  OBVIOUS
<1> USE WorkerFacts DEF index, locks, run
<1>1. ASSUME NEW w \in Workers, TakeTask(w) PROVE TypeOK'
  <2>1. ProcessOf(w) \in Processes /\ queue[ProcessOf(w)] \in Seq(Files)
    BY DEF TypeOK
  <2>2. Head(queue[ProcessOf(w)]) \in Files /\ Tail(queue[ProcessOf(w)]) \in Seq(Files)
    BY <1>1, <2>1 DEF TakeTask
  <2>3. queue' \in [Processes -> Seq(Files)] /\ file' \in [Workers -> Files \cup {None}]
    BY <1>1, <2>2 DEF TakeTask, TypeOK
  <2> QED BY <1>1, <2>3 DEF TakeTask, TypeOK
<1>2. ASSUME NEW w \in Workers, ConversionFails(w) PROVE TypeOK'
  <2>1. errors[ProcessOf(w)] \cup {file[w]} \subseteq Files
    BY <1>2, StoreAssumption DEF ConversionFails, TypeOK
  <2>2. queue' \in [Processes -> Seq(Files)]
    BY <1>2 DEF ConversionFails, TypeOK
  <2>3. errors' \in [Processes -> SUBSET Files]
    BY <1>2, <2>1 DEF ConversionFails, TypeOK
  <2> QED BY <1>2, <2>2, <2>3 DEF ConversionFails, TypeOK
<1>3. ASSUME NEW w \in Workers, LockWriter(w) PROVE TypeOK'
  BY <1>3 DEF LockWriter, TypeOK
<1>4. ASSUME NEW w \in Workers, BeginTxn(w) PROVE TypeOK'
  BY <1>4 DEF BeginTxn, Txns, TypeOK
<1>5. ASSUME NEW w \in Workers, HandleBatch(w) PROVE TypeOK'
  <2> DEFINE filled == buffer[w] \o EntriesOf(file[w], Audio[file[w]][batch[w] + 1])
  <2>1. file[w] \in Files /\ batch[w] \in Nat /\ batch[w] < Len(Audio[file[w]])
    BY <1>5 DEF HandleBatch, LockInv, EnvOpen, TypeOK
  <2>2. EntriesOf(file[w], Audio[file[w]][batch[w] + 1]) \in Seq(Prints \X Ids)
    BY <2>1, ProducedFacts, EntriesOfBatch
  <2>3. filled \in Seq(Prints \X Ids)
    BY <2>2 DEF TypeOK
  <2>4. Range(filled) \subseteq Prints \X Ids
    BY <2>3, RangeInSet
  <2>5. buffer' \in [Workers -> Seq(Prints \X Ids)] /\ batch' \in [Workers -> Nat]
    <3>1. buffer' = [buffer EXCEPT ![w] = <<>>] \/ buffer' = [buffer EXCEPT ![w] = filled]
      BY <1>5 DEF HandleBatch
    <3>2. batch' = [batch EXCEPT ![w] = batch[w] + 1]
      BY <1>5 DEF HandleBatch
    <3> HIDE DEF filled
    <3>3. buffer \in [Workers -> Seq(Prints \X Ids)] /\ batch \in [Workers -> Nat]
      BY DEF TypeOK
    <3>4. <<>> \in Seq(Prints \X Ids) /\ batch[w] + 1 \in Nat
      BY <2>1
    <3>5. buffer' \in [Workers -> Seq(Prints \X Ids)]
      BY <2>3, <3>1, <3>3, <3>4
    <3>6. batch' \in [Workers -> Nat]
      BY <3>2, <3>3, <3>4
    <3> QED BY <3>5, <3>6
  <2>6. Applied(ProcessOf(w), txn[w].fps, Range(filled)) \subseteq Prints \X Ids
    BY <2>4 DEF Applied, Txns, TypeOK
  <2>7. txn' \in [Workers -> Txns]
    <3>1. CASE WriteToTxn(w, Range(filled))
      BY <2>6, <3>1, WriteType
    <3>2. CASE UNCHANGED txn
      BY <3>2 DEF TypeOK
    <3> QED BY <1>5, <3>1, <3>2 DEF HandleBatch
  <2> QED BY <1>5, <2>5, <2>7 DEF HandleBatch, TypeOK
<1>6. ASSUME NEW w \in Workers, EndOfStream(w) PROVE TypeOK'
  <2>1. Range(buffer[w]) \subseteq Prints \X Ids
    BY RangeInSet DEF TypeOK
  <2>2. Applied(ProcessOf(w), txn[w].fps, Range(buffer[w])) \subseteq Prints \X Ids
    BY <2>1 DEF Applied, Txns, TypeOK
  <2>3. txn' \in [Workers -> Txns]
    <3>1. WriteToTxn(w, Range(buffer[w]))
      BY <1>6 DEF EndOfStream
    <3> QED BY <2>2, <3>1, WriteType
  <2>4. buffer' \in [Workers -> Seq(Prints \X Ids)] /\ batch' \in [Workers -> Nat]
    BY <1>6 DEF EndOfStream, TypeOK
  <2> QED BY <1>6, <2>3, <2>4 DEF EndOfStream, TypeOK
<1>7. ASSUME NEW w \in Workers, WriteMetaData(w) PROVE TypeOK'
  <2>1. file[w] \in Files /\ Id[file[w]] \in Ids
    BY <1>7, StoreAssumption DEF WriteMetaData, LockInv, EnvOpen
  <2>2. CASE Dies(ProcessOf(w), "exited")
    BY <2>2, DiesType
  <2>3. CASE ~Dies(ProcessOf(w), "exited")
    <3> DEFINE new == [fps   |-> txn[w].fps,
                       meta  |-> [txn[w].meta EXCEPT ![Id[file[w]]] = MetaOf(w)],
                       error |-> FALSE]
    <3>1. /\ txn' = [txn EXCEPT ![w] = new]
          /\ pc' = [pc EXCEPT ![w] = "commit"]
          /\ UNCHANGED <<index, locks, run, file, batch, buffer>>
      BY <1>7, <2>3 DEF WriteMetaData
    <3>2. txn[w] \in Txns /\ MetaOf(w) \in Files \cup {None}
      BY <2>1 DEF MetaOf, TypeOK
    <3>3. new \in Txns
      BY <3>2 DEF Txns
    <3> HIDE DEF new
    <3>4. txn' \in [Workers -> Txns]
      BY <3>1, <3>3 DEF TypeOK
    <3> QED BY <3>1, <3>4 DEF TypeOK
  <2> QED BY <2>2, <2>3
<1>8. ASSUME NEW w \in Workers, Commit(w) PROVE TypeOK'
  <2>1. NoTxn \in Txns
    BY DEF NoTxn, Txns
  <2>2. fps' \subseteq Prints \X Ids /\ meta' \in [Ids -> Files \cup {None}]
    BY <1>8 DEF Commit, Txns, TypeOK
  <2> QED BY <1>8, <2>1, <2>2 DEF Commit, TypeOK
<1>9. ASSUME NEW w \in Workers, CloseAndUnlock(w) PROVE TypeOK'
  BY <1>9 DEF CloseAndUnlock, TypeOK
<1>10. ASSUME NEW p \in Processes, ProcessEnds(p) PROVE TypeOK'
  BY <1>10 DEF ProcessEnds, TypeOK
<1>11. ASSUME NEW p \in Processes, Crash(p) PROVE TypeOK'
  BY <1>11, DiesType DEF Crash
<1>12. CASE UNCHANGED vars
  BY <1>12 DEF vars, TypeOK
<1> QED BY <1>1, <1>2, <1>3, <1>4, <1>5, <1>6, <1>7, <1>8, <1>9, <1>10, <1>11, <1>12
        DEF Next, Work

-----------------------------------------------------------------------------
\* The locks, action by action.

\* The worker that holds LMDB's lock is the only one in a transaction.
LEMMA OneTransaction ==
  ASSUME LockInv, NEW v \in Workers, NEW w \in Workers, InTxn(v), InTxn(w)
  PROVE  v = w
BY DEF LockInv

LEMMA DiesLock ==
  ASSUME TypeOK, LockInv, NEW p \in Processes, NEW how, Dies(p, how)
  PROVE  LockInv'
<1> SUFFICES ASSUME NEW v \in Workers
             PROVE  /\ EnvOpen(v)' => writerLock'[ProcessOf(v)] = v /\ file'[v] \in Files
                    /\ pc'[v] = "convert" => file'[v] \in Files
                    /\ InTxn(v)' => lmdbLock' = v
  BY DEF LockInv
<1> USE WorkerFacts
<1>1. CASE ProcessOf(v) = p
  BY <1>1 DEF Dies, EnvOpen, InTxn
<1>2. CASE ProcessOf(v) # p
  <2>1. pc'[v] = pc[v] /\ file'[v] = file[v]
    BY <1>2 DEF Dies
  <2>2. writerLock'[ProcessOf(v)] = writerLock[ProcessOf(v)]
    BY <1>2 DEF Dies, TypeOK
  <2>3. InTxn(v) => lmdbLock' = v
    BY <1>2 DEF Dies, LockInv
  <2> QED BY <2>1, <2>2, <2>3 DEF LockInv, EnvOpen, InTxn
<1> QED BY <1>1, <1>2

\* A lock is taken when it is free, and given back by its owner.
LEMMA LockStep == TypeOK /\ LockInv /\ [Next]_vars => LockInv'
<1> SUFFICES ASSUME TypeOK, LockInv, [Next]_vars PROVE LockInv'
  OBVIOUS
<1> USE WorkerFacts DEF locks, run
<1> DEFINE Locked(v) == /\ EnvOpen(v) => writerLock[ProcessOf(v)] = v /\ file[v] \in Files
                        /\ pc[v] = "convert" => file[v] \in Files
                        /\ InTxn(v) => lmdbLock = v
<1>1. ASSUME NEW w \in Workers, TakeTask(w), NEW v \in Workers PROVE Locked(v)'
  <2>1. queue[ProcessOf(w)] \in Seq(Files)
    BY DEF TypeOK
  <2>2. Head(queue[ProcessOf(w)]) \in Files
    BY <1>1, <2>1 DEF TakeTask
  <2> QED BY <1>1, <2>2 DEF TakeTask, LockInv, EnvOpen, InTxn, TypeOK
<1>2. ASSUME NEW w \in Workers, ConversionFails(w), NEW v \in Workers PROVE Locked(v)'
  BY <1>2 DEF ConversionFails, LockInv, EnvOpen, InTxn, TypeOK
<1>3. ASSUME NEW w \in Workers, LockWriter(w), NEW v \in Workers PROVE Locked(v)'
  BY <1>3 DEF LockWriter, LockInv, EnvOpen, InTxn, TypeOK
<1>4. ASSUME NEW w \in Workers, BeginTxn(w), NEW v \in Workers PROVE Locked(v)'
  BY <1>4 DEF BeginTxn, LockInv, EnvOpen, InTxn, TypeOK
<1>5. ASSUME NEW w \in Workers, HandleBatch(w), NEW v \in Workers PROVE Locked(v)'
  BY <1>5 DEF HandleBatch, LockInv, EnvOpen, InTxn
<1>6. ASSUME NEW w \in Workers, EndOfStream(w), NEW v \in Workers PROVE Locked(v)'
  BY <1>6 DEF EndOfStream, LockInv, EnvOpen, InTxn, TypeOK
<1>7. ASSUME NEW w \in Workers, WriteMetaData(w), NEW v \in Workers PROVE Locked(v)'
  <2>1. CASE Dies(ProcessOf(w), "exited")
    BY <2>1, DiesLock DEF LockInv
  <2>2. CASE ~Dies(ProcessOf(w), "exited")
    <3>1. /\ pc[w] = "meta"
          /\ pc' = [pc EXCEPT ![w] = "commit"]
          /\ UNCHANGED <<locks, file>>
      BY <1>7, <2>2 DEF WriteMetaData
    <3> QED BY <3>1 DEF LockInv, EnvOpen, InTxn, TypeOK
  <2> QED BY <2>1, <2>2
<1>8. ASSUME NEW w \in Workers, Commit(w), NEW v \in Workers PROVE Locked(v)'
  BY <1>8 DEF Commit, LockInv, EnvOpen, InTxn, TypeOK
<1>9. ASSUME NEW w \in Workers, CloseAndUnlock(w), NEW v \in Workers PROVE Locked(v)'
  BY <1>9 DEF CloseAndUnlock, LockInv, EnvOpen, InTxn, TypeOK
<1>10. ASSUME NEW p \in Processes, ProcessEnds(p), NEW v \in Workers PROVE Locked(v)'
  BY <1>10 DEF ProcessEnds, LockInv, EnvOpen, InTxn
<1>11. ASSUME NEW p \in Processes, Crash(p), NEW v \in Workers PROVE Locked(v)'
  BY <1>11, DiesLock DEF Crash, LockInv
<1>12. ASSUME UNCHANGED vars, NEW v \in Workers PROVE Locked(v)'
  BY <1>12 DEF vars, LockInv, EnvOpen, InTxn
<1>13. ASSUME NEW v \in Workers PROVE Locked(v)'
  BY <1>1, <1>2, <1>3, <1>4, <1>5, <1>6, <1>7, <1>8, <1>9, <1>10, <1>11, <1>12, <1>13
     DEF Next, Work
<1> QED BY <1>13 DEF LockInv

-----------------------------------------------------------------------------
\* The buffer, action by action.

\* A batch of a stream, and the buffer with that batch appended.
LEMMA BatchFacts ==
  ASSUME TypeOK, LockInv, BufferInv, NEW w \in Workers, pc[w] = "stream",
         batch[w] < Len(Audio[file[w]])
  PROVE  LET entries == EntriesOf(file[w], Audio[file[w]][batch[w] + 1]) IN
         /\ file[w] \in Files /\ batch[w] \in Nat /\ buffer[w] \in Seq(Prints \X Ids)
         /\ entries \in Seq(Prints \X Ids)
         /\ buffer[w] \o entries \in Seq(Prints \X Ids)
         /\ Range(buffer[w] \o entries) = Range(buffer[w]) \cup Range(entries)
         /\ Produced(file[w], batch[w] + 1) = Produced(file[w], batch[w]) \cup Range(entries)
         /\ Len(buffer[w]) + Len(Audio[file[w]][batch[w] + 1]) <= BufferSize
<1> DEFINE entries == EntriesOf(file[w], Audio[file[w]][batch[w] + 1])
<1>1. file[w] \in Files /\ batch[w] \in Nat /\ buffer[w] \in Seq(Prints \X Ids)
  BY DEF LockInv, EnvOpen, TypeOK
<1>2. /\ Audio[file[w]][batch[w] + 1] \in Seq(Prints)
      /\ Len(Audio[file[w]][batch[w] + 1]) <= MaxBatch
      /\ Produced(file[w], batch[w] + 1) = Produced(file[w], batch[w]) \cup Range(entries)
  BY <1>1, ProducedFacts
<1>3. entries \in Seq(Prints \X Ids)
  BY <1>1, <1>2, EntriesOfBatch
<1>4. Len(buffer[w]) <= Threshold /\ Len(buffer[w]) \in Nat /\ Len(Audio[file[w]][batch[w] + 1]) \in Nat
  BY <1>1, <1>2 DEF BufferInv
<1>5. Len(buffer[w]) + Len(Audio[file[w]][batch[w] + 1]) <= BufferSize
  <2>1. \A a, b \in Nat : a <= Threshold /\ b <= MaxBatch => a + b <= BufferSize
    BY StoreAssumption
  <2> QED BY <1>2, <1>4, <2>1
<1> HIDE DEF entries
<1>6. Range(buffer[w] \o entries) = Range(buffer[w]) \cup Range(entries)
  BY <1>1, <1>3, RangeOfConcat
<1>7. buffer[w] \o entries \in Seq(Prints \X Ids)
  BY <1>1, <1>3
<1> QED BY <1>1, <1>2, <1>3, <1>5, <1>6, <1>7 DEF entries

LEMMA DiesBuffer ==
  ASSUME TypeOK, BufferInv, NEW p \in Processes, NEW how, Dies(p, how)
  PROVE  BufferInv'
BY DEF Dies, BufferInv, TypeOK

\* The buffer is flushed above the threshold, so it never stays above it.
LEMMA BufferStep == TypeOK /\ LockInv /\ BufferInv /\ [Next]_vars => BufferInv'
<1> SUFFICES ASSUME TypeOK, LockInv, BufferInv, [Next]_vars PROVE BufferInv'
  OBVIOUS
<1> USE WorkerFacts DEF locks, run
<1> DEFINE Bounded(v) == /\ pc[v] # "stream" => buffer[v] = <<>> /\ batch[v] = 0
                         /\ pc[v] = "stream" => /\ Len(buffer[v]) <= Threshold
                                                /\ batch[v] <= Len(Audio[file[v]])
<1>1. ASSUME NEW w \in Workers, TakeTask(w), NEW v \in Workers PROVE Bounded(v)'
  BY <1>1 DEF TakeTask, BufferInv, TypeOK
<1>2. ASSUME NEW w \in Workers, ConversionFails(w), NEW v \in Workers PROVE Bounded(v)'
  BY <1>2 DEF ConversionFails, BufferInv, TypeOK
<1>3. ASSUME NEW w \in Workers, LockWriter(w), NEW v \in Workers PROVE Bounded(v)'
  BY <1>3 DEF LockWriter, BufferInv, TypeOK
<1>4. ASSUME NEW w \in Workers, BeginTxn(w), NEW v \in Workers PROVE Bounded(v)'
  <2>1. CASE v = w
    <3>1. file[w] \in Files /\ buffer[w] = <<>> /\ batch[w] = 0
      BY <1>4 DEF BeginTxn, LockInv, EnvOpen, BufferInv
    <3>2. Len(Audio[file[w]]) \in Nat /\ Threshold \in Nat
      BY <3>1, ProducedFacts, StoreAssumption
    <3>3. Len(buffer[w]) <= Threshold /\ batch[w] <= Len(Audio[file[w]])
      BY <3>1, <3>2
    <3> QED BY <1>4, <2>1, <3>1, <3>3 DEF BeginTxn, TypeOK
  <2>2. CASE v # w
    BY <1>4, <2>2 DEF BeginTxn, BufferInv, TypeOK
  <2> QED BY <2>1, <2>2
<1>5. ASSUME NEW w \in Workers, HandleBatch(w), NEW v \in Workers PROVE Bounded(v)'
  <2> DEFINE filled == buffer[w] \o EntriesOf(file[w], Audio[file[w]][batch[w] + 1])
  <2>1. pc[w] = "stream" /\ batch[w] < Len(Audio[file[w]])
    BY <1>5 DEF HandleBatch
  <2>2. filled \in Seq(Prints \X Ids) /\ file[w] \in Files /\ batch[w] \in Nat
    BY <2>1, BatchFacts
  <2>3. /\ buffer' = [buffer EXCEPT ![w] = IF Len(filled) > Threshold THEN <<>> ELSE filled]
        /\ batch' = [batch EXCEPT ![w] = batch[w] + 1]
        /\ UNCHANGED <<pc, file>>
    BY <1>5 DEF HandleBatch
  <2> HIDE DEF filled
  <2>4. CASE v = w
    <3>1. Len(filled) \in Nat /\ Threshold \in Nat /\ Len(<<>>) = 0 /\ Len(Audio[file[w]]) \in Nat
      BY <2>2, ProducedFacts, StoreAssumption
    <3>2. buffer'[w] = IF Len(filled) > Threshold THEN <<>> ELSE filled
      BY <2>3 DEF TypeOK
    <3>3. Len(buffer'[w]) <= Threshold
      BY <3>1, <3>2
    <3>4. batch'[w] <= Len(Audio[file[w]])
      BY <2>1, <2>2, <2>3, <3>1 DEF TypeOK
    <3> QED BY <2>1, <2>3, <2>4, <3>3, <3>4
  <2>5. CASE v # w
    BY <2>3, <2>5 DEF BufferInv, TypeOK
  <2> QED BY <2>4, <2>5
<1>6. ASSUME NEW w \in Workers, EndOfStream(w), NEW v \in Workers PROVE Bounded(v)'
  BY <1>6 DEF EndOfStream, BufferInv, TypeOK
<1>7. ASSUME NEW w \in Workers, WriteMetaData(w), NEW v \in Workers PROVE Bounded(v)'
  <2>1. CASE Dies(ProcessOf(w), "exited")
    BY <2>1, DiesBuffer DEF BufferInv
  <2>2. CASE ~Dies(ProcessOf(w), "exited")
    <3>1. /\ pc[w] = "meta"
          /\ pc' = [pc EXCEPT ![w] = "commit"]
          /\ UNCHANGED <<file, batch, buffer>>
      BY <1>7, <2>2 DEF WriteMetaData
    <3> QED BY <3>1 DEF BufferInv, TypeOK
  <2> QED BY <2>1, <2>2
<1>8. ASSUME NEW w \in Workers, Commit(w), NEW v \in Workers PROVE Bounded(v)'
  BY <1>8 DEF Commit, BufferInv, TypeOK
<1>9. ASSUME NEW w \in Workers, CloseAndUnlock(w), NEW v \in Workers PROVE Bounded(v)'
  BY <1>9 DEF CloseAndUnlock, BufferInv, TypeOK
<1>10. ASSUME NEW p \in Processes, ProcessEnds(p), NEW v \in Workers PROVE Bounded(v)'
  BY <1>10 DEF ProcessEnds, BufferInv
<1>11. ASSUME NEW p \in Processes, Crash(p), NEW v \in Workers PROVE Bounded(v)'
  BY <1>11, DiesBuffer DEF Crash, BufferInv
<1>12. ASSUME UNCHANGED vars, NEW v \in Workers PROVE Bounded(v)'
  BY <1>12 DEF vars, BufferInv
<1>13. ASSUME NEW v \in Workers PROVE Bounded(v)'
  BY <1>1, <1>2, <1>3, <1>4, <1>5, <1>6, <1>7, <1>8, <1>9, <1>10, <1>11, <1>12, <1>13
     DEF Next, Work
<1> QED BY <1>13 DEF BufferInv

-----------------------------------------------------------------------------
\* The transactions, action by action.

\* Nothing happens to a worker whose state and database stay the same.
LEMMA Untouched ==
  ASSUME NEW w \in Workers, Exact(w), UNCHANGED <<fps, meta>>, txn'[w] = txn[w],
         pc'[w] = pc[w], file'[w] = file[w], batch'[w] = batch[w], buffer'[w] = buffer[w]
  PROVE  Exact(w)'
BY DEF Exact, MetaOf

\* Nothing is claimed of a worker without a transaction.
LEMMA Outside ==
  ASSUME NEW w \in Workers, pc'[w] \notin {"stream", "meta", "commit"}
  PROVE  Exact(w)'
BY DEF Exact

LEMMA DiesTxn ==
  ASSUME TypeOK, TxnInv, NEW p \in Processes, NEW how, Dies(p, how), NEW v \in Workers
  PROVE  Exact(v)'
<1>1. CASE ProcessOf(v) = p
  <2>1. pc'[v] = "gone"
    BY <1>1 DEF Dies
  <2> QED BY <2>1, Outside
<1>2. CASE ProcessOf(v) # p
  <2>1. /\ UNCHANGED <<fps, meta>> /\ txn'[v] = txn[v] /\ pc'[v] = pc[v]
        /\ file'[v] = file[v] /\ batch'[v] = batch[v] /\ buffer'[v] = buffer[v]
    BY <1>2 DEF Dies, index
  <2>2. Exact(v)
    BY DEF TxnInv
  <2> QED BY <2>1, <2>2, Untouched
<1> QED BY <1>1, <1>2

\* One write to a transaction: the set of its entries afterwards.
LEMMA WriteFacts ==
  ASSUME TypeOK, NEW w \in Workers, NEW entries, WriteToTxn(w, entries)
  PROVE  /\ txn'[w].fps = Applied(ProcessOf(w), txn[w].fps, entries)
         /\ txn'[w].meta = txn[w].meta
         /\ \A v \in Workers : v # w => txn'[v] = txn[v]
<1> DEFINE new(full) == [fps   |-> Applied(ProcessOf(w), txn[w].fps, entries),
                         meta  |-> txn[w].meta,
                         error |-> full \/ txn[w].error]
<1>1. PICK full \in MapFull(w) : txn' = [txn EXCEPT ![w] = new(full)]
  BY DEF WriteToTxn
<1>2. /\ new(full).fps = Applied(ProcessOf(w), txn[w].fps, entries)
      /\ new(full).meta = txn[w].meta
  OBVIOUS
<1> HIDE DEF new
<1>3. txn'[w] = new(full) /\ \A v \in Workers : v # w => txn'[v] = txn[v]
  BY <1>1 DEF TypeOK
<1> QED BY <1>2, <1>3

\* The worker that handles a batch: flushed or not, what it has written and
\* what it has buffered are together one batch further.
LEMMA BatchIsExact ==
  ASSUME TypeOK, LockInv, BufferInv, TxnInv, NEW w \in Workers, HandleBatch(w)
  PROVE  Exact(w)'
<1> DEFINE p == ProcessOf(w)
           f == file[w]
           entries == EntriesOf(f, Audio[f][batch[w] + 1])
           filled == buffer[w] \o entries
<1>1. pc[w] = "stream" /\ batch[w] < Len(Audio[f])
  BY DEF HandleBatch
<1>2. /\ Range(filled) = Range(buffer[w]) \cup Range(entries)
      /\ Produced(f, batch[w] + 1) = Produced(f, batch[w]) \cup Range(entries)
  BY <1>1, BatchFacts
<1>3. /\ txn[w].meta = meta
      /\ Applied(p, txn[w].fps, Range(buffer[w])) = Applied(p, fps, Produced(f, batch[w]))
  BY <1>1 DEF TxnInv, Exact
<1>4. Applied(p, txn[w].fps, Range(filled)) = Applied(p, fps, Produced(f, batch[w] + 1))
  <2> HIDE DEF p, f, entries, filled
  <2>1. Applied(p, txn[w].fps, Range(filled))
          = Applied(p, Applied(p, txn[w].fps, Range(buffer[w])), Range(entries))
    BY <1>2, AppliedTwice
  <2>2. Applied(p, fps, Produced(f, batch[w] + 1))
          = Applied(p, Applied(p, fps, Produced(f, batch[w])), Range(entries))
    BY <1>2, AppliedTwice
  <2> QED BY <1>3, <2>1, <2>2
<1>5. /\ UNCHANGED <<fps, meta, pc, file>>
      /\ batch' = [batch EXCEPT ![w] = batch[w] + 1]
      /\ IF Len(filled) > Threshold
           THEN WriteToTxn(w, Range(filled)) /\ buffer' = [buffer EXCEPT ![w] = <<>>]
           ELSE buffer' = [buffer EXCEPT ![w] = filled] /\ UNCHANGED txn
  BY DEF HandleBatch, index
<1> HIDE DEF entries, filled
<1>6. batch'[w] = batch[w] + 1
  BY <1>5 DEF TypeOK
<1>7. CASE Len(filled) > Threshold
  <2>1. WriteToTxn(w, Range(filled)) /\ buffer'[w] = <<>>
    BY <1>5, <1>7 DEF TypeOK
  <2>2. txn'[w].fps = Applied(p, txn[w].fps, Range(filled)) /\ txn'[w].meta = txn[w].meta
    BY <2>1, WriteFacts
  <2>3. Range(buffer'[w]) = {}
    BY <2>1 DEF Range
  <2>4. Applied(p, txn'[w].fps, Range(buffer'[w])) = Applied(p, fps, Produced(f, batch[w] + 1))
    BY <1>4, <2>2, <2>3, AppliedTwice
  <2> QED BY <1>1, <1>3, <1>5, <1>6, <2>2, <2>4 DEF Exact
<1>8. CASE ~(Len(filled) > Threshold)
  <2>1. buffer'[w] = filled /\ txn'[w] = txn[w]
    BY <1>5, <1>8 DEF TypeOK
  <2> QED BY <1>1, <1>3, <1>4, <1>5, <1>6, <2>1 DEF Exact
<1> QED BY <1>7, <1>8

\* The end of a stream: everything the file gives is in the transaction.
LEMMA EndIsExact ==
  ASSUME TypeOK, LockInv, TxnInv, NEW w \in Workers, EndOfStream(w)
  PROVE  Exact(w)'
<1> DEFINE p == ProcessOf(w)
           f == file[w]
<1>1. pc[w] = "stream" /\ batch[w] = Len(Audio[f]) /\ WriteToTxn(w, Range(buffer[w]))
  BY DEF EndOfStream
<1>2. /\ txn[w].meta = meta
      /\ Applied(p, txn[w].fps, Range(buffer[w])) = Applied(p, fps, Produced(f, batch[w]))
  BY <1>1 DEF TxnInv, Exact
<1>3. f \in Files
  BY <1>1 DEF LockInv, EnvOpen
<1>4. Produced(f, batch[w]) = Contents[f]
  BY <1>1, <1>3, ProducedFacts
<1>5. txn'[w].fps = Applied(p, txn[w].fps, Range(buffer[w])) /\ txn'[w].meta = txn[w].meta
  BY <1>1, WriteFacts
<1>6. UNCHANGED <<fps, meta, file>> /\ pc'[w] = "meta"
  BY DEF EndOfStream, TypeOK, index
<1> QED BY <1>2, <1>4, <1>5, <1>6 DEF Exact

\* The meta data of a file goes into the transaction of its entries.
LEMMA MetaIsExact ==
  ASSUME TypeOK, TxnInv, NEW w \in Workers, WriteMetaData(w), ~Dies(ProcessOf(w), "exited")
  PROVE  Exact(w)'
<1> DEFINE i == Id[file[w]]
           new == [fps   |-> txn[w].fps,
                   meta  |-> [txn[w].meta EXCEPT ![i] = MetaOf(w)],
                   error |-> FALSE]
<1>1. /\ pc[w] = "meta"
      /\ Action[ProcessOf(w)] = "Delete" => txn[w].meta[i] # None
      /\ txn' = [txn EXCEPT ![w] = new]
      /\ pc' = [pc EXCEPT ![w] = "commit"]
      /\ UNCHANGED <<fps, meta, file>>
  BY DEF WriteMetaData, index
<1>2. txn[w].meta = meta /\ txn[w].fps = Applied(ProcessOf(w), fps, Contents[file[w]])
  BY <1>1 DEF TxnInv, Exact
<1>3. new.fps = txn[w].fps /\ new.meta = [txn[w].meta EXCEPT ![i] = MetaOf(w)]
  OBVIOUS
<1> HIDE DEF new
<1>4. txn'[w] = new /\ pc'[w] = "commit"
  BY <1>1 DEF TypeOK
<1>5. MetaOf(w)' = MetaOf(w)
  BY <1>1 DEF MetaOf
<1>6. txn'[w].fps = Applied(ProcessOf(w), fps, Contents[file[w]])
  BY <1>2, <1>3, <1>4
<1>7. txn'[w].meta = [meta EXCEPT ![i] = MetaOf(w)]
  BY <1>2, <1>3, <1>4
<1>8. Action[ProcessOf(w)] = "Delete" => meta[i] # None
  BY <1>1, <1>2
<1> QED BY <1>1, <1>4, <1>5, <1>6, <1>7, <1>8 DEF Exact

\* A transaction stays exact, because only its own worker writes to it and
\* nobody else can commit before it does.
LEMMA TxnStep ==
  TypeOK /\ LockInv /\ BufferInv /\ TxnInv /\ [Next]_vars => TxnInv'
<1> SUFFICES ASSUME TypeOK, LockInv, BufferInv, TxnInv, [Next]_vars PROVE TxnInv'
  OBVIOUS
<1> USE WorkerFacts DEF locks, run, index
<1> DEFINE Same(v) == /\ pc'[v] = pc[v] /\ file'[v] = file[v] /\ batch'[v] = batch[v]
                      /\ buffer'[v] = buffer[v] /\ txn'[v] = txn[v]
<1>0. ASSUME NEW v \in Workers, UNCHANGED <<fps, meta>>, Same(v) PROVE Exact(v)'
  BY <1>0, Untouched DEF TxnInv
<1>1. ASSUME NEW w \in Workers, TakeTask(w), NEW v \in Workers PROVE Exact(v)'
  <2>1. v = w => pc'[v] = "convert"
    BY <1>1 DEF TakeTask, TypeOK
  <2>2. v # w => Same(v) /\ UNCHANGED <<fps, meta>>
    BY <1>1 DEF TakeTask, TypeOK
  <2> QED BY <1>0, <2>1, <2>2, Outside
<1>2. ASSUME NEW w \in Workers, ConversionFails(w), NEW v \in Workers PROVE Exact(v)'
  <2>1. v = w => pc'[v] = "idle"
    BY <1>2 DEF ConversionFails, TypeOK
  <2>2. v # w => Same(v) /\ UNCHANGED <<fps, meta>>
    BY <1>2 DEF ConversionFails, TypeOK
  <2> QED BY <1>0, <2>1, <2>2, Outside
<1>3. ASSUME NEW w \in Workers, LockWriter(w), NEW v \in Workers PROVE Exact(v)'
  <2>1. v = w => pc'[v] = "open"
    BY <1>3 DEF LockWriter, TypeOK
  <2>2. v # w => Same(v) /\ UNCHANGED <<fps, meta>>
    BY <1>3 DEF LockWriter, TypeOK
  <2> QED BY <1>0, <2>1, <2>2, Outside
<1>4. ASSUME NEW w \in Workers, BeginTxn(w), NEW v \in Workers PROVE Exact(v)'
  <2>1. CASE v = w
    <3>1. file[w] \in Files /\ buffer[w] = <<>> /\ batch[w] = 0
      BY <1>4 DEF BeginTxn, LockInv, EnvOpen, BufferInv
    <3>2. /\ txn'[w].fps = fps /\ txn'[w].meta = meta
          /\ pc'[w] \in {"stream", "commit"}
          /\ pc'[w] = "commit" => file[w] \in Unreadable
          /\ UNCHANGED <<fps, meta, file, batch, buffer>>
      BY <1>4 DEF BeginTxn, TypeOK
    <3>3. Range(buffer[w]) = {} /\ Produced(file[w], batch[w]) = {}
      BY <3>1, ProducedFacts DEF Range
    <3> QED BY <2>1, <3>2, <3>3 DEF Exact
  <2>2. CASE v # w
    <3>1. Same(v) /\ UNCHANGED <<fps, meta>>
      BY <1>4, <2>2 DEF BeginTxn, TypeOK
    <3> QED BY <1>0, <3>1
  <2> QED BY <2>1, <2>2
<1>5. ASSUME NEW w \in Workers, HandleBatch(w), NEW v \in Workers PROVE Exact(v)'
  <2>1. CASE v = w
    BY <1>5, <2>1, BatchIsExact
  <2>2. CASE v # w
    <3>1. txn'[v] = txn[v]
      BY <1>5, <2>2, WriteFacts DEF HandleBatch
    <3>2. Same(v) /\ UNCHANGED <<fps, meta>>
      BY <1>5, <2>2, <3>1 DEF HandleBatch, TypeOK
    <3> QED BY <1>0, <3>2
  <2> QED BY <2>1, <2>2
<1>6. ASSUME NEW w \in Workers, EndOfStream(w), NEW v \in Workers PROVE Exact(v)'
  <2>1. CASE v = w
    BY <1>6, <2>1, EndIsExact
  <2>2. CASE v # w
    <3>1. txn'[v] = txn[v]
      BY <1>6, <2>2, WriteFacts DEF EndOfStream
    <3>2. Same(v) /\ UNCHANGED <<fps, meta>>
      BY <1>6, <2>2, <3>1 DEF EndOfStream, TypeOK
    <3> QED BY <1>0, <3>2
  <2> QED BY <2>1, <2>2
<1>7. ASSUME NEW w \in Workers, WriteMetaData(w), NEW v \in Workers PROVE Exact(v)'
  <2>1. CASE Dies(ProcessOf(w), "exited")
    BY <2>1, DiesTxn
  <2>2. CASE ~Dies(ProcessOf(w), "exited") /\ v = w
    BY <1>7, <2>2, MetaIsExact
  <2>3. CASE ~Dies(ProcessOf(w), "exited") /\ v # w
    <3>1. Same(v) /\ UNCHANGED <<fps, meta>>
      BY <1>7, <2>3 DEF WriteMetaData, TypeOK
    <3> QED BY <1>0, <3>1
  <2> QED BY <2>1, <2>2, <2>3
<1>8. ASSUME NEW w \in Workers, Commit(w), NEW v \in Workers PROVE Exact(v)'
  <2>1. v = w => pc'[v] = "close"
    BY <1>8 DEF Commit, TypeOK
  <2>2. v # w => ~InTxn(v) /\ pc'[v] = pc[v]
    BY <1>8, OneTransaction DEF Commit, InTxn, TypeOK
  <2> QED BY <2>1, <2>2, Outside DEF InTxn
<1>9. ASSUME NEW w \in Workers, CloseAndUnlock(w), NEW v \in Workers PROVE Exact(v)'
  <2>1. v = w => pc'[v] = "idle"
    BY <1>9 DEF CloseAndUnlock, TypeOK
  <2>2. v # w => Same(v) /\ UNCHANGED <<fps, meta>>
    BY <1>9 DEF CloseAndUnlock, TypeOK
  <2> QED BY <1>0, <2>1, <2>2, Outside
<1>10. ASSUME NEW p \in Processes, ProcessEnds(p), NEW v \in Workers PROVE Exact(v)'
  BY <1>0, <1>10 DEF ProcessEnds
<1>11. ASSUME NEW p \in Processes, Crash(p), NEW v \in Workers PROVE Exact(v)'
  BY <1>11, DiesTxn DEF Crash
<1>12. ASSUME UNCHANGED vars, NEW v \in Workers PROVE Exact(v)'
  BY <1>0, <1>12 DEF vars
<1>13. ASSUME NEW v \in Workers PROVE Exact(v)'
  BY <1>1, <1>2, <1>3, <1>4, <1>5, <1>6, <1>7, <1>8, <1>9, <1>10, <1>11, <1>12, <1>13
     DEF Next, Work
<1> QED BY <1>13 DEF TxnInv

\* What a commit does to the database: the file of its worker is stored or
\* deleted, or nothing happens, which takes a file that cannot be read or for
\* which there is no room.
LEMMA CommitFacts ==
  ASSUME TypeOK, LockInv, TxnInv, NEW w \in Workers, Commit(w)
  PROVE  /\ file[w] \in Files /\ pc'[w] = "close"
         /\ \/ UNCHANGED <<fps, meta>> /\ file[w] \in Unreadable \cup MayNotFit
            \/ Action[ProcessOf(w)] = "Store" /\ Index!StoreFile(file[w])
            \/ Action[ProcessOf(w)] = "Delete" /\ Index!DeleteFile(file[w])
<1>1. pc[w] = "commit" /\ file[w] \in Files /\ pc'[w] = "close"
  BY DEF Commit, LockInv, EnvOpen, TypeOK
<1>2. \/ file[w] \in Unreadable /\ txn[w].fps = fps /\ txn[w].meta = meta
      \/ /\ txn[w].fps = Applied(ProcessOf(w), fps, Contents[file[w]])
         /\ Action[ProcessOf(w)] = "Delete" => meta[Id[file[w]]] # None
         /\ txn[w].meta = [meta EXCEPT ![Id[file[w]]] = MetaOf(w)]
  BY <1>1 DEF TxnInv, Exact
<1>3. \/ UNCHANGED <<fps, meta>> /\ file[w] \in MayNotFit
      \/ fps' = txn[w].fps /\ meta' = txn[w].meta
  BY DEF Commit, MapFull, index
<1>4. CASE UNCHANGED <<fps, meta>> /\ file[w] \in MayNotFit
  BY <1>1, <1>4
<1>5. CASE fps' = txn[w].fps /\ meta' = txn[w].meta
  <2>1. CASE file[w] \in Unreadable /\ txn[w].fps = fps /\ txn[w].meta = meta
    BY <1>1, <1>5, <2>1
  <2>2. CASE /\ txn[w].fps = Applied(ProcessOf(w), fps, Contents[file[w]])
             /\ Action[ProcessOf(w)] = "Delete" => meta[Id[file[w]]] # None
             /\ txn[w].meta = [meta EXCEPT ![Id[file[w]]] = MetaOf(w)]
    <3>1. CASE Action[ProcessOf(w)] = "Store"
      <4>1. Index!StoreFile(file[w])
        BY <1>5, <2>2, <3>1 DEF Index!StoreFile, Applied, MetaOf
      <4> QED BY <1>1, <3>1, <4>1
    <3>2. CASE Action[ProcessOf(w)] = "Delete"
      <4>1. Index!DeleteFile(file[w])
        BY <1>5, <2>2, <3>2 DEF Index!DeleteFile, Applied, MetaOf
      <4> QED BY <1>1, <3>2, <4>1
    <3> QED BY <3>1, <3>2, WorkerFacts, StoreAssumption
  <2> QED BY <1>2, <2>1, <2>2
<1> QED BY <1>3, <1>4, <1>5

\* No other step changes the database, a kill included.
LEMMA OnlyCommits ==
  ASSUME [Next]_vars
  PROVE  (\E w \in Workers : Commit(w)) \/ UNCHANGED <<fps, meta>>
<1> USE DEF index
<1>1. ASSUME NEW w \in Workers, Work(w), ~Commit(w) PROVE UNCHANGED <<fps, meta>>
  BY <1>1 DEF Work, TakeTask, ConversionFails, LockWriter, BeginTxn, HandleBatch,
     EndOfStream, WriteMetaData, Dies, CloseAndUnlock
<1>2. ASSUME NEW p \in Processes, ProcessEnds(p) \/ Crash(p) PROVE UNCHANGED <<fps, meta>>
  BY <1>2 DEF ProcessEnds, Crash, Dies
<1>3. UNCHANGED vars => UNCHANGED <<fps, meta>>
  BY DEF vars
<1> QED BY <1>1, <1>2, <1>3 DEF Next

-----------------------------------------------------------------------------
\* The files of a command line, action by action.

LEMMA WorkersOfFacts ==
  \A p \in Processes : \A w \in WorkersOf(p) : w \in Workers /\ ProcessOf(w) = p
  BY DEF WorkersOf, Workers, ProcessOf

\* What is in a queue is its head or behind it.
LEMMA HeadOrTail ==
  ASSUME NEW S, NEW q \in Seq(S), q # <<>>
  PROVE  Range(q) = {Head(q)} \cup Range(Tail(q))
<1>1. /\ Len(q) \in Nat \ {0} /\ DOMAIN q = 1 .. Len(q) /\ Head(q) = q[1]
      /\ DOMAIN Tail(q) = 1 .. Len(q) - 1
      /\ \A i \in 1 .. Len(q) - 1 : Tail(q)[i] = q[i + 1]
  OBVIOUS
<1>2. ASSUME NEW i \in DOMAIN q, i # 1 PROVE q[i] \in Range(Tail(q))
  <2>1. i - 1 \in DOMAIN Tail(q) /\ Tail(q)[i - 1] = q[i]
    BY <1>1, <1>2
  <2> QED BY <2>1 DEF Range
<1>3. ASSUME NEW i \in DOMAIN Tail(q) PROVE Tail(q)[i] \in Range(q)
  <2>1. i + 1 \in DOMAIN q /\ Tail(q)[i] = q[i + 1]
    BY <1>1, <1>3
  <2> QED BY <2>1 DEF Range
<1>4. 1 \in DOMAIN q
  BY <1>1
<1> QED BY <1>1, <1>2, <1>3, <1>4 DEF Range

\* The step of a worker that its process survives: what it leaves alone, and
\* what is left of the queue.
LEMMA WorkFrame ==
  ASSUME TypeOK, QueueInv, NEW w \in Workers, Work(w), status' = status
  PROVE  /\ status[ProcessOf(w)] = "running"
         /\ \A v \in Workers : v # w => pc'[v] = pc[v] /\ file'[v] = file[v]
         /\ \A p \in Processes : p # ProcessOf(w) => queue'[p] = queue[p] /\ errors'[p] = errors[p]
         /\ errors[ProcessOf(w)] \subseteq errors'[ProcessOf(w)]
<1> USE WorkerFacts DEF run
<1>1. CASE TakeTask(w)
  BY <1>1 DEF TakeTask, TypeOK
<1>2. CASE ConversionFails(w)
  <2>1. pc[w] = "convert"
    BY <1>2 DEF ConversionFails
  <2>2. status[ProcessOf(w)] = "running"
    BY <2>1 DEF QueueInv
  <2> QED BY <1>2, <2>2 DEF ConversionFails, TypeOK
<1>3. CASE ~TakeTask(w) /\ ~ConversionFails(w)
  <2>1. pc[w] \notin {"idle", "gone"} /\ UNCHANGED <<queue, errors>>
    <3>1. ASSUME Dies(ProcessOf(w), "exited"), pc[w] = "meta" PROVE FALSE
      <4>1. status[ProcessOf(w)] = "running"
        BY <3>1 DEF QueueInv
      <4> QED BY <3>1, <4>1 DEF Dies, TypeOK
    <3> QED BY <1>3, <3>1 DEF Work, LockWriter, BeginTxn, HandleBatch, EndOfStream,
               WriteMetaData, Commit, CloseAndUnlock
  <2>2. status[ProcessOf(w)] = "running"
    BY <2>1 DEF QueueInv
  <2>3. ASSUME NEW v \in Workers, v # w PROVE pc'[v] = pc[v] /\ file'[v] = file[v]
    <3>1. ASSUME Dies(ProcessOf(w), "exited") PROVE FALSE
      BY <2>2, <3>1 DEF Dies, TypeOK
    <3> QED BY <1>3, <2>3, <3>1 DEF Work, LockWriter, BeginTxn, HandleBatch, EndOfStream,
               WriteMetaData, Commit, CloseAndUnlock, TypeOK
  <2> QED BY <2>1, <2>2, <2>3
<1> QED BY <1>1, <1>2, <1>3

\* A worker keeps its file until the environment is closed.
LEMMA SameFile ==
  ASSUME TypeOK, QueueInv, NEW w \in Workers, Work(w), status' = status,
         ~TakeTask(w), ~ConversionFails(w), ~CloseAndUnlock(w)
  PROVE  /\ file' = file /\ queue' = queue /\ errors' = errors
         /\ ~Commit(w) => pc'[w] \in {"open", "stream", "meta", "commit"}
<1>1. ASSUME Dies(ProcessOf(w), "exited") PROVE FALSE
  <2>1. status[ProcessOf(w)] = "running"
    BY WorkFrame
  <2> QED BY <1>1, <2>1, WorkerFacts DEF Dies, TypeOK
<1> QED BY <1>1 DEF Work, LockWriter, BeginTxn, HandleBatch, EndOfStream, WriteMetaData, Commit,
           run, TypeOK

\* A step of a worker kills its process, or leaves its status.
LEMMA WorkOrDie ==
  ASSUME NEW w \in Workers, Work(w)
  PROVE  status' = status \/ Dies(ProcessOf(w), "exited")
BY DEF Work, TakeTask, ConversionFails, LockWriter, BeginTxn, HandleBatch, EndOfStream,
   WriteMetaData, Commit, CloseAndUnlock, run

\* A process stays with the files of its command line.
LEMMA QueueStep == TypeOK /\ QueueInv /\ [Next]_vars => QueueInv'
<1> SUFFICES ASSUME TypeOK, QueueInv, [Next]_vars PROVE QueueInv'
  OBVIOUS
<1> USE WorkerFacts, WorkersOfFacts
<1>1. ASSUME NEW w \in Workers, Work(w), status' = status PROVE QueueInv'
  <2> DEFINE p == ProcessOf(w)
  <2>1. /\ p \in Processes /\ status[p] = "running" /\ status'[p] = "running"
        /\ \A v \in Workers : v # w => pc'[v] = pc[v] /\ file'[v] = file[v]
        /\ \A q \in Processes : q # p => queue'[q] = queue[q] /\ errors'[q] = errors[q]
    BY <1>1, WorkFrame
  <2>2. Range(queue'[p]) \subseteq Range(Queue[p]) /\ (file'[w] # None => file'[w] \in Range(Queue[p]))
    <3>1. CASE TakeTask(w)
      <4>1. /\ queue[p] \in Seq(Files) /\ queue[p] # <<>>
            /\ queue'[p] = Tail(queue[p]) /\ file'[w] = Head(queue[p])
        BY <2>1, <3>1 DEF TakeTask, TypeOK
      <4>2. Range(queue[p]) = {Head(queue[p])} \cup Range(Tail(queue[p]))
        BY <4>1, HeadOrTail
      <4>3. Range(queue[p]) \subseteq Range(Queue[p])
        BY <2>1 DEF QueueInv
      <4> QED BY <4>1, <4>2, <4>3
    <3>2. CASE ConversionFails(w)
      <4>1. (queue'[p] = queue[p] \/ queue'[p] = <<>>) /\ file'[w] = None
        BY <2>1, <3>2 DEF ConversionFails, TypeOK
      <4>2. Range(<<>>) = {}
        BY DEF Range
      <4> QED BY <2>1, <4>1, <4>2 DEF QueueInv
    <3>3. CASE CloseAndUnlock(w)
      <4>1. queue' = queue /\ file'[w] = None
        BY <3>3 DEF CloseAndUnlock, TypeOK, run
      <4> QED BY <2>1, <4>1 DEF QueueInv
    <3>4. CASE ~TakeTask(w) /\ ~ConversionFails(w) /\ ~CloseAndUnlock(w)
      <4>1. queue' = queue /\ file' = file
        BY <1>1, <3>4, SameFile
      <4> QED BY <2>1, <4>1 DEF QueueInv
    <3> QED BY <3>1, <3>2, <3>3, <3>4
  <2> HIDE DEF p
  <2>3. ASSUME NEW q \in Processes
        PROVE  /\ Range(queue'[q]) \subseteq Range(Queue[q])
               /\ status'[q] # "running" =>
                    queue'[q] = <<>> /\ \A v \in WorkersOf(q) : pc'[v] \in {"idle", "gone"}
               /\ status'[q] = "ended" => errors'[q] = {}
    <3>1. CASE q = p
      BY <2>1, <2>2, <3>1
    <3>2. CASE q # p
      <4>1. \A v \in WorkersOf(q) : pc'[v] = pc[v]
        BY <2>1, <3>2 DEF p
      <4> QED BY <1>1, <2>1, <3>2, <4>1 DEF QueueInv
    <3> QED BY <3>1, <3>2
  <2>4. ASSUME NEW v \in Workers, file'[v] # None PROVE file'[v] \in Range(Queue[ProcessOf(v)])
    BY <2>1, <2>2, <2>4 DEF QueueInv, p
  <2> QED BY <2>3, <2>4 DEF QueueInv
<1>2. ASSUME NEW p \in Processes, NEW how \in {"exited", "killed"}, Dies(p, how) PROVE QueueInv'
  <2>1. /\ status'[p] = how /\ queue'[p] = <<>> /\ errors' = errors
        /\ \A q \in Processes : q # p => status'[q] = status[q] /\ queue'[q] = queue[q]
    BY <1>2 DEF Dies, TypeOK
  <2>2. \A v \in Workers : IF ProcessOf(v) = p THEN pc'[v] = "gone" /\ file'[v] = None
                                               ELSE pc'[v] = pc[v] /\ file'[v] = file[v]
    BY <1>2 DEF Dies
  <2>3. Range(<<>>) = {}
    BY DEF Range
  <2> QED BY <2>1, <2>2, <2>3 DEF QueueInv
<1>3. ASSUME NEW p \in Processes, ProcessEnds(p) PROVE QueueInv'
  <2>1. /\ UNCHANGED <<queue, errors, pc, file>>
        /\ queue[p] = <<>> /\ \A w \in WorkersOf(p) : pc[w] = "idle"
        /\ status'[p] = (IF errors[p] = {} THEN "ended" ELSE "failed")
        /\ \A q \in Processes : q # p => status'[q] = status[q]
    BY <1>3 DEF ProcessEnds, TypeOK
  <2> QED BY <2>1 DEF QueueInv
<1>4. CASE UNCHANGED vars
  BY <1>4 DEF vars, QueueInv
<1>5. ASSUME NEW w \in Workers, Work(w) PROVE QueueInv'
  BY <1>1, <1>2, <1>5, WorkOrDie
<1>6. ASSUME NEW p \in Processes, Crash(p) PROVE QueueInv'
  BY <1>2, <1>6 DEF Crash
<1> QED BY <1>3, <1>4, <1>5, <1>6 DEF Next

\* Entries carry the number of their file.
LEMMA ContentsCarryId == \A f \in Files : \A e \in Contents[f] : e[2] = Id[f]
<1> SUFFICES ASSUME NEW f \in Files, NEW e \in Produced(f, Len(Audio[f])) PROVE e[2] = Id[f]
  BY DEF Contents
<1>1. PICK i \in 1 .. Len(Audio[f]) : e \in Range(EntriesOf(f, Audio[f][i]))
  BY DEF Produced
<1>2. PICK j \in DOMAIN Audio[f][i] : e = Entry(f, Audio[f][i][j])
  BY <1>1 DEF Range, EntriesOf
<1> QED BY <1>2 DEF Entry

\* What is stored stays, as long as no process deletes a file of that number.
LEMMA StoredStays ==
  ASSUME TypeOK, LockInv, TxnInv, QueueInv, [Next]_vars,
         NEW f \in Files, ~Deleted(Id[f]), IsStored(f)
  PROVE  IsStored(f)'
<1>1. Id[f] \in Ids /\ f # None /\ Contents[f] \subseteq fps /\ meta[Id[f]] # None
  BY StoreAssumption DEF IsStored
<1>2. CASE UNCHANGED <<fps, meta>>
  BY <1>1, <1>2 DEF IsStored
<1>3. ASSUME NEW w \in Workers, Commit(w), Action[ProcessOf(w)] = "Store", Index!StoreFile(file[w])
      PROVE  IsStored(f)'
  <2>1. file[w] \in Files /\ file[w] # None
    BY <1>3, CommitFacts, StoreAssumption
  <2>2. fps \subseteq fps' /\ meta' = [meta EXCEPT ![Id[file[w]]] = file[w]]
    BY <1>3 DEF Index!StoreFile
  <2> QED BY <1>1, <2>1, <2>2 DEF IsStored, TypeOK
<1>4. ASSUME NEW w \in Workers, Commit(w), Action[ProcessOf(w)] = "Delete", Index!DeleteFile(file[w])
      PROVE  IsStored(f)'
  <2>1. file[w] \in Files /\ file[w] # None
    BY <1>4, CommitFacts, StoreAssumption
  <2>2. ProcessOf(w) \in Processes /\ file[w] \in Range(Queue[ProcessOf(w)])
    BY <2>1, WorkerFacts DEF QueueInv
  <2>3. Id[file[w]] # Id[f]
    BY <1>4, <2>2 DEF Deleted
  <2>4. Contents[f] \cap Contents[file[w]] = {}
    BY <2>1, <2>3, ContentsCarryId
  <2>5. fps' = fps \ Contents[file[w]] /\ meta' = [meta EXCEPT ![Id[file[w]]] = None]
    BY <1>4 DEF Index!DeleteFile
  <2> QED BY <1>1, <2>3, <2>4, <2>5 DEF IsStored, TypeOK
<1> QED BY <1>2, <1>3, <1>4, OnlyCommits, CommitFacts

\* Nothing that can be stored is lost sight of.
LEMMA PoolStep ==
  TypeOK /\ LockInv /\ TxnInv /\ QueueInv /\ PoolInv /\ [Next]_vars => PoolInv'
<1> SUFFICES ASSUME TypeOK, LockInv, TxnInv, QueueInv, PoolInv, [Next]_vars,
                    NEW p \in Processes, Action[p] = "Store",
                    status'[p] \notin {"exited", "killed"},
                    Parallel(p) \/ errors'[p] = {},
                    NEW f \in Range(Queue[p]) \cap Storable, ~Deleted(Id[f])
             PROVE  f \in Range(queue'[p]) \/ InWork(p, f)' \/ IsStored(f)'
  BY DEF PoolInv
<1>0. f \in Files /\ f \notin Unconvertible \cup Unreadable \cup MayNotFit /\ f # None
  BY StoreAssumption DEF Storable
<1>1. IsStored(f) => IsStored(f)'
  BY <1>0, StoredStays
<1>2. ASSUME status[p] \notin {"exited", "killed"}, Parallel(p) \/ errors[p] = {}
      PROVE  f \in Range(queue[p]) \/ InWork(p, f) \/ IsStored(f)
  BY <1>2 DEF PoolInv
<1> HIDE DEF PoolInv
<1>3. ASSUME queue'[p] = queue[p], errors'[p] = errors[p],
             status[p] \notin {"exited", "killed"},
             \A v \in WorkersOf(p) : pc'[v] = pc[v] /\ file'[v] = file[v]
      PROVE  f \in Range(queue'[p]) \/ InWork(p, f)' \/ IsStored(f)'
  BY <1>1, <1>2, <1>3 DEF InWork
<1>4. ASSUME NEW w \in Workers, Work(w), status' = status
      PROVE  f \in Range(queue'[p]) \/ InWork(p, f)' \/ IsStored(f)'
  <2>1. /\ \A v \in Workers : v # w => pc'[v] = pc[v] /\ file'[v] = file[v]
        /\ \A q \in Processes : q # ProcessOf(w) => queue'[q] = queue[q] /\ errors'[q] = errors[q]
        /\ errors[ProcessOf(w)] \subseteq errors'[ProcessOf(w)]
    BY <1>4, WorkFrame
  <2>2. CASE ProcessOf(w) # p
    <3>1. \A v \in WorkersOf(p) : pc'[v] = pc[v] /\ file'[v] = file[v]
      BY <2>1, <2>2, WorkersOfFacts
    <3> QED BY <1>3, <1>4, <2>1, <2>2, <3>1
  <2>3. CASE ProcessOf(w) = p
    <3>1. f \in Range(queue[p]) \/ InWork(p, f) \/ IsStored(f)
      BY <1>2, <1>4, <2>1, <2>3
    <3>2. w \in WorkersOf(p)
      BY <2>3, WorkerFacts
    <3>3. ASSUME NEW v \in WorkersOf(p), v # w, file[v] = f,
                 pc[v] \in {"convert", "open", "stream", "meta", "commit"}
          PROVE  InWork(p, f)'
      <4>1. pc'[v] = pc[v] /\ file'[v] = file[v]
        BY <2>1, <3>3, WorkersOfFacts
      <4> QED BY <3>3, <4>1 DEF InWork
    <3>4. CASE TakeTask(w)
      <4>1. /\ queue[p] \in Seq(Files) /\ queue[p] # <<>> /\ queue'[p] = Tail(queue[p])
            /\ file'[w] = Head(queue[p]) /\ pc'[w] = "convert" /\ pc[w] = "idle"
        BY <2>3, <3>4 DEF TakeTask, TypeOK
      <4>2. f \in Range(queue[p]) => f = Head(queue[p]) \/ f \in Range(queue'[p])
        BY <4>1, HeadOrTail
      <4>3. f = Head(queue[p]) => InWork(p, f)'
        BY <3>2, <4>1 DEF InWork
      <4>4. InWork(p, f) => InWork(p, f)'
        BY <3>3, <4>1 DEF InWork
      <4> QED BY <1>1, <3>1, <4>2, <4>3, <4>4
    <3>5. CASE ConversionFails(w)
      <4>1. /\ file[w] \in Unconvertible /\ file[w] \in errors'[p]
            /\ Parallel(p) => queue' = queue
        BY <2>3, <3>5 DEF ConversionFails, TypeOK
      <4>2. InWork(p, f) => InWork(p, f)'
        BY <1>0, <3>3, <4>1 DEF InWork
      <4> QED BY <1>1, <3>1, <4>1, <4>2
    <3>6. CASE CloseAndUnlock(w)
      <4>1. pc[w] = "close" /\ queue' = queue
        BY <3>6 DEF CloseAndUnlock, run
      <4>2. InWork(p, f) => InWork(p, f)'
        BY <3>3, <4>1 DEF InWork
      <4> QED BY <1>1, <3>1, <4>1, <4>2
    <3>7. CASE ~TakeTask(w) /\ ~ConversionFails(w) /\ ~CloseAndUnlock(w)
      <4>1. file' = file /\ queue' = queue
            /\ (~Commit(w) => pc'[w] \in {"open", "stream", "meta", "commit"})
        BY <1>4, <3>7, SameFile
      <4>2. ASSUME Commit(w), file[w] = f PROVE IsStored(f)'
        <5>1. Action[ProcessOf(w)] = "Store" /\ Index!StoreFile(f)
          BY <1>0, <2>3, <4>2, CommitFacts
        <5>2. Contents[f] \subseteq fps' /\ meta' = [meta EXCEPT ![Id[f]] = f] /\ Id[f] \in Ids
          BY <1>0, <5>1, StoreAssumption DEF Index!StoreFile
        <5> QED BY <1>0, <5>2 DEF IsStored, TypeOK
      <4>3. ASSUME ~Commit(w), file[w] = f PROVE InWork(p, f)'
        BY <3>2, <4>1, <4>3 DEF InWork
      <4>4. InWork(p, f) => InWork(p, f)' \/ IsStored(f)'
        BY <3>3, <4>2, <4>3 DEF InWork
      <4> QED BY <1>1, <3>1, <4>1, <4>4
    <3> QED BY <3>4, <3>5, <3>6, <3>7
  <2> QED BY <2>2, <2>3
<1>5. ASSUME NEW q \in Processes, NEW how \in {"exited", "killed"}, Dies(q, how)
      PROVE  f \in Range(queue'[p]) \/ InWork(p, f)' \/ IsStored(f)'
  <2>1. q # p
    BY <1>5 DEF Dies, TypeOK
  <2>2. queue'[p] = queue[p] /\ errors' = errors /\ status'[p] = status[p]
    BY <1>5, <2>1 DEF Dies, TypeOK
  <2>3. \A v \in WorkersOf(p) : pc'[v] = pc[v] /\ file'[v] = file[v]
    BY <1>5, <2>1, WorkersOfFacts DEF Dies
  <2> QED BY <1>3, <2>2, <2>3
<1>6. ASSUME NEW q \in Processes, ProcessEnds(q)
      PROVE  f \in Range(queue'[p]) \/ InWork(p, f)' \/ IsStored(f)'
  <2>1. UNCHANGED <<queue, errors, pc, file>> /\ status[p] \notin {"exited", "killed"}
    BY <1>6 DEF ProcessEnds, TypeOK
  <2> QED BY <1>3, <2>1
<1>7. CASE UNCHANGED vars
  BY <1>3, <1>7 DEF vars
<1>8. ASSUME NEW w \in Workers, Work(w)
      PROVE  f \in Range(queue'[p]) \/ InWork(p, f)' \/ IsStored(f)'
  BY <1>4, <1>5, <1>8, WorkOrDie, WorkerFacts
<1>9. ASSUME NEW q \in Processes, Crash(q)
      PROVE  f \in Range(queue'[p]) \/ InWork(p, f)' \/ IsStored(f)'
  BY <1>5, <1>9 DEF Crash
<1> QED BY <1>6, <1>7, <1>8, <1>9 DEF Next

-----------------------------------------------------------------------------
\* The results.

\* The inductive invariant: types, the owners of the locks, the fill of the
\* buffer, what an open transaction holds, and where the files are.
THEOREM Invariance == Spec => []IInv
<1>1. Init => IInv
  <2> SUFFICES ASSUME Init PROVE IInv
    OBVIOUS
  <2>1. \A w \in Workers : pc[w] = "idle" /\ buffer[w] = <<>> /\ batch[w] = 0
    BY DEF Init
  <2>2. LockInv /\ BufferInv /\ TxnInv
    BY <2>1 DEF LockInv, BufferInv, TxnInv, Exact, EnvOpen, InTxn
  <2>3. QueueInv /\ PoolInv
    BY DEF Init, QueueInv, PoolInv
  <2> QED BY <2>2, <2>3, InitType DEF IInv
<1>2. IInv /\ [Next]_vars => IInv'
  BY TypeStep, LockStep, BufferStep, TxnStep, QueueStep, PoolStep DEF IInv
<1> QED BY <1>1, <1>2, PTL DEF Spec

\* Every variable has its type in every reachable state.
THEOREM TypeCorrect == Spec => []TypeOK
<1>1. IInv => TypeOK
  BY DEF IInv
<1> QED BY <1>1, Invariance, PTL

\* A process never has two environments open for writing: the lock of
\* olaf_db.c spans the life of the environment.
THEOREM NeverTwoEnvironments == Spec => []OneEnvironmentPerProcess
<1>1. IInv => OneEnvironmentPerProcess
  BY DEF IInv, LockInv, OneEnvironmentPerProcess
<1> QED BY <1>1, Invariance, PTL

\* The unchecked arrays of the database writer are never overrun, as long as
\* a batch fits above the threshold.
THEOREM BufferIsLargeEnough == Spec => []BufferHoldsBatch
<1>1. IInv => BufferHoldsBatch
  BY BatchFacts DEF IInv, BufferHoldsBatch
<1> QED BY <1>1, Invariance, PTL

\* A pool that ends by itself has stored every file that can be stored, errors
\* in other files, other processes and their kills notwithstanding.
THEOREM PoolStoresTheRest == Spec => []EndedPoolStoredTheRest
<1>1. IInv => EndedPoolStoredTheRest
  <2> SUFFICES ASSUME IInv, NEW p \in Processes, Action[p] = "Store",
                      status[p] = "ended" \/ (status[p] = "failed" /\ Parallel(p)),
                      NEW f \in Range(Queue[p]) \cap Storable, ~Deleted(Id[f])
               PROVE  Contents[f] \subseteq fps /\ meta[Id[f]] # None
    BY DEF EndedPoolStoredTheRest
  <2>1. Parallel(p) \/ errors[p] = {}
    BY DEF IInv, QueueInv
  <2>2. f \in Range(queue[p]) \/ InWork(p, f) \/ IsStored(f)
    BY <2>1 DEF IInv, PoolInv
  <2>3. queue[p] = <<>> /\ \A w \in WorkersOf(p) : pc[w] \in {"idle", "gone"}
    BY DEF IInv, QueueInv
  <2>4. f \notin Range(queue[p]) /\ ~InWork(p, f)
    BY <2>3 DEF Range, InWork
  <2> QED BY <2>2, <2>4 DEF IsStored
<1> QED BY <1>1, Invariance, PTL

\* A step stores or deletes one whole file or changes nothing.
LEMMA StepOfIndex ==
  ASSUME IInv, [Next]_vars
  PROVE  [Index!IndexNext]_(Index!indexVars)
BY CommitFacts, OnlyCommits DEF IInv, Index!IndexNext, Index!indexVars

\* The threads and processes implement OlafIndex.
THEOREM ImplementsIndex == Spec => IndexSpec
<1>1. Init => Index!IndexInit
  BY DEF Init, Index!IndexInit
<1>2. IInv /\ [Next]_vars => [Index!IndexNext]_(Index!indexVars)
  BY StepOfIndex
<1> QED BY <1>1, <1>2, Invariance, PTL DEF Spec, IndexSpec, Index!IndexSpec

\* An entry that a file adds to the index carries the number of the file.
LEMMA EntriesAreNumbered == Index!EntriesCarryTheirId
<1>1. ASSUME NEW f \in Files, NEW e \in Contents[f]
      PROVE  e[2] = Id[f]
  <2>1. PICK n \in 1 .. Len(Audio[f]) : e \in Range(EntriesOf(f, Audio[f][n]))
    BY <1>1 DEF Contents, Produced
  <2>2. PICK m \in DOMAIN Audio[f][n] : e = Entry(f, Audio[f][n][m])
    BY <2>1 DEF Range, EntriesOf
  <2> QED BY <2>2 DEF Entry
<1>2. ASSUME NEW f \in Files, NEW g \in Files, Contents[f] \cap Contents[g] # {}
      PROVE  Id[f] = Id[g]
  <2>1. PICK e \in Contents[f] : e \in Contents[g]
    BY <1>2
  <2> QED BY <2>1, <1>1
<1> QED BY <1>2 DEF Index!EntriesCarryTheirId

\* What StoredIsComplete needs to be inductive: the meta data of a number is
\* that of a file that is stored under it.
StoredInv == /\ Index!IndexTypeOK
             /\ \A i \in Ids : meta[i] # None => Id[meta[i]] = i
             /\ Index!StoredIsComplete

LEMMA StoredStep ==
  ASSUME StoredInv, [Index!IndexNext]_(Index!indexVars)
  PROVE  StoredInv'
<1> USE DEF StoredInv, Index!StoredIsComplete, Index!IndexTypeOK
<1>1. ASSUME NEW f \in Files, Index!StoreFile(f) PROVE StoredInv'
  <2>1. /\ Id[f] \in Ids /\ fps' = fps \cup Contents[f]
        /\ \A i \in Ids : meta'[i] = IF i = Id[f] THEN f ELSE meta[i]
    BY <1>1, StoreAssumption DEF Index!StoreFile
  <2>2. Index!IndexTypeOK'
    BY <1>1 DEF Index!StoreFile
  <2> QED BY <2>1, <2>2
<1>2. ASSUME NEW f \in Files, Index!DeleteFile(f) PROVE StoredInv'
  <2>1. Index!IndexTypeOK'
    BY <1>2 DEF Index!DeleteFile
  <2>2. ASSUME NEW i \in Ids, meta'[i] # None
        PROVE  Id[meta'[i]] = i /\ Contents[meta'[i]] \subseteq fps'
    <3>1. i # Id[f] /\ meta'[i] = meta[i]
      BY <1>2, <2>2, StoreAssumption DEF Index!DeleteFile
    <3>2. meta[i] \in Files /\ Id[meta[i]] = i /\ Contents[meta[i]] \subseteq fps
      BY <2>2, <3>1
    <3>3. Contents[meta[i]] \cap Contents[f] = {}
      BY <3>1, <3>2, EntriesAreNumbered DEF Index!EntriesCarryTheirId
    <3> QED BY <1>2, <3>1, <3>2, <3>3 DEF Index!DeleteFile
  <2> QED BY <2>1, <2>2
<1>3. CASE UNCHANGED Index!indexVars
  BY <1>3 DEF Index!indexVars
<1> QED BY <1>1, <1>2, <1>3 DEF Index!IndexNext

\* A file that has meta data has all of its entries in the database, whatever
\* the threads and processes do and wherever they are killed, also when files
\* share a number.
THEOREM StoredFilesAreWhole == Spec => []Index!StoredIsComplete
<1>1. Init => StoredInv
  BY DEF Init, StoredInv, Index!StoredIsComplete, Index!IndexTypeOK
<1>2. IInv /\ [Next]_vars /\ StoredInv => StoredInv'
  BY StepOfIndex, StoredStep
<1>3. StoredInv => Index!StoredIsComplete
  BY DEF StoredInv
<1> QED BY <1>1, <1>2, <1>3, Invariance, PTL DEF Spec

\* What NoOrphans needs to be inductive: a number has the meta data of a file
\* that is stored under it.
OrphanInv == /\ Index!IndexTypeOK
             /\ \A i \in Ids : meta[i] # None => Id[meta[i]] = i
             /\ NoOrphans

LEMMA OrphanStep ==
  ASSUME Index!IdsAreUnique, OrphanInv, [Index!IndexNext]_(Index!indexVars)
  PROVE  OrphanInv'
<1> USE DEF OrphanInv, NoOrphans, Index!NoOrphans, Index!IndexTypeOK
<1>1. ASSUME NEW f \in Files, Index!StoreFile(f) PROVE OrphanInv'
  <2>1. Id[f] \in Ids /\ meta' = [meta EXCEPT ![Id[f]] = f] /\ fps' = fps \cup Contents[f]
    BY <1>1, StoreAssumption DEF Index!StoreFile
  <2>2. Index!IndexTypeOK' /\ (\A i \in Ids : meta'[i] # None => Id[meta'[i]] = i)
    BY <1>1, <2>1, StoreAssumption DEF Index!StoreFile
  <2>3. ASSUME NEW e \in fps'
        PROVE  \E i \in Ids : meta'[i] # None /\ e \in Contents[meta'[i]]
    <3>1. CASE e \in Contents[f]
      <4>1. meta'[Id[f]] = f /\ f # None
        BY <2>1, StoreAssumption
      <4> QED BY <2>1, <3>1, <4>1
    <3>2. CASE e \in fps
      <4>1. PICK i \in Ids : meta[i] # None /\ e \in Contents[meta[i]]
        BY <3>2
      <4>2. i = Id[f] => meta[i] = f
        BY <4>1 DEF Index!IdsAreUnique
      <4> QED BY <2>1, <4>1, <4>2
    <3> QED BY <2>1, <3>1, <3>2
  <2> QED BY <2>2, <2>3
<1>2. ASSUME NEW f \in Files, Index!DeleteFile(f) PROVE OrphanInv'
  <2>1. Index!IndexTypeOK' /\ (\A i \in Ids : meta'[i] # None => Id[meta'[i]] = i)
    BY <1>2, StoreAssumption DEF Index!DeleteFile
  <2>2. ASSUME NEW e \in fps'
        PROVE  \E i \in Ids : meta'[i] # None /\ e \in Contents[meta'[i]]
    <3>1. e \in fps /\ e \notin Contents[f]
      BY <1>2 DEF Index!DeleteFile
    <3>2. PICK i \in Ids : meta[i] # None /\ e \in Contents[meta[i]]
      BY <3>1
    <3>3. i # Id[f]
      BY <3>1, <3>2 DEF Index!IdsAreUnique
    <3>4. meta'[i] = meta[i]
      BY <1>2, <3>3 DEF Index!DeleteFile
    <3> QED BY <3>2, <3>4
  <2> QED BY <2>1, <2>2
<1>3. CASE UNCHANGED Index!indexVars
  BY <1>3 DEF Index!indexVars
<1> QED BY <1>1, <1>2, <1>3 DEF Index!IndexNext

\* Store and delete by any number of threads and processes, killed anywhere,
\* leave no entry without meta data when no two files have the same number.
THEOREM NothingIsLeftBehind ==
  ASSUME Index!IdsAreUnique
  PROVE  Spec => []NoOrphans
<1>1. Init => OrphanInv
  BY DEF Init, OrphanInv, NoOrphans, Index!NoOrphans, Index!IndexTypeOK
<1>2. IInv /\ [Next]_vars /\ OrphanInv => OrphanInv'
  BY StepOfIndex, OrphanStep
<1>3. OrphanInv => NoOrphans
  BY DEF OrphanInv
<1> QED BY <1>1, <1>2, <1>3, Invariance, PTL DEF Spec
=============================================================================
