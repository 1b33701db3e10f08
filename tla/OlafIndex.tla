----------------------------- MODULE OlafIndex ------------------------------
(***************************************************************************)
(* What the reference database promises: an audio file is in the index as  *)
(* a whole or not at all.  It is the abstract specification of olaf_db.c,  *)
(* without threads, processes, locks, buffers, transactions and crashes;   *)
(* StoreThreads and CachePipeline are shown to implement it.               *)
(*                                                                         *)
(* An entry of the index is a fingerprint with the number of the file it   *)
(* comes from.  Two files may have the same number: it is a 32 bit hash of *)
(* the name, or a number a user gave.                                      *)
(***************************************************************************)
CONSTANTS
  Files,     \* audio files
  Ids,       \* the numbers files are stored under
  Id,        \* the number of each file
  Contents,  \* the entries each file adds to the index
  None       \* no meta data

ASSUME IndexAssumption ==
  /\ Id \in [Files -> Ids]
  /\ None \notin Files

VARIABLES
  fps,   \* the entries of olaf_fingerprints
  meta   \* olaf_resource_map: the file last stored under each number, or None

indexVars == <<fps, meta>>

IndexTypeOK == meta \in [Ids -> Files \cup {None}]

IndexInit ==
  /\ fps = {}
  /\ meta = [i \in Ids |-> None]

\* Storing adds the entries and replaces the meta data of the number.
StoreFile(f) ==
  /\ fps' = fps \cup Contents[f]
  /\ meta' = [meta EXCEPT ![Id[f]] = f]

\* Deleting needs the audio again: it removes the entries that this audio
\* gives, and it fails for a number that has no meta data.
DeleteFile(f) ==
  /\ meta[Id[f]] # None
  /\ fps' = fps \ Contents[f]
  /\ meta' = [meta EXCEPT ![Id[f]] = None]

IndexNext == \E f \in Files : StoreFile(f) \/ DeleteFile(f)

IndexSpec == IndexInit /\ [][IndexNext]_indexVars

\* A file that has meta data has all of its entries in the index: a query
\* that is told of the file can match every part of it.
StoredIsComplete ==
  \A i \in Ids : meta[i] # None => Contents[meta[i]] \subseteq fps

\* Every entry belongs to a file with meta data: a match can be reported with
\* a path.  It needs files with numbers of their own: the entries that another
\* file, or an earlier version of this one, left under the number stay.
NoOrphans ==
  \A e \in fps : \E i \in Ids : meta[i] # None /\ e \in Contents[meta[i]]

\* No two files are stored under one number.
IdsAreUnique == \A f, g \in Files : Id[f] = Id[g] => f = g

\* Entries carry the number of their file, so only files that share a number
\* can have an entry in common.
EntriesCarryTheirId ==
  \A f, g \in Files : Contents[f] \cap Contents[g] # {} => Id[f] = Id[g]
=============================================================================
