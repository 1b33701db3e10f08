--------------------------- MODULE SnapshotReaders ---------------------------
(***************************************************************************)
(* Queries beside stores: how long a reader may rely on its snapshot.      *)
(*                                                                         *)
(* A query opens the database once (olaf_db.c, read-only with MDB_NOLOCK)  *)
(* and reads it until its audio ends; `olaf store` begins and commits a    *)
(* transaction for every file meanwhile.  LMDB copies what it changes to   *)
(* other pages and reuses a page when no reader it knows of can see it;    *)
(* readers without locks are not known to it.                              *)
(*                                                                         *)
(* A page is modelled by the transaction that wrote it last.               *)
(***************************************************************************)
EXTENDS Integers, Functions

CONSTANTS
  MaxPages, \* bound: pages of the map
  Readers,
  MaxTxn    \* bound: transactions

ASSUME PagesAssumption ==
  /\ MaxPages \in Nat \ {0}
  /\ MaxTxn \in Nat \ {0}

VARIABLES
  file,     \* the map: per page the transaction that wrote it last, 0 for never
  meta,     \* the newer of the two meta pages: the committed tree
  txn,      \* the tree of the write transaction, or None
  dirty,    \* pages that are still to be written to the map
  begun,    \* the highest number of a transaction so far
  snapshot  \* per reader: the tree it reads, or None

vars == <<file, meta, txn, dirty, begun, snapshot>>

Pages == 1 .. MaxPages

\* A tree: who wrote it, its pages with the transaction that wrote each, free
\* pages with the transaction that freed each (FREE_DBI is part of the tree),
\* and the last page in use.
Tree(id, pages, freed, last) == [id |-> id, pages |-> pages, freed |-> freed, last |-> last]

\* What there is when there is none.
None == Tree(0, [p \in {} |-> 0], [p \in {} |-> 0], 0)

Init ==
  /\ file = [p \in Pages |-> IF p = 1 THEN 1 ELSE 0]
  /\ meta = Tree(1, [p \in {1} |-> 1], [p \in {} |-> 0], 1)
  /\ txn = None
  /\ dirty = {}
  /\ begun = 1
  /\ snapshot = [r \in Readers |-> None]

-----------------------------------------------------------------------------
(* Readers: olaf_db_new and olaf_db_destroy of a query. *)

Open(r) ==
  /\ snapshot[r] = None
  /\ snapshot' = [snapshot EXCEPT ![r] = meta]
  /\ UNCHANGED <<file, meta, txn, dirty, begun>>

Close(r) ==
  /\ snapshot[r] # None
  /\ snapshot' = [snapshot EXCEPT ![r] = None]
  /\ UNCHANGED <<file, meta, txn, dirty, begun>>

-----------------------------------------------------------------------------
(* The writer: LMDB's own lock lets one in. *)

\* Variant of BeginWrite: the number of the transaction is not advanced.
BeginWriteSameId ==
  /\ txn = None
  /\ meta.id < MaxTxn
  /\ txn' = meta
  /\ dirty' = {}
  /\ UNCHANGED <<file, meta, begun, snapshot>>

\* A transaction starts from the committed tree.
BeginWrite ==
  /\ txn = None
  /\ meta.id < MaxTxn
  /\ txn' = [meta EXCEPT !.id = meta.id + 1]
  /\ dirty' = {}
  /\ begun' = IF meta.id + 1 > begun THEN meta.id + 1 ELSE begun
  /\ UNCHANGED <<file, meta, snapshot>>

\* Variant of mdb_find_oldest: the tree the transaction starts from is no
\* longer needed.
OldestIsOwn(id) == id

\* The oldest transaction a reader may still see.  The table of readers is
\* empty: it is the one before this one.
mdb_find_oldest(id) == id - 1

\* Pages that were freed before that one, and the first after all others.
Reusable ==
  {p \in DOMAIN txn.freed : txn.freed[p] < mdb_find_oldest(txn.id)}
    \cup {p \in Pages : p = txn.last + 1}

\* mdb_page_alloc gives the transaction a page; old ones are freed by it.
With(new, old) ==
  Tree(txn.id,
       [p \in (DOMAIN txn.pages \ old) \cup {new} |-> IF p = new THEN txn.id ELSE txn.pages[p]],
       [p \in (DOMAIN txn.freed \ {new}) \cup old |-> IF p \in old THEN txn.id ELSE txn.freed[p]],
       IF new > txn.last THEN new ELSE txn.last)

\* Variant of Touch: the page is not freed.
TouchOnly(old, new) ==
  /\ txn # None
  /\ old \in DOMAIN txn.pages /\ txn.pages[old] # txn.id
  /\ new \in Reusable
  /\ txn' = [With(new, {}) EXCEPT !.pages = [p \in DOMAIN @ \ {old} |-> @[p]]]
  /\ dirty' = dirty \cup {new}
  /\ UNCHANGED <<file, meta, begun, snapshot>>

\* mdb_page_touch: a page of the tree is copied before it is changed.
Touch(old, new) ==
  /\ txn # None
  /\ old \in DOMAIN txn.pages /\ txn.pages[old] # txn.id
  /\ new \in Reusable
  /\ txn' = With(new, {old})
  /\ dirty' = dirty \cup {new}
  /\ UNCHANGED <<file, meta, begun, snapshot>>

\* The tree grows by a page.
Grow(new) ==
  /\ txn # None
  /\ new \in Reusable
  /\ txn' = With(new, {})
  /\ dirty' = dirty \cup {new}
  /\ UNCHANGED <<file, meta, begun, snapshot>>

\* A page is no longer needed: its neighbour has room for what it holds.
Shrink(old) ==
  /\ txn # None
  /\ old \in DOMAIN txn.pages /\ txn.pages[old] # txn.id
  /\ DOMAIN txn.pages # {old}
  /\ txn' = [txn EXCEPT !.pages = [p \in DOMAIN @ \ {old} |-> @[p]],
                        !.freed = [p \in DOMAIN @ \cup {old} |-> IF p = old THEN txn.id ELSE @[p]]]
  /\ UNCHANGED <<file, meta, dirty, begun, snapshot>>

\* Dirty pages are written at the commit, or before when there are too many.
Flush(p) ==
  /\ p \in dirty
  /\ file' = [file EXCEPT ![p] = txn.id]
  /\ dirty' = dirty \ {p}
  /\ UNCHANGED <<meta, txn, begun, snapshot>>

\* Variant of Commit: the meta page is written before the pages.
CommitFirst ==
  /\ txn # None
  /\ meta' = txn
  /\ txn' = None
  /\ dirty' = {}
  /\ UNCHANGED <<file, begun, snapshot>>

\* The meta page comes last.
Commit ==
  /\ txn # None
  /\ dirty = {}
  /\ meta' = txn
  /\ txn' = None
  /\ UNCHANGED <<file, dirty, begun, snapshot>>

\* The process of the writer ends before its commit.
Crash ==
  /\ txn # None
  /\ txn' = None
  /\ dirty' = {}
  /\ UNCHANGED <<file, meta, begun, snapshot>>

Next ==
  \/ \E r \in Readers : Open(r) \/ Close(r)
  \/ BeginWrite
  \/ \E old, new \in Pages : Touch(old, new)
  \/ \E p \in Pages : Grow(p) \/ Shrink(p) \/ Flush(p)
  \/ Commit
  \/ Crash

Spec == Init /\ [][Next]_vars

-----------------------------------------------------------------------------
(* Properties *)

Ids == 1 .. MaxTxn

TreeTypeOK(tree) ==
  /\ tree.id \in Ids
  /\ tree.last \in Pages
  /\ DOMAIN tree.pages \cup DOMAIN tree.freed \subseteq Pages
  /\ Range(tree.pages) \cup Range(tree.freed) \subseteq 1 .. tree.id

TypeOK ==
  /\ file \in [Pages -> 0 .. MaxTxn]
  /\ TreeTypeOK(meta)
  /\ txn # None => TreeTypeOK(txn) /\ txn.id = meta.id + 1
  /\ dirty \subseteq Pages /\ (txn = None => dirty = {})
  /\ begun \in {meta.id, meta.id + 1}
  /\ \A r \in Readers : snapshot[r] # None => TreeTypeOK(snapshot[r])

Intact(tree) == \A p \in DOMAIN tree.pages : file[p] = tree.pages[p]

\* A kill at any point leaves the database as it was committed: what a writer
\* has written to the map is nowhere in the committed tree.
CommittedIsIntact == Intact(meta)

\* Every page up to the last is in the tree or free, and not both: none is
\* lost and none is given out twice, however often writers are killed.
Accounted(tree) ==
  /\ DOMAIN tree.pages \cup DOMAIN tree.freed = 1 .. tree.last
  /\ DOMAIN tree.pages \cap DOMAIN tree.freed = {}

PagesAreAccountedFor == Accounted(meta) /\ (txn # None => Accounted(txn))

\* What a query sees is what it saw when it began, as long as at most two
\* files were stored since and no third one was begun (olaf_db.c:98).
SnapshotOutlivesTwoWriters ==
  \A r \in Readers :
    snapshot[r] # None /\ begun <= snapshot[r].id + 2 => Intact(snapshot[r])

-----------------------------------------------------------------------------
(* The parts of the inductive invariant. *)

\* Trees are records, and there is a snapshot, or none, of each reader.
IsTree(tree) == tree = Tree(tree.id, tree.pages, tree.freed, tree.last)

ShapeInv ==
  /\ IsTree(meta)
  /\ txn # None => IsTree(txn)
  /\ snapshot = [r \in Readers |-> snapshot[r]]

\* A later tree has the pages of an earlier one, or they were freed since.
Keeps(later, earlier) ==
  \A p \in DOMAIN earlier.pages :
    \/ p \in DOMAIN later.pages /\ later.pages[p] = earlier.pages[p]
    \/ p \in DOMAIN later.freed /\ later.freed[p] > earlier.id

\* Pages of the transaction that are not in the map are dirty, and those are
\* pages it was given.
WriterInv ==
  txn # None =>
    /\ begun = txn.id
    /\ Keeps(txn, meta)
    /\ \A p \in dirty : p \in DOMAIN txn.pages /\ txn.pages[p] = txn.id
    /\ \A p \in DOMAIN txn.pages \ dirty : file[p] = txn.pages[p]

\* Until a third transaction has begun no page of a snapshot was free for long
\* enough to be used again.
ReaderInv ==
  \A r \in Readers : snapshot[r] # None =>
    /\ snapshot[r].id <= meta.id
    /\ begun <= snapshot[r].id + 2 =>
         /\ Intact(snapshot[r])
         /\ Keeps(meta, snapshot[r])
         /\ txn # None => Keeps(txn, snapshot[r])

IInv ==
  /\ TypeOK
  /\ ShapeInv
  /\ PagesAreAccountedFor
  /\ CommittedIsIntact
  /\ WriterInv
  /\ ReaderInv

=============================================================================
