----------------------- MODULE SnapshotReadersProofs ------------------------
(***************************************************************************)
(* Proofs about SnapshotReaders, for every number of readers, pages and    *)
(* transactions: a kill leaves what was committed, no page is lost or      *)
(* given out twice, and a snapshot outlives two writers.                   *)
(***************************************************************************)
EXTENDS SnapshotReaders, TLAPS

-----------------------------------------------------------------------------
\* Facts about trees.

LEMMA Fields ==
  ASSUME NEW id, NEW pages, NEW freed, NEW last
  PROVE  /\ Tree(id, pages, freed, last).id = id
         /\ Tree(id, pages, freed, last).pages = pages
         /\ Tree(id, pages, freed, last).freed = freed
         /\ Tree(id, pages, freed, last).last = last
         /\ IsTree(Tree(id, pages, freed, last))
  BY DEF Tree, IsTree

\* The numbers in a tree are those of transactions up to its own.
LEMMA TreeFacts ==
  ASSUME NEW t, TreeTypeOK(t)
  PROVE  /\ t.id \in Nat \ {0} /\ t.id <= MaxTxn
         /\ t.last \in Nat \ {0} /\ t.last <= MaxPages
         /\ \A p \in DOMAIN t.pages : p \in Pages /\ t.pages[p] \in 1 .. t.id
         /\ \A p \in DOMAIN t.freed : p \in Pages /\ t.freed[p] \in 1 .. t.id
<1>1. t.id \in 1 .. MaxTxn /\ t.last \in 1 .. MaxPages
  BY DEF TreeTypeOK, Ids, Pages
<1>2. \A p \in DOMAIN t.pages : t.pages[p] \in Range(t.pages)
  BY DEF Range
<1>3. \A p \in DOMAIN t.freed : t.freed[p] \in Range(t.freed)
  BY DEF Range
<1> QED BY <1>1, <1>2, <1>3, PagesAssumption DEF TreeTypeOK

\* A tree with a number is not None.
LEMMA IsSome == ASSUME NEW t, t.id \in Nat \ {0} PROVE t # None
  BY Fields DEF None

LEMMA TreeTyped ==
  ASSUME NEW t,
         t.id \in Ids, t.last \in Pages,
         \A p \in DOMAIN t.pages : p \in Pages /\ t.pages[p] \in 1 .. t.id,
         \A p \in DOMAIN t.freed : p \in Pages /\ t.freed[p] \in 1 .. t.id
  PROVE  TreeTypeOK(t)
<1>1. Range(t.pages) \subseteq 1 .. t.id
  BY DEF Range
<1>2. Range(t.freed) \subseteq 1 .. t.id
  BY DEF Range
<1> QED BY <1>1, <1>2 DEF TreeTypeOK

LEMMA InitIInv == Init => IInv
<1> SUFFICES ASSUME Init PROVE IInv
  OBVIOUS
<1>1. 1 \in Pages /\ 1 \in Ids /\ MaxTxn \in Nat
  BY PagesAssumption DEF Pages, Ids
<1>2. /\ meta.id = 1 /\ meta.last = 1 /\ IsTree(meta)
      /\ meta.pages = [p \in {1} |-> 1] /\ meta.freed = [p \in {} |-> 0]
  BY Fields DEF Init
<1>3. TreeTypeOK(meta)
  BY <1>1, <1>2, TreeTyped
<1>4. TypeOK
  <2>1. file \in [Pages -> 0 .. MaxTxn]
    BY <1>1, PagesAssumption DEF Init, Ids
  <2>2. txn = None /\ dirty = {} /\ begun = 1 /\ \A r \in Readers : snapshot[r] = None
    BY DEF Init
  <2> QED BY <1>2, <1>3, <2>1, <2>2 DEF TypeOK
<1>5. ShapeInv
  BY <1>2 DEF Init, ShapeInv
<1>6. PagesAreAccountedFor
  BY <1>2 DEF Init, PagesAreAccountedFor, Accounted
<1>7. CommittedIsIntact
  BY <1>1, <1>2 DEF Init, CommittedIsIntact, Intact
<1>8. WriterInv /\ ReaderInv
  BY DEF Init, WriterInv, ReaderInv
<1> QED BY <1>4, <1>5, <1>6, <1>7, <1>8 DEF IInv

-----------------------------------------------------------------------------
\* Readers.

LEMMA OpenIInv == ASSUME IInv, NEW r \in Readers, Open(r) PROVE IInv'
<1> USE DEF IInv
<1>1. /\ UNCHANGED <<file, meta, txn, dirty, begun>>
      /\ snapshot' = [q \in Readers |-> snapshot'[q]]
      /\ \A q \in Readers : snapshot'[q] \in {snapshot[q], meta}
  BY DEF Open, ShapeInv
<1>2. TypeOK'
  BY <1>1 DEF TypeOK
<1>3. ShapeInv' /\ PagesAreAccountedFor' /\ CommittedIsIntact' /\ WriterInv'
  BY <1>1 DEF ShapeInv, IsTree, PagesAreAccountedFor, CommittedIsIntact, Accounted, Intact, WriterInv, Keeps
<1>4. ReaderInv'
  <2>1. meta.id <= meta.id /\ Intact(meta) /\ Keeps(meta, meta) /\ (txn # None => Keeps(txn, meta))
    BY TreeFacts DEF TypeOK, CommittedIsIntact, WriterInv, Keeps
  <2> QED BY <1>1, <2>1 DEF ReaderInv, Intact, Keeps
<1> QED BY <1>2, <1>3, <1>4

LEMMA CloseIInv == ASSUME IInv, NEW r \in Readers, Close(r) PROVE IInv'
<1> USE DEF IInv
<1>1. /\ UNCHANGED <<file, meta, txn, dirty, begun>>
      /\ snapshot' = [q \in Readers |-> snapshot'[q]]
      /\ \A q \in Readers : snapshot'[q] \in {snapshot[q], None}
  BY DEF Close, ShapeInv
<1>2. TypeOK'
  BY <1>1 DEF TypeOK
<1>3. ShapeInv' /\ PagesAreAccountedFor' /\ CommittedIsIntact' /\ WriterInv'
  BY <1>1 DEF ShapeInv, IsTree, PagesAreAccountedFor, CommittedIsIntact, Accounted, Intact, WriterInv, Keeps
<1>4. ReaderInv'
  BY <1>1 DEF ReaderInv, Intact, Keeps
<1> QED BY <1>2, <1>3, <1>4

-----------------------------------------------------------------------------
\* The writer.

LEMMA BeginWriteIInv == ASSUME IInv, BeginWrite PROVE IInv'
<1> USE DEF IInv
<1>1. /\ txn = None /\ dirty = {} /\ dirty' = {}
      /\ UNCHANGED <<file, meta, snapshot>>
  BY DEF BeginWrite, TypeOK
<1>2. /\ txn'.id = meta.id + 1 /\ IsTree(txn')
      /\ txn'.pages = meta.pages /\ txn'.freed = meta.freed /\ txn'.last = meta.last
  BY DEF BeginWrite, ShapeInv, IsTree, Tree
<1>3. meta.id \in Nat /\ begun \in {meta.id, meta.id + 1} /\ begun' = meta.id + 1
  BY TreeFacts DEF BeginWrite, TypeOK
<1>4. TypeOK'
  <2>1. TreeTypeOK(meta) /\ meta.id < MaxTxn
    BY DEF TypeOK, BeginWrite
  <2>2. txn'.id \in Ids
    BY <1>2, <2>1, TreeFacts, PagesAssumption DEF Ids
  <2>3. TreeTypeOK(txn')
    BY <1>2, <1>3, <2>1, <2>2, TreeFacts, TreeTyped DEF TreeTypeOK
  <2> QED BY <1>1, <1>2, <1>3, <2>3 DEF TypeOK
<1>5. ShapeInv' /\ PagesAreAccountedFor' /\ CommittedIsIntact'
  BY <1>1, <1>2 DEF ShapeInv, IsTree, PagesAreAccountedFor, CommittedIsIntact, Accounted, Intact
<1>6. WriterInv'
  BY <1>1, <1>2, <1>3 DEF WriterInv, Keeps, CommittedIsIntact, Intact
<1>7. ReaderInv'
  <2> SUFFICES ASSUME NEW r \in Readers, snapshot[r] # None, begun' <= snapshot[r].id + 2
               PROVE  Intact(snapshot[r])' /\ Keeps(meta, snapshot[r])' /\ Keeps(txn, snapshot[r])'
    BY <1>1 DEF ReaderInv
  <2>1. begun <= snapshot[r].id + 2
    BY <1>3, TreeFacts DEF TypeOK
  <2>2. Intact(snapshot[r]) /\ Keeps(meta, snapshot[r])
    BY <2>1 DEF ReaderInv
  <2> QED BY <1>1, <1>2, <2>2 DEF Intact, Keeps
<1> QED BY <1>4, <1>5, <1>6, <1>7

\* A page that mdb_page_alloc may give out is in no tree that someone relies on.
LEMMA ReusableFacts ==
  ASSUME IInv, txn # None, NEW p \in Reusable
  PROVE  /\ p \in Pages
         /\ p \notin DOMAIN txn.pages
         /\ p \notin DOMAIN meta.pages
         /\ \A r \in Readers :
              snapshot[r] # None /\ begun <= snapshot[r].id + 2 => p \notin DOMAIN snapshot[r].pages
         /\ p \in DOMAIN txn.freed \/ p = txn.last + 1
<1> USE DEF IInv
<1>1. TreeTypeOK(txn) /\ TreeTypeOK(meta) /\ txn.id = meta.id + 1 /\ Accounted(txn) /\ txn.last \in Nat
  BY TreeFacts DEF TypeOK, PagesAreAccountedFor
<1>2. \/ p \in DOMAIN txn.freed /\ txn.freed[p] < txn.id - 1
      \/ p \in Pages /\ p = txn.last + 1 /\ p \notin DOMAIN txn.freed
  BY <1>1 DEF Reusable, mdb_find_oldest, Accounted
<1>3. p \in Pages /\ p \notin DOMAIN txn.pages
  BY <1>1, <1>2 DEF Accounted, TreeTypeOK
<1>4. p \notin DOMAIN meta.pages
  BY <1>1, <1>2, <1>3, TreeFacts DEF WriterInv, Keeps
<1>5. ASSUME NEW r \in Readers, snapshot[r] # None, begun <= snapshot[r].id + 2
      PROVE  p \notin DOMAIN snapshot[r].pages
  <2>1. Keeps(txn, snapshot[r]) /\ begun = txn.id
    BY <1>5 DEF ReaderInv, WriterInv
  <2>2. snapshot[r].id \in Nat /\ txn.id \in Nat
    BY <1>1, <1>5, TreeFacts DEF TypeOK
  <2> QED BY <1>1, <1>2, <1>3, <1>5, <2>1, <2>2, TreeFacts DEF Keeps
<1> QED BY <1>2, <1>3, <1>4, <1>5

\* What a tree keeps of an earlier one it still keeps when it gets a page that
\* the earlier one does not have.
LEMMA WithKeeps ==
  ASSUME NEW s, NEW new, NEW old \in SUBSET DOMAIN txn.pages,
         Keeps(txn, s), new \notin DOMAIN s.pages,
         s.id \in Nat, txn.id \in Nat, s.id < txn.id
  PROVE  Keeps(With(new, old), s)
<1> SUFFICES ASSUME NEW p \in DOMAIN s.pages
             PROVE  \/ p \in DOMAIN With(new, old).pages /\ With(new, old).pages[p] = s.pages[p]
                    \/ p \in DOMAIN With(new, old).freed /\ With(new, old).freed[p] > s.id
  BY DEF Keeps
<1>1. /\ With(new, old).pages = [q \in (DOMAIN txn.pages \ old) \cup {new} |-> IF q = new THEN txn.id ELSE txn.pages[q]]
      /\ With(new, old).freed = [q \in (DOMAIN txn.freed \ {new}) \cup old |-> IF q \in old THEN txn.id ELSE txn.freed[q]]
  BY Fields DEF With
<1>2. p # new
  OBVIOUS
<1>3. CASE p \in old
  BY <1>1, <1>2, <1>3
<1>4. CASE p \notin old
  BY <1>1, <1>2, <1>4 DEF Keeps
<1> QED BY <1>3, <1>4

\* mdb_page_alloc gives the transaction a page, and others are freed by it.
LEMMA AllocIInv ==
  ASSUME IInv, txn # None, NEW new \in Reusable, NEW old \in SUBSET DOMAIN txn.pages,
         \A p \in old : txn.pages[p] # txn.id,
         txn' = With(new, old),
         dirty' = dirty \cup {new},
         UNCHANGED <<file, meta, begun, snapshot>>
  PROVE  IInv'
<1> USE DEF IInv
<1>1. /\ TreeTypeOK(txn) /\ TreeTypeOK(meta) /\ txn.id = meta.id + 1
      /\ txn.id \in Nat \ {0} /\ meta.id \in Nat \ {0} /\ txn.last \in Nat \ {0}
  BY TreeFacts DEF TypeOK
<1>2. /\ new \in Pages /\ new \notin DOMAIN txn.pages
      /\ new \in DOMAIN txn.freed \/ new = txn.last + 1
  BY ReusableFacts
<1>3. /\ txn'.id = txn.id /\ IsTree(txn')
      /\ txn'.pages = [p \in (DOMAIN txn.pages \ old) \cup {new} |-> IF p = new THEN txn.id ELSE txn.pages[p]]
      /\ txn'.freed = [p \in (DOMAIN txn.freed \ {new}) \cup old |-> IF p \in old THEN txn.id ELSE txn.freed[p]]
      /\ txn'.last = IF new > txn.last THEN new ELSE txn.last
  BY Fields DEF With
<1>4. TypeOK'
  <2>1. \A p \in DOMAIN txn'.pages : p \in Pages /\ txn'.pages[p] \in 1 .. txn'.id
    BY <1>1, <1>2, <1>3, TreeFacts
  <2>2. \A p \in DOMAIN txn'.freed : p \in Pages /\ txn'.freed[p] \in 1 .. txn'.id
    BY <1>1, <1>2, <1>3, TreeFacts
  <2>3. txn'.id \in Ids /\ txn'.last \in Pages
    BY <1>1, <1>2, <1>3 DEF TreeTypeOK
  <2>4. TreeTypeOK(txn')
    BY <2>1, <2>2, <2>3, TreeTyped
  <2>5. txn' # None
    BY <1>1, <1>3, IsSome
  <2> QED BY <1>1, <1>2, <1>3, <2>4, <2>5 DEF TypeOK
<1>5. ShapeInv'
  BY <1>3 DEF ShapeInv, IsTree
<1>6. PagesAreAccountedFor'
  <2>1. DOMAIN txn.pages \cup DOMAIN txn.freed = 1 .. txn.last /\ DOMAIN txn.pages \cap DOMAIN txn.freed = {}
    BY DEF PagesAreAccountedFor, Accounted
  <2>2. /\ DOMAIN txn'.pages = (DOMAIN txn.pages \ old) \cup {new}
        /\ DOMAIN txn'.freed = (DOMAIN txn.freed \ {new}) \cup old
    BY <1>3
  <2>3. DOMAIN txn'.pages \cap DOMAIN txn'.freed = {}
    BY <1>2, <2>1, <2>2
  <2>4. DOMAIN txn'.pages \cup DOMAIN txn'.freed = 1 .. txn.last \cup {new}
    BY <1>2, <2>1, <2>2
  <2>5. 1 .. txn.last \cup {new} = 1 .. txn'.last
    BY <1>1, <1>2, <1>3, <2>1 DEF Pages
  <2> QED BY <2>3, <2>4, <2>5 DEF PagesAreAccountedFor, Accounted
<1>7. CommittedIsIntact'
  BY DEF CommittedIsIntact, Intact
<1>8. WriterInv'
  <2>1. begun = txn.id /\ Keeps(txn, meta) /\ new \notin DOMAIN meta.pages
    BY ReusableFacts DEF WriterInv
  <2>2. Keeps(txn', meta)
    BY <1>1, <2>1, WithKeeps
  <2>3. \A p \in dirty' : p \in DOMAIN txn'.pages /\ txn'.pages[p] = txn'.id
    <3> SUFFICES ASSUME NEW p \in dirty' PROVE p \in DOMAIN txn'.pages /\ txn'.pages[p] = txn'.id
      OBVIOUS
    <3>1. CASE p = new
      BY <1>3, <3>1
    <3>2. CASE p # new
      <4>1. p \in DOMAIN txn.pages /\ txn.pages[p] = txn.id
        BY <3>2 DEF WriterInv
      <4> QED BY <1>3, <3>2, <4>1
    <3> QED BY <3>1, <3>2
  <2>4. \A p \in DOMAIN txn'.pages \ dirty' : file'[p] = txn'.pages[p]
    <3> SUFFICES ASSUME NEW p \in DOMAIN txn'.pages \ dirty' PROVE file'[p] = txn'.pages[p]
      OBVIOUS
    <3>1. p # new /\ p \in DOMAIN txn.pages \ dirty
      BY <1>3
    <3> QED BY <1>3, <3>1 DEF WriterInv
  <2> QED BY <1>3, <2>1, <2>2, <2>3, <2>4 DEF WriterInv, Keeps
<1>9. ReaderInv'
  <2> SUFFICES ASSUME NEW r \in Readers, snapshot[r] # None
               PROVE  /\ snapshot[r].id <= meta.id
                      /\ begun <= snapshot[r].id + 2 =>
                           /\ Intact(snapshot[r]) /\ Keeps(meta, snapshot[r])
                           /\ Keeps(txn', snapshot[r])
    BY DEF ReaderInv, Intact, Keeps
  <2>1. snapshot[r].id \in Nat /\ snapshot[r].id <= meta.id
    BY TreeFacts DEF TypeOK, ReaderInv
  <2>2. ASSUME begun <= snapshot[r].id + 2
        PROVE  Intact(snapshot[r]) /\ Keeps(meta, snapshot[r]) /\ Keeps(txn', snapshot[r])
    <3>1. Intact(snapshot[r]) /\ Keeps(meta, snapshot[r]) /\ Keeps(txn, snapshot[r])
      BY <2>2 DEF ReaderInv
    <3>2. new \notin DOMAIN snapshot[r].pages
      BY <2>2, ReusableFacts
    <3>3. snapshot[r].id < txn.id
      BY <1>1, <2>1
    <3> QED BY <1>1, <2>1, <3>1, <3>2, <3>3, WithKeeps
  <2> QED BY <2>1, <2>2
<1> QED BY <1>4, <1>5, <1>6, <1>7, <1>8, <1>9

LEMMA TouchIInv == ASSUME IInv, NEW old \in Pages, NEW new \in Pages, Touch(old, new) PROVE IInv'
<1>1. {old} \in SUBSET DOMAIN txn.pages /\ \A p \in {old} : txn.pages[p] # txn.id
  BY DEF Touch
<1> QED BY <1>1, AllocIInv DEF Touch

LEMMA GrowIInv == ASSUME IInv, NEW new \in Pages, Grow(new) PROVE IInv'
<1>1. {} \in SUBSET DOMAIN txn.pages /\ \A p \in {} : txn.pages[p] # txn.id
  OBVIOUS
<1> QED BY <1>1, AllocIInv DEF Grow

LEMMA ShrinkIInv == ASSUME IInv, NEW old \in Pages, Shrink(old) PROVE IInv'
<1> USE DEF IInv
<1>1. /\ TreeTypeOK(txn) /\ txn.id = meta.id + 1
      /\ txn.id \in Nat \ {0} /\ meta.id \in Nat \ {0}
  BY TreeFacts DEF TypeOK, Shrink
<1>2. /\ txn # None /\ old \in DOMAIN txn.pages /\ txn.pages[old] # txn.id
      /\ UNCHANGED <<file, meta, dirty, begun, snapshot>>
  BY DEF Shrink
<1>3. /\ txn'.id = txn.id /\ txn'.last = txn.last /\ IsTree(txn')
      /\ txn'.pages = [p \in DOMAIN txn.pages \ {old} |-> txn.pages[p]]
      /\ txn'.freed = [p \in DOMAIN txn.freed \cup {old} |-> IF p = old THEN txn.id ELSE txn.freed[p]]
  BY DEF Shrink, ShapeInv, IsTree, Tree
<1>4. TypeOK'
  <2>1. \A p \in DOMAIN txn'.pages : p \in Pages /\ txn'.pages[p] \in 1 .. txn'.id
    BY <1>1, <1>3, TreeFacts
  <2>2. \A p \in DOMAIN txn'.freed : p \in Pages /\ txn'.freed[p] \in 1 .. txn'.id
    BY <1>1, <1>3, TreeFacts
  <2>3. txn'.id \in Ids /\ txn'.last \in Pages
    BY <1>1, <1>3 DEF TreeTypeOK
  <2>4. TreeTypeOK(txn')
    BY <2>1, <2>2, <2>3, TreeTyped
  <2>5. txn' # None
    BY <1>1, <1>3, IsSome
  <2> QED BY <1>1, <1>2, <1>3, <2>4, <2>5 DEF TypeOK
<1>5. ShapeInv' /\ CommittedIsIntact'
  BY <1>2, <1>3 DEF ShapeInv, IsTree, CommittedIsIntact, Intact
<1>6. PagesAreAccountedFor'
  BY <1>2, <1>3 DEF PagesAreAccountedFor, Accounted
<1>7. ASSUME NEW s, Keeps(txn, s), s.id < txn.id
      PROVE  Keeps(txn', s)
  <2> SUFFICES ASSUME NEW p \in DOMAIN s.pages
               PROVE  \/ p \in DOMAIN txn'.pages /\ txn'.pages[p] = s.pages[p]
                      \/ p \in DOMAIN txn'.freed /\ txn'.freed[p] > s.id
    BY DEF Keeps
  <2>1. CASE p = old
    BY <1>3, <1>7, <2>1
  <2>2. CASE p # old
    BY <1>3, <1>7, <2>2 DEF Keeps
  <2> QED BY <2>1, <2>2
<1>8. WriterInv'
  <2>1. Keeps(txn', meta)
    BY <1>1, <1>2, <1>7 DEF WriterInv
  <2>2. old \notin dirty
    BY <1>2 DEF WriterInv
  <2> QED BY <1>2, <1>3, <2>1, <2>2 DEF WriterInv, Keeps
<1>9. ReaderInv'
  <2> SUFFICES ASSUME NEW r \in Readers, snapshot[r] # None
               PROVE  /\ snapshot[r].id <= meta.id
                      /\ begun <= snapshot[r].id + 2 =>
                           /\ Intact(snapshot[r]) /\ Keeps(meta, snapshot[r])
                           /\ Keeps(txn', snapshot[r])
    BY <1>2 DEF ReaderInv, Intact, Keeps
  <2>1. snapshot[r].id \in Nat /\ snapshot[r].id <= meta.id /\ snapshot[r].id < txn.id
    BY <1>1, TreeFacts DEF TypeOK, ReaderInv
  <2> QED BY <1>2, <1>7, <2>1 DEF ReaderInv
<1> QED BY <1>4, <1>5, <1>6, <1>8, <1>9

\* A dirty page is in no tree that someone relies on.
LEMMA FlushIInv == ASSUME IInv, NEW p \in Pages, Flush(p) PROVE IInv'
<1> USE DEF IInv
<1>1. /\ txn # None /\ p \in dirty /\ dirty' = dirty \ {p}
      /\ UNCHANGED <<meta, txn, begun, snapshot>>
  BY DEF Flush, TypeOK
<1>2. /\ TreeTypeOK(txn) /\ TreeTypeOK(meta) /\ txn.id = meta.id + 1
      /\ txn.id \in 1 .. MaxTxn /\ meta.id \in Nat \ {0}
  BY <1>1, TreeFacts DEF TypeOK, TreeTypeOK, Ids
<1>3. file' \in [Pages -> 0 .. MaxTxn] /\ \A q \in Pages : file'[q] = IF q = p THEN txn.id ELSE file[q]
  BY <1>1, <1>2, PagesAssumption DEF Flush, TypeOK
<1>4. p \in DOMAIN txn.pages /\ p \notin DOMAIN txn.freed /\ txn.pages[p] = txn.id
  BY <1>1 DEF WriterInv, PagesAreAccountedFor, Accounted
<1>5. ASSUME NEW s, TreeTypeOK(s), Keeps(txn, s), s.id <= meta.id, Intact(s)
      PROVE  Intact(s)'
  <2>1. p \notin DOMAIN s.pages
    BY <1>2, <1>4, <1>5, TreeFacts DEF Keeps
  <2>2. \A q \in DOMAIN s.pages : q \in Pages
    BY <1>5, TreeFacts
  <2> QED BY <1>3, <1>5, <2>1, <2>2 DEF Intact
<1>6. TypeOK'
  BY <1>1, <1>3 DEF TypeOK
<1>7. ShapeInv' /\ PagesAreAccountedFor'
  BY <1>1 DEF ShapeInv, IsTree, PagesAreAccountedFor, Accounted
<1>8. CommittedIsIntact'
  BY <1>1, <1>2, <1>5 DEF CommittedIsIntact, WriterInv, Intact
<1>9. WriterInv'
  BY <1>1, <1>2, <1>3, <1>4, TreeFacts DEF WriterInv, Keeps
<1>10. ReaderInv'
  <2> SUFFICES ASSUME NEW r \in Readers, snapshot[r] # None
               PROVE  /\ snapshot[r].id <= meta.id
                      /\ begun <= snapshot[r].id + 2 =>
                           /\ Intact(snapshot[r])'
                           /\ Keeps(meta, snapshot[r]) /\ Keeps(txn, snapshot[r])
    BY <1>1 DEF ReaderInv, Intact, Keeps
  <2> QED BY <1>1, <1>5 DEF ReaderInv, TypeOK
<1> QED BY <1>6, <1>7, <1>8, <1>9, <1>10

LEMMA CommitIInv == ASSUME IInv, Commit PROVE IInv'
<1> USE DEF IInv
<1>1. /\ txn # None /\ dirty = {} /\ meta' = txn /\ txn' = None
      /\ UNCHANGED <<file, dirty, begun, snapshot>>
  BY DEF Commit
<1>2. TreeTypeOK(txn) /\ txn.id = meta.id + 1 /\ begun = txn.id /\ txn.id \in Nat /\ meta.id \in Nat
  BY <1>1, TreeFacts DEF TypeOK, WriterInv
<1>3. TypeOK'
  BY <1>1, <1>2 DEF TypeOK
<1>4. ShapeInv' /\ PagesAreAccountedFor'
  BY <1>1 DEF ShapeInv, IsTree, PagesAreAccountedFor, Accounted
<1>5. CommittedIsIntact'
  BY <1>1 DEF CommittedIsIntact, Intact, WriterInv
<1>6. WriterInv'
  BY <1>1 DEF WriterInv
<1>7. ReaderInv'
  BY <1>1, <1>2, TreeFacts DEF ReaderInv, Intact, Keeps, TypeOK
<1> QED BY <1>3, <1>4, <1>5, <1>6, <1>7

LEMMA CrashIInv == ASSUME IInv, Crash PROVE IInv'
<1> USE DEF IInv
<1>1. txn' = None /\ dirty' = {} /\ UNCHANGED <<file, meta, begun, snapshot>>
  BY DEF Crash
<1>2. TypeOK'
  BY <1>1 DEF TypeOK
<1>3. ShapeInv' /\ PagesAreAccountedFor' /\ CommittedIsIntact' /\ WriterInv'
  BY <1>1 DEF ShapeInv, IsTree, PagesAreAccountedFor, Accounted, CommittedIsIntact, Intact, WriterInv
<1>4. ReaderInv'
  BY <1>1 DEF ReaderInv, Intact, Keeps
<1> QED BY <1>2, <1>3, <1>4

LEMMA NextIInv == IInv /\ [Next]_vars => IInv'
<1>1. ASSUME IInv, UNCHANGED vars PROVE IInv'
  BY <1>1 DEF vars, IInv, TypeOK, TreeTypeOK, ShapeInv, IsTree, PagesAreAccountedFor, Accounted,
       CommittedIsIntact, Intact, WriterInv, Keeps, ReaderInv
<1> QED
  BY <1>1, OpenIInv, CloseIInv, BeginWriteIInv, TouchIInv, GrowIInv, ShrinkIInv, FlushIInv,
     CommitIInv, CrashIInv
     DEF Next

-----------------------------------------------------------------------------

\* The inductive invariant: the running transaction has only written to pages
\* that no tree someone relies on has.
THEOREM Invariance == Spec => []IInv
  BY InitIInv, NextIInv, PTL DEF Spec

\* The variables stay in their types.
THEOREM TypeCorrect == Spec => []TypeOK
  BY Invariance, PTL DEF IInv

\* What was committed is never overwritten before the next commit, wherever the
\* writer is killed.
THEOREM KillsAreHarmless == Spec => []CommittedIsIntact
  BY Invariance, PTL DEF IInv

\* No page is lost and none is given out twice.
THEOREM NoPageIsLost == Spec => []PagesAreAccountedFor
  BY Invariance, PTL DEF IInv

\* A snapshot is as it was until a third writer has begun.
THEOREM SnapshotsAreKept == Spec => []SnapshotOutlivesTwoWriters
<1>1. IInv => SnapshotOutlivesTwoWriters
  BY DEF IInv, ReaderInv, SnapshotOutlivesTwoWriters
<1> QED BY <1>1, Invariance, PTL

=============================================================================
