------------------------- MODULE FingerprintMatcher -------------------------
(***************************************************************************)
(* A query: olaf_fp_matcher.c with the lookup of olaf_db.c and the result  *)
(* filter of olaf_cli_bridge.c.                                            *)
(*                                                                         *)
(* Batches of fingerprints come from the extractor.  Each fingerprint is   *)
(* looked up in the index, a range of hashes around its own; every entry   *)
(* found is a hit, and hits are tallied per file and time difference.      *)
(* While the stream goes on, and at its end, the best tallies are printed. *)
(* On a stream, tallies that are not hit any more are forgotten.           *)
(*                                                                         *)
(* Times are audio blocks.  The hash table is iterated in an order that    *)
(* depends on its size and history: here it is any order.                  *)
(***************************************************************************)
EXTENDS Integers, Sequences, FiniteSets, Functions

CONSTANTS
  Index,          \* olaf_fingerprints in the order of LMDB: key, then value
  Streams,        \* queries: sequences of batches, the last one at the end
  SearchRange,    \* distance of hashes that still match
  MaxDBCollisions,\* entries a lookup returns at most
  MinMatchCount,  \* hits before a match is reported
  MinMatchDiff,   \* minMatchTimeDiff in blocks
  MaxResults,     \* matches that are reported at most
  KeepMatchesFor, \* keepMatchesFor in blocks, 0 for ever
  PrintEvery,     \* printResultEvery in blocks, 0 for at the end only
  Overlap,        \* how far a later fingerprint may start before an earlier one
  Exclude,        \* the number of the file whose matches are dropped, or 0
  None            \* no time, no report

Fingerprint == [hash: Nat, t1: Nat, t3: Nat]
IndexEntry  == [key: Nat, t1: Nat, id: Nat]

\* Times of fingerprints go up, but for Overlap blocks.
NotBefore(t, f) == f.t1 >= t - Overlap
BatchInOrder(b) == \A k, l \in DOMAIN b : k < l => NotBefore(b[k].t1, b[l])
BatchesInOrder(s) ==
  \A i, j \in DOMAIN s : i < j =>
    \A k \in DOMAIN s[i], l \in DOMAIN s[j] : NotBefore(s[i][k].t1, s[j][l])

\* The lower end of a range of hashes does not wrap: the bin of the first point
\* makes every hash larger than a range.
HashesInRange(b) == \A k \in DOMAIN b : b[k].hash >= SearchRange

ASSUME MatcherAssumption ==
  /\ Index \in Seq(IndexEntry)
  /\ \A i, j \in DOMAIN Index : i < j => Index[i].key <= Index[j].key
  /\ \A i, j \in DOMAIN Index : Index[i] = Index[j] => i = j
  /\ Streams \subseteq Seq(Seq(Fingerprint)) \ {<<>>}
  /\ \A s \in Streams : /\ BatchesInOrder(s)
                         /\ \A i \in DOMAIN s : BatchInOrder(s[i]) /\ HashesInRange(s[i])
  /\ SearchRange \in Nat /\ MaxDBCollisions \in Nat /\ MinMatchCount \in Nat
  /\ MinMatchDiff \in Nat /\ Overlap \in Nat /\ KeepMatchesFor \in Nat /\ PrintEvery \in Nat
  /\ MaxResults \in Nat \ {0} /\ Exclude \in Nat
  /\ None \notin Int

VARIABLES
  pc,
  stream,     \* batches still to come
  batch,      \* fingerprints of this batch still to match
  now,        \* end of the last fingerprint of this batch, None without one
  cursor,     \* position of the lookup in the index
  results,    \* db_results: entries found and not tallied yet
  found,      \* the results of the lookup when it ended
  table,      \* result_hash_table: a match_result per file and difference
  hits,       \* the hits of each match: query and reference times
  lastPrint,  \* last_print_at
  unvisited,  \* matches the iteration over the table has still to pass
  chosen,     \* match_results: the best of those it has passed
  report      \* what was printed last

vars == <<pc, stream, batch, now, cursor, results, found, table, hits,
          lastPrint, unvisited, chosen, report>>

query  == <<stream, batch, now>>
lookup == <<cursor, results, found>>
tally  == <<table, hits>>
ranking == <<unvisited, chosen>>

Init ==
  /\ pc = "receive"
  /\ stream \in Streams
  /\ batch = <<>>
  /\ now = None
  /\ cursor = 1
  /\ results = <<>>
  /\ found = <<>>
  /\ table = <<>>
  /\ hits = <<>>
  /\ lastPrint = 0
  /\ unvisited = {}
  /\ chosen = {}
  /\ report = None

(***************************************************************************)
(* olaf_fp_matcher_match, the loop over the fingerprints of a batch.       *)
(***************************************************************************)
Receive ==
  /\ pc = "receive"
  /\ batch' = Head(stream)
  /\ stream' = Tail(stream)
  /\ now' = IF batch' = <<>> THEN None ELSE batch'[Len(batch')].t3
  /\ pc' = "match"
  /\ UNCHANGED <<lookup, tally, lastPrint, ranking, report>>

\* olaf_db_find: to the first key that is not below the range, which there need
\* not be ...
SetRange ==
  /\ pc = "match"
  /\ batch # <<>>
  /\ \E i \in 1 .. Len(Index) + 1 :
       /\ \A j \in 1 .. i - 1 : Index[j].key < Head(batch).hash - SearchRange
       /\ i <= Len(Index) => Index[i].key >= Head(batch).hash - SearchRange
       /\ cursor' = i
       /\ pc' = IF i <= Len(Index) THEN "find" ELSE "notFound"
  /\ results' = <<>>
  /\ found' = <<>>
  /\ UNCHANGED <<query, tally, lastPrint, ranking, report>>

\* Variant of InRange: the results are taken for full when they overflow.
InRangeOneMore ==
  /\ cursor <= Len(Index)
  /\ Index[cursor].key <= Head(batch).hash + SearchRange
  /\ Len(results) <= MaxDBCollisions

\* The loop of the cursor leaves at the end of the index, above the range and
\* when the results are full.
InRange ==
  /\ cursor <= Len(Index)
  /\ Index[cursor].key <= Head(batch).hash + SearchRange
  /\ Len(results) < MaxDBCollisions

\* The value 0, file number 0 at time 0, is taken for no value.
NoValue(e) == e.t1 = 0 /\ e.id = 0

\* Variant of ExamineEntry: a value that counts for none is not passed.
ExamineEntryStuck ==
  /\ pc = "find"
  /\ InRange
  /\ results' = IF NoValue(Index[cursor]) THEN results ELSE Append(results, Index[cursor])
  /\ cursor' = IF NoValue(Index[cursor]) THEN cursor ELSE cursor + 1
  /\ UNCHANGED <<pc, query, found, tally, lastPrint, ranking, report>>

\* ... and on until a key is above it.
ExamineEntry ==
  /\ pc = "find"
  /\ InRange
  /\ results' = IF NoValue(Index[cursor]) THEN results ELSE Append(results, Index[cursor])
  /\ cursor' = cursor + 1
  /\ UNCHANGED <<pc, query, found, tally, lastPrint, ranking, report>>

\* The loop tests for an entry at its end: it goes round once without one, with
\* the lower end of the range and the value 0 that the call left as they were.
NoEntry == [key |-> Head(batch).hash - SearchRange, t1 |-> 0, id |-> 0]

ExamineNoEntry ==
  /\ pc = "notFound"
  /\ results' = IF NoValue(NoEntry) THEN results ELSE Append(results, NoEntry)
  /\ found' = results'
  /\ pc' = "tally"
  /\ UNCHANGED <<query, cursor, tally, lastPrint, ranking, report>>

FindEnds ==
  /\ pc = "find"
  /\ ~InRange
  /\ found' = results
  /\ pc' = "tally"
  /\ UNCHANGED <<query, cursor, results, tally, lastPrint, ranking, report>>

\* Variant of MatchKey: a division, which rounds towards zero.
MatchKeyDivided(q, e) ==
  <<e.id, IF q < e.t1 THEN -((e.t1 - q) \div 4) ELSE (q - e.t1) \div 4>>

\* The file and the difference of a hit, the latter in steps of four blocks
\* (an arithmetic shift to the right).
MatchKey(q, e) == <<e.id, (q - e.t1) \div 4>>

\* Variant of Tallied: the end of the match is the hit that came last.
TalliedLastHit(m, q, r) ==
  [query |-> q, reference |-> r, count |-> m.count + 1,
   first |-> IF r < m.first THEN r ELSE m.first, last |-> r]

\* A match that is hit once more, and a new one.
Tallied(m, q, r) ==
  [query     |-> q,
   reference |-> r,
   count     |-> m.count + 1,
   first     |-> IF r < m.first THEN r ELSE m.first,
   last      |-> IF r > m.last THEN r ELSE m.last]
FirstHit(q, r) == [query |-> q, reference |-> r, count |-> 1, first |-> r, last |-> r]

\* olaf_fp_matcher_tally_results.
Tally ==
  /\ pc = "tally"
  /\ results # <<>>
  /\ LET q == Head(batch).t1
         r == Head(results).t1
         k == MatchKey(q, Head(results)) IN
     /\ table' = [x \in DOMAIN table \cup {k} |->
                    IF x # k THEN table[x]
                    ELSE IF k \in DOMAIN table THEN Tallied(table[k], q, r) ELSE FirstHit(q, r)]
     /\ hits' = [x \in DOMAIN hits \cup {k} |->
                    IF x # k THEN hits[x]
                    ELSE Append(IF k \in DOMAIN hits THEN hits[k] ELSE <<>>, <<q, r>>)]
  /\ results' = Tail(results)
  /\ UNCHANGED <<pc, query, cursor, found, lastPrint, ranking, report>>

NextFingerprint ==
  /\ pc = "tally"
  /\ results = <<>>
  /\ batch' = Tail(batch)
  /\ pc' = "match"
  /\ UNCHANGED <<stream, now, lookup, tally, lastPrint, ranking, report>>

(***************************************************************************)
(* The rest of olaf_fp_matcher_match: print when it is time, then forget.  *)
(***************************************************************************)
StartRanking(matches) ==
  /\ unvisited' = matches
  /\ chosen' = {}

PrintIsDue == now # None /\ PrintEvery # 0 /\ now - lastPrint > PrintEvery

BatchMatched ==
  /\ pc = "match"
  /\ batch = <<>>
  /\ IF PrintIsDue
       THEN /\ StartRanking(DOMAIN table)
            /\ lastPrint' = now
            /\ pc' = "rank"
       ELSE /\ pc' = "forget"
            /\ UNCHANGED <<lastPrint, ranking>>
  /\ UNCHANGED <<query, lookup, tally, report>>

\* Variant of TooOld: the difference of now and the reference time.
TooOldReference(m) == now - m.reference > KeepMatchesFor

\* Age of a match: time since the fingerprint that hit it last.
TooOld(m) == now - m.query > KeepMatchesFor

\* Matches that olaf_fp_matcher_remove_old_matches leaves in the table.
Kept == IF now = None \/ KeepMatchesFor = 0
          THEN DOMAIN table
          ELSE {k \in DOMAIN table : ~TooOld(table[k])}

\* olaf_fp_matcher_remove_old_matches; after the last batch the results are
\* printed whether it is time or not.
Forget ==
  /\ pc = "forget"
  /\ table' = [k \in Kept |-> table[k]]
  /\ hits' = [k \in Kept |-> hits[k]]
  /\ IF stream = <<>>
       THEN StartRanking(Kept) /\ pc' = "rankLast"
       ELSE UNCHANGED ranking /\ pc' = "receive"
  /\ UNCHANGED <<query, lookup, lastPrint, report>>

(***************************************************************************)
(* olaf_fp_matcher_print_results.                                          *)
(***************************************************************************)
Least(matches) == {k \in matches : \A x \in matches : table[k].count <= table[x].count}

\* Variant of RankMatch: a full list is left as it is.
RankFirstOnes(k) ==
  /\ pc \in {"rank", "rankLast"}
  /\ k \in unvisited
  /\ unvisited' = unvisited \ {k}
  /\ chosen' = IF table[k].count < MinMatchCount \/ Cardinality(chosen) = MaxResults
                 THEN chosen ELSE chosen \cup {k}
  /\ UNCHANGED <<pc, query, lookup, tally, lastPrint, report>>

\* The iteration over the table.  When the list is full its least match gives
\* way to a better one; qsort is not stable, so among equals it is any.
RankMatch(k) ==
  /\ pc \in {"rank", "rankLast"}
  /\ k \in unvisited
  /\ unvisited' = unvisited \ {k}
  /\ \/ /\ table[k].count < MinMatchCount
        /\ UNCHANGED chosen
     \/ /\ table[k].count >= MinMatchCount
        /\ Cardinality(chosen) # MaxResults
        /\ chosen' = chosen \cup {k}
     \/ /\ table[k].count >= MinMatchCount
        /\ Cardinality(chosen) = MaxResults
        /\ \E least \in Least(chosen) :
             chosen' = IF table[k].count > table[least].count
                         THEN (chosen \ {least}) \cup {k} ELSE chosen
  /\ UNCHANGED <<pc, query, lookup, tally, lastPrint, report>>

\* olaf_cli_print_match drops matches with the excluded file, if there is one.
Dropped(k) == Exclude # 0 /\ k[1] = Exclude

\* Matches that last long enough reach the callback, and the line that says
\* there are none when the list is empty.
Report ==
  /\ pc \in {"rank", "rankLast"}
  /\ unvisited = {}
  /\ report' = [time  |-> now,
                best  |-> chosen,
                lines |-> {k \in chosen : /\ table[k].last - table[k].first >= MinMatchDiff
                                          /\ ~Dropped(k)},
                empty |-> chosen = {}]
  /\ pc' = IF pc = "rank" THEN "forget" ELSE "done"
  /\ chosen' = {}
  /\ UNCHANGED <<query, lookup, tally, lastPrint, unvisited>>

Next ==
  \/ Receive \/ SetRange \/ ExamineEntry \/ ExamineNoEntry \/ FindEnds
  \/ Tally \/ NextFingerprint \/ BatchMatched
  \/ \E k \in unvisited : RankMatch(k)
  \/ Report
  \/ Forget
  \/ pc = "done" /\ UNCHANGED vars

Spec == Init /\ [][Next]_vars
FairSpec == Spec /\ WF_vars(Next)

(***************************************************************************)
(* Properties.                                                             *)
(***************************************************************************)
MatchResult == [query: Nat, reference: Nat, count: Nat, first: Nat, last: Nat]
MatchKeys == Nat \X Int

TypeOK ==
  /\ pc \in {"receive", "match", "find", "notFound", "tally", "rank", "rankLast", "forget", "done"}
  /\ stream \in Seq(Seq(Fingerprint))
  /\ batch \in Seq(Fingerprint)
  /\ now \in Nat \cup {None}
  /\ cursor \in 1 .. Len(Index) + 1
  /\ results \in Seq(IndexEntry)
  /\ found \in Seq(IndexEntry)
  /\ DOMAIN table \subseteq MatchKeys
  /\ table \in [DOMAIN table -> MatchResult]
  /\ hits \in [DOMAIN table -> Seq(Nat \X Nat)]
  /\ lastPrint \in Nat
  /\ unvisited \subseteq DOMAIN table
  /\ chosen \subseteq DOMAIN table

\* olaf_db_find returns every entry of the range, once, unless there are more
\* of them than the results can hold; then it fills these with the first ones.
\* It returns nothing if no entry is at or above the range.
Wanted(f) == {i \in DOMAIN Index : /\ Index[i].key \in f.hash - SearchRange .. f.hash + SearchRange
                                   /\ ~NoValue(Index[i])}
LookupIsComplete ==
  pc = "tally" =>
    LET wanted == Wanted(Head(batch)) IN
    /\ Range(found) \subseteq {Index[i] : i \in wanted}
    /\ \A i, j \in DOMAIN found : found[i] = found[j] => i = j
    /\ Cardinality(wanted) <= MaxDBCollisions => Len(found) = Cardinality(wanted)
    /\ Cardinality(wanted) > MaxDBCollisions => Len(found) = MaxDBCollisions
    /\ \A i, j \in wanted : i < j /\ Index[j] \in Range(found) => Index[i] \in Range(found)

\* A match_result says of all of its hits what its fields promise, whatever
\* the order the hits come in.
TallyIsExact ==
  \A k \in DOMAIN table :
    LET m == table[k]
        h == hits[k] IN
    /\ m.count = Len(h) /\ m.count > 0
    /\ h[Len(h)] = <<m.query, m.reference>>
    /\ \A i \in DOMAIN h : m.first <= h[i][2] /\ h[i][2] <= m.last
    /\ \E i \in DOMAIN h : h[i][2] = m.first
    /\ \E i \in DOMAIN h : h[i][2] = m.last

\* The query time that is reported for a hit is its reference time with the
\* difference of the last hit: it is never four blocks off.
ReportedTime(m, hit) == hit[2] + (m.query - m.reference)
QueryTimesAreClose ==
  \A k \in DOMAIN table : \A i \in DOMAIN hits[k] :
    ReportedTime(table[k], hits[k][i]) - hits[k][i][1] \in -3 .. 3

\* No match that was left out of a report has more hits than one in it, and
\* none is left out while there is room.
Best(set, from) ==
  /\ set \subseteq from
  /\ Cardinality(set) <= MaxResults
  /\ \A k \in set : table[k].count >= MinMatchCount
  /\ \A k \in from \ set :
       table[k].count >= MinMatchCount =>
         /\ Cardinality(set) = MaxResults
         /\ \A x \in set : table[x].count >= table[k].count
BestAreReported ==
  pc \in {"rank", "rankLast"} /\ unvisited = {} => Best(chosen, DOMAIN table)

\* Only matches that no fingerprint has hit for the time of keepMatchesFor are
\* forgotten, less the time a fingerprint may start before one matched earlier:
\* the age of a match counts from the hit that came last, not the latest hit.
ForgottenWereOld ==
  [][\A k \in DOMAIN table \ DOMAIN table' :
        \A i \in DOMAIN hits[k] : now - hits[k][i][1] > KeepMatchesFor - Overlap]_vars

\* Every query comes to its last report.
Terminates == <>(pc = "done")

(***************************************************************************)
(* The inductive invariant behind the proofs.                              *)
(***************************************************************************)
\* What is left to do at each step of the loops.
LoopInv ==
  /\ pc = "receive" => stream # <<>>
  /\ pc \in {"find", "notFound", "tally"} => batch # <<>>
  /\ pc \notin {"rank", "rankLast"} => unvisited = {} /\ chosen = {}

\* Fingerprints come in order, also relative to the hits there are already.
OrderInv ==
  /\ BatchInOrder(batch)
  /\ BatchesInOrder(stream)
  /\ \A j \in DOMAIN stream : BatchInOrder(stream[j])
  /\ \A k \in DOMAIN batch : \A j \in DOMAIN stream : \A l \in DOMAIN stream[j] :
       NotBefore(batch[k].t1, stream[j][l])
  /\ \A k \in DOMAIN table : \A i \in DOMAIN hits[k] :
       /\ \A l \in DOMAIN batch : NotBefore(hits[k][i][1], batch[l])
       /\ \A j \in DOMAIN stream : \A l \in DOMAIN stream[j] :
            NotBefore(hits[k][i][1], stream[j][l])
       /\ table[k].query >= hits[k][i][1] - Overlap

\* The hits of a match have its time difference.
HitsInv ==
  \A k \in DOMAIN table : \A i \in DOMAIN hits[k] :
    (hits[k][i][1] - hits[k][i][2]) \div 4 = k[2]

\* The list is the best of the matches that were passed.
RankInv ==
  pc \in {"rank", "rankLast"} =>
    IsFiniteSet(chosen) /\ Best(chosen, DOMAIN table \ unvisited)

IInv == TypeOK /\ LoopInv /\ OrderInv /\ TallyIsExact /\ HitsInv /\ RankInv

\* The cursor has passed all that is below the range and nothing above it; the
\* results are the entries it has passed in between.
Passed == {i \in Wanted(Head(batch)) : i < cursor}
FindInv ==
  pc \in {"find", "notFound"} =>
    /\ pc = "notFound" => cursor > Len(Index)
    /\ \A i \in 1 .. cursor - 1 : Index[i].key <= Head(batch).hash + SearchRange
    /\ \A i \in cursor .. Len(Index) : Index[i].key >= Head(batch).hash - SearchRange
    /\ Range(results) = {Index[i] : i \in Passed}
    /\ \A i, j \in DOMAIN results : results[i] = results[j] => i = j
    /\ Len(results) = Cardinality(Passed)
    /\ Len(results) <= MaxDBCollisions

LookupInv == FindInv /\ LookupIsComplete
=============================================================================
