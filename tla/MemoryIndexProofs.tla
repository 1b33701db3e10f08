------------------------- MODULE MemoryIndexProofs --------------------------
(***************************************************************************)
(* The lookup in memory is exact for every array, every range of hashes    *)
(* and every bsearch, if the writer had room for all fingerprints and the  *)
(* hashes are close enough for the comparator.  Where it ignored some, the *)
(* invariant says what remains: but for the walk down no index leaves the  *)
(* words that the header gives the array, and what is added is in range.   *)
(***************************************************************************)
EXTENDS MemoryIndex, TLAPS

USE MemoryAssumption DEF array, range, search, vars, Words

(* Arithmetic of the packed words. *)

LEMMA HashType == ASSUME NEW e \in Nat PROVE HashOf(e) \in Nat
  BY DEF HashOf

LEMMA HashMonotone ==
  ASSUME NEW a \in Nat, NEW b \in Nat, a <= b
  PROVE  HashOf(a) <= HashOf(b)
  BY DEF HashOf

LEMMA PackedType == ASSUME NEW p \in Prints PROVE Packed(p) \in Nat
  BY DEF Packed

\* A difference that fits in an int is not changed.
LEMMA CutFits ==
  ASSUME NEW n \in Int, -IntHalf <= n, n < IntHalf
  PROVE  Cut(n) = n
  BY DEF Cut

\* What is read is in the array or is a word behind one that is full.
LEMMA WordType ==
  ASSUME NEW n \in 0 .. MaxStored, NEW s \in Seq(Nat), Kept(s, n),
         NEW w \in [Outside -> Around], NEW k \in 1 .. n
  PROVE  (IF k \in DOMAIN s THEN HashOf(s[k]) ELSE w[k]) \in Nat
<1>1. CASE k \in DOMAIN s
  <2>1. s[k] \in Nat
    BY <1>1
  <2> QED
    BY <1>1, <2>1, HashType
<1>2. CASE k \notin DOMAIN s
  <2>1. DOMAIN s = 1 .. Len(s) /\ Len(s) \in Nat
    OBVIOUS
  <2>2. k \in HashesSize + 1 .. MaxStored
    BY <1>2, <2>1 DEF Kept
  <2>3. w[k] \in Around
    BY <2>2 DEF Outside
  <2> QED
    BY <1>2, <2>3
<1> QED
  BY <1>1, <1>2

LEMMA EntryTypes ==
  ASSUME TypeOK, ArrayInv, NEW k \in Words
  PROVE  HashAt(k) \in Nat
BY WordType DEF TypeOK, ArrayInv, HashAt

\* If the writer had room, the length in the header is the length of the array.
LEMMA WordsAreEntries ==
  ASSUME TypeOK, ArrayInv, HadRoom
  PROVE  /\ ref_fp_length = Len(ref_fp) /\ DOMAIN ref_fp = Words
         /\ \A k \in Words : ref_fp[k] \in Nat /\ HashAt(k) = HashOf(ref_fp[k])
<1>1. ref_fp \in Seq(Nat)
  BY DEF TypeOK
<1>2. ref_fp_length = Len(ref_fp)
  BY DEF ArrayInv, Kept, HadRoom
<1>3. DOMAIN ref_fp = Words
  BY <1>1, <1>2
<1>4. \A k \in DOMAIN ref_fp : ref_fp[k] \in Nat
  BY <1>1
<1> QED
  BY <1>2, <1>3, <1>4 DEF HashAt

LEMMA HashesAreSorted ==
  ASSUME TypeOK, ArrayInv, HadRoom, NEW k \in Words, NEW l \in Words, k <= l
  PROVE  HashAt(k) <= HashAt(l)
<1>1. /\ ref_fp[k] \in Nat /\ HashAt(k) = HashOf(ref_fp[k])
      /\ ref_fp[l] \in Nat /\ HashAt(l) = HashOf(ref_fp[l])
      /\ k \in DOMAIN ref_fp /\ l \in DOMAIN ref_fp
  BY WordsAreEntries
<1>2. ref_fp[k] <= ref_fp[l]
  <2>1. CASE k = l
    BY <1>1, <2>1
  <2>2. CASE k # l
    <3>1. k < l
      BY <2>2
    <3> QED
      BY <1>1, <3>1 DEF ArrayInv, Sorted
  <2> QED
    BY <2>1, <2>2
<1> QED
  BY <1>1, <1>2, HashMonotone

-----------------------------------------------------------------------------

LEMMA InitIInv == Init => IInv
<1> SUFFICES ASSUME Init PROVE IInv
  OBVIOUS
<1>1. TypeOK
  <2>1. hashes = <<>> /\ ref_fp = <<>> /\ results = <<>> /\ ref_fp_length = 0
    BY DEF Init
  <2>2. /\ pc \in {"store", "ready", "bsearch", "down", "up", "fault"}
        /\ stored \in 0 .. MaxStored
        /\ around \in [Outside -> Around]
        /\ {start_key, stop_key, current_key} \subseteq Nat
        /\ {lo, hi, index} \subseteq 1 .. 1
        /\ i \in -1 .. 1
    BY DEF Init
  <2> QED
    BY <2>1, <2>2 DEF TypeOK
<1>2. ArrayInv
  BY DEF Init, ArrayInv, Sorted, Kept
<1>3. BsearchInv /\ WalkInv
  BY DEF Init, BsearchInv, WalkInv
<1> QED
  BY <1>1, <1>2, <1>3 DEF IInv

\* Nothing of what has been searched changes while the array is written.
LEMMA StepStore == ASSUME IInv, NEW p \in Prints, Store(p) PROVE IInv'
<1> USE DEF IInv, Store
<1>0. Append(hashes, Packed(p)) \in Seq(Nat) /\ Len(Append(hashes, Packed(p))) = Len(hashes) + 1
  BY PackedType DEF TypeOK
<1>1. TypeOK'
  <2>1. hashes' \in Seq(Nat)
    BY <1>0 DEF TypeOK
  <2>2. stored' \in 0 .. MaxStored
    BY SMTT(30) DEF TypeOK
  <2> QED
    BY <2>1, <2>2 DEF TypeOK
<1>2. ArrayInv'
  <2>1. stored \in Nat /\ Len(hashes) = IF stored <= HashesSize THEN stored ELSE HashesSize
    BY DEF TypeOK, ArrayInv, Kept
  <2>2. Len(hashes') = IF stored' <= HashesSize THEN stored' ELSE HashesSize
    BY <1>0, <2>1
  <2> QED
    BY <2>2 DEF ArrayInv, Sorted, Kept
<1>3. BsearchInv' /\ WalkInv'
  BY DEF BsearchInv, WalkInv
<1> QED
  BY <1>1, <1>2, <1>3

LEMMA StepWriteHeader == ASSUME IInv, WriteHeader PROVE IInv'
<1> USE DEF IInv, WriteHeader, olaf_db_store_meta_data
<1>1. PICK order \in Orders : ref_fp' = [k \in DOMAIN hashes |-> hashes[order[k]]]
  OBVIOUS
<1>2. hashes \in Seq(Nat) /\ order \in [DOMAIN hashes -> DOMAIN hashes]
  BY DEF TypeOK, Orders, Bijection, Injection
<1>3. ref_fp' \in Seq(Nat) /\ Len(ref_fp') = Len(hashes)
  <2>1. Len(hashes) \in Nat /\ DOMAIN hashes = 1 .. Len(hashes)
    BY <1>2
  <2>2. \A k \in DOMAIN hashes : hashes[order[k]] \in Nat
    BY <1>2
  <2>3. ref_fp' \in [1 .. Len(hashes) -> Nat]
    BY <1>1, <2>1, <2>2
  <2> QED
    BY <2>1, <2>3
<1>4. ref_fp_length' = stored /\ stored \in 0 .. MaxStored /\ stored' = 0 /\ stored' \in 0 .. MaxStored
  BY DEF TypeOK
<1>5. results' = <<>> /\ start_key' > stop_key' /\ start_key' \in Nat /\ stop_key' \in Nat
  BY DEF ArrayInv, TypeOK
<1>6. TypeOK'
  <2>1. {lo, hi, index} \subseteq 1 .. 1 /\ i \in -1 .. 1
    <3>1. ref_fp_length = 0
      BY DEF ArrayInv
    <3> QED
      BY <3>1, SMTT(30) DEF TypeOK
  <2>2. results' \in Seq(0 .. ref_fp_length') /\ Len(results') <= ResultsSize
    BY <1>5
  <2>3. {lo', hi'} \subseteq 1 .. ref_fp_length' + 1 /\ index' \in 1 .. ref_fp_length' + 1
        /\ i' \in -1 .. ref_fp_length' + 1
    BY <1>4, <2>1
  <2>4. hashes' \in Seq(Nat) /\ around' \in [Outside -> Around] /\ ref_fp_length' \in 0 .. MaxStored
    BY <1>4 DEF TypeOK
  <2>5. pc' \in {"store", "ready", "bsearch", "down", "up", "fault"}
        /\ {start_key', stop_key', current_key'} \subseteq Nat
    BY DEF TypeOK
  <2> HIDE DEF WriteHeader
  <2> QED
    BY <1>3, <1>4, <2>2, <2>3, <2>4, <2>5 DEF TypeOK
<1>7. ArrayInv'
  <2>1. Kept(hashes, stored)' /\ Kept(ref_fp, ref_fp_length)'
    BY <1>3, <1>4 DEF ArrayInv, Kept
  <2> QED
    BY <2>1 DEF ArrayInv, Sorted
<1>8. BsearchInv'
  BY DEF BsearchInv
<1>9. WalkInv'
  <2>1. Wanted' = {}
    <3> SUFFICES ASSUME NEW k \in Words', InRange(HashAt(k))' PROVE FALSE
      BY DEF Wanted
    <3>1. HashAt(k)' \in Nat
      BY <1>6, <1>7, WordType DEF TypeOK, ArrayInv, HashAt
    <3> QED
      BY <1>5, <3>1 DEF InRange
  <2>2. Passed(1, ref_fp_length)'
    BY <1>5, <2>1 DEF Passed
  <2> QED
    BY <2>2 DEF WalkInv
<1> QED
  BY <1>6, <1>7, <1>8, <1>9

-----------------------------------------------------------------------------
(* What the results hold, as facts about a sequence and a set. *)

\* Only wanted entries from first to last, each once ...
Own(found, wanted, first, last) ==
  /\ \A m \in DOMAIN found : found[m] \in wanted /\ first <= found[m] /\ found[m] <= last
  /\ \A m, n \in DOMAIN found : found[m] = found[n] => m = n

\* ... and all of them.
All(found, wanted, first, last) ==
  \A k \in wanted : first <= k /\ k <= last =>
    Len(found) = ResultsSize \/ \E m \in DOMAIN found : found[m] = k

Added(found, j) == IF Len(found) < ResultsSize THEN Append(found, j) ELSE found

LEMMA AddedIsOwn ==
  ASSUME NEW found \in Seq(Int), NEW wanted, NEW first \in Int, NEW last \in Int,
         NEW f \in Int, NEW l \in Int, NEW j \in wanted, j \in Int,
         f <= first, last <= l, f <= j, j <= l,
         j < first \/ last < j,
         Own(found, wanted, first, last)
  PROVE  Own(Added(found, j), wanted, f, l)
<1>1. CASE Len(found) < ResultsSize
  <2>1. Added(found, j) = Append(found, j)
    BY <1>1 DEF Added
  <2>2. Len(found) \in Nat /\ DOMAIN found = 1 .. Len(found)
    BY SMT
  <2>3. DOMAIN Append(found, j) = 1 .. Len(found) + 1
    BY <2>2
  <2>4. \A m \in DOMAIN Append(found, j) :
          Append(found, j)[m] = IF m \in DOMAIN found THEN found[m] ELSE j
    BY <2>2, <2>3
  <2>5. \A m \in DOMAIN Append(found, j) : m \notin DOMAIN found => m = Len(found) + 1
    BY <2>2, <2>3
  <2>6. \A m \in DOMAIN found : found[m] \in Int /\ found[m] # j
    BY DEF Own
  <2>7. \A m \in DOMAIN Append(found, j) :
          Append(found, j)[m] \in wanted /\ f <= Append(found, j)[m] /\ Append(found, j)[m] <= l
    <3> SUFFICES ASSUME NEW m \in DOMAIN Append(found, j)
                 PROVE  Append(found, j)[m] \in wanted
                        /\ f <= Append(found, j)[m] /\ Append(found, j)[m] <= l
      OBVIOUS
    <3>1. CASE m \in DOMAIN found
      <4>1. Append(found, j)[m] = found[m]
        BY <2>4, <3>1
      <4>2. found[m] \in wanted /\ first <= found[m] /\ found[m] <= last /\ found[m] \in Int
        BY <2>6, <3>1 DEF Own
      <4> QED
        BY <4>1, <4>2, SMTT(30)
    <3>2. CASE m \notin DOMAIN found
      BY <2>4, <3>2
    <3> QED
      BY <3>1, <3>2
  <2>8. \A m, n \in DOMAIN Append(found, j) :
          Append(found, j)[m] = Append(found, j)[n] => m = n
    BY <2>4, <2>5, <2>6 DEF Own
  <2> QED
    BY <2>1, <2>7, <2>8 DEF Own
<1>2. CASE ~(Len(found) < ResultsSize)
  <2>1. Added(found, j) = found
    BY <1>2 DEF Added
  <2>2. \A m \in DOMAIN found : found[m] \in Int
    OBVIOUS
  <2> QED
    BY <2>1, <2>2 DEF Own
<1> QED
  BY <1>1, <1>2

LEMMA Room == \A n, size \in Nat : (n < size => n # size) /\ (n <= size /\ ~(n < size) => n = size)
  OBVIOUS

LEMMA Wider == \A n \in Nat : \A m \in 1 .. n : m \in 1 .. n + 1
  OBVIOUS

LEMMA AddedIsAll ==
  ASSUME NEW found \in Seq(Int), Len(found) <= ResultsSize,
         NEW wanted \in SUBSET Int, NEW first \in Int, NEW last \in Int,
         NEW f \in Int, NEW l \in Int, NEW j \in Int,
         \A k \in wanted : f <= k /\ k <= l => k = j \/ (first <= k /\ k <= last),
         All(found, wanted, first, last)
  PROVE  All(Added(found, j), wanted, f, l)
<1> SUFFICES ASSUME NEW k \in wanted, f <= k, k <= l
             PROVE  Len(Added(found, j)) = ResultsSize
                    \/ \E m \in DOMAIN Added(found, j) : Added(found, j)[m] = k
  BY DEF All
<1>1. Len(found) \in Nat /\ DOMAIN found = 1 .. Len(found) /\ ResultsSize \in Nat
  OBVIOUS
<1>2. CASE Len(found) < ResultsSize
  <2>1. Added(found, j) = Append(found, j)
    BY <1>2 DEF Added
  <2>2. DOMAIN Append(found, j) = 1 .. Len(found) + 1
    BY <1>1
  <2>3. CASE k = j
    <3>1. Append(found, j)[Len(found) + 1] = j /\ Len(found) + 1 \in DOMAIN Append(found, j)
      BY <1>1, <2>2
    <3> QED
      BY <2>1, <2>3, <3>1
  <2>4. CASE k # j
    <3>. first <= k /\ k <= last
      BY <2>4
    <3>. Len(found) # ResultsSize
      BY <1>1, <1>2, Room
    <3>1. PICK m \in DOMAIN found : found[m] = k
      BY DEF All
    <3>2. m \in 1 .. Len(found)
      BY <1>1
    <3>3. m \in DOMAIN Append(found, j)
      BY <1>1, <2>2, <3>2, Wider
    <3>4. Append(found, j)[m] = found[m]
      BY <3>2
    <3> QED
      BY <2>1, <3>1, <3>3, <3>4
  <2> QED
    BY <2>3, <2>4
<1>3. CASE ~(Len(found) < ResultsSize)
  <2>1. Added(found, j) = found
    BY <1>3 DEF Added
  <2>2. Len(found) = ResultsSize
    BY <1>1, <1>3, Room
  <2> QED
    BY <2>1, <2>2
<1> QED
  BY <1>2, <1>3

LEMMA AddedType ==
  ASSUME TypeOK, AddResult, i \in 0 .. ref_fp_length
  PROVE  /\ results' = Added(results, i)
         /\ results' \in Seq(0 .. ref_fp_length) /\ Len(results') <= ResultsSize
<1>1. results \in Seq(0 .. ref_fp_length) /\ Len(results) \in Nat /\ Len(results) <= ResultsSize
  BY DEF TypeOK
<1>2. results' = Added(results, i)
  BY DEF AddResult, Added
<1>3. CASE Len(results) < ResultsSize
  <2>1. results' = Append(results, i)
    BY <1>2, <1>3 DEF Added
  <2>2. Append(results, i) \in Seq(0 .. ref_fp_length) /\ Len(Append(results, i)) = Len(results) + 1
    BY <1>1
  <2> QED
    BY <1>1, <1>2, <1>3, <2>1, <2>2
<1>4. CASE ~(Len(results) < ResultsSize)
  BY <1>1, <1>2, <1>4 DEF Added
<1> QED
  BY <1>3, <1>4

\* What is wanted of the array does not change on the way.
LEMMA SameWords == ASSUME UNCHANGED array PROVE \A k : HashAt(k)' = HashAt(k)
  BY DEF HashAt

LEMMA SameQuery ==
  ASSUME UNCHANGED <<array, start_key, stop_key>>
  PROVE  Wanted' = Wanted /\ (Searchable' <=> Searchable)
<1>1. Searchable' <=> Searchable
  BY DEF Searchable, SpreadFits, HadRoom
<1>2. \A k \in Words : InRange(HashAt(k))' <=> InRange(HashAt(k))
  BY SameWords DEF InRange
<1> QED
  BY <1>1, <1>2 DEF Wanted

-----------------------------------------------------------------------------
(* One lemma for each action of a lookup. *)

LEMMA Types ==
  ASSUME TypeOK
  PROVE  /\ start_key \in Nat /\ stop_key \in Nat /\ current_key \in Nat
         /\ ref_fp_length \in Nat
         /\ lo \in 1 .. ref_fp_length + 1 /\ hi \in 1 .. ref_fp_length + 1
         /\ index \in 1 .. ref_fp_length + 1 /\ i \in -1 .. ref_fp_length + 1
         /\ results \in Seq(0 .. ref_fp_length) /\ Len(results) <= ResultsSize
         /\ Wanted \in SUBSET Int /\ Wanted \subseteq Words
<1>1. ref_fp_length \in Nat
  BY DEF TypeOK
<1> QED
  BY <1>1 DEF TypeOK, Wanted

\* What bsearch knows when it has not tried anything yet.
LEMMA SearchStarts ==
  ASSUME TypeOK, NEW key \in Nat, SearchFor(key), UNCHANGED <<pc, stored, array, range, i>>,
         results' = <<>>
  PROVE  TypeOK'
<1> USE DEF SearchFor
<1>1. ref_fp_length \in Nat
  BY Types
<1>2. {lo', hi'} \subseteq 1 .. ref_fp_length + 1 /\ index' \in 1 .. ref_fp_length + 1
  BY <1>1
<1>3. results' \in Seq(0 .. ref_fp_length) /\ Len(results') <= ResultsSize
  OBVIOUS
<1> QED
  BY <1>2, <1>3 DEF TypeOK

LEMMA StepFind == ASSUME IInv, NEW h \in Hashes, Find(h) PROVE IInv'
<1> USE DEF IInv, Find, SearchFor
<1>1. h \in Nat /\ ref_fp_length \in Nat
  BY Types
<1>2. start_key' \in Nat /\ stop_key' \in Nat /\ current_key' = start_key'
  BY <1>1
<1>3. TypeOK'
  <2>1. {lo', hi'} \subseteq 1 .. ref_fp_length + 1 /\ index' \in 1 .. ref_fp_length + 1
    <3>1. lo' = 1 /\ hi' = ref_fp_length + 1 /\ index' = 1
      OBVIOUS
    <3> HIDE DEF Find, SearchFor
    <3> QED
      BY <1>1, <3>1
  <2>2. results' \in Seq(0 .. ref_fp_length) /\ Len(results') <= ResultsSize
    OBVIOUS
  <2>3. /\ pc' \in {"store", "ready", "bsearch", "down", "up", "fault"}
        /\ {start_key', stop_key', current_key'} \subseteq Nat
    BY <1>2
  <2> QED
    BY <2>1, <2>2, <2>3 DEF TypeOK
<1>4. ArrayInv'
  BY DEF ArrayInv, Sorted
<1>5. \A k \in Words : HashAt(k) \in Nat
  BY EntryTypes
<1>6. BsearchInv'
  <2> SUFFICES ASSUME pc' = "bsearch" PROVE BsearchInv'
    BY DEF BsearchInv
  <2>1. start_key' <= stop_key'
    OBVIOUS
  <2>2. \A k \in Words : ~(start_key' <= HashAt(k) /\ HashAt(k) < current_key')
    BY <1>2, <1>5
  <2>3. lo' = 1 /\ hi' = ref_fp_length + 1 /\ lo' <= hi' /\ results' = <<>>
    BY <1>1
  <2>4. 1 .. lo' - 1 = {} /\ hi' .. ref_fp_length = {}
    BY <1>1, <2>3
  <2>5. /\ UNCHANGED array /\ ref_fp_length' = ref_fp_length
        /\ start_key' <= current_key' /\ current_key' <= stop_key'
    BY <1>2, <2>1
  <2>6. \A k : HashAt(k)' = HashAt(k)
    BY <2>5, SameWords
  <2> HIDE DEF Find, SearchFor
  <2> QED
    BY <2>2, <2>3, <2>4, <2>5, <2>6 DEF BsearchInv
<1>7. WalkInv'
  <2> SUFFICES ASSUME pc' = "ready" PROVE Passed(1, ref_fp_length)'
    BY DEF WalkInv
  <2>1. results' = <<>> /\ start_key' > stop_key'
    BY <1>2
  <2>2. \A k \in Words' : ~(start_key' <= HashAt(k)' /\ HashAt(k)' <= stop_key')
    BY <1>2, <1>5, <2>1, SameWords
  <2>3. Wanted' = {}
    BY <2>2 DEF Wanted, InRange
  <2> QED
    BY <2>1, <2>3 DEF Passed
<1> QED
  BY <1>3, <1>4, <1>6, <1>7

\* Under Searchable the comparator has the sign of the difference.
LEMMA CompareFits ==
  ASSUME TypeOK, ArrayInv, Searchable, NEW k \in Words,
         start_key <= current_key, current_key <= stop_key
  PROVE  olaf_dp_packed_hash_compare(k) = current_key - HashAt(k)
<1>1. HashAt(k) \in Nat /\ start_key \in Nat /\ stop_key \in Nat /\ current_key \in Nat
  BY EntryTypes, Types
<1>2. stop_key - HashAt(k) < IntHalf /\ HashAt(k) - start_key <= IntHalf
  BY WordsAreEntries DEF Searchable, SpreadFits
<1>3. /\ current_key - HashAt(k) \in Int
      /\ -IntHalf <= current_key - HashAt(k)
      /\ current_key - HashAt(k) < IntHalf
  BY <1>1, <1>2
<1> QED
  BY <1>3, CutFits DEF olaf_dp_packed_hash_compare

LEMMA StepProbe == ASSUME IInv, NEW mid \in lo .. hi - 1, Probe(mid) PROVE IInv'
<1> USE DEF IInv
<1>0. /\ pc = "bsearch" /\ UNCHANGED <<pc, stored, array, range, current_key, index, i, results>>
      /\ olaf_dp_packed_hash_compare(mid) # 0
      /\ lo' = IF olaf_dp_packed_hash_compare(mid) > 0 THEN mid + 1 ELSE lo
      /\ hi' = IF olaf_dp_packed_hash_compare(mid) < 0 THEN mid ELSE hi
  BY DEF Probe
<1>1. /\ lo \in 1 .. ref_fp_length + 1 /\ hi \in 1 .. ref_fp_length + 1 /\ ref_fp_length \in Nat
      /\ mid \in Words /\ mid \in Int /\ Words = 1 .. ref_fp_length
      /\ current_key \in Nat /\ start_key \in Nat /\ stop_key \in Nat
  BY Types, SMTT(30)
<1>2. olaf_dp_packed_hash_compare(mid) \in Int
  <2>1. HashAt(mid) \in Nat
    BY <1>1, EntryTypes
  <2> QED
    BY <1>1, <2>1, SMTT(30) DEF olaf_dp_packed_hash_compare, Cut
<1>3. lo' \in lo .. hi /\ hi' \in lo .. hi /\ lo' <= hi'
  BY <1>0, <1>1, <1>2, SMTT(30)
<1>4. TypeOK'
  <2>1. {lo', hi'} \subseteq 1 .. ref_fp_length + 1
    BY <1>1, <1>3
  <2> QED
    BY <1>0, <2>1 DEF TypeOK
<1>5. ArrayInv'
  BY <1>0 DEF ArrayInv, Sorted
<1>6. BsearchInv'
  <2>1. start_key <= current_key /\ current_key <= stop_key /\ results = <<>>
    BY <1>0 DEF BsearchInv
  <2>2. ASSUME Searchable
        PROVE  /\ \A k \in Words : ~(start_key <= HashAt(k) /\ HashAt(k) < current_key)
               /\ \A k \in 1 .. lo' - 1 : HashAt(k) < current_key
               /\ \A k \in hi' .. ref_fp_length : HashAt(k) > current_key
    <3>1. olaf_dp_packed_hash_compare(mid) = current_key - HashAt(mid)
      BY <1>1, <2>1, <2>2, CompareFits
    <3>2. HashAt(mid) \in Nat
      BY <1>1, EntryTypes
    <3>3. /\ \A k \in Words : ~(start_key <= HashAt(k) /\ HashAt(k) < current_key)
          /\ \A k \in 1 .. lo - 1 : HashAt(k) < current_key
          /\ \A k \in hi .. ref_fp_length : HashAt(k) > current_key
      BY <1>0, <2>2 DEF BsearchInv
    <3>4. \A k \in 1 .. lo' - 1 : HashAt(k) < current_key
      <4> SUFFICES ASSUME NEW k \in 1 .. lo' - 1, ~(k \in 1 .. lo - 1)
                   PROVE  HashAt(k) < current_key
        BY <3>3
      <4>1. lo' = mid + 1 /\ current_key - HashAt(mid) > 0
        BY <1>0, <1>1, <3>1
      <4>2. k \in Words /\ k <= mid
        BY <1>1, <4>1, SMTT(30)
      <4>3. HashAt(k) <= HashAt(mid) /\ HashAt(k) \in Nat
        BY <1>1, <2>2, <4>2, HashesAreSorted, EntryTypes DEF Searchable
      <4> QED
        BY <1>1, <3>2, <4>1, <4>3, SMTT(30)
    <3>5. \A k \in hi' .. ref_fp_length : HashAt(k) > current_key
      <4> SUFFICES ASSUME NEW k \in hi' .. ref_fp_length, ~(k \in hi .. ref_fp_length)
                   PROVE  HashAt(k) > current_key
        BY <3>3
      <4>1. hi' = mid /\ current_key - HashAt(mid) < 0
        BY <1>0, <1>1, <3>1
      <4>2. k \in Words /\ mid <= k
        BY <1>1, <4>1
      <4>3. HashAt(mid) <= HashAt(k) /\ HashAt(k) \in Nat
        BY <1>1, <2>2, <4>2, HashesAreSorted, EntryTypes DEF Searchable
      <4> QED
        BY <1>1, <3>2, <4>1, <4>3, SMTT(30)
    <3> QED
      BY <3>3, <3>4, <3>5
  <2>3. /\ Searchable' <=> Searchable
        /\ ref_fp_length' = ref_fp_length /\ \A k : HashAt(k)' = HashAt(k)
        /\ start_key' = start_key /\ stop_key' = stop_key
        /\ current_key' = current_key /\ results' = results
    BY <1>0, SameQuery, SameWords
  <2> QED
    BY <1>3, <2>1, <2>2, <2>3 DEF BsearchInv
<1>7. WalkInv'
  BY <1>0 DEF WalkInv
<1> QED
  BY <1>4, <1>5, <1>6, <1>7

LEMMA StepMatch == ASSUME IInv, NEW mid \in lo .. hi - 1, Match(mid) PROVE IInv'
<1> USE DEF IInv
<1>0. /\ pc = "bsearch" /\ UNCHANGED <<stored, array, range, current_key, lo, hi, results>>
      /\ olaf_dp_packed_hash_compare(mid) = 0
      /\ index' = mid /\ i' = mid /\ pc' = "down"
  BY DEF Match
<1>1. /\ lo \in 1 .. ref_fp_length + 1 /\ hi \in 1 .. ref_fp_length + 1 /\ ref_fp_length \in Nat
      /\ mid \in Words /\ mid \in Int /\ Words = 1 .. ref_fp_length
      /\ current_key \in Nat /\ start_key \in Nat /\ stop_key \in Nat
      /\ Wanted \subseteq Words
  BY Types, SMTT(30)
<1>2. TypeOK'
  <2>1. index' \in 1 .. ref_fp_length + 1 /\ i' \in -1 .. ref_fp_length + 1
    BY <1>0, <1>1
  <2> QED
    BY <1>0, <2>1 DEF TypeOK
<1>3. ArrayInv'
  BY <1>0 DEF ArrayInv, Sorted
<1>4. BsearchInv'
  BY <1>0 DEF BsearchInv
<1>5. WalkInv'
  <2>1. start_key <= current_key /\ current_key <= stop_key /\ results = <<>>
    BY <1>0 DEF BsearchInv
  <2>2. ASSUME Searchable PROVE InRange(HashAt(mid))
    <3>1. olaf_dp_packed_hash_compare(mid) = current_key - HashAt(mid)
      BY <1>1, <2>1, <2>2, CompareFits
    <3>2. HashAt(mid) \in Nat
      BY <1>1, EntryTypes
    <3>3. HashAt(mid) = current_key
      BY <1>0, <1>1, <3>1, <3>2
    <3> QED
      BY <2>1, <3>3 DEF InRange
  <2>3. (Searchable' <=> Searchable) /\ Wanted' = Wanted
    BY <1>0, SameQuery
  <2>4. Passed(i + 1, index)'
    <3>1. \A k \in Wanted' : ~(i' + 1 <= k /\ k <= index')
      BY <1>0, <1>1, <2>3, SMTT(30)
    <3>2. results' = <<>>
      BY <1>0, <2>1
    <3> QED
      BY <3>1, <3>2 DEF Passed
  <2>5. index' \in Words' /\ 0 <= i' /\ i' <= index'
    BY <1>0, <1>1
  <2>6. Searchable' => InRange(HashAt(index))'
    BY <1>0, <2>2, <2>3 DEF InRange, HashAt
  <2> QED
    BY <1>0, <2>4, <2>5, <2>6 DEF WalkInv
<1> QED
  BY <1>2, <1>3, <1>4, <1>5

LEMMA StepNoMatch == ASSUME IInv, NoMatch PROVE IInv'
<1> USE DEF IInv
<1>0. /\ pc = "bsearch" /\ lo = hi /\ UNCHANGED <<stored, array, range, i, results>>
      /\ IF current_key < stop_key
         THEN SearchFor(current_key + 1) /\ UNCHANGED pc
         ELSE pc' = "ready" /\ UNCHANGED search
  BY DEF NoMatch
<1>1. /\ lo \in 1 .. ref_fp_length + 1 /\ ref_fp_length \in Nat /\ Words = 1 .. ref_fp_length
      /\ current_key \in Nat /\ start_key \in Nat /\ stop_key \in Nat
  BY Types
<1>2. start_key <= current_key /\ current_key <= stop_key /\ results = <<>>
  BY <1>0 DEF BsearchInv
<1>3. \A k \in Words : HashAt(k) \in Nat
  BY EntryTypes
\* There is no entry with the hash that was looked for.
<1>4. Searchable =>
        \A k \in Words : ~(start_key <= HashAt(k) /\ HashAt(k) <= current_key)
  <2> SUFFICES ASSUME Searchable, NEW k \in Words,
                      start_key <= HashAt(k), HashAt(k) <= current_key
               PROVE  FALSE
    OBVIOUS
  <2>1. ~(HashAt(k) < current_key)
    BY <1>0 DEF BsearchInv
  <2>2. HashAt(k) = current_key
    BY <1>1, <1>3, <2>1
  <2>3. k \in 1 .. lo - 1 \/ k \in hi .. ref_fp_length
    BY <1>0, <1>1
  <2>4. HashAt(k) < current_key \/ HashAt(k) > current_key
    BY <1>0, <2>3 DEF BsearchInv
  <2> QED
    BY <1>1, <2>2, <2>4
<1>5. (Searchable' <=> Searchable) /\ Wanted' = Wanted
  BY <1>0, SameQuery
<1>6. ArrayInv'
  BY <1>0 DEF ArrayInv, Sorted
<1>7. CASE current_key < stop_key
  <2>1. SearchFor(current_key + 1) /\ UNCHANGED pc /\ current_key + 1 \in Nat
    BY <1>0, <1>1, <1>7
  <2>2. TypeOK'
    BY <1>0, <1>2, <2>1, SearchStarts
  <2>3. BsearchInv'
    <3>1. lo' = 1 /\ hi' = ref_fp_length + 1 /\ lo' <= hi' /\ current_key' = current_key + 1
      BY <1>1, <2>1 DEF SearchFor
    <3>2. 1 .. lo' - 1 = {} /\ hi' .. ref_fp_length = {}
      BY <1>1, <3>1
    <3>3. Searchable => \A k \in Words :
            ~(start_key <= HashAt(k) /\ HashAt(k) < current_key')
      BY <1>1, <1>3, <1>4, <3>1
    <3>4. start_key <= current_key' /\ current_key' <= stop_key
      BY <1>1, <1>2, <1>7, <3>1
    <3>5. /\ ref_fp_length' = ref_fp_length /\ \A k : HashAt(k)' = HashAt(k)
          /\ start_key' = start_key /\ stop_key' = stop_key /\ results' = <<>>
      BY <1>0, <1>2, SameWords
    <3> QED
      BY <1>5, <3>1, <3>2, <3>3, <3>4, <3>5 DEF BsearchInv
  <2>4. WalkInv'
    BY <1>0, <2>1 DEF WalkInv
  <2> QED
    BY <1>6, <2>2, <2>3, <2>4
<1>8. CASE ~(current_key < stop_key)
  <2>1. pc' = "ready" /\ UNCHANGED search /\ current_key = stop_key
    BY <1>0, <1>1, <1>2, <1>8
  <2>2. TypeOK'
    BY <1>0, <2>1 DEF TypeOK
  <2>3. BsearchInv'
    BY <2>1 DEF BsearchInv
  <2>4. Passed(1, ref_fp_length)'
    <3>1. Searchable => Wanted = {}
      BY <1>4, <2>1 DEF Wanted, InRange
    <3>2. results' = <<>>
      BY <1>0, <1>2
    <3> QED
      BY <1>5, <3>1, <3>2 DEF Passed
  <2>5. WalkInv'
    BY <2>1, <2>4 DEF WalkInv
  <2> QED
    BY <1>6, <2>2, <2>3, <2>5
<1> QED
  BY <1>7, <1>8

LEMMA PassedIs ==
  ASSUME NEW first, NEW last
  PROVE  Passed(first, last) <=> /\ Own(results, Wanted, first, last)
                                 /\ Searchable => All(results, Wanted, first, last)
  BY DEF Passed, Own, All

LEMMA StepWalkDown == ASSUME IInv, WalkDown PROVE IInv'
<1> USE DEF IInv
<1>0. /\ pc = "down" /\ InRange(HashAt(i)) /\ AddResult /\ i' = i - 1
      /\ pc' = IF i >= 1 THEN "down" ELSE "fault"
      /\ UNCHANGED <<stored, array, range, search>>
  BY DEF WalkDown
<1>1. /\ ref_fp_length \in Nat /\ Words = 1 .. ref_fp_length /\ index \in Int /\ i \in Int
      /\ results \in Seq(0 .. ref_fp_length) /\ Len(results) <= ResultsSize
      /\ Wanted \in SUBSET Int /\ Wanted \subseteq Words
  BY Types, SMTT(30)
<1>2. /\ 0 <= i /\ i <= index /\ index \in Words /\ Passed(i + 1, index)
      /\ Searchable => InRange(HashAt(index))
  BY <1>0 DEF WalkInv
<1>3. results' = Added(results, i)
      /\ results' \in Seq(0 .. ref_fp_length) /\ Len(results') <= ResultsSize
  <2>1. i \in 0 .. ref_fp_length
    BY <1>1, <1>2
  <2> QED
    BY <1>0, <2>1, AddedType
<1>4. TypeOK'
  <2>1. i' \in -1 .. ref_fp_length + 1
    BY <1>0, <1>1, <1>2
  <2> QED
    BY <1>0, <1>3, <2>1 DEF TypeOK
<1>5. ArrayInv' /\ BsearchInv'
  BY <1>0 DEF ArrayInv, Sorted, BsearchInv
<1>6. CASE i >= 1
  <2>1. i \in Wanted
    BY <1>0, <1>1, <1>2, <1>6 DEF Wanted
  <2>2. results \in Seq(Int)
    BY <1>1
  <2>3. Own(results, Wanted, i + 1, index) /\ (Searchable => All(results, Wanted, i + 1, index))
    BY <1>2, PassedIs
  <2>4. Own(Added(results, i), Wanted, i, index)
    <3>1. i + 1 \in Int /\ i <= i + 1 /\ i < i + 1 /\ i <= i /\ index <= index
      BY <1>1
    <3> QED
      BY <1>1, <1>2, <2>1, <2>2, <2>3, <3>1, AddedIsOwn
  <2>5. Searchable => All(Added(results, i), Wanted, i, index)
    <3>1. i + 1 \in Int /\ \A k \in Wanted : i <= k /\ k <= index => k = i \/ (i + 1 <= k /\ k <= index)
      BY <1>1
    <3> QED
      BY <1>1, <2>2, <2>3, <3>1, AddedIsAll
  <2>6. (Searchable' <=> Searchable) /\ Wanted' = Wanted /\ i' + 1 = i /\ index' = index
    BY <1>0, <1>1, SameQuery
  <2>7. Passed(i + 1, index)'
    BY <1>3, <2>4, <2>5, <2>6 DEF Passed, Own, All
  <2>8. 0 <= i' /\ i' <= index' /\ index' \in Words'
    BY <1>0, <1>1, <1>2, <1>6
  <2>9. Searchable' => InRange(HashAt(index))'
    BY <1>0, <1>2, <2>6 DEF InRange, HashAt
  <2>10. pc' = "down"
    BY <1>0, <1>6
  <2>11. WalkInv'
    BY <2>7, <2>8, <2>9, <2>10 DEF WalkInv
  <2> QED
    BY <1>4, <1>5, <2>11
<1>7. CASE ~(i >= 1)
  <2>1. pc' = "fault"
    BY <1>0, <1>7
  <2> QED
    BY <1>4, <1>5, <2>1 DEF WalkInv
<1> QED
  BY <1>6, <1>7

\* The array is sorted: where the walk down ends there is nothing wanted below.
LEMMA StepTurnRound == ASSUME IInv, TurnRound PROVE IInv'
<1> USE DEF IInv
<1>0. /\ pc = "down" /\ ~InRange(HashAt(i)) /\ i' = index + 1 /\ pc' = "up"
      /\ UNCHANGED <<stored, array, range, search, results>>
  BY DEF TurnRound
<1>1. /\ ref_fp_length \in Nat /\ Words = 1 .. ref_fp_length /\ index \in Int /\ i \in Int
      /\ Wanted \in SUBSET Int /\ Wanted \subseteq Words
      /\ start_key \in Nat /\ stop_key \in Nat
  BY Types, SMTT(30)
<1>2. /\ 0 <= i /\ i <= index /\ index \in Words /\ Passed(i + 1, index)
      /\ Searchable => InRange(HashAt(index))
  BY <1>0 DEF WalkInv
<1>3. TypeOK'
  <2>1. i' \in -1 .. ref_fp_length + 1
    BY <1>0, <1>1, <1>2
  <2> QED
    BY <1>0, <2>1 DEF TypeOK
<1>4. ArrayInv' /\ BsearchInv'
  BY <1>0 DEF ArrayInv, Sorted, BsearchInv
<1>5. ASSUME Searchable, NEW k \in Wanted PROVE i + 1 <= k
  <2> SUFFICES ASSUME k <= i PROVE FALSE
    BY <1>1
  <2>1. k \in Words /\ i \in Words /\ i >= 1
    BY <1>1, <1>2
  <2>2. InRange(HashAt(k)) /\ InRange(HashAt(index)) /\ ~InRange(HashAt(i))
    BY <1>0, <1>2, <1>5, <2>1 DEF Wanted
  <2>3. HashAt(k) <= HashAt(i) /\ HashAt(i) <= HashAt(index)
    BY <1>2, <1>5, <2>1, HashesAreSorted DEF Searchable
  <2>4. HashAt(k) \in Nat /\ HashAt(i) \in Nat /\ HashAt(index) \in Nat
    BY <1>2, <2>1, EntryTypes
  <2> QED
    BY <1>1, <2>2, <2>3, <2>4 DEF InRange
<1>6. Passed(1, i - 1)'
  <2>1. (Searchable' <=> Searchable) /\ Wanted' = Wanted /\ i' - 1 = index /\ results' = results
    BY <1>0, <1>1, SameQuery
  <2>2. Own(results, Wanted, i + 1, index) /\ (Searchable => All(results, Wanted, i + 1, index))
    BY <1>2, PassedIs
  <2>3. Own(results, Wanted, 1, index)
    <3>1. \A m \in DOMAIN results : results[m] \in Wanted /\ results[m] <= index
      BY <2>2 DEF Own
    <3>2. \A m \in DOMAIN results : 1 <= results[m]
      BY <1>1, <3>1
    <3> QED
      BY <2>2, <3>1, <3>2 DEF Own
  <2>4. Searchable => All(results, Wanted, 1, index)
    BY <1>5, <2>2 DEF All
  <2> QED
    BY <2>1, <2>3, <2>4 DEF Passed, Own, All
<1>7. WalkInv'
  <2>1. index' < i' /\ index' \in Words'
    BY <1>0, <1>1, <1>2
  <2>2. (Searchable' <=> Searchable) /\ (Searchable' => InRange(HashAt(index))')
    BY <1>0, <1>2, SameQuery DEF InRange, HashAt
  <2> QED
    BY <1>0, <1>6, <2>1, <2>2 DEF WalkInv
<1> QED
  BY <1>3, <1>4, <1>7

LEMMA StepWalkUp == ASSUME IInv, WalkUp PROVE IInv'
<1> USE DEF IInv
<1>0. /\ pc = "up" /\ i <= ref_fp_length /\ InRange(HashAt(i)) /\ AddResult /\ i' = i + 1
      /\ UNCHANGED <<pc, stored, array, range, search>>
  BY DEF WalkUp, MoreAbove
<1>1. /\ ref_fp_length \in Nat /\ Words = 1 .. ref_fp_length /\ index \in Int /\ i \in Int
      /\ results \in Seq(0 .. ref_fp_length) /\ Len(results) <= ResultsSize
      /\ Wanted \in SUBSET Int /\ Wanted \subseteq Words
  BY Types, SMTT(30)
<1>2. /\ index < i /\ index \in Words /\ Passed(1, i - 1)
      /\ Searchable => InRange(HashAt(index))
  BY <1>0 DEF WalkInv
<1>3. i \in Words /\ i \in 0 .. ref_fp_length
  BY <1>0, <1>1, <1>2
<1>4. results' = Added(results, i)
      /\ results' \in Seq(0 .. ref_fp_length) /\ Len(results') <= ResultsSize
  BY <1>0, <1>3, AddedType
<1>5. TypeOK'
  <2>1. i' \in -1 .. ref_fp_length + 1
    BY <1>0, <1>1, <1>3
  <2> QED
    BY <1>0, <1>4, <2>1 DEF TypeOK
<1>6. ArrayInv' /\ BsearchInv'
  BY <1>0 DEF ArrayInv, Sorted, BsearchInv
<1>7. Passed(1, i - 1)'
  <2>1. i \in Wanted /\ results \in Seq(Int)
    BY <1>0, <1>1, <1>3 DEF Wanted
  <2>2. Own(results, Wanted, 1, i - 1) /\ (Searchable => All(results, Wanted, 1, i - 1))
    BY <1>2, PassedIs
  <2>3. /\ i - 1 \in Int /\ 1 <= 1 /\ i - 1 <= i /\ 1 <= i /\ i <= i /\ i - 1 < i
        /\ \A k \in Wanted : 1 <= k /\ k <= i => k = i \/ (1 <= k /\ k <= i - 1)
    BY <1>1, <1>3
  <2>4. Own(Added(results, i), Wanted, 1, i)
    BY <1>1, <2>1, <2>2, <2>3, AddedIsOwn, SMTT(30)
  <2>5. Searchable => All(Added(results, i), Wanted, 1, i)
    BY <1>1, <2>1, <2>2, <2>3, AddedIsAll
  <2>6. (Searchable' <=> Searchable) /\ Wanted' = Wanted /\ i' - 1 = i
    BY <1>0, <1>1, SameQuery
  <2> QED
    BY <1>4, <2>4, <2>5, <2>6 DEF Passed, Own, All
<1>8. WalkInv'
  <2>1. index' < i' /\ index' \in Words' /\ pc' = "up"
    BY <1>0, <1>1, <1>2
  <2>2. (Searchable' <=> Searchable) /\ (Searchable' => InRange(HashAt(index))')
    BY <1>0, <1>2, SameQuery DEF InRange, HashAt
  <2> QED
    BY <1>7, <2>1, <2>2 DEF WalkInv
<1> QED
  BY <1>5, <1>6, <1>8

LEMMA StepFindReturns == ASSUME IInv, FindReturns PROVE IInv'
<1> USE DEF IInv
<1>0. /\ pc = "up" /\ ~(i <= ref_fp_length /\ InRange(HashAt(i))) /\ pc' = "ready"
      /\ UNCHANGED <<stored, array, range, search, i, results>>
  BY DEF FindReturns, MoreAbove
<1>1. /\ ref_fp_length \in Nat /\ Words = 1 .. ref_fp_length /\ index \in Int /\ i \in Int
      /\ Wanted \in SUBSET Int /\ Wanted \subseteq Words
      /\ start_key \in Nat /\ stop_key \in Nat
  BY Types, SMTT(30)
<1>2. /\ index < i /\ index \in Words /\ Passed(1, i - 1)
      /\ Searchable => InRange(HashAt(index))
  BY <1>0 DEF WalkInv
<1>3. TypeOK' /\ ArrayInv' /\ BsearchInv'
  BY <1>0 DEF TypeOK, ArrayInv, Sorted, BsearchInv
<1>4. ASSUME Searchable, NEW k \in Wanted PROVE k <= i - 1
  <2> SUFFICES ASSUME i <= k PROVE FALSE
    BY <1>1
  <2>1. k \in Words /\ i \in Words /\ i <= ref_fp_length
    BY <1>1, <1>2
  <2>2. InRange(HashAt(k)) /\ InRange(HashAt(index)) /\ ~InRange(HashAt(i))
    BY <1>0, <1>2, <1>4, <2>1 DEF Wanted
  <2>3. HashAt(index) <= HashAt(i) /\ HashAt(i) <= HashAt(k)
    <3>1. index <= i
      BY <1>1, <1>2
    <3> QED
      BY <1>2, <1>4, <2>1, <3>1, HashesAreSorted DEF Searchable
  <2>4. HashAt(k) \in Nat /\ HashAt(i) \in Nat /\ HashAt(index) \in Nat
    BY <1>2, <2>1, EntryTypes
  <2> QED
    BY <1>1, <2>2, <2>3, <2>4 DEF InRange
<1>5. Passed(1, ref_fp_length)'
  <2>1. /\ Searchable' <=> Searchable
        /\ Wanted' = Wanted /\ ref_fp_length' = ref_fp_length /\ results' = results
    BY <1>0, SameQuery
  <2>2. Own(results, Wanted, 1, i - 1) /\ (Searchable => All(results, Wanted, 1, i - 1))
    BY <1>2, PassedIs
  <2>3. Own(results, Wanted, 1, ref_fp_length)
    <3>1. \A m \in DOMAIN results : results[m] \in Wanted
      BY <2>2 DEF Own
    <3>2. \A m \in DOMAIN results : 1 <= results[m] /\ results[m] <= ref_fp_length
      BY <1>1, <3>1
    <3> QED
      BY <2>2, <3>1, <3>2 DEF Own
  <2>4. Searchable => All(results, Wanted, 1, ref_fp_length)
    BY <1>4, <2>2 DEF All
  <2> QED
    BY <2>1, <2>3, <2>4 DEF Passed, Own, All
<1> QED
  BY <1>0, <1>3, <1>5 DEF WalkInv

LEMMA StutterIInv == ASSUME IInv, UNCHANGED vars PROVE IInv'
<1> USE DEF IInv
<1>1. TypeOK'
  BY DEF TypeOK
<1>2. ArrayInv'
  BY DEF ArrayInv, Sorted, Kept
<1>3. BsearchInv'
  BY SameQuery, SameWords DEF BsearchInv
<1>4. WalkInv'
  BY SameQuery DEF WalkInv, Passed, InRange, HashAt
<1> QED
  BY <1>1, <1>2, <1>3, <1>4

LEMMA NextIInv == IInv /\ [Next]_vars => IInv'
  BY StepStore, StepWriteHeader, StepFind, StepProbe, StepMatch, StepNoMatch, StepWalkDown,
     StepTurnRound, StepWalkUp, StepFindReturns, StutterIInv DEF Next, Searching

-----------------------------------------------------------------------------

\* The inductive invariant: what bsearch has given up cannot be what it looks
\* for, and the walks pass every entry of the range once.
THEOREM Invariance == Spec => []IInv
  BY InitIInv, NextIInv, PTL DEF Spec

\* No index leaves the words that the header gives the array, but for that of
\* the walk down, by one, and the results never overflow.
THEOREM TypeCorrect == Spec => []TypeOK
<1>1. IInv => TypeOK
  BY DEF IInv
<1> QED
  BY <1>1, Invariance, PTL

\* If the writer has room for all fingerprints of an audio file the header has
\* the right length, and so no index leaves the array by the one above either.
THEOREM LengthIsRight ==
  ASSUME MaxStored <= HashesSize
  PROVE  Spec => []LengthIsNumberOfElements
<1>1. IInv => LengthIsNumberOfElements
  <2> SUFFICES ASSUME IInv PROVE ref_fp_length = Len(ref_fp)
    BY DEF LengthIsNumberOfElements
  <2>1. ref_fp_length \in 0 .. MaxStored
    BY DEF IInv, TypeOK
  <2>2. HadRoom
    BY <2>1 DEF HadRoom
  <2> QED
    BY <2>2, WordsAreEntries DEF IInv
<1> QED
  BY <1>1, Invariance, PTL

\* What is wanted of the words is what is in range of the array.
LEMMA WantedAreEntries ==
  ASSUME TypeOK, ArrayInv, HadRoom
  PROVE  Wanted = Entries
  BY WordsAreEntries DEF Wanted, Entries

\* A lookup returns entries of the array in the range only, and none of them
\* twice, if the writer had room for all.
THEOREM FindsInRange == Spec => []ResultsAreInRange
<1>1. IInv => ResultsAreInRange
  <2> SUFFICES ASSUME IInv, pc = "ready", HadRoom PROVE ResultsAreInRange
    BY DEF ResultsAreInRange
  <2>1. Own(results, Wanted, 1, ref_fp_length)
    BY PassedIs DEF IInv, WalkInv
  <2>2. \A m \in DOMAIN results : results[m] \in Wanted
    BY <2>1 DEF Own
  <2>3. Range(results) \subseteq Entries
    BY <2>2, WantedAreEntries DEF Range, IInv
  <2>4. \A k, l \in DOMAIN results : results[k] = results[l] => k = l
    BY <2>1 DEF Own
  <2> QED
    BY <2>3, <2>4 DEF ResultsAreInRange
<1> QED
  BY <1>1, Invariance, PTL

\* A lookup returns every entry of the range that there is room for, for every
\* array with all fingerprints, of hashes close enough for the comparator.
THEOREM FindsAll == Spec => []ResultsAreComplete
<1>1. IInv => ResultsAreComplete
  <2> SUFFICES ASSUME IInv, pc = "ready", Searchable, Len(results) # ResultsSize
               PROVE  Entries \subseteq Range(results)
    BY DEF ResultsAreComplete
  <2>1. All(results, Wanted, 1, ref_fp_length)
    BY PassedIs DEF IInv, WalkInv
  <2>2. \A k \in Wanted : 1 <= k /\ k <= ref_fp_length
    BY Types DEF IInv
  <2>3. \A k \in Wanted : \E m \in DOMAIN results : results[m] = k
    BY <2>1, <2>2 DEF All
  <2>4. Wanted = Entries
    BY WantedAreEntries DEF IInv, Searchable
  <2> QED
    BY <2>3, <2>4 DEF Range
<1> QED
  BY <1>1, Invariance, PTL

\* The linear search finds an entry exactly when the binary one does, and so a
\* lookup is exact.
THEOREM FindsExactly == Spec => []LookupIsExact
<1>1. IInv /\ ResultsAreInRange /\ ResultsAreComplete => LookupsAgree
  <2> SUFFICES ASSUME IInv, ResultsAreInRange, ResultsAreComplete,
                      pc = "ready", Searchable, ResultsSize > 0
               PROVE  results # <<>> <=> olaf_db_find_single
    BY DEF LookupsAgree
  <2>0. HadRoom /\ Wanted = Entries
    BY WantedAreEntries DEF IInv, Searchable
  <2>1. results # <<>> => olaf_db_find_single
    <3> SUFFICES ASSUME results # <<>> PROVE olaf_db_find_single
      OBVIOUS
    <3>1. results \in Seq(0 .. ref_fp_length)
      BY DEF IInv, TypeOK
    <3>2. results[1] \in Wanted
      BY <2>0, <3>1 DEF ResultsAreInRange, Range
    <3>3. PICK k \in Words : InRange(HashAt(k))
      BY <3>2 DEF Wanted
    <3>4. ASSUME NEW l \in 1 .. k - 1
          PROVE  HashAt(l) <= stop_key
      <4>0. Words = 1 .. ref_fp_length /\ ref_fp_length \in Nat
        BY Types DEF IInv
      <4>1. l \in Words /\ l <= k
        BY <4>0
      <4>2. HashAt(l) <= HashAt(k)
        BY <4>1, HashesAreSorted DEF IInv, Searchable
      <4>3. HashAt(l) \in Nat /\ HashAt(k) \in Nat /\ stop_key \in Nat
        BY <4>1, EntryTypes, Types DEF IInv
      <4> QED
        BY <3>3, <4>2, <4>3 DEF InRange
    <3> QED
      BY <3>3, <3>4 DEF olaf_db_find_single
  <2>2. olaf_db_find_single => results # <<>>
    <3> SUFFICES ASSUME olaf_db_find_single, results = <<>> PROVE FALSE
      OBVIOUS
    <3>1. Wanted # {}
      BY DEF olaf_db_find_single, Wanted
    <3>2. Range(results) = {}
      BY DEF Range
    <3> QED
      BY <2>0, <3>1, <3>2 DEF ResultsAreComplete
  <2> QED
    BY <2>1, <2>2
<1> QED
  BY <1>1, Invariance, FindsInRange, FindsAll, PTL DEF LookupIsExact

=============================================================================
