---------------------------- MODULE MemoryIndex -----------------------------
(***************************************************************************)
(* The index in memory, of the browser and the ESP32: one audio file, its  *)
(* fingerprints sorted in an array of packed hashes and times.             *)
(*                                                                         *)
(* olaf_fp_db_writer_mem.c makes the array (as a header file to compile);  *)
(* olaf_db_find of olaf_db_mem.c looks up a range of hashes: bsearch for   *)
(* one hash after the other until one is there, then a walk over its       *)
(* neighbours on both sides.  bsearch may try any entry it has left.       *)
(*                                                                         *)
(* The header also has the length of the array, which the lookups trust:   *)
(* it is the number of fingerprints of the audio, those that the writer    *)
(* ignored because it was full included.  The lookups then take words      *)
(* behind the array for entries; what these hold is in around.             *)
(*                                                                         *)
(* Widths are parameters: KeySpace for 64 bits, TimeSpace for 16 and       *)
(* IntHalf for the sign of 32, which the comparator returns.               *)
(***************************************************************************)
EXTENDS Integers, Sequences, Functions

CONSTANTS
  Prints,       \* fingerprints of the audio: a hash and a time each
  Hashes,       \* hashes of queries
  SearchRange,  \* distance of hashes that still match
  HashesSize,   \* hashes_size: entries the writer has room for
  ResultsSize,  \* maxDBCollisions
  Around,       \* hashes that words in memory around the array may hold
  KeySpace, TimeSpace, IntHalf,
  MaxStored     \* bound: fingerprints that are stored

ASSUME MemoryAssumption ==
  /\ Prints \subseteq [hash : Nat, t1 : Nat]
  /\ Hashes \subseteq Nat
  /\ {SearchRange, HashesSize, ResultsSize, MaxStored} \subseteq Nat
  /\ KeySpace \in Nat \ {0}
  /\ TimeSpace \in Nat \ {0}
  /\ IntHalf \in Nat \ {0}
  /\ Around \subseteq Nat
  /\ \A h \in Hashes \cup Around \cup {p.hash : p \in Prints} : h + SearchRange < KeySpace

VARIABLES
  pc,
  stored,       \* fingerprints the writer was given
  hashes,       \* db_writer->hashes up to its index
  ref_fp,       \* the array, from 1
  ref_fp_length, \* the length of it, says the header
  around,       \* hashes of the words before and behind it
  start_key, stop_key, current_key,
  lo, hi,       \* bsearch: what it has left is lo .. hi - 1
  index,        \* the entry it found
  i,            \* of the walks
  results       \* entries that were found: results[] has their times

vars == <<pc, stored, hashes, ref_fp, ref_fp_length, around, start_key, stop_key,
          current_key, lo, hi, index, i, results>>

array == <<hashes, ref_fp, ref_fp_length, around>>
range == <<start_key, stop_key>>
search == <<current_key, lo, hi, index>>

\* The word before the array and those behind one that is full.
Outside == {0} \cup (HashesSize + 1 .. MaxStored)

Init ==
  /\ pc = "store"
  /\ stored = 0
  /\ hashes = <<>>
  /\ ref_fp = <<>>
  /\ ref_fp_length = 0
  /\ around \in [Outside -> Around]
  /\ start_key = 1 /\ stop_key = 0 /\ current_key = 0
  /\ lo = 1 /\ hi = 1 /\ index = 1
  /\ i = 0
  /\ results = <<>>

-----------------------------------------------------------------------------
(* The writer. *)

\* A hash and a time in one word; the time is cut to 16 bits.
Packed(p) == p.hash * TimeSpace + (p.t1 % TimeSpace)

HashOf(entry) == entry \div TimeSpace

\* What there is no room for is ignored with a warning.
Store(p) ==
  /\ pc = "store"
  /\ stored < MaxStored
  /\ stored' = stored + 1
  /\ hashes' = IF Len(hashes) < HashesSize THEN Append(hashes, Packed(p)) ELSE hashes
  /\ UNCHANGED <<pc, ref_fp, ref_fp_length, around, range, search, i, results>>

Sorted(s) == \A k, l \in DOMAIN s : k < l => s[k] <= s[l]

Orders == Bijection(DOMAIN hashes, DOMAIN hashes)

\* The length in the header: value->fingerprints, all that were extracted.
olaf_db_store_meta_data == ref_fp_length' = stored

\* olaf_fp_db_writer_destroy sorts and prints the array and the stream processor
\* has the rest of the header printed, which is compiled into another program.
WriteHeader ==
  /\ pc = "store"
  /\ hashes # <<>>
  /\ \E order \in Orders : ref_fp' = [k \in DOMAIN hashes |-> hashes[order[k]]]
  /\ Sorted(ref_fp')
  /\ olaf_db_store_meta_data
  /\ hashes' = <<>>
  /\ stored' = 0
  /\ pc' = "ready"
  /\ UNCHANGED <<around, range, search, i, results>>

-----------------------------------------------------------------------------
(* olaf_db_find *)

\* The hash in a word of the array, or of what is taken for it.
HashAt(k) == IF k \in DOMAIN ref_fp THEN HashOf(ref_fp[k]) ELSE around[k]

SearchFor(key) ==
  /\ current_key' = key
  /\ lo' = 1
  /\ hi' = ref_fp_length + 1
  /\ index' = 1

\* The matcher asks for the hashes around one; the lower end wraps.
Find(h) ==
  /\ pc = "ready"
  /\ start_key' = (h - SearchRange) % KeySpace
  /\ stop_key' = h + SearchRange
  /\ SearchFor(start_key')
  /\ results' = <<>>
  /\ pc' = IF start_key' <= stop_key' THEN "bsearch" ELSE "ready"
  /\ UNCHANGED <<stored, array, i>>

\* A difference as the int that the comparator returns.
Cut(n) == ((n + IntHalf) % (2 * IntHalf)) - IntHalf

olaf_dp_packed_hash_compare(k) == Cut(current_key - HashAt(k))

\* bsearch tries an entry, which is not the one ...
Probe(mid) ==
  LET order == olaf_dp_packed_hash_compare(mid) IN
  /\ pc = "bsearch"
  /\ mid \in lo .. hi - 1
  /\ order # 0
  /\ lo' = IF order > 0 THEN mid + 1 ELSE lo
  /\ hi' = IF order < 0 THEN mid ELSE hi
  /\ UNCHANGED <<pc, stored, array, range, current_key, index, i, results>>

\* ... or is.
Match(mid) ==
  /\ pc = "bsearch"
  /\ mid \in lo .. hi - 1
  /\ olaf_dp_packed_hash_compare(mid) = 0
  /\ index' = mid
  /\ i' = mid
  /\ pc' = "down"
  /\ UNCHANGED <<stored, array, range, current_key, lo, hi, results>>

\* Variant of NoMatch: the last hash of the range is left out.
NoMatchHalfOpen ==
  /\ pc = "bsearch"
  /\ lo = hi
  /\ IF current_key + 1 < stop_key
     THEN SearchFor(current_key + 1) /\ UNCHANGED pc
     ELSE pc' = "ready" /\ UNCHANGED search
  /\ UNCHANGED <<stored, array, range, i, results>>

\* bsearch has nothing left: the next hash, if there is one.
NoMatch ==
  /\ pc = "bsearch"
  /\ lo = hi
  /\ IF current_key < stop_key
     THEN SearchFor(current_key + 1) /\ UNCHANGED pc
     ELSE pc' = "ready" /\ UNCHANGED search
  /\ UNCHANGED <<stored, array, range, i, results>>

InRange(hash) == start_key <= hash /\ hash <= stop_key

\* What is found once the results are full is ignored with a message.
AddResult == results' = IF Len(results) < ResultsSize THEN Append(results, i) ELSE results

\* Variant of WalkDown: the break is missing, and the walk goes on below what
\* is out of range.
WalkDownUnchecked ==
  /\ pc = "down"
  /\ IF InRange(HashAt(i)) THEN AddResult ELSE UNCHANGED results
  /\ i' = i - 1
  /\ pc' = IF i >= 1 THEN "down" ELSE "fault"
  /\ UNCHANGED <<stored, array, range, search>>

\* The walk over the match and what is before it.  i is unsigned and always
\* >= 0: after the first entry of the array the walk reads what is before the
\* array, and only ends because (or if) it is out of range.
WalkDown ==
  /\ pc = "down"
  /\ InRange(HashAt(i))
  /\ AddResult
  /\ i' = i - 1
  /\ pc' = IF i >= 1 THEN "down" ELSE "fault"
  /\ UNCHANGED <<stored, array, range, search>>

TurnRound ==
  /\ pc = "down"
  /\ ~InRange(HashAt(i))
  /\ i' = index + 1
  /\ pc' = "up"
  /\ UNCHANGED <<stored, array, range, search, results>>

MoreAbove == i <= ref_fp_length /\ InRange(HashAt(i))

WalkUp ==
  /\ pc = "up"
  /\ MoreAbove
  /\ AddResult
  /\ i' = i + 1
  /\ UNCHANGED <<pc, stored, array, range, search>>

FindReturns ==
  /\ pc = "up"
  /\ ~MoreAbove
  /\ pc' = "ready"
  /\ UNCHANGED <<stored, array, range, search, i, results>>

Searching ==
  \/ \E mid \in lo .. hi - 1 : Probe(mid) \/ Match(mid)
  \/ NoMatch
  \/ WalkDown \/ TurnRound
  \/ WalkUp \/ FindReturns

Next ==
  \/ \E p \in Prints : Store(p)
  \/ WriteHeader
  \/ \E h \in Hashes : Find(h)
  \/ Searching

\* One thread, which runs on once it is called.
Spec == Init /\ [][Next]_vars /\ WF_vars(Searching)

-----------------------------------------------------------------------------
(* Properties *)

TypeOK ==
  /\ pc \in {"store", "ready", "bsearch", "down", "up", "fault"}
  /\ stored \in 0 .. MaxStored
  /\ hashes \in Seq(Nat)
  /\ ref_fp \in Seq(Nat)
  /\ ref_fp_length \in 0 .. MaxStored
  /\ around \in [Outside -> Around]
  /\ {start_key, stop_key, current_key} \subseteq Nat
  /\ {lo, hi} \subseteq 1 .. ref_fp_length + 1
  /\ index \in 1 .. ref_fp_length + 1
  /\ i \in -1 .. ref_fp_length + 1
  /\ results \in Seq(0 .. ref_fp_length) /\ Len(results) <= ResultsSize

\* What the lookups take for the array, and what they look for in it.
Words == 1 .. ref_fp_length
Wanted == {k \in Words : InRange(HashAt(k))}

\* The writer ignored none of the fingerprints.
HadRoom == ref_fp_length <= HashesSize

\* All hashes of the array and of the range are so close that no difference of
\* two of them changes its sign when it is cut.
SpreadFits ==
  \A k \in DOMAIN ref_fp :
    /\ stop_key - HashOf(ref_fp[k]) < IntHalf
    /\ HashOf(ref_fp[k]) - start_key <= IntHalf

\* What bsearch cannot do without.
Searchable == HadRoom /\ SpreadFits

(* The inductive invariant. *)

\* What is kept of n fingerprints.
Kept(s, n) == Len(s) = IF n <= HashesSize THEN n ELSE HashesSize

ArrayInv ==
  /\ Kept(hashes, stored)
  /\ Kept(ref_fp, ref_fp_length)
  /\ Sorted(ref_fp)
  /\ pc = "store" => ref_fp_length = 0 /\ results = <<>> /\ start_key > stop_key

\* What bsearch has given up is below and above the hash it looks for, and the
\* hashes of the range it looked for before are not there.
BsearchInv ==
  pc = "bsearch" =>
    /\ start_key <= current_key /\ current_key <= stop_key
    /\ lo <= hi
    /\ results = <<>>
    /\ Searchable =>
         /\ \A k \in Words : ~(start_key <= HashAt(k) /\ HashAt(k) < current_key)
         /\ \A k \in 1 .. lo - 1 : HashAt(k) < current_key
         /\ \A k \in hi .. ref_fp_length : HashAt(k) > current_key

\* The entries of the range among those from first to last were found.
Passed(first, last) ==
  /\ \A m \in DOMAIN results : results[m] \in Wanted /\ first <= results[m] /\ results[m] <= last
  /\ \A m, n \in DOMAIN results : results[m] = results[n] => m = n
  /\ Searchable =>
       \A k \in Wanted : first <= k /\ k <= last =>
         Len(results) = ResultsSize \/ \E m \in DOMAIN results : results[m] = k

WalkInv ==
  /\ pc \in {"down", "up"} => /\ index \in Words
                              /\ Searchable => InRange(HashAt(index))
  /\ pc = "down" => 0 <= i /\ i <= index /\ Passed(i + 1, index)
  /\ pc = "up" => index < i /\ Passed(1, i - 1)
  /\ pc = "ready" => Passed(1, ref_fp_length)

IInv == TypeOK /\ ArrayInv /\ BsearchInv /\ WalkInv

-----------------------------------------------------------------------------

\* The entries of the array in the range.
Entries == {k \in DOMAIN ref_fp : InRange(HashOf(ref_fp[k]))}

\* Whatever bsearch hits on, and even if the comparator leads it astray, a
\* lookup returns entries of the range, each once, unless fingerprints were
\* ignored by the writer (olaf_fp_db_writer_mem.c:65).
ResultsAreInRange ==
  pc = "ready" /\ HadRoom =>
    /\ Range(results) \subseteq Entries
    /\ \A k, l \in DOMAIN results : results[k] = results[l] => k = l

\* Every entry of the range is returned unless the results are full, for every
\* array of which the hashes are less than 2^31 apart, which the comparator of
\* bsearch cannot do without (olaf_db_mem.c:79), and that has all fingerprints.
ResultsAreComplete ==
  pc = "ready" /\ Searchable =>
    \/ Entries \subseteq Range(results)
    \/ Len(results) = ResultsSize

\* olaf_db_find_single: a word in the range, which the search from the first
\* one on comes to, since those before it are not above the range.
olaf_db_find_single ==
  \E k \in 1 .. ref_fp_length :
    /\ InRange(HashAt(k))
    /\ \A l \in 1 .. k - 1 : HashAt(l) <= stop_key

\* The binary search and the linear one of olaf_db_find_single agree.
LookupsAgree ==
  pc = "ready" /\ Searchable /\ ResultsSize > 0 => (results # <<>> <=> olaf_db_find_single)

\* What olaf_db_find returns is what is in the array: nothing else, nothing
\* twice, all there is room for, and something if olaf_db_find_single says so.
LookupIsExact == ResultsAreInRange /\ ResultsAreComplete /\ LookupsAgree

\* A lookup comes to an end, whatever is behind the array.  The walk down runs
\* out of the array when the first entry is in the range (olaf_db_mem.c:112): it
\* is only lost if the word before that one is in the range too.
LookupReturns ==
  pc = "bsearch" ~> (pc = "ready" \/ (1 \in Wanted /\ InRange(around[0])))

\* The length in the header is the "Number of elements in the reference
\* fingerprint array" (olaf_db_mem.c:36): not so when fingerprints were ignored,
\* which olaf_db_store_meta_data counts as well.
LengthIsNumberOfElements == pc # "store" => ref_fp_length = Len(ref_fp)

=============================================================================
