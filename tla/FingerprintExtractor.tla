------------------------ MODULE FingerprintExtractor ------------------------
(***************************************************************************)
(* The core of Olaf: the loop of olaf_stream_processor_process that turns  *)
(* audio blocks into event points (olaf_ep_extractor.c) and combines event *)
(* points into fingerprints (olaf_fp_extractor.c).                         *)
(*                                                                         *)
(* The two extractors share one fixed array of event points.  Slots below  *)
(* epIndex hold live points; the others are "marked" with a time index     *)
(* that is larger than any real one.  The extractor of event points        *)
(* appends at epIndex; the extractor of fingerprints scans the live slots  *)
(* with nested loops, marks the slots it is finished with, sorts the whole *)
(* array on time and derives the new epIndex from the first marked slot.   *)
(*                                                                         *)
(* Audio is abstracted to the set of bins that are a local maximum in a    *)
(* block; magnitudes are left out (the hash multiplies them away).  Each   *)
(* iteration of a loop of the code is one action.                          *)
(***************************************************************************)
EXTENDS Integers, Sequences, FiniteSets, Functions

CONSTANTS
  Bins,                 \* the frequency bins in which an event point can be found
  MaxBlocks,            \* bound: the number of audio blocks in one stream
  Marked,               \* the time index of a marked slot, 1<<23 in the code
  filterSizeTime,       \* blocks of history needed before points are extracted
  halfFilterSizeTime,   \* the distance between the newest block and the examined one
  maxEventPoints,       \* size of the array of event points
  eventPointThreshold,  \* more points than this are combined into fingerprints
  maxEventPointUsages,  \* the amount each event point may be reused
  maxFingerprints,      \* size of the array of fingerprints
  numberOfEPsPerFP,     \* event points per fingerprint: 2 or 3
  minTimeDistance, maxTimeDistance,   \* between points of a fingerprint, in blocks
  minFreqDistance, maxFreqDistance    \* between points of a fingerprint, in bins

\* What olaf_config_default and the extractors assume of a configuration.
\* minTimeDistance > 0 is needed by assert(t2>t1); Marked exceeds every time
\* index as long as the stream is shorter than Marked blocks (18.6 hours).
ASSUME ConfigAssumption ==
  /\ Bins \subseteq Nat \ {0}
  /\ MaxBlocks \in Nat
  /\ Marked \in Nat
  /\ MaxBlocks < Marked
  /\ filterSizeTime \in Nat \ {0}
  /\ halfFilterSizeTime \in Nat
  /\ halfFilterSizeTime < filterSizeTime
  /\ maxEventPoints \in Nat \ {0}
  /\ eventPointThreshold \in Nat
  /\ maxEventPointUsages \in Nat
  /\ maxFingerprints \in Nat
  /\ numberOfEPsPerFP \in {2, 3}
  /\ minTimeDistance \in Nat \ {0}
  /\ maxTimeDistance \in Nat
  /\ minFreqDistance \in Nat
  /\ maxFreqDistance \in Nat

VARIABLES
  pc,           \* where the stream processor is in its loop
  block,        \* audioBlockIndex
  filterIndex,  \* blocks of history collected so far
  bin,          \* the next frequency bin to examine in this block
  points,       \* the array of event points
  epIndex,      \* eventPointIndex: the slot the next point is stored in
  ignored,      \* an event point was ignored: the array was full
  i, j, k,      \* the nested loops over the event points
  fps,          \* the fingerprints extracted since the last delivery
  total,        \* total_fp_extracted
  final         \* the audio has ended: this is the last extraction

vars == <<pc, block, filterIndex, bin, points, epIndex, ignored, i, j, k, fps,
          total, final>>

loop == <<i, j, k>>
audio == <<block, filterIndex, bin, final>>

(***************************************************************************)
(* Event points and fingerprints                                           *)
(***************************************************************************)
Slots == 0 .. maxEventPoints - 1

EventPoint == [time : Nat, bin : Nat, usages : Nat]

Fingerprint == [t1 : Nat, f1 : Nat, t2 : Nat, f2 : Nat, t3 : Nat, f3 : Nat]

\* The usages of a marked slot are never read: the slot is reset when reused.
MarkedPoint == [time |-> Marked, bin |-> 0, usages |-> 0]

Live == {s \in Slots : s < epIndex}

Distance(a, b) == IF a < b THEN b - a ELSE a - b

Overused(s) == points[s].usages > maxEventPointUsages

\* The test on the distance between two consecutive points of a fingerprint.
Combinable(s, t) ==
  /\ points[t].time - points[s].time >= minTimeDistance
  /\ points[t].time - points[s].time <= maxTimeDistance
  /\ Distance(points[s].bin, points[t].bin) >= minFreqDistance
  /\ Distance(points[s].bin, points[t].bin) <= maxFreqDistance

FingerprintOf(s, t, r) ==
  [t1 |-> points[s].time, f1 |-> points[s].bin,
   t2 |-> points[t].time, f2 |-> points[t].bin,
   t3 |-> points[r].time, f3 |-> points[r].bin]

Init ==
  /\ pc = "read"
  /\ block = 0 /\ filterIndex = 0 /\ bin = 0
  /\ points = [s \in Slots |-> MarkedPoint]
  /\ epIndex = 0
  /\ ignored = FALSE
  /\ i = 0 /\ j = 0 /\ k = 0
  /\ fps = << >>
  /\ total = 0
  /\ final = FALSE

(***************************************************************************)
(* Reading audio and extracting event points                               *)
(***************************************************************************)

\* A block of which there is not yet enough history.  No event point exists
\* yet, so the threshold of CombineOrContinue cannot be exceeded either.
CollectHistory ==
  /\ pc = "read" /\ ~final
  /\ block < MaxBlocks
  /\ filterIndex < filterSizeTime - 1
  /\ filterIndex' = filterIndex + 1
  /\ block' = block + 1
  /\ UNCHANGED <<pc, bin, final, points, epIndex, ignored, loop, fps, total>>

\* A block with enough history: its bins are examined from low to high.
ExamineBlock ==
  /\ pc = "read" /\ ~final
  /\ block < MaxBlocks
  /\ filterIndex = filterSizeTime - 1
  /\ pc' = "peaks"
  /\ bin' = 0
  /\ UNCHANGED <<block, filterIndex, final, points, epIndex, ignored, loop, fps, total>>

\* Variant: the point is stored without a look at the size of the array.
StoreUnchecked(b) ==
  /\ pc = "peaks" /\ b >= bin
  /\ bin' = b + 1
  /\ points' = [points EXCEPT ![epIndex] =
                  [time |-> block - halfFilterSizeTime, bin |-> b, usages |-> 0]]
  /\ epIndex' = epIndex + 1
  /\ UNCHANGED <<ignored, pc, block, filterIndex, final, loop, fps, total>>

\* Bin b holds the maximum of its surroundings, half a filter ago.  The point
\* is stored in the first free slot, or ignored when the array is full.
ExtractEventPoint(b) ==
  /\ pc = "peaks"
  /\ b >= bin
  /\ bin' = b + 1
  /\ IF epIndex = maxEventPoints
     THEN /\ ignored' = TRUE
          /\ UNCHANGED <<points, epIndex>>
     ELSE /\ points' = [points EXCEPT ![epIndex] =
                          [time |-> block - halfFilterSizeTime, bin |-> b, usages |-> 0]]
          /\ epIndex' = epIndex + 1
          /\ UNCHANGED ignored
  /\ UNCHANGED <<pc, block, filterIndex, final, loop, fps, total>>

\* Variant: the block counter is only increased after fingerprints were made.
ContinueUncounted ==
  /\ pc = "peaks"
  /\ IF epIndex > eventPointThreshold
     THEN pc' = "first" /\ i' = 0
     ELSE pc' = "read" /\ UNCHANGED i
  /\ UNCHANGED <<audio, points, epIndex, ignored, j, k, fps, total>>

\* No peaks are left in this block: combine the event points into fingerprints
\* if there are enough of them.
CombineOrContinue ==
  /\ pc = "peaks"
  /\ IF epIndex > eventPointThreshold
     THEN /\ pc' = "first" /\ i' = 0
          /\ UNCHANGED block
     ELSE /\ pc' = "read" /\ block' = block + 1
          /\ UNCHANGED i
  /\ UNCHANGED <<filterIndex, bin, final, points, epIndex, ignored, j, k, fps, total>>

\* The last samples were read: the remaining points are combined, however few.
EndOfAudio ==
  /\ pc = "read" /\ ~final
  /\ final' = TRUE
  /\ IF epIndex > 0
     THEN pc' = "first" /\ i' = 0
     ELSE pc' = "done" /\ UNCHANGED i
  /\ UNCHANGED <<block, filterIndex, bin, points, epIndex, ignored, j, k, fps, total>>

(***************************************************************************)
(* Combining event points into fingerprints                                *)
(***************************************************************************)

\* The conditions on which the three loops stop.
NoFirst ==
  i < epIndex =>
    \/ points[i].bin = 0 /\ points[i].time = 0
    \/ Overused(i)
    \/ points[i].time > block - maxTimeDistance

\* Variant: the largest allowed distance already stops the loop.
NoSecondStrict ==
  j < epIndex => Overused(j) \/ points[j].time - points[i].time >= maxTimeDistance

NoSecond ==
  j < epIndex =>
    \/ Overused(j)
    \/ points[j].time - points[i].time > maxTimeDistance

\* Variant: the distance is measured from the first point.
NoThirdFromFirst ==
  k < epIndex => Overused(k) \/ points[k].time - points[i].time > maxTimeDistance

\* The innermost loop tests the time distance of its previous iteration.
NoThird ==
  k < epIndex =>
    \/ Overused(k)
    \/ k > j + 1 /\ points[k-1].time - points[j].time > maxTimeDistance

\* Variant: room for one fingerprint more than the array has.
EmitPastEnd(slots, fp) ==
  IF Len(fps) > maxFingerprints
  THEN UNCHANGED <<points, fps>>
  ELSE /\ fps' = Append(fps, fp)
       /\ points' = [s \in Slots |-> IF s \in slots
                                     THEN [points[s] EXCEPT !.usages = @ + 1]
                                     ELSE points[s]]

\* Append a fingerprint and count a usage of each of its points, unless the
\* array of fingerprints is full.
Emit(slots, fp) ==
  IF Len(fps) >= maxFingerprints
  THEN UNCHANGED <<points, fps>>
  ELSE /\ fps' = Append(fps, fp)
       /\ points' = [s \in Slots |-> IF s \in slots
                                     THEN [points[s] EXCEPT !.usages = @ + 1]
                                     ELSE points[s]]

FirstPoint ==
  /\ pc = "first"
  /\ IF NoFirst
     THEN pc' = "prepare" /\ UNCHANGED j
     ELSE pc' = "second" /\ j' = i + 1
  /\ UNCHANGED <<audio, points, epIndex, ignored, i, k, fps, total>>

SecondPointStops ==
  /\ pc = "second"
  /\ NoSecond
  /\ pc' = "first"
  /\ i' = i + 1
  /\ UNCHANGED <<audio, points, epIndex, ignored, j, k, fps, total>>

\* Variant: the loop continues without a look at the next point.
SecondPointStuck ==
  /\ pc = "second" /\ ~NoSecond /\ ~Combinable(i, j)
  /\ UNCHANGED vars

SecondPointSkipped ==
  /\ pc = "second"
  /\ ~NoSecond
  /\ ~Combinable(i, j)
  /\ j' = j + 1
  /\ UNCHANGED <<pc, audio, points, epIndex, ignored, i, k, fps, total>>

\* olaf_fp_extractor_extract_two: two points make a fingerprint, the second one
\* also fills the place of the third.
PairEmitted ==
  /\ pc = "second"
  /\ numberOfEPsPerFP = 2
  /\ ~NoSecond
  /\ Combinable(i, j)
  /\ Emit({i, j}, FingerprintOf(i, j, j))
  /\ j' = j + 1
  /\ UNCHANGED <<pc, audio, epIndex, ignored, i, k, total>>

SecondPointAccepted ==
  /\ pc = "second"
  /\ numberOfEPsPerFP = 3
  /\ ~NoSecond
  /\ Combinable(i, j)
  /\ pc' = "third"
  /\ k' = j + 1
  /\ UNCHANGED <<audio, points, epIndex, ignored, i, j, fps, total>>

ThirdPointStops ==
  /\ pc = "third"
  /\ NoThird
  /\ pc' = "second"
  /\ j' = j + 1
  /\ UNCHANGED <<audio, points, epIndex, ignored, i, k, fps, total>>

ThirdPointSkipped ==
  /\ pc = "third"
  /\ ~NoThird
  /\ ~Combinable(j, k)
  /\ k' = k + 1
  /\ UNCHANGED <<pc, audio, points, epIndex, ignored, i, j, fps, total>>

\* olaf_fp_extractor_extract_three.
TripleEmitted ==
  /\ pc = "third"
  /\ ~NoThird
  /\ Combinable(j, k)
  /\ Emit({i, j, k}, FingerprintOf(i, j, k))
  /\ k' = k + 1
  /\ UNCHANGED <<pc, audio, epIndex, ignored, i, j, total>>

(***************************************************************************)
(* Preparing the array for the next event points                           *)
(***************************************************************************)

\* Points that can not be the first of a pair with a point still to come.
CutoffTime == points[epIndex - 1].time - maxTimeDistance

\* Variant: a point exactly at the cutoff is kept.
FinishedStrict(s) ==
  \/ points[s].time < CutoffTime
  \/ points[s].usages = maxEventPointUsages

Finished(s) ==
  \/ points[s].time <= CutoffTime
  \/ points[s].usages = maxEventPointUsages

MarkFinished ==
  [s \in Slots |-> IF s < epIndex /\ Finished(s) THEN MarkedPoint ELSE points[s]]

\* qsort is not stable: points with the same time end up in any order.  The set is
\* written out, which TLC then does once.
Orders == {order : order \in Injection(Slots, Slots)}

\* Variant: the last live slot is left out of the sort.
SortedButLast(array) ==
  \A s, t \in Slots : s < t /\ t < epIndex - 1 => array[s].time <= array[t].time

Sorted(array) == \A s, t \in Slots : s < t => array[s].time <= array[t].time

\* Variant: the search stops one slot early.
FirstMarkedEarlyStop(array, n) ==
  LET marked == {s \in Slots : s < n - 1 /\ array[s].time = Marked}
  IN  IF marked = {} THEN n
      ELSE CHOOSE s \in marked : \A t \in marked : s <= t

\* The first marked slot below n, or n itself when there is none.
FirstMarked(array, n) ==
  LET marked == {s \in Slots : s < n /\ array[s].time = Marked}
  IN  IF marked = {} THEN n
      ELSE CHOOSE s \in marked : \A t \in marked : s <= t

\* The tail of olaf_fp_extractor_extract: mark, sort the whole array, find the
\* slot for the next point and count the fingerprints.
PrepareEventPoints ==
  /\ pc = "prepare"
  /\ LET marked == MarkFinished
     IN  \E order \in Orders :
           LET array == [s \in Slots |-> marked[order[s]]]
           IN  /\ Sorted(array)
               /\ points' = array
               /\ epIndex' = FirstMarked(array, epIndex)
  /\ total' = total + Len(fps)
  /\ pc' = "deliver"
  /\ UNCHANGED <<audio, ignored, loop, fps>>

\* The fingerprints are matched, stored or deleted and the array of
\* fingerprints is emptied; the last time this ends the stream.
Deliver ==
  /\ pc = "deliver"
  /\ fps' = << >>
  /\ IF final
     THEN pc' = "done" /\ UNCHANGED block
     ELSE pc' = "read" /\ block' = block + 1
  /\ UNCHANGED <<filterIndex, bin, final, points, epIndex, ignored, loop, total>>

Next ==
  \/ CollectHistory
  \/ ExamineBlock
  \/ \E b \in Bins : ExtractEventPoint(b)
  \/ CombineOrContinue
  \/ EndOfAudio
  \/ FirstPoint
  \/ SecondPointStops
  \/ SecondPointSkipped
  \/ PairEmitted
  \/ SecondPointAccepted
  \/ ThirdPointStops
  \/ ThirdPointSkipped
  \/ TripleEmitted
  \/ PrepareEventPoints
  \/ Deliver

Spec == Init /\ [][Next]_vars

\* The stream processor is one thread that runs to the end of its input.
FairSpec == Spec /\ WF_vars(Next)

(***************************************************************************)
(* Properties                                                              *)
(***************************************************************************)

TypeOK ==
  /\ pc \in {"read", "peaks", "first", "second", "third", "prepare", "deliver", "done"}
  /\ block \in 0 .. MaxBlocks
  /\ filterIndex \in 0 .. filterSizeTime - 1
  /\ bin \in Nat
  /\ points \in [Slots -> EventPoint]
  /\ epIndex \in 0 .. maxEventPoints
  /\ ignored \in BOOLEAN
  /\ i \in Nat /\ j \in Nat /\ k \in Nat
  /\ fps \in Seq(Fingerprint)
  /\ total \in Nat
  /\ final \in BOOLEAN

\* The array the two extractors share stays usable for both: the live points are
\* exactly the unmarked ones, they come first and they are in order of time.
LiveSlotsSortedThenMarked ==
  /\ \A s \in Slots : points[s].time < Marked <=> s < epIndex
  /\ Sorted(points)

\* The assertions on time in the nested loops never fail: assert(t2>=t1),
\* assert(t3>=t2), and the strict ones once a pair is found to be combinable.
ScanAssertions ==
  /\ (pc = "second" /\ j < epIndex) => /\ points[i].time <= points[j].time
                                       /\ Combinable(i, j) => points[i].time < points[j].time
  /\ (pc = "third" /\ k < epIndex) => /\ points[j].time <= points[k].time
                                      /\ Combinable(j, k) => points[j].time < points[k].time

\* A fingerprint is never written past the end of the fingerprint array, and its
\* batch is empty when the scan of the next one starts: nothing is counted twice.
BatchFits ==
  /\ Len(fps) <= maxFingerprints
  /\ pc \in {"read", "peaks", "done"} => fps = << >>

\* An event point is in the array at most once, whatever order qsort leaves
\* equal times in: its fingerprints can not be doubled by a copy of it.
PointsDistinct ==
  \A s, t \in Live :
    points[s].time = points[t].time /\ points[s].bin = points[t].bin => s = t

\* No limit of the configuration cut this scan short.
NoLimitReached ==
  /\ Len(fps) < maxFingerprints
  /\ \A s \in Live : ~Overused(s)

\* A point is only given up for its age after it was combined, as first point,
\* with every event point at a suitable distance that is in the array by then,
\* and no block still to come can hold a partner for it, wherever the scans
\* happen to fall in the stream.  A partner that an earlier scan dropped for its
\* usages is not in the array any more.
AgedPointsWereCombined ==
  pc = "prepare" /\ NoLimitReached =>
    \A s \in Live : points[s].time <= CutoffTime =>
      /\ \A t \in {t \in Live : Combinable(s, t)} :
           IF numberOfEPsPerFP = 2
           THEN FingerprintOf(s, t, t) \in Range(fps)
           ELSE \A r \in {r \in Live : Combinable(t, r)} :
                  FingerprintOf(s, t, r) \in Range(fps)
      /\ block + 1 - halfFilterSizeTime - points[s].time > maxTimeDistance

\* "Max number of event points before they are combined into fingerprints
\* (parameter should not have any effect, except for memory use)": no event
\* point is ignored because the array is full.
NoEventPointIgnored == ~ignored

\* A batch holds a fingerprint at most once, although points are combined from
\* an array that other scans have sorted, and kept points are combined again in
\* later batches: what the matcher counts twice came from two scans.
BatchHasNoDoubles ==
  \A m, n \in DOMAIN fps : fps[m] = fps[n] => m = n

(***************************************************************************)
(* The inductive invariant behind the safety properties                    *)
(***************************************************************************)

\* Where the loops are, given the step they are in.
LoopInv ==
  /\ filterIndex <= block
  /\ pc = "peaks" => filterIndex = filterSizeTime - 1
  /\ pc \notin {"read", "done"} /\ ~final => block < MaxBlocks
  /\ pc \in {"peaks"} => ~final
  /\ pc \in {"first", "second", "third", "prepare"} => epIndex > 0
  /\ pc \in {"second", "third"} => i < epIndex /\ i < j
  /\ pc = "third" => j < epIndex /\ j < k

\* A free slot is marked, and time in the array never runs ahead of the block
\* that is examined; a new block is later than all points in the array.
TimeInv ==
  /\ \A s \in Slots : points[s].time <= Marked
  /\ pc = "read" /\ ~final => \A s \in Live : points[s].time < block - halfFilterSizeTime
  /\ \A s \in Live : points[s].time <= block - halfFilterSizeTime
  /\ pc = "peaks" => \A s \in Live : points[s].time = block - halfFilterSizeTime
                                       => points[s].bin < bin

IInv ==
  /\ TypeOK
  /\ LoopInv
  /\ TimeInv
  /\ LiveSlotsSortedThenMarked
  /\ BatchFits
  /\ PointsDistinct

\* The fingerprints of a batch are those of slots that the loops have passed,
\* and the loops pass no slots twice.
Scanning == {"first", "second", "third", "prepare"}
Passed(s, t, r) ==
  \/ s < i
  \/ pc \in {"second", "third"} /\ s = i /\ t < j
  \/ pc = "third" /\ s = i /\ t = j /\ r < k
EmittedInv ==
  /\ BatchHasNoDoubles
  /\ pc \in Scanning =>
       \A n \in DOMAIN fps : \E s, t, r \in Live :
         fps[n] = FingerprintOf(s, t, r) /\ Passed(s, t, r)

\* Until a limit is reached the loops pass no slots without a fingerprint, and
\* stop at points that are too late for any that follow.
Partners(s, t, r) ==
  /\ Combinable(s, t)
  /\ IF numberOfEPsPerFP = 2 THEN r = t ELSE Combinable(t, r)
ScanInv ==
  /\ \A s \in Live : points[s].bin \in Bins
  /\ pc = "third" => numberOfEPsPerFP = 3
  /\ pc \in Scanning /\ NoLimitReached =>
       /\ \A s, t, r \in Live :
            Partners(s, t, r) /\ Passed(s, t, r) => FingerprintOf(s, t, r) \in Range(fps)
       /\ pc = "prepare" =>
            \A s \in Live : i <= s => points[s].time > block - maxTimeDistance

\* What a scan keeps has its own bin in one of the last maxTimeDistance blocks;
\* an array with room for that, or for what the threshold leaves alone, and for
\* one block more never fills up.
MostKept ==
  LET recent == maxTimeDistance * Cardinality(Bins)
  IN  IF recent > eventPointThreshold THEN recent ELSE eventPointThreshold
ArrayIsLargeEnough ==
  IsFiniteSet(Bins) /\ maxEventPoints >= MostKept + Cardinality(Bins)
RoomInv ==
  /\ (pc = "read" /\ ~final) \/ pc = "deliver" => epIndex <= MostKept
  /\ pc = "peaks" => epIndex <= MostKept + Cardinality({b \in Bins : b < bin})
  /\ ~ignored

(***************************************************************************)
(* Liveness                                                                *)
(***************************************************************************)

\* The stream comes to an end: no loop over the event points runs forever.
Terminates == <>(pc = "done")
=============================================================================
