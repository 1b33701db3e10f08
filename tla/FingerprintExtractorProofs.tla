--------------------- MODULE FingerprintExtractorProofs ---------------------
(***************************************************************************)
(* Proofs about FingerprintExtractor, for every configuration that meets   *)
(* ConfigAssumption.                                                       *)
(***************************************************************************)
EXTENDS FingerprintExtractor, FiniteSetTheorems, WellFoundedInduction, TLAPS

(***************************************************************************)
(* Marking, sorting and finding the next free slot                         *)
(***************************************************************************)

\* A non-empty set of natural numbers has a least element: the search for the
\* first marked slot is well defined when there is a marked slot.
LEMMA LeastNatural ==
  ASSUME NEW S \in SUBSET Nat, S # {}
  PROVE  \E m \in S : \A n \in S : m <= n
<1>1. PICK m \in S : \A n \in S : ~(<<n, m>> \in OpToRel(<, Nat))
  BY NatLessThanWellFounded, WFMin
<1>2. \A n \in S : ~(n < m)
  BY <1>1 DEF OpToRel
<1>3. QED
  BY <1>2

\* A sort moves points, it neither drops nor copies them.
LEMMA OrderType ==
  ASSUME NEW order \in Orders
  PROVE  order \in [Slots -> Slots] /\ \A s, t \in Slots : order[s] = order[t] => s = t
<1>1. order \in Injection(Slots, Slots)
  BY DEF Orders
<1> QED
  BY <1>1 DEF Injection, IsInjective

\* There are n slots below slot n.
LEMMA FirstSlots ==
  ASSUME NEW n \in Nat
  PROVE  IsFiniteSet(0 .. n - 1) /\ Cardinality(0 .. n - 1) = n
<1>1. IsFiniteSet(0 .. n - 1)
  BY FS_Interval
<1>2. Cardinality(0 .. n - 1) = IF 0 > n - 1 THEN 0 ELSE (n - 1) - 0 + 1
  BY FS_Interval
<1>3. QED
  BY <1>1, <1>2

\* At most n slots hold unmarked points before the sort, so no more than n slots
\* can hold one after it: a permutation does not create points.
LEMMA NoRoomForMore ==
  ASSUME NEW order \in Orders, NEW n \in Nat, NEW s \in Slots, n <= s,
         \A t \in 0 .. s : order[t] < n
  PROVE  FALSE
<1> DEFINE f == [t \in 0 .. s |-> order[t]]
<1>1. s \in Nat /\ 0 .. s \subseteq Slots
  BY ConfigAssumption DEF Slots
<1>2. f \in [0 .. s -> 0 .. n - 1]
  <2>1. ASSUME NEW t \in 0 .. s PROVE order[t] \in 0 .. n - 1
    <3>1. order[t] \in Slots /\ order[t] < n
      BY <1>1, OrderType
    <3> QED
      BY <3>1, ConfigAssumption DEF Slots
  <2> QED
    BY <2>1
<1>3. \A x, y \in 0 .. s : f[x] = f[y] => x = y
  BY <1>1, OrderType
<1>4. IsFiniteSet(0 .. s) /\ Cardinality(0 .. s) = s + 1
  BY <1>1, FS_Interval
<1>5. IsFiniteSet(0 .. n - 1) /\ Cardinality(0 .. n - 1) = n
  BY FirstSlots
<1>6. Cardinality(0 .. n - 1) < Cardinality(0 .. s)
  BY <1>1, <1>4, <1>5
<1> HIDE DEF f
<1>7. \E x, y \in 0 .. s : x # y /\ f[x] = f[y]
  BY <1>2, <1>4, <1>5, <1>6, FS_PigeonHole
<1>8. QED
  BY <1>3, <1>7

\* What the array looks like before the sort: live points that are not finished
\* are unmarked and below n, everything from n on is marked.
MarkedFrom(array, n) ==
  /\ array \in [Slots -> EventPoint]
  /\ \A s \in Slots : array[s].time <= Marked
  /\ \A s \in Slots : n <= s => array[s].time = Marked

\* After the sort every unmarked point is below n: the index derived from the
\* first n slots is right for the whole array.
LEMMA TailStaysMarked ==
  ASSUME NEW before, NEW n \in 0 .. maxEventPoints, MarkedFrom(before, n),
         NEW order \in Orders, NEW after,
         after = [s \in Slots |-> before[order[s]]], Sorted(after)
  PROVE  MarkedFrom(after, n)
<1> USE ConfigAssumption
<1>1. order \in [Slots -> Slots]
  BY OrderType
<1>2. after \in [Slots -> EventPoint]
  BY <1>1 DEF MarkedFrom
<1>3. \A s \in Slots : after[s].time <= Marked
  BY <1>1 DEF MarkedFrom
<1>4. ASSUME NEW s \in Slots, n <= s, after[s].time # Marked
      PROVE  FALSE
  <2>1. ASSUME NEW t \in 0 .. s
        PROVE  order[t] < n
    <3>1. t \in Slots /\ s \in Slots /\ (t < s \/ t = s)
      BY DEF Slots
    <3>2. after[t].time <= after[s].time
      BY <3>1, <1>2 DEF Sorted, EventPoint
    <3>3. after[t].time # Marked
      BY <3>1, <3>2, <1>2, <1>3, <1>4 DEF EventPoint
    <3>4. before[order[t]].time # Marked
      BY <3>1, <3>3
    <3>5. order[t] \in Slots /\ ~(n <= order[t])
      BY <3>1, <3>4, <1>1 DEF MarkedFrom
    <3>6. QED
      BY <3>5 DEF Slots
  <2>2. n \in Nat
    OBVIOUS
  <2>3. QED
    BY <1>4, <2>1, <2>2, NoRoomForMore
<1>5. QED
  BY <1>2, <1>3, <1>4 DEF MarkedFrom

\* The slot found for the next event point separates the unmarked points from
\* the marked ones in the whole array.
LEMMA FirstMarkedSeparates ==
  ASSUME NEW array, NEW n \in 0 .. maxEventPoints, MarkedFrom(array, n), Sorted(array)
  PROVE  /\ FirstMarked(array, n) \in 0 .. n
         /\ \A s \in Slots : array[s].time < Marked <=> s < FirstMarked(array, n)
<1> USE ConfigAssumption
<1> DEFINE marked == {s \in Slots : s < n /\ array[s].time = Marked}
           m == FirstMarked(array, n)
<1>1. \A s \in Slots : array[s].time \in Nat /\ array[s].time <= Marked
  BY DEF MarkedFrom, EventPoint
<1>2. CASE marked = {}
  <2>1. m = n
    BY <1>2 DEF FirstMarked
  <2>2. ASSUME NEW s \in Slots
        PROVE  array[s].time < Marked <=> s < n
    <3>1. CASE s < n
      BY <3>1, <1>1, <1>2
    <3>2. CASE ~(s < n)
      BY <3>2, <1>1 DEF MarkedFrom, Slots
    <3>3. QED
      BY <3>1, <3>2
  <2>3. QED
    BY <2>1, <2>2
<1>3. CASE marked # {}
  <2>1. marked \in SUBSET Nat
    BY DEF Slots
  <2> HIDE DEF marked
  <2>2. \E s \in marked : \A t \in marked : s <= t
    BY <1>3, <2>1, LeastNatural
  <2> USE DEF marked
  <2>3. m = CHOOSE s \in marked : \A t \in marked : s <= t
    BY <1>3 DEF FirstMarked
  <2> HIDE DEF m
  <2>4. m \in marked /\ \A t \in marked : m <= t
    BY <2>2, <2>3
  <2>5. m \in Slots /\ m < n /\ array[m].time = Marked
    BY <2>4
  <2>6. ASSUME NEW s \in Slots
        PROVE  array[s].time < Marked <=> s < m
    <3>1. CASE s < m
      <4>1. s \notin marked
        BY <2>1, <2>4, <3>1 DEF Slots
      <4>2. s < n
        BY <2>5, <3>1 DEF Slots
      <4>3. QED
        BY <3>1, <4>1, <4>2, <1>1
    <3>2. CASE ~(s < m)
      <4>1. array[m].time <= array[s].time
        BY <2>5, <3>2, <1>1 DEF Sorted, Slots
      <4>2. QED
        BY <3>2, <4>1, <2>5, <1>1
    <3>3. QED
      BY <3>1, <3>2
  <2>7. QED
    BY <2>5, <2>6 DEF Slots, m
<1>4. QED
  BY <1>2, <1>3

(***************************************************************************)
(* The inductive invariant                                                 *)
(***************************************************************************)

LEMMA InitIInv == Init => IInv
<1> SUFFICES ASSUME Init PROVE IInv
  OBVIOUS
<1> USE ConfigAssumption DEF Init
<1>1. TypeOK
  <2>1. MarkedPoint \in EventPoint
    BY DEF MarkedPoint, EventPoint
  <2>2. points \in [Slots -> EventPoint]
    BY <2>1
  <2>3. fps \in Seq(Fingerprint)
    OBVIOUS
  <2>4. block \in 0 .. MaxBlocks /\ filterIndex \in 0 .. filterSizeTime - 1 /\ epIndex \in 0 .. maxEventPoints
    OBVIOUS
  <2>5. QED
    BY <2>2, <2>3, <2>4 DEF TypeOK
<1>2. LoopInv /\ BatchFits
  BY DEF LoopInv, BatchFits
<1>3. Live = {}
  BY DEF Live, Slots
<1>4. TimeInv /\ PointsDistinct
  BY <1>3 DEF TimeInv, PointsDistinct, MarkedPoint
<1>5. LiveSlotsSortedThenMarked
  BY DEF LiveSlotsSortedThenMarked, Sorted, MarkedPoint, Slots
<1>6. QED
  BY <1>1, <1>2, <1>4, <1>5 DEF IInv

\* Counting usages leaves the time and the bin of every point as they are.
LEMMA EmitKeepsTimes ==
  ASSUME TypeOK, NEW slots \in SUBSET Slots, NEW fp \in Fingerprint, Emit(slots, fp)
  PROVE  /\ points' \in [Slots -> EventPoint]
         /\ \A s \in Slots : points'[s].time = points[s].time /\ points'[s].bin = points[s].bin
         /\ fps' \in Seq(Fingerprint)
         /\ Len(fps) <= maxFingerprints => Len(fps') <= maxFingerprints
<1>1. CASE Len(fps) >= maxFingerprints
  BY <1>1 DEF Emit, TypeOK
<1>2. CASE ~(Len(fps) >= maxFingerprints)
  <2>1. fps' = Append(fps, fp)
    BY <1>2 DEF Emit
  <2>2. Len(fps) \in Nat /\ Len(fps') = Len(fps) + 1 /\ fps' \in Seq(Fingerprint)
    BY <2>1 DEF TypeOK
  <2>3. Len(fps') <= maxFingerprints
    BY <2>2, <1>2, ConfigAssumption
  <2>4. \A s \in Slots : /\ points'[s] \in EventPoint
                         /\ points'[s].time = points[s].time
                         /\ points'[s].bin = points[s].bin
    BY <1>2 DEF Emit, TypeOK, EventPoint
  <2>5. points' \in [Slots -> EventPoint]
    BY <1>2, <2>4 DEF Emit
  <2>6. QED
    BY <2>2, <2>3, <2>4, <2>5
<1>3. QED
  BY <1>1, <1>2

\* A step that keeps the times and bins, and the number, of the live points keeps
\* the layout of the array.
LEMMA SameTimesSameLayout ==
  ASSUME IInv, points' \in [Slots -> EventPoint], epIndex' = epIndex,
         \A s \in Slots : points'[s].time = points[s].time /\ points'[s].bin = points[s].bin
  PROVE  LiveSlotsSortedThenMarked' /\ PointsDistinct'
<1>1. LiveSlotsSortedThenMarked'
  BY DEF IInv, LiveSlotsSortedThenMarked, Sorted
<1>2. PointsDistinct'
  BY DEF IInv, PointsDistinct, Live
<1>3. QED
  BY <1>1, <1>2

\* A step that leaves the array and the audio alone keeps all that is said of them.
LEMMA UnchangedLayout ==
  ASSUME IInv, UNCHANGED <<points, epIndex>>
  PROVE  LiveSlotsSortedThenMarked' /\ PointsDistinct'
BY DEF IInv, LiveSlotsSortedThenMarked, Sorted, PointsDistinct, Live

\* One lemma per action of the stream loop.
LEMMA CollectHistoryIInv == IInv /\ CollectHistory => IInv'
<1> SUFFICES ASSUME IInv, CollectHistory PROVE IInv'
  OBVIOUS
<1> USE ConfigAssumption DEF CollectHistory, loop
<1>1. TypeOK' /\ LoopInv' /\ BatchFits'
  BY DEF IInv, TypeOK, LoopInv, BatchFits
<1>2. TimeInv'
  BY DEF IInv, TypeOK, TimeInv, Live, EventPoint
<1>3. LiveSlotsSortedThenMarked' /\ PointsDistinct'
  BY UnchangedLayout
<1>4. QED
  BY <1>1, <1>2, <1>3 DEF IInv

LEMMA ExamineBlockIInv == IInv /\ ExamineBlock => IInv'
<1> SUFFICES ASSUME IInv, ExamineBlock PROVE IInv'
  OBVIOUS
<1> USE ConfigAssumption DEF ExamineBlock, loop
<1>1. TypeOK' /\ LoopInv' /\ BatchFits'
  BY DEF IInv, TypeOK, LoopInv, BatchFits
<1>2. TimeInv'
  BY DEF IInv, TypeOK, TimeInv, Live, EventPoint
<1>3. LiveSlotsSortedThenMarked' /\ PointsDistinct'
  BY UnchangedLayout
<1>4. QED
  BY <1>1, <1>2, <1>3 DEF IInv

LEMMA ExtractEventPointIInv ==
  ASSUME IInv, NEW b \in Bins, ExtractEventPoint(b)
  PROVE  IInv'
<1> USE ConfigAssumption DEF ExtractEventPoint, loop
<1>1. CASE epIndex = maxEventPoints
  <2>1. TypeOK' /\ LoopInv' /\ BatchFits'
    BY <1>1 DEF IInv, TypeOK, LoopInv, BatchFits
  <2>2. TimeInv'
    BY <1>1 DEF IInv, TypeOK, TimeInv, Live, EventPoint
  <2>3. LiveSlotsSortedThenMarked' /\ PointsDistinct'
    BY <1>1, UnchangedLayout
  <2>4. QED
    BY <2>1, <2>2, <2>3 DEF IInv
<1>2. CASE epIndex # maxEventPoints
  <2> DEFINE time == block - halfFilterSizeTime
             new == [time |-> time, bin |-> b, usages |-> 0]
  <2>1. /\ epIndex \in Slots /\ epIndex' = epIndex + 1
        /\ points' = [points EXCEPT ![epIndex] = new]
        /\ UNCHANGED <<block, pc, filterIndex, final, i, j, k, fps, total>>
        /\ pc = "peaks"
    BY <1>2 DEF IInv, TypeOK, Slots
  <2>2. time \in Nat /\ time < Marked /\ b \in Nat
    BY <2>1 DEF IInv, TypeOK, LoopInv
  <2>3. new \in EventPoint /\ new.time = time /\ new.bin = b
    BY <2>2 DEF EventPoint
  <2> HIDE DEF new
  <2>4. points' \in [Slots -> EventPoint] /\ points'[epIndex] = new
    BY <2>1, <2>3 DEF IInv, TypeOK
  <2>5. \A s \in Slots : s # epIndex => points'[s] = points[s]
    BY <2>1 DEF IInv, TypeOK
  <2>6. TypeOK' /\ LoopInv' /\ BatchFits'
    BY <1>2, <2>1, <2>2, <2>4 DEF IInv, TypeOK, LoopInv, BatchFits
  <2>7. \A s \in Live : points[s].time <= time
    BY DEF IInv, TimeInv
  <2>8. Live' = Live \cup {epIndex} /\ epIndex \notin Live
    BY <2>1 DEF Live, Slots, IInv, TypeOK
  <2>9. TimeInv'
    <3>1. \A s \in Slots : points'[s].time <= Marked
      BY <2>2, <2>3, <2>4, <2>5 DEF IInv, TimeInv
    <3>2. \A s \in Live' : points'[s].time <= time
      BY <2>2, <2>3, <2>4, <2>5, <2>7, <2>8 DEF Live
    <3>3. \A s \in Live' : points'[s].time = time => points'[s].bin < bin'
      <4>1. bin' = b + 1 /\ bin <= b /\ bin \in Nat
        BY DEF IInv, TypeOK
      <4>2. \A s \in Live : points[s].time = time => points[s].bin < bin
        BY <2>1 DEF IInv, TimeInv
      <4>3. \A s \in Live : points[s].bin \in Nat
        BY DEF IInv, TypeOK, Live, EventPoint
      <4>4. QED
        BY <2>2, <2>3, <2>4, <2>5, <2>8, <4>1, <4>2, <4>3 DEF Live
    <3>4. QED
      BY <2>1, <3>1, <3>2, <3>3 DEF TimeInv
  <2>10. LiveSlotsSortedThenMarked'
    <3>1. \A s \in Slots : points[s].time \in Nat /\ s \in Nat
      BY DEF IInv, TypeOK, EventPoint, Slots
    <3>2. \A s \in Slots : points'[s].time < Marked <=> s < epIndex'
      BY <2>1, <2>2, <2>3, <2>4, <2>5, <3>1 DEF IInv, LiveSlotsSortedThenMarked, Slots
    <3>3. Sorted(points')
      <4>1. SUFFICES ASSUME NEW s \in Slots, NEW t \in Slots, s < t
                     PROVE  points'[s].time <= points'[t].time
        BY DEF Sorted
      <4>2. CASE t = epIndex
        <5>1. s \in Live
          BY <4>1, <4>2 DEF Live
        <5>2. QED
          BY <4>1, <4>2, <5>1, <2>3, <2>4, <2>5, <2>7, <3>1
      <4>3. CASE s = epIndex
        <5>1. points[t].time >= Marked
          BY <4>1, <4>3, <3>1 DEF IInv, LiveSlotsSortedThenMarked
        <5>2. QED
          BY <4>1, <4>3, <5>1, <2>2, <2>3, <2>4, <2>5, <3>1
      <4>4. CASE s # epIndex /\ t # epIndex
        BY <4>1, <4>4, <2>5 DEF IInv, LiveSlotsSortedThenMarked, Sorted
      <4>5. QED
        BY <4>2, <4>3, <4>4
    <3>4. QED
      BY <3>2, <3>3 DEF LiveSlotsSortedThenMarked
  <2>11. PointsDistinct'
    <3>1. \A s \in Live : points[s].time = time => points[s].bin < bin
      BY <2>1 DEF IInv, TimeInv
    <3>2. \A s \in Live : ~(points[s].time = time /\ points[s].bin = b)
      BY <3>1, <2>2 DEF IInv, TypeOK, Live, EventPoint
    <3>3. QED
      BY <2>3, <2>4, <2>5, <2>8, <3>2 DEF IInv, PointsDistinct, Live
  <2>12. QED
    BY <2>6, <2>9, <2>10, <2>11 DEF IInv
<1>3. QED
  BY <1>1, <1>2

LEMMA CombineOrContinueIInv == IInv /\ CombineOrContinue => IInv'
<1> SUFFICES ASSUME IInv, CombineOrContinue PROVE IInv'
  OBVIOUS
<1> USE ConfigAssumption DEF CombineOrContinue, audio, loop
<1>1. TypeOK'
  BY DEF IInv, TypeOK, LoopInv
<1>2. LoopInv' /\ BatchFits'
  BY DEF IInv, TypeOK, LoopInv, BatchFits
<1>3. TimeInv'
  BY DEF IInv, TypeOK, TimeInv, LoopInv, Live, EventPoint
<1>4. LiveSlotsSortedThenMarked' /\ PointsDistinct'
  BY UnchangedLayout
<1>5. QED
  BY <1>1, <1>2, <1>3, <1>4 DEF IInv

LEMMA EndOfAudioIInv == IInv /\ EndOfAudio => IInv'
<1> SUFFICES ASSUME IInv, EndOfAudio PROVE IInv'
  OBVIOUS
<1> USE ConfigAssumption DEF EndOfAudio, audio, loop
<1>1. TypeOK'
  BY DEF IInv, TypeOK, LoopInv
<1>2. LoopInv' /\ BatchFits'
  BY DEF IInv, TypeOK, LoopInv, BatchFits
<1>3. TimeInv'
  BY DEF IInv, TypeOK, TimeInv, LoopInv, Live, EventPoint
<1>4. LiveSlotsSortedThenMarked' /\ PointsDistinct'
  BY UnchangedLayout
<1>5. QED
  BY <1>1, <1>2, <1>3, <1>4 DEF IInv

\* One lemma per action of the nested loops.
LEMMA FirstPointIInv == IInv /\ FirstPoint => IInv'
<1> SUFFICES ASSUME IInv, FirstPoint PROVE IInv'
  OBVIOUS
<1> USE ConfigAssumption DEF FirstPoint, audio, loop
<1>1. TypeOK'
  BY DEF IInv, TypeOK, LoopInv, NoFirst
<1>2. LoopInv' /\ BatchFits'
  BY DEF IInv, TypeOK, LoopInv, BatchFits, NoFirst
<1>3. TimeInv'
  BY DEF IInv, TypeOK, TimeInv, LoopInv, Live, EventPoint
<1>4. LiveSlotsSortedThenMarked' /\ PointsDistinct'
  BY UnchangedLayout
<1>5. QED
  BY <1>1, <1>2, <1>3, <1>4 DEF IInv

LEMMA SecondPointStopsIInv == IInv /\ SecondPointStops => IInv'
<1> SUFFICES ASSUME IInv, SecondPointStops PROVE IInv'
  OBVIOUS
<1> USE ConfigAssumption DEF SecondPointStops, audio, loop
<1>1. TypeOK'
  BY DEF IInv, TypeOK, LoopInv
<1>2. LoopInv' /\ BatchFits'
  BY DEF IInv, TypeOK, LoopInv, BatchFits
<1>3. TimeInv'
  BY DEF IInv, TypeOK, TimeInv, LoopInv, Live, EventPoint
<1>4. LiveSlotsSortedThenMarked' /\ PointsDistinct'
  BY UnchangedLayout
<1>5. QED
  BY <1>1, <1>2, <1>3, <1>4 DEF IInv

LEMMA SecondPointSkippedIInv == IInv /\ SecondPointSkipped => IInv'
<1> SUFFICES ASSUME IInv, SecondPointSkipped PROVE IInv'
  OBVIOUS
<1> USE ConfigAssumption DEF SecondPointSkipped, audio, loop
<1>1. TypeOK'
  BY DEF IInv, TypeOK, LoopInv, NoSecond
<1>2. LoopInv' /\ BatchFits'
  BY DEF IInv, TypeOK, LoopInv, BatchFits, NoSecond
<1>3. TimeInv'
  BY DEF IInv, TypeOK, TimeInv, LoopInv, Live, EventPoint
<1>4. LiveSlotsSortedThenMarked' /\ PointsDistinct'
  BY UnchangedLayout
<1>5. QED
  BY <1>1, <1>2, <1>3, <1>4 DEF IInv

LEMMA SecondPointAcceptedIInv == IInv /\ SecondPointAccepted => IInv'
<1> SUFFICES ASSUME IInv, SecondPointAccepted PROVE IInv'
  OBVIOUS
<1> USE ConfigAssumption DEF SecondPointAccepted, audio, loop
<1>1. TypeOK'
  BY DEF IInv, TypeOK, LoopInv, NoSecond
<1>2. LoopInv' /\ BatchFits'
  BY DEF IInv, TypeOK, LoopInv, BatchFits, NoSecond
<1>3. TimeInv'
  BY DEF IInv, TypeOK, TimeInv, LoopInv, Live, EventPoint
<1>4. LiveSlotsSortedThenMarked' /\ PointsDistinct'
  BY UnchangedLayout
<1>5. QED
  BY <1>1, <1>2, <1>3, <1>4 DEF IInv

LEMMA ThirdPointStopsIInv == IInv /\ ThirdPointStops => IInv'
<1> SUFFICES ASSUME IInv, ThirdPointStops PROVE IInv'
  OBVIOUS
<1> USE ConfigAssumption DEF ThirdPointStops, audio, loop
<1>1. TypeOK'
  BY DEF IInv, TypeOK, LoopInv
<1>2. LoopInv' /\ BatchFits'
  BY DEF IInv, TypeOK, LoopInv, BatchFits
<1>3. TimeInv'
  BY DEF IInv, TypeOK, TimeInv, LoopInv, Live, EventPoint
<1>4. LiveSlotsSortedThenMarked' /\ PointsDistinct'
  BY UnchangedLayout
<1>5. QED
  BY <1>1, <1>2, <1>3, <1>4 DEF IInv

LEMMA ThirdPointSkippedIInv == IInv /\ ThirdPointSkipped => IInv'
<1> SUFFICES ASSUME IInv, ThirdPointSkipped PROVE IInv'
  OBVIOUS
<1> USE ConfigAssumption DEF ThirdPointSkipped, audio, loop
<1>1. TypeOK'
  BY DEF IInv, TypeOK, LoopInv, NoThird
<1>2. LoopInv' /\ BatchFits'
  BY DEF IInv, TypeOK, LoopInv, BatchFits, NoThird
<1>3. TimeInv'
  BY DEF IInv, TypeOK, TimeInv, LoopInv, Live, EventPoint
<1>4. LiveSlotsSortedThenMarked' /\ PointsDistinct'
  BY UnchangedLayout
<1>5. QED
  BY <1>1, <1>2, <1>3, <1>4 DEF IInv

LEMMA PairEmittedIInv == IInv /\ PairEmitted => IInv'
<1> SUFFICES ASSUME IInv, PairEmitted PROVE IInv'
  OBVIOUS
<1> USE ConfigAssumption DEF PairEmitted, audio
<1>1. i \in Slots /\ j \in Slots
  BY DEF IInv, TypeOK, LoopInv, NoSecond, Slots
<1>2. FingerprintOf(i, j, j) \in Fingerprint
  BY <1>1 DEF IInv, TypeOK, FingerprintOf, Fingerprint, EventPoint
<1>3. /\ points' \in [Slots -> EventPoint]
      /\ \A s \in Slots : points'[s].time = points[s].time /\ points'[s].bin = points[s].bin
      /\ fps' \in Seq(Fingerprint)
      /\ Len(fps') <= maxFingerprints
  <2>1. {i, j} \in SUBSET Slots /\ Len(fps) <= maxFingerprints /\ TypeOK
    BY <1>1 DEF IInv, BatchFits
  <2>2. Emit({i, j}, FingerprintOf(i, j, j))
    OBVIOUS
  <2>3. QED
    BY <1>2, <2>1, <2>2, EmitKeepsTimes
<1>4. TypeOK' /\ LoopInv' /\ BatchFits'
  <2>1. UNCHANGED <<pc, block, filterIndex, bin, final, epIndex, ignored, total>>
    OBVIOUS
  <2>2. i' \in Nat /\ j' \in Nat /\ k' \in Nat
    BY DEF IInv, TypeOK
  <2>3. TypeOK'
    BY <1>3, <2>1, <2>2 DEF IInv, TypeOK
  <2>4. LoopInv' /\ BatchFits'
    BY <1>3, <2>1 DEF IInv, TypeOK, LoopInv, BatchFits, NoSecond
  <2>5. QED
    BY <2>3, <2>4
<1>5. TimeInv'
  BY <1>3 DEF IInv, TimeInv, Live
<1>6. LiveSlotsSortedThenMarked' /\ PointsDistinct'
  BY <1>3, SameTimesSameLayout
<1>7. QED
  BY <1>4, <1>5, <1>6 DEF IInv

LEMMA TripleEmittedIInv == IInv /\ TripleEmitted => IInv'
<1> SUFFICES ASSUME IInv, TripleEmitted PROVE IInv'
  OBVIOUS
<1> USE ConfigAssumption DEF TripleEmitted, audio
<1>1. i \in Slots /\ j \in Slots /\ k \in Slots
  BY DEF IInv, TypeOK, LoopInv, NoThird, Slots
<1>2. FingerprintOf(i, j, k) \in Fingerprint
  BY <1>1 DEF IInv, TypeOK, FingerprintOf, Fingerprint, EventPoint
<1>3. /\ points' \in [Slots -> EventPoint]
      /\ \A s \in Slots : points'[s].time = points[s].time /\ points'[s].bin = points[s].bin
      /\ fps' \in Seq(Fingerprint)
      /\ Len(fps') <= maxFingerprints
  <2>1. {i, j, k} \in SUBSET Slots /\ Len(fps) <= maxFingerprints /\ TypeOK
    BY <1>1 DEF IInv, BatchFits
  <2>2. Emit({i, j, k}, FingerprintOf(i, j, k))
    OBVIOUS
  <2>3. QED
    BY <1>2, <2>1, <2>2, EmitKeepsTimes
<1>4. TypeOK' /\ LoopInv' /\ BatchFits'
  <2>1. UNCHANGED <<pc, block, filterIndex, bin, final, epIndex, ignored, total>>
    OBVIOUS
  <2>2. i' \in Nat /\ j' \in Nat /\ k' \in Nat
    BY DEF IInv, TypeOK
  <2>3. TypeOK'
    BY <1>3, <2>1, <2>2 DEF IInv, TypeOK
  <2>4. LoopInv' /\ BatchFits'
    BY <1>3, <2>1 DEF IInv, TypeOK, LoopInv, BatchFits, NoThird
  <2>5. QED
    BY <2>3, <2>4
<1>5. TimeInv'
  BY <1>3 DEF IInv, TimeInv, Live
<1>6. LiveSlotsSortedThenMarked' /\ PointsDistinct'
  BY <1>3, SameTimesSameLayout
<1>7. QED
  BY <1>4, <1>5, <1>6 DEF IInv

\* What a sort of the array, with the finished points marked, leaves: where the
\* points that are live afterwards come from.
LEMMA PrepareFacts ==
  ASSUME IInv, PrepareEventPoints
  PROVE  /\ Sorted(points')
         /\ MarkedFrom(points', epIndex)
         /\ epIndex' \in 0 .. epIndex
         /\ \A s \in Slots : points'[s].time < Marked <=> s < epIndex'
         /\ \E order \in Orders : \A s \in Live' :
              order[s] \in Live /\ points'[s] = points[order[s]] /\ ~Finished(order[s])
<1> USE ConfigAssumption
<1> DEFINE marked == MarkFinished
<1>1. PICK order \in Orders : /\ Sorted([s \in Slots |-> marked[order[s]]])
                              /\ points' = [s \in Slots |-> marked[order[s]]]
                              /\ epIndex' = FirstMarked(points', epIndex)
  BY DEF PrepareEventPoints
<1>2. order \in [Slots -> Slots]
  BY <1>1, OrderType
<1>3. epIndex \in 0 .. maxEventPoints /\ epIndex > 0 /\ points \in [Slots -> EventPoint]
  BY DEF IInv, TypeOK, LoopInv, PrepareEventPoints
<1>4. /\ MarkedPoint \in EventPoint /\ MarkedPoint.time = Marked
      /\ \A s \in Slots : marked[s] = IF s < epIndex /\ Finished(s) THEN MarkedPoint ELSE points[s]
  BY DEF MarkFinished, MarkedPoint, EventPoint
<1>5. MarkedFrom(marked, epIndex)
  <2>1. marked \in [Slots -> EventPoint]
    BY <1>3, <1>4 DEF MarkFinished
  <2>2. \A s \in Slots : points[s].time <= Marked /\ points[s].time \in Nat
    BY <1>3 DEF IInv, TimeInv, EventPoint
  <2>3. \A s \in Slots : epIndex <= s => marked[s] = points[s] /\ points[s].time = Marked
    BY <1>3, <1>4, <2>2 DEF IInv, LiveSlotsSortedThenMarked, Slots
  <2>4. \A s \in Slots : marked[s].time <= Marked
    BY <1>4, <2>2
  <2>5. QED
    BY <2>1, <2>3, <2>4 DEF MarkedFrom
<1> HIDE DEF marked
<1>6. MarkedFrom(points', epIndex)
  BY <1>1, <1>3, <1>5, TailStaysMarked
<1>7. /\ epIndex' \in 0 .. epIndex
      /\ \A s \in Slots : points'[s].time < Marked <=> s < epIndex'
  BY <1>1, <1>3, <1>6, FirstMarkedSeparates
<1>8. ASSUME NEW s \in Live'
      PROVE  order[s] \in Live /\ points'[s] = points[order[s]] /\ ~Finished(order[s])
  <2>1. s \in Slots /\ order[s] \in Slots /\ points'[s] = marked[order[s]]
    BY <1>1, <1>2 DEF Live
  <2>2. points'[s].time < Marked
    BY <2>1, <1>7 DEF Live
  <2>3. marked[order[s]].time < Marked
    BY <2>1, <2>2
  <2>4. order[s] < epIndex
    BY <2>1, <2>3, <1>3, <1>5 DEF MarkedFrom, Slots
  <2>5. ~Finished(order[s]) /\ marked[order[s]] = points[order[s]]
    BY <1>4, <2>1, <2>3, <2>4
  <2>6. QED
    BY <2>1, <2>4, <2>5 DEF Live
<1>9. QED
  BY <1>1, <1>6, <1>7, <1>8

\* The tail of the extraction: every conjunct of the invariant follows from where
\* the sort moves the points that were not marked.
LEMMA PrepareEventPointsIInv == IInv /\ PrepareEventPoints => IInv'
<1> SUFFICES ASSUME IInv, PrepareEventPoints PROVE IInv'
  OBVIOUS
<1> USE ConfigAssumption
<1>1. PICK order \in Orders : \A s \in Live' :
              order[s] \in Live /\ points'[s] = points[order[s]] /\ ~Finished(order[s])
  BY PrepareFacts
<1>2. /\ pc = "prepare" /\ pc' = "deliver"
      /\ total' = total + Len(fps)
      /\ UNCHANGED <<block, filterIndex, bin, final, ignored, i, j, k, fps>>
  BY DEF PrepareEventPoints, audio, loop
<1>3. \A s, t \in Slots : order[s] = order[t] => s = t
  BY <1>1, OrderType
<1>4. /\ MarkedFrom(points', epIndex)
      /\ points' \in [Slots -> EventPoint] /\ epIndex' \in 0 .. maxEventPoints
  <2>1. epIndex \in 0 .. maxEventPoints
    BY DEF IInv, TypeOK
  <2>2. QED
    BY <2>1, PrepareFacts DEF MarkedFrom
<1>5. TypeOK'
  <2>1. total' \in Nat
    BY <1>2 DEF IInv, TypeOK
  <2>2. QED
    BY <1>2, <1>4, <2>1 DEF IInv, TypeOK
<1>6. LoopInv' /\ BatchFits'
  BY <1>2 DEF IInv, TypeOK, LoopInv, BatchFits
<1>7. TimeInv'
  <2>1. \A s \in Slots : points'[s].time <= Marked
    BY <1>4 DEF MarkedFrom
  <2>2. \A s \in Live' : points'[s].time <= block - halfFilterSizeTime
    BY <1>1 DEF IInv, TimeInv
  <2>3. QED
    BY <1>2, <2>1, <2>2 DEF TimeInv
<1>8. LiveSlotsSortedThenMarked'
  BY PrepareFacts DEF LiveSlotsSortedThenMarked, Sorted
<1>9. PointsDistinct'
  <2>1. SUFFICES ASSUME NEW s \in Live', NEW t \in Live',
                        points'[s].time = points'[t].time, points'[s].bin = points'[t].bin
                 PROVE  s = t
    BY DEF PointsDistinct
  <2>2. order[s] = order[t]
    BY <1>1, <2>1 DEF IInv, PointsDistinct
  <2>3. QED
    BY <1>3, <2>2 DEF Live
<1>10. QED
  BY <1>5, <1>6, <1>7, <1>8, <1>9 DEF IInv

LEMMA DeliverIInv == IInv /\ Deliver => IInv'
<1> SUFFICES ASSUME IInv, Deliver PROVE IInv'
  OBVIOUS
<1> USE ConfigAssumption DEF Deliver, loop
<1>2. fps' \in Seq(Fingerprint) /\ Len(fps') = 0
  OBVIOUS
<1>3. TypeOK'
  BY <1>2 DEF IInv, TypeOK, LoopInv
<1>4. LoopInv' /\ BatchFits'
  BY <1>2 DEF IInv, TypeOK, LoopInv, BatchFits
<1>5. TimeInv'
  BY DEF IInv, TypeOK, TimeInv, Live, EventPoint
<1>6. LiveSlotsSortedThenMarked' /\ PointsDistinct'
  BY UnchangedLayout
<1>7. QED
  BY <1>3, <1>4, <1>5, <1>6 DEF IInv

\* The invariant is inductive.
THEOREM Inductive == IInv /\ [Next]_vars => IInv'
<1> SUFFICES ASSUME IInv, [Next]_vars PROVE IInv'
  OBVIOUS
<1>1. CASE CollectHistory  BY <1>1, CollectHistoryIInv
<1>2. CASE ExamineBlock  BY <1>2, ExamineBlockIInv
<1>3. CASE \E b \in Bins : ExtractEventPoint(b)  BY <1>3, ExtractEventPointIInv
<1>4. CASE CombineOrContinue  BY <1>4, CombineOrContinueIInv
<1>5. CASE EndOfAudio  BY <1>5, EndOfAudioIInv
<1>6. CASE FirstPoint  BY <1>6, FirstPointIInv
<1>7. CASE SecondPointStops  BY <1>7, SecondPointStopsIInv
<1>8. CASE SecondPointSkipped  BY <1>8, SecondPointSkippedIInv
<1>9. CASE PairEmitted  BY <1>9, PairEmittedIInv
<1>10. CASE SecondPointAccepted  BY <1>10, SecondPointAcceptedIInv
<1>11. CASE ThirdPointStops  BY <1>11, ThirdPointStopsIInv
<1>12. CASE ThirdPointSkipped  BY <1>12, ThirdPointSkippedIInv
<1>13. CASE TripleEmitted  BY <1>13, TripleEmittedIInv
<1>14. CASE PrepareEventPoints  BY <1>14, PrepareEventPointsIInv
<1>15. CASE Deliver  BY <1>15, DeliverIInv
<1>16. CASE UNCHANGED vars
  <2>1. TypeOK' /\ LoopInv' /\ BatchFits'
    BY <1>16 DEF vars, IInv, TypeOK, LoopInv, BatchFits
  <2>2. TimeInv'
    BY <1>16 DEF vars, IInv, TimeInv, Live
  <2>3. LiveSlotsSortedThenMarked' /\ PointsDistinct'
    BY <1>16, UnchangedLayout DEF vars
  <2>4. QED
    BY <2>1, <2>2, <2>3 DEF IInv
<1>17. QED
  BY <1>1, <1>2, <1>3, <1>4, <1>5, <1>6, <1>7, <1>8, <1>9, <1>10, <1>11, <1>12,
     <1>13, <1>14, <1>15, <1>16 DEF Next

\* The invariant holds in every reachable state.
THEOREM Invariance == Spec => []IInv
BY InitIInv, Inductive, PTL DEF Spec

(***************************************************************************)
(* The properties                                                          *)
(***************************************************************************)

\* Every variable keeps its type: in particular epIndex and the indices of the
\* loops never leave the array, and no time index reaches the mark.
THEOREM TypeCorrect == Spec => []TypeOK
<1>1. IInv => TypeOK
  BY DEF IInv
<1>2. QED
  BY <1>1, Invariance, PTL

\* After any number of scans, sorts and ignored points the array that the two
\* extractors share holds its live points first, in order of time.
THEOREM ArrayStaysUsable == Spec => []LiveSlotsSortedThenMarked
<1>1. IInv => LiveSlotsSortedThenMarked
  BY DEF IInv
<1>2. QED
  BY <1>1, Invariance, PTL

\* The assertions in the nested loops never abort the program, whatever order the
\* sort leaves points with equal times in.
THEOREM ScanAssertionsHold == Spec => []ScanAssertions
<1>1. IInv => ScanAssertions
  <2> SUFFICES ASSUME IInv PROVE ScanAssertions
    OBVIOUS
  <2> USE ConfigAssumption
  <2>1. \A s \in Slots : points[s].time \in Nat
    BY DEF IInv, TypeOK, EventPoint
  <2>2. ASSUME NEW s \in Slots, NEW t \in Slots, s < t
        PROVE  /\ points[s].time <= points[t].time
               /\ Combinable(s, t) => points[s].time < points[t].time
    <3>1. points[s].time <= points[t].time
      BY <2>2 DEF IInv, LiveSlotsSortedThenMarked, Sorted
    <3>2. Combinable(s, t) => points[s].time < points[t].time
      BY <2>1 DEF Combinable
    <3>3. QED
      BY <3>1, <3>2
  <2>3. CASE pc = "second" /\ j < epIndex
    <3>1. i \in Slots /\ j \in Slots /\ i < j
      BY <2>3 DEF IInv, TypeOK, LoopInv, Slots
    <3>2. QED
      BY <2>2, <2>3, <3>1 DEF ScanAssertions
  <2>4. CASE pc = "third" /\ k < epIndex
    <3>1. j \in Slots /\ k \in Slots /\ j < k
      BY <2>4 DEF IInv, TypeOK, LoopInv, Slots
    <3>2. QED
      BY <2>2, <2>4, <3>1 DEF ScanAssertions
  <2>5. QED
    BY <2>3, <2>4 DEF ScanAssertions
<1>2. QED
  BY <1>1, Invariance, PTL

\* The array of fingerprints never overflows, and no fingerprint is left in it for
\* the next batch.
THEOREM BatchesFit == Spec => []BatchFits
<1>1. IInv => BatchFits
  BY DEF IInv
<1>2. QED
  BY <1>1, Invariance, PTL

\* No event point is in the array twice.
THEOREM PointsStayDistinct == Spec => []PointsDistinct
<1>1. IInv => PointsDistinct
  BY DEF IInv
<1>2. QED
  BY <1>1, Invariance, PTL

(***************************************************************************)
(* A batch holds no fingerprint twice                                      *)
(***************************************************************************)

\* The live slots hold points with a natural time and bin.
LEMMA LiveFacts ==
  ASSUME IInv
  PROVE  /\ Live \subseteq Slots /\ Live \subseteq Nat
         /\ \A s \in Slots : s \in Nat /\ points[s].time \in Nat
                                       /\ points[s].bin \in Nat /\ points[s].usages \in Nat
<1> USE ConfigAssumption
<1>1. points \in [Slots -> EventPoint]
  BY DEF IInv, TypeOK
<1>2. Live \subseteq Slots /\ Slots \subseteq Nat
  BY DEF Live, Slots
<1>3. QED
  BY <1>1, <1>2 DEF EventPoint

\* A fingerprint tells which slots it was made from.
LEMMA FingerprintTellsSlots ==
  ASSUME IInv, NEW s \in Live, NEW t \in Live, NEW r \in Live,
         NEW s2 \in Live, NEW t2 \in Live, NEW r2 \in Live,
         FingerprintOf(s, t, r) = FingerprintOf(s2, t2, r2)
  PROVE  s = s2 /\ t = t2 /\ r = r2
<1>1. /\ points[s].time = points[s2].time /\ points[s].bin = points[s2].bin
      /\ points[t].time = points[t2].time /\ points[t].bin = points[t2].bin
      /\ points[r].time = points[r2].time /\ points[r].bin = points[r2].bin
  BY DEF FingerprintOf
<1>2. PointsDistinct
  BY DEF IInv
<1>3. QED
  BY <1>1, <1>2 DEF PointsDistinct

\* What a step of a scan, one that makes at most one fingerprint, leaves alone.
ScanStep ==
  /\ UNCHANGED <<audio, epIndex, ignored, total>>
  /\ points' \in [Slots -> EventPoint]
  /\ \A s \in Slots : points'[s].time = points[s].time /\ points'[s].bin = points[s].bin

LEMMA SameFingerprints ==
  ASSUME ScanStep, NEW s \in Slots, NEW t \in Slots, NEW r \in Slots
  PROVE  FingerprintOf(s, t, r)' = FingerprintOf(s, t, r)
BY DEF ScanStep, FingerprintOf

LEMMA SameLive == ASSUME epIndex' = epIndex PROVE Live' = Live
BY DEF Live

\* The loops only move forward.
PassedGrows == \A s, t, r \in Live : Passed(s, t, r) => Passed(s, t, r)'

\* A step of a scan without a fingerprint keeps what is said of the batch.
LEMMA NothingEmitted ==
  ASSUME IInv, EmittedInv, ScanStep, UNCHANGED fps, pc \in Scanning, PassedGrows
  PROVE  EmittedInv'
<1>1. BatchHasNoDoubles'
  BY DEF EmittedInv, BatchHasNoDoubles
<1>2. Live' = Live
  BY SameLive DEF ScanStep
<1>3. ASSUME NEW n \in DOMAIN fps'
      PROVE  \E s, t, r \in Live' : fps'[n] = FingerprintOf(s, t, r)' /\ Passed(s, t, r)'
  <2>1. PICK s \in Live, t \in Live, r \in Live : fps[n] = FingerprintOf(s, t, r) /\ Passed(s, t, r)
    BY <1>3 DEF EmittedInv
  <2>2. Passed(s, t, r)'
    BY <2>1 DEF PassedGrows
  <2>3. FingerprintOf(s, t, r)' = FingerprintOf(s, t, r)
    BY LiveFacts, SameFingerprints
  <2>4. QED
    BY <1>2, <2>1, <2>2, <2>3
<1>4. QED
  BY <1>1, <1>3 DEF EmittedInv

\* A fingerprint of slots the loops just passed is new in the batch.
LEMMA OneEmitted ==
  ASSUME IInv, EmittedInv, ScanStep, pc \in Scanning, PassedGrows,
         NEW s \in Live, NEW t \in Live, NEW r \in Live,
         fps' = Append(fps, FingerprintOf(s, t, r)),
         ~Passed(s, t, r), Passed(s, t, r)'
  PROVE  EmittedInv'
<1> DEFINE fp == FingerprintOf(s, t, r)
<1>1. fps \in Seq(Fingerprint)
  BY DEF IInv, TypeOK
<1>2. Live' = Live
  BY SameLive DEF ScanStep
<1>3. \A n \in DOMAIN fps : fps[n] # fp
  <2>1. SUFFICES ASSUME NEW n \in DOMAIN fps, fps[n] = fp
                 PROVE  FALSE
    OBVIOUS
  <2>2. PICK s2 \in Live, t2 \in Live, r2 \in Live :
               fps[n] = FingerprintOf(s2, t2, r2) /\ Passed(s2, t2, r2)
    BY DEF EmittedInv
  <2>3. s = s2 /\ t = t2 /\ r = r2
    <3>1. FingerprintOf(s, t, r) = FingerprintOf(s2, t2, r2)
      BY <2>1, <2>2
    <3>2. QED
      BY <3>1, FingerprintTellsSlots
  <2>4. QED
    BY <2>2, <2>3
<1>4. /\ DOMAIN fps' = 1 .. Len(fps) + 1 /\ DOMAIN fps = 1 .. Len(fps) /\ Len(fps) \in Nat
      /\ \A n \in DOMAIN fps : fps'[n] = fps[n]
      /\ fps'[Len(fps) + 1] = fp
  <2> HIDE DEF fp
  <2>1. fps' = Append(fps, fp)
    BY DEF fp
  <2>2. QED
    BY <1>1, <2>1
<1>5. BatchHasNoDoubles'
  <2> HIDE DEF fp
  <2>1. \A m, n \in DOMAIN fps : fps[m] = fps[n] => m = n
    BY DEF EmittedInv, BatchHasNoDoubles
  <2>2. SUFFICES ASSUME NEW m \in DOMAIN fps', NEW n \in DOMAIN fps', fps'[m] = fps'[n]
                 PROVE  m = n
    BY DEF BatchHasNoDoubles
  <2>3. (m \in DOMAIN fps \/ m = Len(fps) + 1) /\ (n \in DOMAIN fps \/ n = Len(fps) + 1)
    BY <1>4
  <2>4. QED
    BY <1>3, <1>4, <2>1, <2>2, <2>3
<1>6. ASSUME NEW n \in DOMAIN fps'
      PROVE  \E a, b, c \in Live' : fps'[n] = FingerprintOf(a, b, c)' /\ Passed(a, b, c)'
  <2>1. CASE n = Len(fps) + 1
    <3>1. FingerprintOf(s, t, r)' = fp
      BY LiveFacts, SameFingerprints
    <3>2. QED
      BY <1>2, <1>4, <2>1, <3>1
  <2>2. CASE n \in DOMAIN fps
    <3>1. PICK a \in Live, b \in Live, c \in Live : fps[n] = FingerprintOf(a, b, c) /\ Passed(a, b, c)
      BY <2>2 DEF EmittedInv
    <3>2. Passed(a, b, c)'
      BY <3>1 DEF PassedGrows
    <3>3. FingerprintOf(a, b, c)' = FingerprintOf(a, b, c)
      BY LiveFacts, SameFingerprints
    <3>4. fps'[n] = fps[n]
      BY <1>4, <2>2
    <3>5. QED
      BY <1>2, <3>1, <3>2, <3>3, <3>4
  <2>3. QED
    BY <1>4, <2>1, <2>2
<1>7. QED
  BY <1>5, <1>6 DEF EmittedInv

\* The steps of a scan that only move the loops.
MovesOnly ==
  \/ FirstPoint \/ SecondPointStops \/ SecondPointSkipped
  \/ SecondPointAccepted \/ ThirdPointStops \/ ThirdPointSkipped

LEMMA MovesOnlyStep ==
  ASSUME IInv, MovesOnly
  PROVE  ScanStep /\ UNCHANGED <<points, fps>> /\ pc \in Scanning /\ PassedGrows
<1> USE DEF MovesOnly
<1>1. UNCHANGED <<audio, points, epIndex, ignored, fps, total>> /\ pc \in Scanning
  BY DEF FirstPoint, SecondPointStops, SecondPointSkipped, SecondPointAccepted,
         ThirdPointStops, ThirdPointSkipped, Scanning, audio
<1>2. ScanStep
  BY <1>1 DEF ScanStep, IInv, TypeOK
<1>3. i \in Nat /\ j \in Nat /\ k \in Nat /\ Live \subseteq Nat
  BY LiveFacts DEF IInv, TypeOK
<1>4. PassedGrows
  <2>1. CASE FirstPoint
    BY <1>3, <2>1 DEF FirstPoint, PassedGrows, Passed
  <2>2. CASE SecondPointStops
    BY <1>3, <2>2 DEF SecondPointStops, PassedGrows, Passed
  <2>3. CASE SecondPointSkipped
    BY <1>3, <2>3 DEF SecondPointSkipped, PassedGrows, Passed
  <2>4. CASE SecondPointAccepted
    BY <1>3, <2>4 DEF SecondPointAccepted, PassedGrows, Passed
  <2>5. CASE ThirdPointStops
    BY <1>3, <2>5 DEF ThirdPointStops, PassedGrows, Passed
  <2>6. CASE ThirdPointSkipped
    BY <1>3, <2>6 DEF ThirdPointSkipped, PassedGrows, Passed
  <2>7. QED
    BY <2>1, <2>2, <2>3, <2>4, <2>5, <2>6
<1>5. QED
  BY <1>1, <1>2, <1>4

\* The steps that make a fingerprint, from slots the loops had not passed.
LEMMA PairEmittedStep ==
  ASSUME IInv, PairEmitted
  PROVE  /\ ScanStep /\ pc \in Scanning /\ PassedGrows
         /\ i \in Live /\ j \in Live
         /\ ~Passed(i, j, j) /\ (\A s, t, r \in Live : s = i /\ t = j /\ r = j => Passed(s, t, r)')
<1> USE DEF PairEmitted
<1>1. i \in Live /\ j \in Live
  BY ConfigAssumption DEF IInv, TypeOK, LoopInv, NoSecond, Live, Slots
<1>2. FingerprintOf(i, j, j) \in Fingerprint
  BY <1>1, LiveFacts DEF FingerprintOf, Fingerprint
<1>3. ScanStep
  <2>1. {i, j} \in SUBSET Slots /\ TypeOK /\ Emit({i, j}, FingerprintOf(i, j, j))
    BY <1>1 DEF IInv, Live
  <2>2. /\ points' \in [Slots -> EventPoint]
        /\ \A s \in Slots : points'[s].time = points[s].time /\ points'[s].bin = points[s].bin
    BY <1>2, <2>1, EmitKeepsTimes
  <2>3. UNCHANGED <<audio, epIndex, ignored, total>>
    BY DEF audio
  <2>4. QED
    BY <2>2, <2>3 DEF ScanStep
<1>4. i \in Nat /\ j \in Nat /\ k \in Nat /\ Live \subseteq Nat /\ i < j
  BY LiveFacts DEF IInv, TypeOK, LoopInv
<1>5. PassedGrows /\ ~Passed(i, j, j) /\ (\A s, t, r \in Live : s = i /\ t = j /\ r = j => Passed(s, t, r)')
  <2>1. pc' = pc /\ i' = i /\ j' = j + 1 /\ k' = k /\ pc = "second"
    BY DEF loop
  <2>2. PassedGrows
    BY <1>4, <2>1 DEF PassedGrows, Passed
  <2>3. ~Passed(i, j, j)
    BY <1>4, <2>1 DEF Passed
  <2>4. \A s, t, r \in Live : s = i /\ t = j /\ r = j => Passed(s, t, r)'
    BY <1>4, <2>1 DEF Passed
  <2>5. QED
    BY <2>2, <2>3, <2>4
<1>6. QED
  BY <1>1, <1>3, <1>5 DEF Scanning

LEMMA TripleEmittedStep ==
  ASSUME IInv, TripleEmitted
  PROVE  /\ ScanStep /\ pc \in Scanning /\ PassedGrows
         /\ i \in Live /\ j \in Live /\ k \in Live
         /\ ~Passed(i, j, k) /\ (\A s, t, r \in Live : s = i /\ t = j /\ r = k => Passed(s, t, r)')
<1> USE DEF TripleEmitted
<1>1. i \in Live /\ j \in Live /\ k \in Live
  BY ConfigAssumption DEF IInv, TypeOK, LoopInv, NoThird, Live, Slots
<1>2. FingerprintOf(i, j, k) \in Fingerprint
  BY <1>1, LiveFacts DEF FingerprintOf, Fingerprint
<1>3. ScanStep
  <2>1. {i, j, k} \in SUBSET Slots /\ TypeOK /\ Emit({i, j, k}, FingerprintOf(i, j, k))
    BY <1>1 DEF IInv, Live
  <2>2. /\ points' \in [Slots -> EventPoint]
        /\ \A s \in Slots : points'[s].time = points[s].time /\ points'[s].bin = points[s].bin
    BY <1>2, <2>1, EmitKeepsTimes
  <2>3. UNCHANGED <<audio, epIndex, ignored, total>>
    BY DEF audio
  <2>4. QED
    BY <2>2, <2>3 DEF ScanStep
<1>4. i \in Nat /\ j \in Nat /\ k \in Nat /\ Live \subseteq Nat /\ i < j /\ j < k
  BY LiveFacts DEF IInv, TypeOK, LoopInv
<1>5. PassedGrows /\ ~Passed(i, j, k) /\ (\A s, t, r \in Live : s = i /\ t = j /\ r = k => Passed(s, t, r)')
  <2>1. pc' = pc /\ i' = i /\ j' = j /\ k' = k + 1 /\ pc = "third"
    BY DEF loop
  <2>2. PassedGrows
    BY <1>4, <2>1 DEF PassedGrows, Passed
  <2>3. ~Passed(i, j, k)
    BY <1>4, <2>1 DEF Passed
  <2>4. \A s, t, r \in Live : s = i /\ t = j /\ r = k => Passed(s, t, r)'
    BY <1>4, <2>1 DEF Passed
  <2>5. QED
    BY <2>2, <2>3, <2>4
<1>6. QED
  BY <1>1, <1>3, <1>5 DEF Scanning

LEMMA EmitOrFull ==
  ASSUME NEW slots, NEW fp, Emit(slots, fp)
  PROVE  UNCHANGED <<points, fps>> \/ fps' = Append(fps, fp)
BY DEF Emit

LEMMA EmittedInductive ==
  ASSUME IInv, EmittedInv, [Next]_vars
  PROVE  EmittedInv'
<1>1. CASE MovesOnly
  BY <1>1, MovesOnlyStep, NothingEmitted
<1>2. CASE PairEmitted
  <2>1. /\ ScanStep /\ pc \in Scanning /\ PassedGrows
        /\ i \in Live /\ j \in Live
        /\ ~Passed(i, j, j) /\ (\A s, t, r \in Live : s = i /\ t = j /\ r = j => Passed(s, t, r)')
    BY <1>2, PairEmittedStep
  <2>2. UNCHANGED fps \/ fps' = Append(fps, FingerprintOf(i, j, j))
    BY <1>2, EmitOrFull DEF PairEmitted
  <2>3. CASE UNCHANGED fps
    BY <2>1, <2>3, NothingEmitted
  <2>4. CASE fps' = Append(fps, FingerprintOf(i, j, j))
    <3>1. PICK s \in Live, t \in Live, r \in Live : s = i /\ t = j /\ r = j
      BY <2>1
    <3>2. ~Passed(s, t, r) /\ Passed(s, t, r)' /\ fps' = Append(fps, FingerprintOf(s, t, r))
      BY <2>1, <2>4, <3>1
    <3>3. QED
      BY <2>1, <3>2, OneEmitted
  <2>5. QED
    BY <2>2, <2>3, <2>4
<1>3. CASE TripleEmitted
  <2>1. /\ ScanStep /\ pc \in Scanning /\ PassedGrows
        /\ i \in Live /\ j \in Live /\ k \in Live
        /\ ~Passed(i, j, k) /\ (\A s, t, r \in Live : s = i /\ t = j /\ r = k => Passed(s, t, r)')
    BY <1>3, TripleEmittedStep
  <2>2. UNCHANGED fps \/ fps' = Append(fps, FingerprintOf(i, j, k))
    BY <1>3, EmitOrFull DEF TripleEmitted
  <2>3. CASE UNCHANGED fps
    BY <2>1, <2>3, NothingEmitted
  <2>4. CASE fps' = Append(fps, FingerprintOf(i, j, k))
    <3>1. PICK s \in Live, t \in Live, r \in Live : s = i /\ t = j /\ r = k
      BY <2>1
    <3>2. ~Passed(s, t, r) /\ Passed(s, t, r)' /\ fps' = Append(fps, FingerprintOf(s, t, r))
      BY <2>1, <2>4, <3>1
    <3>3. QED
      BY <2>1, <3>2, OneEmitted
  <2>5. QED
    BY <2>2, <2>3, <2>4
<1>4. CASE \/ CollectHistory \/ ExamineBlock \/ (\E b \in Bins : ExtractEventPoint(b))
           \/ CombineOrContinue \/ EndOfAudio
  <2>1. fps = << >> /\ fps' = fps
    BY <1>4 DEF IInv, BatchFits, CollectHistory, ExamineBlock, ExtractEventPoint,
                CombineOrContinue, EndOfAudio
  <2>2. QED
    BY <2>1 DEF EmittedInv, BatchHasNoDoubles
<1>5. CASE PrepareEventPoints
  <2>1. fps' = fps /\ pc' \notin Scanning
    BY <1>5 DEF PrepareEventPoints, Scanning
  <2>2. QED
    BY <2>1 DEF EmittedInv, BatchHasNoDoubles
<1>6. CASE Deliver
  <2>1. fps' = << >>
    BY <1>6 DEF Deliver
  <2>2. QED
    BY <2>1 DEF EmittedInv, BatchHasNoDoubles
<1>7. CASE UNCHANGED vars
  <2>1. UNCHANGED <<pc, points, epIndex, i, j, k, fps>>
    BY <1>7 DEF vars
  <2>2. QED
    BY <2>1 DEF EmittedInv, BatchHasNoDoubles, Live, FingerprintOf, Passed
<1>8. QED
  BY <1>1, <1>2, <1>3, <1>4, <1>5, <1>6, <1>7 DEF Next, MovesOnly

\* However often points are sorted and combined again, one batch holds a
\* fingerprint at most once.
THEOREM BatchesHoldNoDoubles == Spec => []BatchHasNoDoubles
<1>1. Init => EmittedInv
  BY DEF Init, EmittedInv, BatchHasNoDoubles, Scanning
<1>2. IInv /\ EmittedInv /\ [Next]_vars => EmittedInv'
  BY EmittedInductive
<1>3. EmittedInv => BatchHasNoDoubles
  BY DEF EmittedInv
<1>4. QED
  BY <1>1, <1>2, <1>3, Invariance, PTL DEF Spec

(***************************************************************************)
(* A point given up for its age was combined                               *)
(***************************************************************************)

\* Points are in order of time, so a partner is found in a later slot, and no
\* slot after one that is too late for a point holds a partner for it.
LEMMA PartnersAreLater ==
  ASSUME IInv, NEW s \in Live, NEW t \in Live, Combinable(s, t)
  PROVE  s < t
<1>1. points[t].time - points[s].time >= minTimeDistance
  BY DEF Combinable
<1>2. t <= s => points[t].time <= points[s].time
  BY LiveFacts DEF IInv, LiveSlotsSortedThenMarked, Sorted
<1>3. QED
  BY <1>1, <1>2, LiveFacts, ConfigAssumption

LEMMA TooLate ==
  ASSUME IInv, NEW s \in Live, NEW t \in Live, NEW n \in Live, n <= t,
         points[n].time - points[s].time > maxTimeDistance
  PROVE  ~Combinable(s, t)
<1>1. points[n].time <= points[t].time
  BY LiveFacts DEF IInv, LiveSlotsSortedThenMarked, Sorted
<1>2. points[t].time - points[s].time > maxTimeDistance
  BY <1>1, LiveFacts, ConfigAssumption
<1>3. points[t].time - points[s].time \in Int /\ maxTimeDistance \in Int
  BY LiveFacts, ConfigAssumption
<1>4. QED
  BY <1>2, <1>3 DEF Combinable

\* Until a limit is reached a slot is only passed over when it has no partners
\* in the slots that are passed over with it.
LEMMA NoPartnerPassedOver ==
  ASSUME IInv, ScanInv, NoLimitReached, MovesOnly,
         NEW s \in Live, NEW t \in Live, NEW r \in Live, Partners(s, t, r), Passed(s, t, r)'
  PROVE  Passed(s, t, r)
<1>1. i \in Nat /\ j \in Nat /\ k \in Nat /\ epIndex \in Nat
  BY DEF IInv, TypeOK
<1>2. s \in Nat /\ t \in Nat /\ r \in Nat /\ s < epIndex /\ t < epIndex /\ r < epIndex
  BY LiveFacts DEF Live
<1>3. Combinable(s, t) /\ s < t
  BY PartnersAreLater DEF Partners
<1>4. numberOfEPsPerFP = 3 => Combinable(t, r) /\ t < r
  BY PartnersAreLater DEF Partners
<1>5. \A n \in Live : ~Overused(n)
  BY DEF NoLimitReached
<1>6. \A n \in Nat : n < epIndex => n \in Live
  BY ConfigAssumption DEF IInv, TypeOK, Live, Slots
<1>7. CASE FirstPoint
  BY <1>1, <1>2, <1>3, <1>7 DEF FirstPoint, Passed
<1>8. CASE SecondPointStops
  <2>1. pc = "second" /\ pc' = "first" /\ i' = i + 1 /\ NoSecond
    BY <1>8 DEF SecondPointStops
  <2>2. s < i \/ s = i
    BY <2>1, <1>1, <1>2 DEF Passed
  <2>3. CASE s = i /\ j <= t
    <3>1. j \in Live
      BY <1>1, <1>2, <1>6, <2>3
    <3>2. points[j].time - points[i].time > maxTimeDistance
      BY <3>1, <2>1, <1>5 DEF NoSecond, Live
    <3>3. QED
      BY <3>1, <3>2, <2>3, <1>3, TooLate
  <2>4. QED
    BY <2>1, <2>2, <2>3, <1>1, <1>2 DEF Passed
<1>9. CASE SecondPointSkipped
  <2>1. pc = "second" /\ pc' = "second" /\ i' = i /\ j' = j + 1 /\ ~Combinable(i, j)
    BY <1>9 DEF SecondPointSkipped
  <2>2. ~(s = i /\ t = j)
    BY <2>1, <1>3
  <2>3. QED
    BY <2>1, <2>2, <1>1, <1>2 DEF Passed
<1>10. CASE SecondPointAccepted
  <2>1. /\ pc = "second" /\ pc' = "third" /\ i' = i /\ j' = j /\ k' = j + 1
        /\ numberOfEPsPerFP = 3
    BY <1>10 DEF SecondPointAccepted
  <2>2. QED
    BY <2>1, <1>1, <1>2, <1>4 DEF Passed
<1>11. CASE ThirdPointStops
  <2>1. pc = "third" /\ pc' = "second" /\ i' = i /\ j' = j + 1 /\ NoThird
    BY <1>11 DEF ThirdPointStops
  <2>2. numberOfEPsPerFP = 3 /\ j < k
    BY <2>1 DEF ScanInv, IInv, LoopInv
  <2>3. CASE s = i /\ t = j /\ k <= r
    <3>1. k \in Live
      BY <1>1, <1>2, <1>6, <2>3
    <3>2. k > j + 1 /\ points[k-1].time - points[j].time > maxTimeDistance
      BY <3>1, <2>1, <1>5 DEF NoThird, Live
    <3>3. k - 1 \in Live /\ k - 1 <= r
      BY <3>1, <2>3, <1>1, <1>2, <1>6, <2>2
    <3>4. QED
      BY <3>2, <3>3, <2>2, <2>3, <1>4, TooLate
  <2>4. QED
    BY <2>1, <2>3, <1>1, <1>2 DEF Passed
<1>12. CASE ThirdPointSkipped
  <2>1. /\ pc = "third" /\ pc' = "third" /\ i' = i /\ j' = j /\ k' = k + 1
        /\ ~Combinable(j, k)
    BY <1>12 DEF ThirdPointSkipped
  <2>2. numberOfEPsPerFP = 3
    BY <2>1 DEF ScanInv
  <2>3. ~(t = j /\ r = k)
    BY <2>1, <2>2, <1>4
  <2>4. QED
    BY <2>1, <2>3, <1>1, <1>2 DEF Passed
<1>13. QED
  BY <1>7, <1>8, <1>9, <1>10, <1>11, <1>12 DEF MovesOnly

\* A step of a scan that reaches no limit keeps the fingerprints made so far.
Grows ==
  /\ ScanStep
  /\ \A s \in Slots : points[s].usages <= points'[s].usages
  /\ Len(fps) <= Len(fps')
  /\ \A n \in DOMAIN fps : n \in DOMAIN fps' /\ fps'[n] = fps[n]

LEMMA LimitsStayReached ==
  ASSUME IInv, IInv', Grows, NoLimitReached'
  PROVE  NoLimitReached
<1>1. Len(fps) < maxFingerprints
  <2>1. Len(fps) \in Nat /\ Len(fps') \in Nat
    <3>1. fps \in Seq(Fingerprint) /\ fps' \in Seq(Fingerprint)
      BY DEF IInv, TypeOK
    <3>2. QED
      BY <3>1
  <2>2. Len(fps') < maxFingerprints /\ Len(fps) <= Len(fps')
    BY DEF NoLimitReached, Grows
  <2>3. QED
    BY <2>1, <2>2, ConfigAssumption
<1>2. ASSUME NEW s \in Live PROVE ~Overused(s)
  <2>1. s \in Slots /\ s \in Live'
    BY SameLive DEF Grows, ScanStep, Live
  <2>2. ~(points'[s].usages > maxEventPointUsages)
    BY <2>1 DEF NoLimitReached, Overused
  <2>3. points[s].usages \in Nat /\ points'[s].usages \in Nat
    BY <2>1 DEF IInv, TypeOK, EventPoint
  <2>4. QED
    BY <2>1, <2>2, <2>3, ConfigAssumption DEF Grows, Overused
<1>3. QED
  BY <1>1, <1>2 DEF NoLimitReached

LEMMA SamePartners ==
  ASSUME ScanStep, NEW s \in Slots, NEW t \in Slots, NEW r \in Slots
  PROVE  Partners(s, t, r)' <=> Partners(s, t, r)
<1>1. \A a, b \in Slots : Combinable(a, b)' <=> Combinable(a, b)
  BY DEF ScanStep, Combinable
<1>2. QED
  BY <1>1 DEF Partners

\* One step of a scan: either no limit is reached by now and what is passed next
\* is combined, or nothing is claimed.
LEMMA ScanInvStep ==
  ASSUME IInv, IInv', ScanInv, Grows, pc \in Scanning,
         pc' = "third" => numberOfEPsPerFP = 3,
         NoLimitReached' /\ NoLimitReached =>
           /\ \A s, t, r \in Live : Partners(s, t, r) /\ Passed(s, t, r)' =>
                Passed(s, t, r) \/ \E n \in DOMAIN fps' : fps'[n] = FingerprintOf(s, t, r)
           /\ pc' = "prepare" =>
                \A s \in Live : i' <= s => points[s].time > block - maxTimeDistance
  PROVE  ScanInv'
<1>1. Live' = Live /\ Live \subseteq Slots /\ block' = block
  BY SameLive, LiveFacts DEF Grows, ScanStep, audio
<1>2. \A s \in Live : points'[s].bin = points[s].bin /\ points'[s].time = points[s].time
  BY <1>1 DEF Grows, ScanStep
<1>3. \A s \in Live' : points'[s].bin \in Bins
  BY <1>1, <1>2 DEF ScanInv
<1>4. SUFFICES ASSUME NoLimitReached'
               PROVE  /\ \A s, t, r \in Live' :
                           Partners(s, t, r)' /\ Passed(s, t, r)' =>
                             FingerprintOf(s, t, r)' \in Range(fps')
                      /\ pc' = "prepare" =>
                           \A s \in Live' : i' <= s => points'[s].time > block' - maxTimeDistance
  BY <1>3 DEF ScanInv
<1>5. NoLimitReached
  BY <1>4, LimitsStayReached
<1>6. ASSUME NEW s \in Live, NEW t \in Live, NEW r \in Live, Partners(s, t, r)', Passed(s, t, r)'
      PROVE  FingerprintOf(s, t, r)' \in Range(fps')
  <2>1. s \in Slots /\ t \in Slots /\ r \in Slots /\ ScanStep
    BY <1>1 DEF Grows
  <2>2. Partners(s, t, r)
    BY <1>6, <2>1, SamePartners
  <2>3. FingerprintOf(s, t, r)' = FingerprintOf(s, t, r)
    BY <2>1, SameFingerprints
  <2>4. \E n \in DOMAIN fps' : fps'[n] = FingerprintOf(s, t, r)
    <3>1. CASE Passed(s, t, r)
      <4>1. FingerprintOf(s, t, r) \in Range(fps)
        BY <1>5, <2>2, <3>1 DEF ScanInv
      <4>2. PICK n \in DOMAIN fps : fps[n] = FingerprintOf(s, t, r)
        BY <4>1 DEF Range
      <4>3. QED
        BY <4>2 DEF Grows
    <3>2. CASE ~Passed(s, t, r)
      BY <1>4, <1>5, <1>6, <2>2, <3>2
    <3>3. QED
      BY <3>1, <3>2
  <2>5. QED
    BY <2>3, <2>4 DEF Range
<1>7. QED
  BY <1>1, <1>2, <1>4, <1>5, <1>6

LEMMA MovesOnlyScanInv ==
  ASSUME IInv, IInv', ScanInv, MovesOnly
  PROVE  ScanInv'
<1>1. ScanStep /\ UNCHANGED <<points, fps>> /\ pc \in Scanning
  BY MovesOnlyStep
<1>2. Grows
  <2>1. Len(fps) \in Nat
    <3>1. fps \in Seq(Fingerprint)
      BY DEF IInv, TypeOK
    <3>2. QED
      BY <3>1
  <2>2. \A s \in Slots : points[s].usages <= points'[s].usages
    BY <1>1, LiveFacts
  <2>3. QED
    BY <1>1, <2>1, <2>2 DEF Grows
<1>3. pc' = "third" => numberOfEPsPerFP = 3
  BY DEF ScanInv, MovesOnly, FirstPoint, SecondPointStops, SecondPointSkipped,
         SecondPointAccepted, ThirdPointStops, ThirdPointSkipped
<1>4. NoLimitReached => \A s, t, r \in Live : Partners(s, t, r) /\ Passed(s, t, r)' => Passed(s, t, r)
  BY NoPartnerPassedOver
<1>5. ASSUME NoLimitReached, pc' = "prepare", NEW s \in Live, i' <= s
      PROVE  points[s].time > block - maxTimeDistance
  <2>1. NoFirst /\ i' = i
    BY <1>5 DEF MovesOnly, FirstPoint, SecondPointStops, SecondPointSkipped,
         SecondPointAccepted, ThirdPointStops, ThirdPointSkipped
  <2>2. i \in Live
    <3>1. i \in Nat /\ i <= s /\ s \in Nat /\ s <= maxEventPoints - 1 /\ s < epIndex
      BY <1>5, <2>1 DEF IInv, TypeOK, Live, Slots
    <3>2. epIndex \in Nat /\ maxEventPoints \in Nat
      BY ConfigAssumption DEF IInv, TypeOK
    <3>3. QED
      BY <3>1, <3>2 DEF Live, Slots
  <2>3. points[i].bin \in Bins /\ ~Overused(i) /\ i < epIndex
    BY <1>5, <2>2 DEF ScanInv, NoLimitReached, Live
  <2>4. points[i].time > block - maxTimeDistance
    BY <2>1, <2>3, ConfigAssumption DEF NoFirst
  <2>5. points[i].time <= points[s].time
    BY <1>5, <2>1, <2>2, LiveFacts DEF IInv, LiveSlotsSortedThenMarked, Sorted
  <2>6. /\ block \in Int /\ maxTimeDistance \in Int
        /\ points[i].time \in Int /\ points[s].time \in Int
    <3>1. block \in Int /\ maxTimeDistance \in Int
      BY ConfigAssumption DEF IInv, TypeOK
    <3>2. QED
      BY <2>2, <3>1, LiveFacts
  <2>7. QED
    BY <2>4, <2>5, <2>6
<1>6. QED
  BY <1>1, <1>2, <1>3, <1>4, <1>5, ScanInvStep

\* Counting usages and appending a fingerprint takes nothing back.
LEMMA EmitGrows ==
  ASSUME IInv, ScanStep, NEW slots, NEW fp, Emit(slots, fp)
  PROVE  /\ Grows
         /\ NoLimitReached' => fps' = Append(fps, fp) /\ fps'[Len(fps) + 1] = fp
                               /\ Len(fps) + 1 \in DOMAIN fps'
<1>1. fps \in Seq(Fingerprint) /\ Len(fps) \in Nat
  BY DEF IInv, TypeOK
<1>2. CASE Len(fps) >= maxFingerprints
  <2>1. UNCHANGED <<points, fps>>
    BY <1>2 DEF Emit
  <2>2. ~NoLimitReached'
    BY <1>1, <1>2, <2>1, ConfigAssumption DEF NoLimitReached
  <2>3. QED
    BY <1>1, <2>1, <2>2, LiveFacts DEF Grows
<1>3. CASE ~(Len(fps) >= maxFingerprints)
  <2>1. /\ fps' = Append(fps, fp)
        /\ \A s \in Slots : points'[s] = IF s \in slots THEN [points[s] EXCEPT !.usages = @ + 1]
                                                        ELSE points[s]
    BY <1>3 DEF Emit
  <2>2. /\ Len(fps') = Len(fps) + 1 /\ fps'[Len(fps) + 1] = fp
        /\ DOMAIN fps' = 1 .. Len(fps) + 1 /\ DOMAIN fps = 1 .. Len(fps)
        /\ \A n \in DOMAIN fps : fps'[n] = fps[n]
    BY <1>1, <2>1
  <2>3. ASSUME NEW s \in Slots PROVE points[s].usages <= points'[s].usages
    <3>1. points[s] \in EventPoint
      BY DEF IInv, TypeOK
    <3>2. points'[s].usages = points[s].usages \/ points'[s].usages = points[s].usages + 1
      BY <2>1, <3>1 DEF EventPoint
    <3>3. QED
      BY <3>2, LiveFacts
  <2>4. Grows
    BY <1>1, <2>2, <2>3 DEF Grows
  <2>5. QED
    BY <1>1, <2>1, <2>2, <2>4
<1>4. QED
  BY <1>2, <1>3

LEMMA PairEmittedScanInv ==
  ASSUME IInv, IInv', ScanInv, PairEmitted
  PROVE  ScanInv'
<1>1. ScanStep /\ pc \in Scanning /\ i \in Live /\ j \in Live
  BY PairEmittedStep
<1>2. /\ pc = "second" /\ pc' = "second" /\ i' = i /\ j' = j + 1 /\ numberOfEPsPerFP = 2
      /\ Emit({i, j}, FingerprintOf(i, j, j))
  BY DEF PairEmitted
<1>3. Grows
  BY <1>1, <1>2, EmitGrows
<1>4. ASSUME NoLimitReached', NEW s \in Live, NEW t \in Live, NEW r \in Live,
             Partners(s, t, r), Passed(s, t, r)', ~Passed(s, t, r)
      PROVE  \E n \in DOMAIN fps' : fps'[n] = FingerprintOf(s, t, r)
  <2>1. s = i /\ t = j
    BY <1>1, <1>2, <1>4, LiveFacts DEF Passed, IInv, TypeOK
  <2>2. r = j
    BY <1>2, <1>4, <2>1 DEF Partners
  <2>3. fps'[Len(fps) + 1] = FingerprintOf(i, j, j) /\ Len(fps) + 1 \in DOMAIN fps'
    BY <1>1, <1>2, <1>4, EmitGrows
  <2>4. QED
    BY <2>1, <2>2, <2>3
<1>5. QED
  BY <1>1, <1>2, <1>3, <1>4, ScanInvStep

LEMMA TripleEmittedScanInv ==
  ASSUME IInv, IInv', ScanInv, TripleEmitted
  PROVE  ScanInv'
<1>1. ScanStep /\ pc \in Scanning /\ i \in Live /\ j \in Live /\ k \in Live
  BY TripleEmittedStep
<1>2. /\ pc = "third" /\ pc' = "third" /\ i' = i /\ j' = j /\ k' = k + 1
      /\ Emit({i, j, k}, FingerprintOf(i, j, k))
  BY DEF TripleEmitted
<1>3. Grows
  BY <1>1, <1>2, EmitGrows
<1>4. ASSUME NoLimitReached', NEW s \in Live, NEW t \in Live, NEW r \in Live,
             Partners(s, t, r), Passed(s, t, r)', ~Passed(s, t, r)
      PROVE  \E n \in DOMAIN fps' : fps'[n] = FingerprintOf(s, t, r)
  <2>1. s = i /\ t = j /\ r = k
    BY <1>1, <1>2, <1>4, LiveFacts DEF Passed, IInv, TypeOK
  <2>3. fps'[Len(fps) + 1] = FingerprintOf(i, j, k) /\ Len(fps) + 1 \in DOMAIN fps'
    BY <1>1, <1>2, <1>4, EmitGrows
  <2>4. QED
    BY <2>1, <2>3
<1>5. pc' = "third" => numberOfEPsPerFP = 3
  BY <1>2 DEF ScanInv
<1>6. QED
  BY <1>1, <1>2, <1>3, <1>4, <1>5, ScanInvStep

\* The steps outside a scan: a new point has a bin of its own, a sort moves
\* points, and nothing has been passed when a scan starts.
LEMMA OutsideScanInv ==
  ASSUME IInv, ScanInv,
         \/ CollectHistory \/ ExamineBlock \/ (\E b \in Bins : ExtractEventPoint(b))
         \/ CombineOrContinue \/ EndOfAudio \/ PrepareEventPoints \/ Deliver
  PROVE  ScanInv'
<1>1. \A s \in Live' : points'[s].bin \in Bins
  <2>1. CASE UNCHANGED <<points, epIndex>>
    BY <2>1 DEF ScanInv, Live
  <2>2. ASSUME NEW b \in Bins, ExtractEventPoint(b), epIndex # maxEventPoints
        PROVE  \A s \in Live' : points'[s].bin \in Bins
    <3> DEFINE new == [time |-> block - halfFilterSizeTime, bin |-> b, usages |-> 0]
    <3>1. epIndex' = epIndex + 1 /\ points' = [points EXCEPT ![epIndex] = new]
      BY <2>2 DEF ExtractEventPoint
    <3>2. epIndex \in Slots /\ points \in [Slots -> EventPoint] /\ new.bin = b
      BY <2>2, ConfigAssumption DEF IInv, TypeOK, Slots
    <3> HIDE DEF new
    <3>3. \A s \in Live' : s \in Live \/ s = epIndex
      BY <3>1, <3>2, ConfigAssumption DEF Live, Slots
    <3>4. \A s \in Live : points[s].bin \in Bins /\ s \in Slots /\ s # epIndex
      BY <3>2, LiveFacts DEF ScanInv, Live
    <3>5. QED
      BY <2>2, <3>1, <3>2, <3>3, <3>4
  <2>3. CASE PrepareEventPoints
    <3>1. PICK order \in Orders : \A s \in Live' : order[s] \in Live /\ points'[s] = points[order[s]]
      BY <2>3, PrepareFacts
    <3>2. QED
      BY <3>1 DEF ScanInv
  <2>4. QED
    BY <2>1, <2>2, <2>3 DEF CollectHistory, ExamineBlock, ExtractEventPoint,
                            CombineOrContinue, EndOfAudio, Deliver
<1>2. pc' \notin Scanning \/ (pc' = "first" /\ i' = 0)
  BY DEF CollectHistory, ExamineBlock, ExtractEventPoint, CombineOrContinue, EndOfAudio,
         PrepareEventPoints, Deliver, Scanning, IInv, LoopInv
<1>3. pc' # "third" /\ pc' # "prepare"
  BY <1>2 DEF Scanning
<1>4. pc' \in Scanning => \A s, t, r \in Live' : ~Passed(s, t, r)'
  <2>1. Live' \subseteq Nat
    BY ConfigAssumption DEF Live, Slots
  <2>2. QED
    BY <1>2, <2>1 DEF Passed
<1>5. QED
  BY <1>1, <1>3, <1>4 DEF ScanInv

LEMMA ScanInductive ==
  ASSUME IInv, IInv', ScanInv, [Next]_vars
  PROVE  ScanInv'
<1>1. CASE MovesOnly
  BY <1>1, MovesOnlyScanInv
<1>2. CASE PairEmitted
  BY <1>2, PairEmittedScanInv
<1>3. CASE TripleEmitted
  BY <1>3, TripleEmittedScanInv
<1>4. CASE \/ CollectHistory \/ ExamineBlock \/ (\E b \in Bins : ExtractEventPoint(b))
           \/ CombineOrContinue \/ EndOfAudio \/ PrepareEventPoints \/ Deliver
  BY <1>4, OutsideScanInv
<1>5. CASE UNCHANGED vars
  <2>1. UNCHANGED <<pc, block, points, epIndex, i, j, k, fps>>
    BY <1>5 DEF vars
  <2>2. Live' = Live
    BY <2>1, SameLive
  <2>3. \A s, t, r : /\ Partners(s, t, r)' <=> Partners(s, t, r)
                     /\ Passed(s, t, r)' <=> Passed(s, t, r)
                     /\ FingerprintOf(s, t, r)' = FingerprintOf(s, t, r)
    BY <2>1 DEF Partners, Combinable, Passed, FingerprintOf
  <2>4. NoLimitReached' <=> NoLimitReached
    BY <2>1, <2>2 DEF NoLimitReached, Overused
  <2>5. QED
    BY <2>1, <2>2, <2>3, <2>4 DEF ScanInv
<1>6. QED
  BY <1>1, <1>2, <1>3, <1>4, <1>5 DEF Next, MovesOnly

LEMMA ScanInvariance == Spec => []ScanInv
<1>1. Init => ScanInv
  <2> SUFFICES ASSUME Init PROVE ScanInv
    OBVIOUS
  <2>1. Live = {} /\ pc \notin Scanning /\ pc # "third"
    BY ConfigAssumption DEF Init, Live, Slots, Scanning
  <2>2. QED
    BY <2>1 DEF ScanInv
<1>2. IInv /\ IInv' /\ ScanInv /\ [Next]_vars => ScanInv'
  BY ScanInductive
<1>3. QED
  BY <1>1, <1>2, Invariance, PTL DEF Spec

\* Wherever the scans fall in the stream, a point is marked for its age only after
\* it was combined with every partner that is in the array, and when no later
\* block can hold another one.
THEOREM AgedPointsAreCombined == Spec => []AgedPointsWereCombined
<1>1. IInv /\ ScanInv => AgedPointsWereCombined
  <2> SUFFICES ASSUME IInv, ScanInv, pc = "prepare", NoLimitReached,
                      NEW s \in Live, points[s].time <= CutoffTime
               PROVE  /\ \A t \in {t \in Live : Combinable(s, t)} :
                           IF numberOfEPsPerFP = 2
                           THEN FingerprintOf(s, t, t) \in Range(fps)
                           ELSE \A r \in {r \in Live : Combinable(t, r)} :
                                  FingerprintOf(s, t, r) \in Range(fps)
                      /\ block + 1 - halfFilterSizeTime - points[s].time > maxTimeDistance
    BY DEF AgedPointsWereCombined
  <2>1. /\ block \in Nat /\ halfFilterSizeTime \in Nat /\ maxTimeDistance \in Nat
        /\ points[s].time \in Nat /\ i \in Nat /\ s \in Nat
    BY LiveFacts, ConfigAssumption DEF IInv, TypeOK
  <2>2. points[epIndex - 1].time <= block - halfFilterSizeTime /\ points[epIndex - 1].time \in Nat
    <3>1. epIndex - 1 \in Live
      BY ConfigAssumption DEF IInv, TypeOK, LoopInv, Live, Slots
    <3>2. QED
      BY <3>1, LiveFacts DEF IInv, TimeInv
  <2>3. points[s].time <= block - halfFilterSizeTime - maxTimeDistance
    BY <2>1, <2>2 DEF CutoffTime
  <2>4. s < i
    <3>1. i <= s => points[s].time > block - maxTimeDistance
      BY DEF ScanInv, Scanning
    <3>2. QED
      BY <2>1, <2>3, <3>1
  <2>5. \A t, r \in Live : Passed(s, t, r)
    BY <2>4 DEF Passed
  <2>6. \A t, r \in Live : Partners(s, t, r) => FingerprintOf(s, t, r) \in Range(fps)
    BY <2>5 DEF ScanInv, Scanning
  <2>7. QED
    BY <2>1, <2>3, <2>6 DEF Partners
<1>2. QED
  BY <1>1, Invariance, ScanInvariance, PTL

(***************************************************************************)
(* No event point is ignored when the array has room for what a scan keeps *)
(***************************************************************************)

\* The bins of a block that were examined.
Below(n) == {b \in Bins : b < n}

LEMMA RoomFacts ==
  ASSUME ArrayIsLargeEnough
  PROVE  /\ IsFiniteSet(Bins) /\ Cardinality(Bins) \in Nat
         /\ MostKept \in Nat /\ eventPointThreshold <= MostKept
         /\ maxTimeDistance * Cardinality(Bins) <= MostKept
         /\ MostKept + Cardinality(Bins) <= maxEventPoints
         /\ \A n : IsFiniteSet(Below(n)) /\ Cardinality(Below(n)) \in Nat
<1>1. IsFiniteSet(Bins) /\ Cardinality(Bins) \in Nat
  BY FS_CardinalityType DEF ArrayIsLargeEnough
<1>2. maxTimeDistance * Cardinality(Bins) \in Nat
  <2>1. \A m, n \in Nat : m * n \in Nat
    OBVIOUS
  <2>2. QED
    BY <1>1, <2>1, ConfigAssumption
<1>3. /\ MostKept \in Nat /\ eventPointThreshold <= MostKept
      /\ maxTimeDistance * Cardinality(Bins) <= MostKept
  <2> DEFINE recent == maxTimeDistance * Cardinality(Bins)
  <2>1. recent \in Nat
    BY <1>2
  <2>2. MostKept = IF recent > eventPointThreshold THEN recent ELSE eventPointThreshold
    BY DEF MostKept
  <2> HIDE DEF recent
  <2>3. MostKept \in Nat /\ eventPointThreshold <= MostKept /\ recent <= MostKept
    BY <2>1, <2>2, ConfigAssumption
  <2>4. QED
    BY <2>3 DEF recent
<1>4. MostKept + Cardinality(Bins) <= maxEventPoints
  BY <1>1, <1>3, ConfigAssumption DEF ArrayIsLargeEnough
<1>5. ASSUME NEW n PROVE IsFiniteSet(Below(n)) /\ Cardinality(Below(n)) \in Nat
  <2>1. Below(n) \in SUBSET Bins
    BY DEF Below
  <2>2. IsFiniteSet(Below(n))
    BY <1>1, <2>1, FS_Subset
  <2>3. QED
    BY <2>2, FS_CardinalityType
<1>6. QED
  BY <1>1, <1>3, <1>4, <1>5

\* A bin is found once in a block, so a block adds at most one point for each bin.
LEMMA OneMoreBin ==
  ASSUME ArrayIsLargeEnough, NEW b \in Bins, NEW n \in Nat, n <= b
  PROVE  /\ Cardinality(Below(n)) + 1 <= Cardinality(Below(b + 1))
         /\ Cardinality(Below(b + 1)) <= Cardinality(Bins)
<1>1. b \in Nat /\ \A c \in Bins : c \in Nat
  BY ConfigAssumption
<1>2. Cardinality(Below(n) \cup {b}) = Cardinality(Below(n)) + 1
  <2>1. b \notin Below(n)
    BY <1>1 DEF Below
  <2>2. QED
    BY <2>1, RoomFacts, FS_AddElement
<1>3. Below(n) \cup {b} \in SUBSET Below(b + 1)
  <2>1. \A c \in Bins : c < n \/ c = b => c < b + 1
    BY <1>1
  <2>2. QED
    BY <2>1 DEF Below
<1>4. Cardinality(Below(n) \cup {b}) <= Cardinality(Below(b + 1))
  BY <1>3, RoomFacts, FS_Subset
<1>5. Cardinality(Below(b + 1)) <= Cardinality(Bins)
  <2>1. Below(b + 1) \in SUBSET Bins
    BY DEF Below
  <2>2. QED
    BY <2>1, RoomFacts, FS_Subset
<1>6. QED
  BY <1>2, <1>4, <1>5

\* The points that a scan keeps are of the last maxTimeDistance blocks, no two of
\* them of the same block and bin.
LEMMA ScanKeepsFew ==
  ASSUME ArrayIsLargeEnough, IInv, IInv', ScanInv', PrepareEventPoints
  PROVE  epIndex' <= MostKept
<1> DEFINE last == points[epIndex - 1].time
           times == last - maxTimeDistance + 1 .. last
           slots == 0 .. epIndex' - 1
           f == [s \in slots |-> <<points'[s].time, points'[s].bin>>]
<1>1. epIndex - 1 \in Live /\ epIndex \in Nat /\ last \in Nat /\ maxTimeDistance \in Nat
  <2>1. epIndex - 1 \in Live /\ epIndex \in Nat
    BY ConfigAssumption DEF IInv, TypeOK, LoopInv, Live, Slots, PrepareEventPoints
  <2>2. QED
    BY <2>1, LiveFacts, ConfigAssumption
<1>2. slots = Live' /\ epIndex' \in Nat
  <2>1. epIndex' \in 0 .. maxEventPoints
    BY DEF IInv, TypeOK
  <2>2. QED
    BY <2>1, ConfigAssumption DEF Live, Slots
<1>3. ASSUME NEW s \in Live'
      PROVE  points'[s].time \in times /\ points'[s].bin \in Bins
  <2>1. PICK order \in Orders : \A n \in Live' :
          order[n] \in Live /\ points'[n] = points[order[n]] /\ ~Finished(order[n])
    BY PrepareFacts
  <2>2. order[s] \in Live /\ points'[s] = points[order[s]] /\ ~Finished(order[s])
    BY <2>1
  <2>3. points[order[s]].time <= last
    <3>1. order[s] <= epIndex - 1
      BY <2>2, <1>1, LiveFacts DEF Live
    <3>2. QED
      BY <2>2, <3>1, <1>1, LiveFacts DEF IInv, LiveSlotsSortedThenMarked, Sorted
  <2>4. points[order[s]].time \in Nat
    BY <2>2, LiveFacts
  <2>5. ~(points[order[s]].time <= last - maxTimeDistance)
    BY <2>2 DEF Finished, CutoffTime
  <2>6. points[order[s]].time \in times
    BY <1>1, <2>3, <2>4, <2>5
  <2>7. QED
    BY <2>2, <2>6 DEF ScanInv
<1>4. f \in [slots -> times \X Bins]
  BY <1>2, <1>3
<1>5. \A s, t \in slots : f[s] = f[t] => s = t
  BY <1>2 DEF IInv, PointsDistinct
<1>6. IsFiniteSet(slots) /\ Cardinality(slots) = epIndex'
  <2>1. epIndex' \in Nat
    BY <1>2
  <2>2. QED
    BY <2>1, FirstSlots
<1>7. IsFiniteSet(times) /\ Cardinality(times) = maxTimeDistance
  <2> DEFINE first == last - maxTimeDistance + 1
  <2>1. first \in Int /\ last \in Int
    BY <1>1
  <2>2. IsFiniteSet(times) /\ Cardinality(times) = IF first > last THEN 0 ELSE last - first + 1
    <3> HIDE DEF last, first
    <3>1. IsFiniteSet(first .. last) /\ Cardinality(first .. last) = IF first > last THEN 0 ELSE last - first + 1
      BY <2>1, FS_Interval
    <3>2. QED
      BY <3>1 DEF first
  <2>3. QED
    BY <1>1, <2>2
<1> HIDE DEF f, times, slots, last
<1>8. IsFiniteSet(times \X Bins) /\ Cardinality(times \X Bins) = maxTimeDistance * Cardinality(Bins)
  BY <1>7, RoomFacts, FS_Product
<1>9. ~(Cardinality(times \X Bins) < Cardinality(slots))
  BY <1>4, <1>5, <1>6, <1>8, FS_PigeonHole
<1>10. ~(MostKept < epIndex')
  <2>1. maxTimeDistance * Cardinality(Bins) <= MostKept /\ MostKept \in Nat
    BY RoomFacts
  <2>2. maxTimeDistance * Cardinality(Bins) \in Nat
    BY <1>8, FS_CardinalityType
  <2>3. ~(maxTimeDistance * Cardinality(Bins) < epIndex')
    BY <1>6, <1>8, <1>9
  <2> DEFINE recent == maxTimeDistance * Cardinality(Bins)
  <2> HIDE DEF recent
  <2>4. recent \in Nat /\ recent <= MostKept /\ ~(recent < epIndex')
    BY <2>1, <2>2, <2>3 DEF recent
  <2>5. QED
    BY <1>2, <2>1, <2>4
<1>11. QED
  BY <1>2, <1>10, RoomFacts

LEMMA RoomInductive ==
  ASSUME ArrayIsLargeEnough, IInv, IInv', ScanInv', RoomInv, [Next]_vars
  PROVE  RoomInv'
<1> USE RoomFacts
<1>1. epIndex \in Nat /\ bin \in Nat /\ \A n : Below(n) = {b \in Bins : b < n}
  BY DEF IInv, TypeOK, Below
<1>2. CASE \/ MovesOnly \/ PairEmitted \/ TripleEmitted
  <2>1. pc' \in Scanning /\ UNCHANGED ignored
    BY <1>2 DEF MovesOnly, FirstPoint, SecondPointStops, SecondPointSkipped, PairEmitted,
       SecondPointAccepted, ThirdPointStops, ThirdPointSkipped, TripleEmitted, Scanning
  <2>2. QED
    BY <2>1 DEF RoomInv, Scanning
<1>3. CASE CollectHistory
  BY <1>3 DEF CollectHistory, RoomInv
<1>4. CASE ExamineBlock
  <2>1. epIndex <= MostKept /\ pc' = "peaks" /\ epIndex' = epIndex /\ ignored' = ignored /\ bin' = 0
    BY <1>4 DEF ExamineBlock, RoomInv
  <2>2. epIndex <= MostKept + Cardinality(Below(0))
    BY <1>1, <2>1
  <2>3. QED
    BY <2>1, <2>2 DEF RoomInv, Below
<1>5. ASSUME NEW b \in Bins, ExtractEventPoint(b) PROVE RoomInv'
  <2>1. pc = "peaks" /\ pc' = "peaks" /\ bin <= b /\ bin' = b + 1
    BY <1>5, <1>1, ConfigAssumption DEF ExtractEventPoint
  <2>2. epIndex <= MostKept + Cardinality(Below(bin)) /\ ~ignored
    BY <2>1 DEF RoomInv, Below
  <2>3. /\ Cardinality(Below(bin)) + 1 <= Cardinality(Below(b + 1))
        /\ Cardinality(Below(b + 1)) <= Cardinality(Bins)
    BY <1>1, <2>1, OneMoreBin
  <2>4. epIndex + 1 <= MostKept + Cardinality(Below(b + 1)) /\ epIndex < maxEventPoints
    BY <1>1, <2>2, <2>3, ConfigAssumption
  <2>5. epIndex' = epIndex + 1 /\ ignored' = ignored
    BY <1>5, <1>1, <2>4, ConfigAssumption DEF ExtractEventPoint
  <2>6. QED
    BY <2>1, <2>2, <2>4, <2>5 DEF RoomInv, Below
<1>6. CASE CombineOrContinue
  <2>1. pc' = "first" \/ (pc' = "read" /\ epIndex <= eventPointThreshold)
    BY <1>1, <1>6, ConfigAssumption DEF CombineOrContinue
  <2>2. UNCHANGED <<epIndex, ignored>>
    BY <1>6 DEF CombineOrContinue
  <2>3. QED
    BY <2>1, <2>2, <1>1, ConfigAssumption DEF RoomInv
<1>7. CASE EndOfAudio
  BY <1>7 DEF EndOfAudio, RoomInv
<1>8. CASE PrepareEventPoints
  <2>1. pc' = "deliver" /\ ignored' = ignored
    BY <1>8 DEF PrepareEventPoints
  <2>2. epIndex' <= MostKept
    BY <1>8, ScanKeepsFew
  <2>3. QED
    BY <2>1, <2>2 DEF RoomInv
<1>9. CASE Deliver
  BY <1>9 DEF Deliver, RoomInv
<1>10. CASE UNCHANGED vars
  BY <1>10 DEF vars, RoomInv
<1>11. QED
  BY <1>2, <1>3, <1>4, <1>5, <1>6, <1>7, <1>8, <1>9, <1>10 DEF Next, MovesOnly

\* The size of the array has no effect once it is large enough for the points of
\* the last maxTimeDistance blocks, or those below the threshold, and for one
\* block more: then no event point is ignored.
THEOREM LargeArrayIgnoresNothing ==
  ASSUME ArrayIsLargeEnough
  PROVE  Spec => []NoEventPointIgnored
<1>1. Init => RoomInv
  BY RoomFacts DEF Init, RoomInv
<1>2. IInv /\ IInv' /\ ScanInv' /\ RoomInv /\ [Next]_vars => RoomInv'
  BY RoomInductive
<1>3. RoomInv => NoEventPointIgnored
  BY DEF RoomInv, NoEventPointIgnored
<1>4. QED
  BY <1>1, <1>2, <1>3, Invariance, ScanInvariance, PTL DEF Spec
=============================================================================
