---------------------- MODULE FingerprintMatcherProofs ----------------------
(***************************************************************************)
(* Proofs about FingerprintMatcher: for every index, every stream and      *)
(* every configuration that MatcherAssumption allows, tallies are exact,   *)
(* reported times are close, reports hold the best matches and only old    *)
(* matches are forgotten.                                                  *)
(***************************************************************************)
EXTENDS FingerprintMatcher, FiniteSetTheorems, SequenceTheorems, TLAPS

\* Two differences that are rounded down to the same multiple of four.
LEMMA SameQuarter ==
  ASSUME NEW a \in Int, NEW b \in Int, a \div 4 = b \div 4
  PROVE  a - b \in -3 .. 3
<1>1. \A c \in Int : c - 4 * (c \div 4) \in 0 .. 3
  OBVIOUS
<1>2. a \div 4 \in Int /\ b \div 4 \in Int
  OBVIOUS
<1> QED BY <1>1, <1>2

\* The first element of a sequence, and the others.
LEMMA HeadAndTail ==
  ASSUME NEW S, NEW s \in Seq(S), s # <<>>
  PROVE  /\ Len(s) \in Nat \ {0} /\ 1 \in DOMAIN s
         /\ Head(s) = s[1] /\ Head(s) \in S
         /\ Tail(s) \in Seq(S)
         /\ DOMAIN Tail(s) = 1 .. Len(s) - 1
         /\ \A i \in DOMAIN Tail(s) : i + 1 \in DOMAIN s /\ Tail(s)[i] = s[i + 1]
<1>1. Len(s) \in Nat \ {0}
  BY EmptySeq
<1>2. Tail(s) \in Seq(S) /\ Len(Tail(s)) = Len(s) - 1
  OBVIOUS
<1>3. DOMAIN Tail(s) = 1 .. Len(s) - 1
  BY <1>2
<1>4. ASSUME NEW i \in DOMAIN Tail(s)
      PROVE  i + 1 \in DOMAIN s /\ Tail(s)[i] = s[i + 1]
  BY <1>1, <1>3
<1> QED BY <1>1, <1>2, <1>3, <1>4

\* One more element at the end of a sequence.
LEMMA Appended ==
  ASSUME NEW S, NEW s \in Seq(S), NEW e \in S
  PROVE  /\ Append(s, e) \in Seq(S)
         /\ Len(Append(s, e)) = Len(s) + 1
         /\ DOMAIN Append(s, e) = DOMAIN s \cup {Len(s) + 1}
         /\ Append(s, e)[Len(s) + 1] = e
         /\ \A i \in DOMAIN s : Append(s, e)[i] = s[i]
<1>1. Len(s) \in Nat /\ DOMAIN s = 1 .. Len(s)
  OBVIOUS
<1>2. 1 .. Len(s) + 1 = 1 .. Len(s) \cup {Len(s) + 1}
  BY <1>1
<1> QED BY <1>1, <1>2

-----------------------------------------------------------------------------
\* What a step leaves alone stays as it was.
LEMMA SameTally ==
  ASSUME TallyIsExact, HitsInv, UNCHANGED tally
  PROVE  TallyIsExact' /\ HitsInv'
BY DEF TallyIsExact, HitsInv, tally

LEMMA SameOrder ==
  ASSUME OrderInv, UNCHANGED <<stream, batch, tally>>
  PROVE  OrderInv'
BY DEF OrderInv, tally, NotBefore, BatchInOrder, BatchesInOrder

LEMMA SameRank ==
  ASSUME RankInv, UNCHANGED <<table, unvisited, chosen>>,
         pc' \in {"rank", "rankLast"} => pc \in {"rank", "rankLast"}
  PROVE  RankInv'
BY DEF RankInv, Best

\* A new iteration over the table has nothing to show for yet.
LEMMA FreshRank ==
  ASSUME chosen' = {}, DOMAIN table' \subseteq unvisited'
  PROVE  RankInv'
<1>1. IsFiniteSet({}) /\ Cardinality({}) = 0
  BY FS_EmptySet
<1>2. 0 <= MaxResults
  BY MatcherAssumption
<1> QED BY <1>1, <1>2 DEF RankInv, Best

-----------------------------------------------------------------------------
LEMMA InitIInv == Init => IInv
<1> SUFFICES ASSUME Init PROVE IInv
  OBVIOUS
<1>1. stream \in Seq(Seq(Fingerprint)) /\ stream # <<>>
  BY MatcherAssumption DEF Init
<1>2. DOMAIN table = {} /\ DOMAIN hits = {}
  BY DEF Init
<1>3. /\ batch = <<>> /\ batch \in Seq(Fingerprint) /\ DOMAIN batch = {}
      /\ results \in Seq(IndexEntry) /\ found \in Seq(IndexEntry)
  BY DEF Init
<1>4. cursor \in 1 .. Len(Index) + 1
  BY MatcherAssumption DEF Init
<1>5. table \in [DOMAIN table -> MatchResult] /\ hits \in [DOMAIN table -> Seq(Nat \X Nat)]
  BY <1>2 DEF Init
<1>6. TypeOK
  BY <1>1, <1>2, <1>3, <1>4, <1>5 DEF TypeOK, Init
<1>7. OrderInv
  BY <1>2, <1>3, MatcherAssumption DEF OrderInv, Init, BatchInOrder
<1>8. LoopInv /\ TallyIsExact /\ HitsInv /\ RankInv
  BY <1>1, <1>2 DEF LoopInv, TallyIsExact, HitsInv, RankInv, Init
<1> QED BY <1>6, <1>7, <1>8 DEF IInv

LEMMA ReceiveIInv == IInv /\ Receive => IInv'
<1> SUFFICES ASSUME IInv, Receive PROVE IInv'
  OBVIOUS
<1> USE DEF Receive
<1>0. /\ TypeOK /\ LoopInv /\ OrderInv /\ TallyIsExact /\ HitsInv /\ RankInv
      /\ stream # <<>> /\ stream \in Seq(Seq(Fingerprint))
  BY DEF IInv, LoopInv, TypeOK
<1>1. /\ batch' = stream[1] /\ 1 \in DOMAIN stream /\ batch' \in Seq(Fingerprint)
      /\ stream' \in Seq(Seq(Fingerprint))
      /\ Len(stream) \in Nat
      /\ DOMAIN stream' = 1 .. Len(stream) - 1
      /\ \A j \in DOMAIN stream' : j + 1 \in DOMAIN stream /\ stream'[j] = stream[j + 1]
  BY <1>0, HeadAndTail
<1>2. now' \in Nat \cup {None}
  <2>1. CASE batch' = <<>>
    BY <2>1
  <2>2. CASE batch' # <<>>
    <3>1. Len(batch') \in Nat \ {0}
      BY <1>1, <2>2, EmptySeq
    <3>2. batch'[Len(batch')] \in Fingerprint
      BY <1>1, <3>1
    <3> QED BY <2>2, <3>2 DEF Fingerprint
  <2> QED BY <2>1, <2>2
<1>3. TypeOK'
  BY <1>0, <1>1, <1>2 DEF TypeOK, lookup, tally, ranking
<1>4. LoopInv' /\ TallyIsExact' /\ HitsInv' /\ RankInv'
  BY <1>0, SameTally, SameRank DEF LoopInv, tally, ranking
<1>5. OrderInv'
  <2>1. BatchInOrder(batch')
    BY <1>0, <1>1 DEF OrderInv
  <2>2. \A j \in DOMAIN stream' : BatchInOrder(stream'[j])
    BY <1>0, <1>1 DEF OrderInv
  <2>3. BatchesInOrder(stream')
    <3> SUFFICES ASSUME NEW a \in DOMAIN stream', NEW b \in DOMAIN stream', a < b,
                        NEW k \in DOMAIN stream'[a], NEW l \in DOMAIN stream'[b]
                 PROVE  NotBefore(stream'[a][k].t1, stream'[b][l])
      BY DEF BatchesInOrder
    <3>1. a + 1 < b + 1
      BY <1>1
    <3> QED BY <1>0, <1>1, <3>1 DEF OrderInv, BatchesInOrder
  <2>4. ASSUME NEW k \in DOMAIN batch', NEW j \in DOMAIN stream', NEW l \in DOMAIN stream'[j]
        PROVE  NotBefore(batch'[k].t1, stream'[j][l])
    <3>1. 1 < j + 1
      BY <1>1
    <3> QED BY <1>0, <1>1, <3>1 DEF OrderInv, BatchesInOrder
  <2>5. ASSUME NEW k \in DOMAIN table', NEW i \in DOMAIN hits'[k]
        PROVE  /\ \A l \in DOMAIN batch' : NotBefore(hits'[k][i][1], batch'[l])
               /\ \A j \in DOMAIN stream' : \A l \in DOMAIN stream'[j] :
                     NotBefore(hits'[k][i][1], stream'[j][l])
               /\ table'[k].query >= hits'[k][i][1] - Overlap
    BY <1>0, <1>1 DEF OrderInv, tally
  <2> HIDE DEF Receive
  <2> QED BY <2>1, <2>2, <2>3, <2>4, <2>5 DEF OrderInv, BatchInOrder, BatchesInOrder, NotBefore
<1> QED BY <1>3, <1>4, <1>5 DEF IInv

LEMMA SetRangeIInv == IInv /\ SetRange => IInv'
<1> SUFFICES ASSUME IInv, SetRange PROVE IInv'
  OBVIOUS
<1> USE DEF SetRange
<1>1. /\ cursor' \in 1 .. Len(Index) + 1
      /\ results' \in Seq(IndexEntry) /\ found' \in Seq(IndexEntry)
  OBVIOUS
<1>2. TypeOK'
  BY <1>1 DEF IInv, TypeOK, query, tally, ranking
<1>3. LoopInv'
  BY DEF IInv, LoopInv, query, ranking
<1>4. OrderInv' /\ TallyIsExact' /\ HitsInv' /\ RankInv'
  BY SameTally, SameOrder, SameRank DEF IInv, query, tally, ranking
<1> QED BY <1>2, <1>3, <1>4 DEF IInv

LEMMA ExamineEntryIInv == IInv /\ ExamineEntry => IInv'
<1> SUFFICES ASSUME IInv, ExamineEntry PROVE IInv'
  OBVIOUS
<1> USE DEF ExamineEntry
<1>1. cursor \in 1 .. Len(Index) /\ Index \in Seq(IndexEntry)
  BY MatcherAssumption DEF IInv, TypeOK, InRange
<1>2. Index[cursor] \in IndexEntry /\ results \in Seq(IndexEntry)
  BY <1>1 DEF IInv, TypeOK
<1>3. results' \in Seq(IndexEntry)
  BY <1>2, Appended
<1>4. TypeOK'
  BY <1>1, <1>3 DEF IInv, TypeOK, query, tally, ranking
<1>5. LoopInv'
  BY DEF IInv, LoopInv, query, ranking
<1>6. OrderInv' /\ TallyIsExact' /\ HitsInv' /\ RankInv'
  BY SameTally, SameOrder, SameRank DEF IInv, query, tally, ranking
<1> QED BY <1>4, <1>5, <1>6 DEF IInv

LEMMA ExamineNoEntryIInv == IInv /\ ExamineNoEntry => IInv'
<1> SUFFICES ASSUME IInv, ExamineNoEntry PROVE IInv'
  OBVIOUS
<1> USE DEF ExamineNoEntry
<1>1. results' = results /\ found' = results
  BY DEF NoValue, NoEntry
<1>2. TypeOK'
  BY <1>1 DEF IInv, TypeOK, query, tally, ranking
<1>3. LoopInv'
  BY DEF IInv, LoopInv, query, ranking
<1>4. OrderInv' /\ TallyIsExact' /\ HitsInv' /\ RankInv'
  BY SameTally, SameOrder, SameRank DEF IInv, query, tally, ranking
<1> QED BY <1>2, <1>3, <1>4 DEF IInv

LEMMA FindEndsIInv == IInv /\ FindEnds => IInv'
<1> SUFFICES ASSUME IInv, FindEnds PROVE IInv'
  OBVIOUS
<1> USE DEF FindEnds
<1>1. TypeOK'
  BY DEF IInv, TypeOK, query, tally, ranking
<1>2. LoopInv'
  BY DEF IInv, LoopInv, query, ranking
<1>3. OrderInv' /\ TallyIsExact' /\ HitsInv' /\ RankInv'
  BY SameTally, SameOrder, SameRank DEF IInv, query, tally, ranking
<1> QED BY <1>1, <1>2, <1>3 DEF IInv

\* The tally of one hit: a match of its own, or one hit more for a match there is.
LEMMA TallyIInv == IInv /\ Tally => IInv'
<1> SUFFICES ASSUME IInv, Tally PROVE IInv'
  OBVIOUS
<1>0. /\ TypeOK /\ LoopInv /\ OrderInv /\ TallyIsExact /\ HitsInv /\ RankInv
      /\ pc = "tally" /\ batch # <<>> /\ batch \in Seq(Fingerprint)
      /\ results # <<>> /\ results \in Seq(IndexEntry)
      /\ table \in [DOMAIN table -> MatchResult]
      /\ hits \in [DOMAIN table -> Seq(Nat \X Nat)]
      /\ DOMAIN table \subseteq MatchKeys
  BY DEF IInv, LoopInv, TypeOK, Tally
<1> DEFINE q == Head(batch).t1
           e == Head(results)
           r == e.t1
           k == MatchKey(q, e)
           h0 == IF k \in DOMAIN hits THEN hits[k] ELSE <<>>
           m1 == IF k \in DOMAIN table THEN Tallied(table[k], q, r) ELSE FirstHit(q, r)
<1>1. /\ Head(batch) \in Fingerprint /\ Head(batch) = batch[1] /\ 1 \in DOMAIN batch
      /\ q \in Nat
  <2>1. Head(batch) \in Fingerprint /\ Head(batch) = batch[1] /\ 1 \in DOMAIN batch
    <3> HIDE DEF q, e, r, k, h0, m1
    <3> QED BY <1>0, HeadAndTail
  <2> QED BY <2>1 DEF Fingerprint
<1>2. e \in IndexEntry /\ r \in Nat /\ e.id \in Nat /\ Tail(results) \in Seq(IndexEntry)
  <2>1. Head(results) \in IndexEntry /\ Tail(results) \in Seq(IndexEntry)
    <3> HIDE DEF q, e, r, k, h0, m1
    <3> QED BY <1>0, HeadAndTail
  <2> QED BY <2>1 DEF IndexEntry
<1>3. k = <<e.id, (q - r) \div 4>> /\ k \in MatchKeys /\ k[2] = (q - r) \div 4
  <2>1. (q - r) \div 4 \in Int
    BY <1>1, <1>2
  <2> QED BY <1>2, <2>1 DEF MatchKey, MatchKeys
<1>4. DOMAIN hits = DOMAIN table
  BY <1>0
<1>5. /\ table' = [x \in DOMAIN table \cup {k} |-> IF x # k THEN table[x] ELSE m1]
      /\ hits' = [x \in DOMAIN table \cup {k} |-> IF x # k THEN hits[x] ELSE Append(h0, <<q, r>>)]
      /\ results' = Tail(results)
      /\ UNCHANGED <<pc, stream, batch, now, cursor, found, lastPrint, unvisited, chosen, report>>
  BY <1>4 DEF Tally, query, ranking
<1>6. h0 \in Seq(Nat \X Nat) /\ Len(h0) \in Nat
  BY <1>0, <1>4
<1>7. m1 \in MatchResult
  <2>1. CASE k \in DOMAIN table
    <3>1. table[k] \in MatchResult
      BY <1>0, <2>1
    <3> QED BY <1>1, <1>2, <2>1, <3>1 DEF MatchResult, Tallied
  <2>2. CASE k \notin DOMAIN table
    BY <1>1, <1>2, <2>2 DEF MatchResult, FirstHit
  <2> QED BY <2>1, <2>2
<1> DEFINE h1 == Append(h0, <<q, r>>)
<1>8. /\ h1 \in Seq(Nat \X Nat) /\ Len(h1) = Len(h0) + 1
      /\ DOMAIN h1 = DOMAIN h0 \cup {Len(h0) + 1} /\ DOMAIN h0 = 1 .. Len(h0)
      /\ h1[Len(h0) + 1] = <<q, r>>
      /\ \A i \in DOMAIN h0 : h1[i] = h0[i]
      /\ \A i \in DOMAIN h0 : h0[i] \in Nat \X Nat
  <2>1. <<q, r>> \in Nat \X Nat
    BY <1>1, <1>2
  <2> HIDE DEF h0, q, r
  <2> QED BY <1>6, <2>1, Appended
\* What the match says of its hits, old and new.
<1>9. k \notin DOMAIN table => h0 = <<>> /\ DOMAIN h0 = {}
  BY <1>4
<1>10. k \in DOMAIN table => h0 = hits[k] /\ m1 = Tallied(table[k], q, r)
  BY <1>4
<1>11. k \notin DOMAIN table => m1 = FirstHit(q, r)
  OBVIOUS
<1>12. /\ m1.count = Len(h1) /\ m1.count > 0
       /\ h1[Len(h1)] = <<m1.query, m1.reference>>
       /\ \A i \in DOMAIN h1 : m1.first <= h1[i][2] /\ h1[i][2] <= m1.last
       /\ \E i \in DOMAIN h1 : h1[i][2] = m1.first
       /\ \E i \in DOMAIN h1 : h1[i][2] = m1.last
  <2>1. <<q, r>>[1] = q /\ <<q, r>>[2] = r
    OBVIOUS
  <2> HIDE DEF q, r, k, h0, m1, h1
  <2>2. CASE k \notin DOMAIN table
    <3>1. Len(h0) = 0
      BY <1>9, <2>2
    <3> QED BY <1>1, <1>2, <1>8, <1>9, <1>11, <2>1, <2>2, <3>1 DEF FirstHit
  <2>3. CASE k \in DOMAIN table
    <3>1. /\ table[k] \in MatchResult
          /\ table[k].count = Len(h0) /\ table[k].count > 0
          /\ \A i \in DOMAIN h0 : table[k].first <= h0[i][2] /\ h0[i][2] <= table[k].last
          /\ \E i \in DOMAIN h0 : h0[i][2] = table[k].first
          /\ \E i \in DOMAIN h0 : h0[i][2] = table[k].last
      BY <1>0, <1>10, <2>3 DEF TallyIsExact
    <3>2. /\ table[k].first \in Nat /\ table[k].last \in Nat /\ table[k].count \in Nat
          /\ \A i \in DOMAIN h0 : h0[i][2] \in Nat
      BY <1>8, <3>1 DEF MatchResult
    <3>3. /\ m1.query = q /\ m1.reference = r /\ m1.count = table[k].count + 1
          /\ m1.first = IF r < table[k].first THEN r ELSE table[k].first
          /\ m1.last = IF r > table[k].last THEN r ELSE table[k].last
      BY <1>10, <2>3 DEF Tallied
    <3>4. m1.count = Len(h1) /\ m1.count > 0 /\ h1[Len(h1)] = <<m1.query, m1.reference>>
      BY <1>8, <3>1, <3>2, <3>3
    <3>5. ASSUME NEW i \in DOMAIN h1
          PROVE  m1.first <= h1[i][2] /\ h1[i][2] <= m1.last
      <4>1. CASE i \in DOMAIN h0
        <5>1. h1[i] = h0[i]
          BY <1>8, <4>1
        <5>2. h0[i][2] \in Nat /\ table[k].first <= h0[i][2] /\ h0[i][2] <= table[k].last
          BY <3>1, <3>2, <4>1
        <5>3. m1.first <= table[k].first /\ table[k].last <= m1.last
              /\ m1.first \in Nat /\ m1.last \in Nat
          BY <1>2, <3>2, <3>3
        <5>4. m1.first <= h0[i][2] /\ h0[i][2] <= m1.last
          BY <3>2, <5>2, <5>3
        <5> QED BY <5>1, <5>4
      <4>2. CASE i = Len(h0) + 1
        <5>1. h1[i] = <<q, r>>
          BY <1>8, <4>2
        <5>2. h1[i][2] = r
          BY <2>1, <5>1
        <5>3. m1.first <= r /\ r <= m1.last
          BY <1>2, <3>2, <3>3
        <5> QED BY <5>2, <5>3
      <4> QED BY <1>8, <4>1, <4>2
    <3>6. \E i \in DOMAIN h1 : h1[i][2] = m1.first
      <4>1. CASE r < table[k].first
        BY <1>8, <2>1, <3>3, <4>1
      <4>2. CASE ~(r < table[k].first)
        BY <1>8, <3>1, <3>3, <4>2
      <4> QED BY <4>1, <4>2
    <3>7. \E i \in DOMAIN h1 : h1[i][2] = m1.last
      <4>1. CASE r > table[k].last
        BY <1>8, <2>1, <3>3, <4>1
      <4>2. CASE ~(r > table[k].last)
        BY <1>8, <3>1, <3>3, <4>2
      <4> QED BY <4>1, <4>2
    <3> QED BY <3>4, <3>5, <3>6, <3>7
  <2> QED BY <2>2, <2>3
<1> HIDE DEF q, r, e, k, h0, m1
<1>13. /\ DOMAIN table' = DOMAIN table \cup {k} /\ DOMAIN hits' = DOMAIN table \cup {k}
       /\ table'[k] = m1 /\ hits'[k] = h1
       /\ \A x \in DOMAIN table : x # k => table'[x] = table[x] /\ hits'[x] = hits[x]
  BY <1>5
<1>14. TypeOK'
  <2>1. DOMAIN table' \subseteq MatchKeys
    BY <1>0, <1>3, <1>13
  <2>2. table' \in [DOMAIN table' -> MatchResult]
    BY <1>0, <1>5, <1>7, <1>13
  <2>3. hits' \in [DOMAIN table' -> Seq(Nat \X Nat)]
    <3> HIDE DEF h1
    <3> QED BY <1>0, <1>5, <1>8, <1>13 DEF h1
  <2> QED BY <1>0, <1>2, <1>5, <1>13, <2>1, <2>2, <2>3 DEF TypeOK
<1> HIDE DEF h1
<1>15. TallyIsExact'
  <2> SUFFICES ASSUME NEW x \in DOMAIN table'
      PROVE  /\ table'[x].count = Len(hits'[x]) /\ table'[x].count > 0
             /\ hits'[x][Len(hits'[x])] = <<table'[x].query, table'[x].reference>>
             /\ \A i \in DOMAIN hits'[x] : /\ table'[x].first <= hits'[x][i][2]
                                           /\ hits'[x][i][2] <= table'[x].last
             /\ \E i \in DOMAIN hits'[x] : hits'[x][i][2] = table'[x].first
             /\ \E i \in DOMAIN hits'[x] : hits'[x][i][2] = table'[x].last
    BY DEF TallyIsExact
  <2>1. CASE x = k
    BY <1>12, <1>13, <2>1
  <2>2. CASE x # k
    <3>1. x \in DOMAIN table /\ table'[x] = table[x] /\ hits'[x] = hits[x]
      BY <1>13, <2>2
    <3> QED BY <1>0, <3>1 DEF TallyIsExact
  <2> QED BY <2>1, <2>2
<1>16. HitsInv'
  <2> SUFFICES ASSUME NEW x \in DOMAIN table', NEW i \in DOMAIN hits'[x]
               PROVE  (hits'[x][i][1] - hits'[x][i][2]) \div 4 = x[2]
    BY DEF HitsInv
  <2>1. CASE x # k
    <3>1. x \in DOMAIN table /\ hits'[x] = hits[x]
      BY <1>13, <2>1
    <3> QED BY <1>0, <3>1 DEF HitsInv
  <2>2. CASE x = k /\ i \in DOMAIN h0
    <3>1. k \in DOMAIN table
      BY <1>9, <2>2
    <3>2. hits'[x][i] = hits[k][i] /\ i \in DOMAIN hits[k]
      BY <1>8, <1>10, <1>13, <2>2, <3>1
    <3> QED BY <1>0, <2>2, <3>1, <3>2 DEF HitsInv
  <2>3. CASE x = k /\ i = Len(h0) + 1
    <3>1. hits'[x][i] = <<q, r>>
      BY <1>8, <1>13, <2>3
    <3>2. hits'[x][i][1] = q /\ hits'[x][i][2] = r
      BY <3>1
    <3> QED BY <1>3, <2>3, <3>2
  <2> QED BY <1>8, <1>13, <2>1, <2>2, <2>3
<1>17. OrderInv'
  <2>1. q \in Nat /\ Overlap \in Nat
    BY <1>1, MatcherAssumption
  <2>2. batch[1].t1 = q /\ 1 \in DOMAIN batch
    BY <1>1 DEF q
  <2>3. \A l \in DOMAIN batch : NotBefore(q, batch[l])
    <3> SUFFICES ASSUME NEW l \in DOMAIN batch PROVE NotBefore(q, batch[l])
      OBVIOUS
    <3>1. CASE l = 1
      BY <2>1, <2>2, <3>1 DEF NotBefore
    <3>2. CASE l # 1
      <4>1. 1 < l
        BY <1>0, <3>2
      <4> QED BY <1>0, <2>2, <4>1 DEF OrderInv, BatchInOrder
    <3> QED BY <3>1, <3>2
  <2>4. \A j \in DOMAIN stream : \A l \in DOMAIN stream[j] : NotBefore(q, stream[j][l])
    BY <1>0, <2>2 DEF OrderInv
  <2>5. m1.query = q
    <3>1. CASE k \in DOMAIN table
      BY <1>10, <3>1 DEF Tallied
    <3>2. CASE k \notin DOMAIN table
      BY <1>11, <3>2 DEF FirstHit
    <3> QED BY <3>1, <3>2
  <2>6. ASSUME NEW x \in DOMAIN table', NEW i \in DOMAIN hits'[x]
        PROVE  /\ \A l \in DOMAIN batch : NotBefore(hits'[x][i][1], batch[l])
               /\ \A j \in DOMAIN stream : \A l \in DOMAIN stream[j] :
                     NotBefore(hits'[x][i][1], stream[j][l])
               /\ table'[x].query >= hits'[x][i][1] - Overlap
    <3>1. CASE x # k
      <4>1. x \in DOMAIN table /\ table'[x] = table[x] /\ hits'[x] = hits[x]
        BY <1>13, <3>1
      <4> QED BY <1>0, <4>1 DEF OrderInv
    <3>2. CASE x = k /\ i \in DOMAIN h0
      <4>1. k \in DOMAIN table
        BY <1>9, <3>2
      <4>2. hits'[x][i] = hits[k][i] /\ i \in DOMAIN hits[k] /\ table'[x] = m1
        BY <1>8, <1>10, <1>13, <3>2, <4>1
      <4>3. NotBefore(hits[k][i][1], batch[1])
        BY <1>0, <2>2, <4>1, <4>2 DEF OrderInv
      <4>4. q >= hits[k][i][1] - Overlap
        BY <2>2, <4>3 DEF NotBefore
      <4> QED BY <1>0, <2>5, <4>1, <4>2, <4>4 DEF OrderInv
    <3>3. CASE x = k /\ i = Len(h0) + 1
      <4>1. hits'[x][i] = <<q, r>> /\ table'[x] = m1
        BY <1>8, <1>13, <3>3
      <4>2. hits'[x][i][1] = q
        BY <4>1
      <4> QED BY <2>1, <2>3, <2>4, <2>5, <4>1, <4>2
    <3> QED BY <1>8, <1>13, <3>1, <3>2, <3>3
  <2>7. stream' = stream /\ batch' = batch
    BY <1>5
  <2> QED BY <1>0, <2>6, <2>7 DEF OrderInv, NotBefore, BatchInOrder, BatchesInOrder
<1>18. LoopInv' /\ RankInv'
  BY <1>0, <1>5 DEF LoopInv, RankInv
<1> QED BY <1>14, <1>15, <1>16, <1>17, <1>18 DEF IInv

LEMMA NextFingerprintIInv == IInv /\ NextFingerprint => IInv'
<1> SUFFICES ASSUME IInv, NextFingerprint PROVE IInv'
  OBVIOUS
<1>0. /\ TypeOK /\ LoopInv /\ OrderInv /\ TallyIsExact /\ HitsInv /\ RankInv
      /\ batch # <<>> /\ batch \in Seq(Fingerprint)
  BY DEF IInv, LoopInv, TypeOK, NextFingerprint
<1>1. /\ batch' = Tail(batch) /\ pc' = "match"
      /\ UNCHANGED <<stream, now, cursor, results, found, table, hits, lastPrint,
                     unvisited, chosen, report>>
  BY DEF NextFingerprint, lookup, tally, ranking
<1>2. /\ batch' \in Seq(Fingerprint)
      /\ DOMAIN batch' = 1 .. Len(batch) - 1 /\ Len(batch) \in Nat
      /\ \A l \in DOMAIN batch' : l + 1 \in DOMAIN batch /\ batch'[l] = batch[l + 1]
  BY <1>0, <1>1, HeadAndTail
<1>3. TypeOK'
  BY <1>0, <1>1, <1>2 DEF TypeOK
<1>4. LoopInv' /\ TallyIsExact' /\ HitsInv' /\ RankInv'
  BY <1>0, <1>1, SameTally, SameRank DEF NextFingerprint, LoopInv, tally
<1>5. OrderInv'
  <2>1. BatchInOrder(batch')
    <3> SUFFICES ASSUME NEW k \in DOMAIN batch', NEW l \in DOMAIN batch', k < l
                 PROVE  NotBefore(batch'[k].t1, batch'[l])
      BY DEF BatchInOrder
    <3>1. k + 1 < l + 1
      BY <1>2
    <3> QED BY <1>0, <1>2, <3>1 DEF OrderInv, BatchInOrder
  <2>2. \A k \in DOMAIN batch' : \A j \in DOMAIN stream : \A l \in DOMAIN stream[j] :
          NotBefore(batch'[k].t1, stream[j][l])
    BY <1>0, <1>2 DEF OrderInv
  <2>3. ASSUME NEW k \in DOMAIN table, NEW i \in DOMAIN hits[k]
        PROVE  \A l \in DOMAIN batch' : NotBefore(hits[k][i][1], batch'[l])
    BY <1>0, <1>2 DEF OrderInv
  <2> QED BY <1>0, <1>1, <2>1, <2>2, <2>3 DEF OrderInv, NotBefore, BatchInOrder, BatchesInOrder
<1> QED BY <1>3, <1>4, <1>5 DEF IInv

LEMMA BatchMatchedIInv == IInv /\ BatchMatched => IInv'
<1> SUFFICES ASSUME IInv, BatchMatched PROVE IInv'
  OBVIOUS
<1>1. UNCHANGED <<query, lookup, tally, report>> /\ pc = "match"
  BY DEF BatchMatched
<1>2. OrderInv' /\ TallyIsExact' /\ HitsInv'
  BY <1>1, SameTally, SameOrder DEF IInv, query, tally
<1>3. CASE PrintIsDue
  <2>1. pc' = "rank" /\ lastPrint' = now /\ unvisited' = DOMAIN table /\ chosen' = {}
    BY <1>3 DEF BatchMatched, StartRanking
  <2>2. TypeOK'
    BY <1>1, <1>3, <2>1 DEF IInv, TypeOK, PrintIsDue, query, lookup, tally
  <2>3. RankInv'
    BY <1>1, <2>1, FreshRank DEF tally
  <2> QED BY <1>2, <2>1, <2>2, <2>3 DEF IInv, LoopInv
<1>4. CASE ~PrintIsDue
  <2>1. pc' = "forget" /\ UNCHANGED <<lastPrint, ranking>>
    BY <1>4 DEF BatchMatched
  <2>2. TypeOK'
    BY <1>1, <2>1 DEF IInv, TypeOK, query, lookup, tally, ranking
  <2> QED BY <1>1, <1>2, <2>1, <2>2 DEF IInv, LoopInv, RankInv, ranking
<1> QED BY <1>3, <1>4

LEMMA ForgetIInv == IInv /\ Forget => IInv'
<1> SUFFICES ASSUME IInv, Forget PROVE IInv'
  OBVIOUS
<1>0. TypeOK /\ OrderInv /\ TallyIsExact /\ HitsInv /\ RankInv /\ pc = "forget"
  BY DEF IInv, Forget
<1>1. Kept \subseteq DOMAIN table
  BY DEF Kept
<1>2. /\ DOMAIN table' = Kept /\ DOMAIN hits' = Kept
      /\ \A k \in Kept : table'[k] = table[k] /\ hits'[k] = hits[k]
      /\ UNCHANGED <<stream, batch, now, cursor, results, found, lastPrint, report>>
  BY DEF Forget, query, lookup
<1>3. /\ table' = [k \in Kept |-> table[k]] /\ table' \in [Kept -> MatchResult]
      /\ hits' = [k \in Kept |-> hits[k]] /\ hits' \in [Kept -> Seq(Nat \X Nat)]
  BY <1>0, <1>1 DEF Forget, TypeOK
<1>4. TallyIsExact'
  BY <1>0, <1>1, <1>2 DEF TallyIsExact
<1>5. HitsInv'
  BY <1>0, <1>1, <1>2 DEF HitsInv
<1>6. OrderInv'
  <2>1. ASSUME NEW k \in DOMAIN table', NEW i \in DOMAIN hits'[k]
        PROVE  /\ \A l \in DOMAIN batch : NotBefore(hits'[k][i][1], batch[l])
               /\ \A j \in DOMAIN stream : \A l \in DOMAIN stream[j] :
                     NotBefore(hits'[k][i][1], stream[j][l])
               /\ table'[k].query >= hits'[k][i][1] - Overlap
    BY <1>0, <1>1, <1>2 DEF OrderInv
  <2> QED BY <1>0, <1>2, <2>1 DEF OrderInv, NotBefore, BatchInOrder, BatchesInOrder
<1>7. CASE stream = <<>>
  <2>1. unvisited' = Kept /\ chosen' = {} /\ pc' = "rankLast"
    BY <1>7 DEF Forget, StartRanking
  <2>2. TypeOK'
    BY <1>0, <1>1, <1>2, <1>3, <2>1 DEF TypeOK
  <2>3. RankInv'
    BY <1>2, <2>1, FreshRank
  <2> QED BY <1>4, <1>5, <1>6, <2>1, <2>2, <2>3 DEF IInv, LoopInv
<1>8. CASE stream # <<>>
  <2>1. UNCHANGED ranking /\ pc' = "receive"
    BY <1>8 DEF Forget
  <2>2. unvisited = {} /\ chosen = {}
    BY <1>0 DEF IInv, LoopInv
  <2>3. TypeOK'
    BY <1>0, <1>1, <1>2, <1>3, <2>1, <2>2 DEF TypeOK, ranking
  <2> QED BY <1>2, <1>4, <1>5, <1>6, <1>8, <2>1, <2>2, <2>3 DEF IInv, LoopInv, RankInv, ranking
<1> QED BY <1>7, <1>8

\* The list stays the best of those passed: the least of a full list has no
\* more hits than any other in it, and none left out has more than that.
LEMMA RankMatchIInv == ASSUME NEW k \in unvisited, IInv, RankMatch(k) PROVE IInv'
<1>0. /\ TypeOK /\ LoopInv /\ OrderInv /\ TallyIsExact /\ HitsInv /\ RankInv
      /\ pc \in {"rank", "rankLast"} /\ k \in unvisited /\ k \in DOMAIN table
  BY DEF IInv, TypeOK, RankMatch
<1>1. /\ unvisited' = unvisited \ {k}
      /\ UNCHANGED <<pc, stream, batch, now, cursor, results, found, table, hits, lastPrint, report>>
  BY DEF RankMatch, query, lookup, tally
<1>2. /\ IsFiniteSet(chosen) /\ chosen \subseteq DOMAIN table \ unvisited
      /\ Cardinality(chosen) <= MaxResults /\ Cardinality(chosen) \in Nat
      /\ k \notin chosen
      /\ \A x \in chosen : table[x].count >= MinMatchCount
      /\ \A x \in (DOMAIN table \ unvisited) \ chosen :
           table[x].count >= MinMatchCount =>
             /\ Cardinality(chosen) = MaxResults
             /\ \A y \in chosen : table[y].count >= table[x].count
  <2>1. IsFiniteSet(chosen) /\ Best(chosen, DOMAIN table \ unvisited)
    BY <1>0 DEF RankInv
  <2> QED BY <1>0, <2>1, FS_CardinalityType DEF Best
<1>3. DOMAIN table \ unvisited' = (DOMAIN table \ unvisited) \cup {k}
  BY <1>0, <1>1
<1>4. \A x \in DOMAIN table : table[x].count \in Nat
  BY <1>0 DEF TypeOK, MatchResult
<1>5. MinMatchCount \in Nat /\ MaxResults \in Nat
  BY MatcherAssumption
<1>6. /\ chosen' \subseteq DOMAIN table \ unvisited' /\ IsFiniteSet(chosen')
      /\ Cardinality(chosen') <= MaxResults
      /\ \A x \in chosen' : table[x].count >= MinMatchCount
      /\ \A x \in (DOMAIN table \ unvisited') \ chosen' :
           table[x].count >= MinMatchCount =>
             /\ Cardinality(chosen') = MaxResults
             /\ \A y \in chosen' : table[y].count >= table[x].count
  <2>1. CASE table[k].count < MinMatchCount /\ chosen' = chosen
    BY <1>2, <1>3, <1>4, <1>5, <2>1
  <2>2. CASE /\ table[k].count >= MinMatchCount
             /\ Cardinality(chosen) # MaxResults
             /\ chosen' = chosen \cup {k}
    <3>1. IsFiniteSet(chosen') /\ Cardinality(chosen') = Cardinality(chosen) + 1
      BY <1>2, <2>2, FS_AddElement
    <3>2. Cardinality(chosen') <= MaxResults
      BY <1>2, <1>5, <2>2, <3>1
    <3>3. \A x \in (DOMAIN table \ unvisited') \ chosen' : ~(table[x].count >= MinMatchCount)
      BY <1>2, <1>3, <2>2
    <3> QED BY <1>2, <1>3, <2>2, <3>1, <3>2, <3>3
  <2>3. ASSUME NEW least \in Least(chosen),
               table[k].count >= MinMatchCount, Cardinality(chosen) = MaxResults,
               table[k].count > table[least].count,
               chosen' = (chosen \ {least}) \cup {k}
        PROVE  /\ chosen' \subseteq DOMAIN table \ unvisited' /\ IsFiniteSet(chosen')
               /\ Cardinality(chosen') = MaxResults
               /\ \A x \in chosen' : table[x].count >= MinMatchCount
               /\ \A x \in (DOMAIN table \ unvisited') \ chosen' :
                    table[x].count >= MinMatchCount =>
                      \A y \in chosen' : table[y].count >= table[x].count
    <3>1. least \in chosen /\ \A x \in chosen : table[least].count <= table[x].count
      BY DEF Least
    <3>2. /\ IsFiniteSet(chosen \ {least}) /\ k \notin chosen \ {least}
          /\ Cardinality(chosen \ {least}) = Cardinality(chosen) - 1
      BY <1>2, <3>1, FS_RemoveElement
    <3>3. /\ IsFiniteSet((chosen \ {least}) \cup {k})
          /\ Cardinality((chosen \ {least}) \cup {k}) = Cardinality(chosen \ {least}) + 1
      BY <3>2, FS_AddElement
    <3>4. Cardinality(chosen') = MaxResults
      BY <1>2, <1>5, <2>3, <3>2, <3>3
    <3>5. ASSUME NEW x \in (DOMAIN table \ unvisited') \ chosen',
                 table[x].count >= MinMatchCount
          PROVE  \A y \in chosen' : table[y].count >= table[x].count
      <4>1. least \in DOMAIN table /\ table[least].count \in Nat /\ table[k].count \in Nat
            /\ table[x].count \in Nat
        BY <1>0, <1>2, <1>4, <3>1, <3>5
      <4>2. \A y \in chosen : table[y].count >= table[x].count
        <5>1. CASE x = least
          BY <1>2, <1>4, <3>1, <5>1
        <5>2. CASE x # least
          BY <1>2, <1>3, <2>3, <3>5, <5>2
        <5> QED BY <5>1, <5>2
      <4>3. table[k].count >= table[x].count
        BY <2>3, <3>1, <4>1, <4>2
      <4> QED BY <2>3, <4>2, <4>3
    <3> QED BY <1>2, <1>3, <2>3, <3>1, <3>3, <3>4, <3>5
  <2>4. CASE /\ table[k].count >= MinMatchCount
             /\ Cardinality(chosen) = MaxResults
             /\ \E least \in Least(chosen) :
                  chosen' = IF table[k].count > table[least].count
                              THEN (chosen \ {least}) \cup {k} ELSE chosen
    <3>1. PICK least \in Least(chosen) :
             chosen' = IF table[k].count > table[least].count
                         THEN (chosen \ {least}) \cup {k} ELSE chosen
      BY <2>4
    <3>2. CASE table[k].count > table[least].count
      <4>1. chosen' = (chosen \ {least}) \cup {k}
        BY <3>1, <3>2
      <4>2. MaxResults <= MaxResults
        BY <1>5
      <4> QED BY <2>3, <2>4, <3>2, <4>1, <4>2
    <3>3. CASE ~(table[k].count > table[least].count)
      <4>1. chosen' = chosen
        BY <3>1, <3>3
      <4>2. least \in chosen /\ \A x \in chosen : table[least].count <= table[x].count
        BY DEF Least
      <4>3. \A y \in chosen : table[y].count >= table[k].count
        BY <1>0, <1>2, <1>4, <3>3, <4>2
      <4> QED BY <1>2, <1>3, <2>4, <4>1, <4>3
    <3> QED BY <3>2, <3>3
  <2> QED BY <2>1, <2>2, <2>4 DEF RankMatch
<1>7. RankInv'
  BY <1>1, <1>6 DEF RankInv, Best
<1>8. TypeOK'
  BY <1>0, <1>1, <1>6 DEF TypeOK
<1>9. LoopInv' /\ TallyIsExact' /\ HitsInv' /\ OrderInv'
  BY <1>0, <1>1, SameTally, SameOrder DEF LoopInv, tally
<1> QED BY <1>7, <1>8, <1>9 DEF IInv

LEMMA ReportIInv == IInv /\ Report => IInv'
<1> SUFFICES ASSUME IInv, Report PROVE IInv'
  OBVIOUS
<1>1. /\ unvisited' = {} /\ chosen' = {} /\ pc' \in {"forget", "done"}
      /\ UNCHANGED <<stream, batch, now, cursor, results, found, table, hits, lastPrint>>
  BY DEF Report, query, lookup, tally
<1>2. TypeOK'
  BY <1>1 DEF IInv, TypeOK
<1>3. LoopInv' /\ RankInv'
  BY <1>1 DEF IInv, LoopInv, RankInv
<1>4. TallyIsExact' /\ HitsInv' /\ OrderInv'
  BY <1>1, SameTally, SameOrder DEF IInv, tally
<1> QED BY <1>2, <1>3, <1>4 DEF IInv

LEMMA StutterIInv == IInv /\ UNCHANGED vars => IInv'
<1> SUFFICES ASSUME IInv, UNCHANGED vars PROVE IInv'
  OBVIOUS
<1>1. UNCHANGED <<pc, stream, batch, now, cursor, results, found, table, hits, lastPrint,
                  unvisited, chosen, report>>
  BY DEF vars
<1>2. TypeOK' /\ LoopInv'
  BY <1>1 DEF IInv, TypeOK, LoopInv
<1>3. TallyIsExact' /\ HitsInv' /\ OrderInv' /\ RankInv'
  BY <1>1, SameTally, SameOrder, SameRank DEF IInv, tally
<1> QED BY <1>2, <1>3 DEF IInv

LEMMA NextIInv == IInv /\ [Next]_vars => IInv'
<1> SUFFICES ASSUME IInv, [Next]_vars PROVE IInv'
  OBVIOUS
<1>1. CASE \E k \in unvisited : RankMatch(k)
  BY <1>1, RankMatchIInv
<1> QED BY <1>1, ReceiveIInv, SetRangeIInv, ExamineEntryIInv, ExamineNoEntryIInv, FindEndsIInv, TallyIInv,
           NextFingerprintIInv, BatchMatchedIInv, ForgetIInv, ReportIInv, StutterIInv DEF Next

-----------------------------------------------------------------------------
\* The inductive invariant of the matcher, of olaf_fp_matcher.c and
\* olaf_db_find, holds for every index, stream and configuration.
THEOREM Invariance == Spec => []IInv
<1>1. Init => IInv
  BY InitIInv
<1>2. IInv /\ [Next]_vars => IInv'
  BY NextIInv
<1> QED BY <1>1, <1>2, PTL DEF Spec

\* The cursor never leaves the index, and the table and the times in it are
\* what the code takes them for.
THEOREM TypeCorrect == Spec => []TypeOK
<1>1. IInv => TypeOK
  BY DEF IInv
<1> QED BY <1>1, Invariance, PTL

\* A match_result says of its hits what its fields promise, in whatever order
\* olaf_fp_matcher_tally_results sees them.
THEOREM TalliesAreExact == Spec => []TallyIsExact
<1>1. IInv => TallyIsExact
  BY DEF IInv
<1> QED BY <1>1, Invariance, PTL

\* Query times that are derived from the last hit of a match are less than four
\* blocks off for each of its hits: the price of the shift by two bits.
THEOREM ReportedTimesAreClose == Spec => []QueryTimesAreClose
<1>1. IInv => QueryTimesAreClose
  <2> SUFFICES ASSUME IInv, NEW k \in DOMAIN table, NEW i \in DOMAIN hits[k]
               PROVE  ReportedTime(table[k], hits[k][i]) - hits[k][i][1] \in -3 .. 3
    BY DEF QueryTimesAreClose
  <2>1. /\ hits[k] \in Seq(Nat \X Nat) /\ table[k] \in MatchResult
        /\ hits[k][Len(hits[k])] = <<table[k].query, table[k].reference>>
        /\ Len(hits[k]) > 0
    BY DEF IInv, TypeOK, TallyIsExact
  <2>2. Len(hits[k]) \in DOMAIN hits[k]
    BY <2>1
  <2>3. /\ hits[k][i][1] \in Nat /\ hits[k][i][2] \in Nat
        /\ table[k].query \in Nat /\ table[k].reference \in Nat
    BY <2>1, SMTT(30) DEF MatchResult
  <2>4. /\ (hits[k][i][1] - hits[k][i][2]) \div 4 = k[2]
        /\ (table[k].query - table[k].reference) \div 4 = k[2]
    BY <2>1, <2>2 DEF IInv, HitsInv
  <2>5. (table[k].query - table[k].reference) - (hits[k][i][1] - hits[k][i][2]) \in -3 .. 3
    <3>1. \A a, b \in Int : a \div 4 = b \div 4 => a - b \in -3 .. 3
      BY SameQuarter
    <3>2. /\ table[k].query - table[k].reference \in Int
          /\ hits[k][i][1] - hits[k][i][2] \in Int
      BY <2>3
    <3>3. (table[k].query - table[k].reference) \div 4
            = (hits[k][i][1] - hits[k][i][2]) \div 4
      BY <2>4
    <3> QED BY <3>1, <3>2, <3>3
  <2> QED BY <2>3, <2>5 DEF ReportedTime
<1> QED BY <1>1, Invariance, PTL

\* olaf_fp_matcher_print_results ends with the best matches of the table,
\* whatever the order of the iteration and of equal counts.
THEOREM BestOnesReported == Spec => []BestAreReported
<1>1. IInv => BestAreReported
  <2> SUFFICES ASSUME IInv, pc \in {"rank", "rankLast"}, unvisited = {}
               PROVE  Best(chosen, DOMAIN table)
    BY DEF BestAreReported
  <2>1. DOMAIN table \ unvisited = DOMAIN table
    OBVIOUS
  <2> QED BY <2>1 DEF IInv, RankInv
<1> QED BY <1>1, Invariance, PTL

\* olaf_fp_matcher_remove_old_matches never forgets a match that was hit within
\* keepMatchesFor, less the overlap of the batches.
THEOREM OnlyOldOnesForgotten == Spec => ForgottenWereOld
<1> DEFINE Old == \A k \in DOMAIN table \ DOMAIN table' :
                    \A i \in DOMAIN hits[k] : now - hits[k][i][1] > KeepMatchesFor - Overlap
<1>1. IInv /\ [Next]_vars => Old
  <2> SUFFICES ASSUME IInv, [Next]_vars,
                      NEW k \in DOMAIN table \ DOMAIN table', NEW i \in DOMAIN hits[k]
               PROVE  now - hits[k][i][1] > KeepMatchesFor - Overlap
    OBVIOUS
  <2>1. CASE Tally
    BY <2>1 DEF Tally
  <2>2. CASE Forget
    <3>1. k \notin Kept
      BY <2>2 DEF Forget
    <3>2. now # None /\ now - table[k].query > KeepMatchesFor
      BY <3>1 DEF Kept, TooOld
    <3>3. /\ now \in Nat /\ table[k] \in MatchResult /\ hits[k] \in Seq(Nat \X Nat)
          /\ table[k].query >= hits[k][i][1] - Overlap
      BY <3>2 DEF IInv, TypeOK, OrderInv
    <3>4. table[k].query \in Nat /\ hits[k][i][1] \in Nat
      BY <3>3 DEF MatchResult
    <3>5. Overlap \in Nat /\ KeepMatchesFor \in Nat
      BY MatcherAssumption
    <3>6. \A n, a, b, o, m \in Nat : n - a > m /\ a >= b - o => n - b > m - o
      OBVIOUS
    <3> QED BY <3>2, <3>3, <3>4, <3>5, <3>6
  <2>3. CASE UNCHANGED table
    BY <2>3
  <2>4. CASE \E x \in unvisited : RankMatch(x)
    BY <2>3, <2>4 DEF RankMatch, tally
  <2> QED BY <2>1, <2>2, <2>3, <2>4 DEF Next, Receive, SetRange, ExamineEntry, ExamineNoEntry, FindEnds,
            NextFingerprint, BatchMatched, Report, tally, vars
<1> QED BY <1>1, Invariance, PTL DEF Spec, ForgottenWereOld

-----------------------------------------------------------------------------
\* The lookup in the index.

LEMMA IndexFacts ==
  /\ Index \in Seq(IndexEntry) /\ Len(Index) \in Nat
  /\ DOMAIN Index = 1 .. Len(Index)
  /\ \A i \in DOMAIN Index : Index[i] \in IndexEntry /\ Index[i].key \in Nat
  /\ \A i, j \in DOMAIN Index : i < j => Index[i].key <= Index[j].key
  /\ \A i, j \in DOMAIN Index : Index[i] = Index[j] => i = j
<1>1. Index \in Seq(IndexEntry)
  BY MatcherAssumption
<1>2. Len(Index) \in Nat /\ DOMAIN Index = 1 .. Len(Index)
  BY <1>1
<1>3. \A i \in DOMAIN Index : Index[i] \in IndexEntry
  BY <1>1, <1>2
<1>4. \A i \in DOMAIN Index : Index[i].key \in Nat
  BY <1>3 DEF IndexEntry
<1> QED BY <1>1, <1>2, <1>3, <1>4, MatcherAssumption

\* The hash that is looked up.
LEMMA HashType ==
  ASSUME TypeOK, batch # <<>>
  PROVE  Head(batch).hash \in Nat
<1>1. Head(batch) \in Fingerprint
  BY HeadAndTail DEF TypeOK
<1> QED BY <1>1 DEF Fingerprint

\* A lookup finds finitely many entries.
LEMMA WantedIsFinite ==
  ASSUME NEW f
  PROVE  IsFiniteSet(Wanted(f)) /\ Cardinality(Wanted(f)) \in Nat
<1>1. IsFiniteSet(1 .. Len(Index))
  BY IndexFacts, FS_Interval
<1>2. Wanted(f) \subseteq 1 .. Len(Index)
  BY IndexFacts DEF Wanted
<1> QED BY <1>1, <1>2, FS_Subset, FS_CardinalityType

LEMMA PassedIsFinite ==
  /\ IsFiniteSet(Passed) /\ Cardinality(Passed) \in Nat
  /\ Passed \subseteq Wanted(Head(batch))
  /\ Cardinality(Passed) <= Cardinality(Wanted(Head(batch)))
<1>1. Passed \subseteq Wanted(Head(batch))
  BY DEF Passed
<1> QED BY <1>1, WantedIsFinite, FS_Subset, FS_CardinalityType

LEMMA SetRangeLookup == ASSUME IInv, SetRange PROVE LookupInv'
<1>1. /\ pc' \in {"find", "notFound"} /\ batch' = batch /\ results' = <<>> /\ batch # <<>>
      /\ cursor' \in 1 .. Len(Index) + 1
      /\ pc' = "notFound" => ~(cursor' <= Len(Index))
      /\ \A j \in 1 .. cursor' - 1 : Index[j].key < Head(batch).hash - SearchRange
      /\ cursor' <= Len(Index) => Index[cursor'].key >= Head(batch).hash - SearchRange
  BY DEF SetRange, query
<1>2. Head(batch).hash \in Nat /\ SearchRange \in Nat /\ MaxDBCollisions \in Nat
  BY <1>1, HashType, MatcherAssumption DEF IInv
<1>3. \A i \in 1 .. cursor' - 1 : Index[i].key <= Head(batch).hash + SearchRange
  <2>1. \A i \in 1 .. cursor' - 1 : Index[i].key \in Nat
    <3>1. 1 .. cursor' - 1 \subseteq 1 .. Len(Index)
      <4> DEFINE c == cursor'
                 n == Len(Index)
      <4>1. n \in Nat /\ c \in 1 .. n + 1
        BY <1>1, IndexFacts
      <4> HIDE DEF c, n
      <4>2. 1 .. c - 1 \subseteq 1 .. n
        BY <4>1
      <4> QED BY <4>2 DEF c, n
    <3>2. DOMAIN Index = 1 .. Len(Index)
      BY IndexFacts
    <3>3. \A i \in DOMAIN Index : Index[i].key \in Nat
      BY IndexFacts
    <3>4. \A i \in 1 .. cursor' - 1 : i \in DOMAIN Index
      BY <3>1, <3>2, Zenon
    <3> QED BY <3>3, <3>4, Zenon
  <2>2. \A i \in 1 .. cursor' - 1 : Index[i].key < Head(batch).hash - SearchRange
    BY <1>1
  <2>3. \A k, h, r \in Nat : k < h - r => k <= h + r
    OBVIOUS
  <2> QED BY <1>2, <2>1, <2>2, <2>3
<1>4. \A i \in cursor' .. Len(Index) : Index[i].key >= Head(batch).hash - SearchRange
  <2> SUFFICES ASSUME NEW i \in cursor' .. Len(Index)
               PROVE  Index[i].key >= Head(batch).hash - SearchRange
    OBVIOUS
  <2>1. cursor' \in DOMAIN Index /\ i \in DOMAIN Index /\ cursor' <= i
    BY <1>1, IndexFacts
  <2>2. Index[cursor'].key <= Index[i].key
    BY <2>1, IndexFacts
  <2> QED BY <1>1, <1>2, <2>1, <2>2, IndexFacts
<1>5. Passed' = {}
  <2> SUFFICES ASSUME NEW i \in Wanted(Head(batch)), i < cursor' PROVE FALSE
    BY <1>1 DEF Passed
  <2>1. i \in DOMAIN Index /\ Index[i].key \in Head(batch).hash - SearchRange .. Head(batch).hash + SearchRange
    BY DEF Wanted
  <2>2. i \in 1 .. cursor' - 1
    BY <1>1, <2>1, IndexFacts
  <2>3. Index[i].key < Head(batch).hash - SearchRange
    BY <1>1, <2>2
  <2>4. Index[i].key \in Nat /\ Index[i].key >= Head(batch).hash - SearchRange
    BY <1>2, <2>1, IndexFacts
  <2> QED BY <1>2, <2>3, <2>4
<1>6. Range(results') = {} /\ DOMAIN results' = {} /\ Len(results') = 0
  BY <1>1 DEF Range
<1>7. /\ Range(results') = {Index[i] : i \in Passed'}
      /\ \A i, j \in DOMAIN results' : results'[i] = results'[j] => i = j
      /\ Len(results') = Cardinality(Passed')
      /\ Len(results') <= MaxDBCollisions
  BY <1>2, <1>5, <1>6, FS_EmptySet
<1>8. FindInv'
  <2>1. pc' = "notFound" => cursor' > Len(Index)
    BY <1>1, IndexFacts
  <2> QED BY <1>1, <1>3, <1>4, <1>7, <2>1 DEF FindInv
<1> QED BY <1>1, <1>8 DEF LookupInv, LookupIsComplete

LEMMA ExamineEntryLookup == ASSUME IInv, LookupInv, ExamineEntry PROVE LookupInv'
<1>1. /\ pc = "find" /\ pc' = "find" /\ batch' = batch /\ batch # <<>> /\ cursor' = cursor + 1
      /\ cursor \in 1 .. Len(Index) /\ results \in Seq(IndexEntry)
      /\ Index[cursor].key <= Head(batch).hash + SearchRange
      /\ Len(results) < MaxDBCollisions
      /\ results' = IF NoValue(Index[cursor]) THEN results ELSE Append(results, Index[cursor])
  BY IndexFacts DEF ExamineEntry, InRange, query, IInv, TypeOK, LoopInv
<1>2. Head(batch).hash \in Nat /\ SearchRange \in Nat /\ MaxDBCollisions \in Nat
  BY <1>1, HashType, MatcherAssumption DEF IInv
<1>3. /\ \A i \in 1 .. cursor - 1 : Index[i].key <= Head(batch).hash + SearchRange
      /\ \A i \in cursor .. Len(Index) : Index[i].key >= Head(batch).hash - SearchRange
      /\ Range(results) = {Index[i] : i \in Passed}
      /\ \A i, j \in DOMAIN results : results[i] = results[j] => i = j
      /\ Len(results) = Cardinality(Passed)
      /\ Len(results) <= MaxDBCollisions
  BY <1>1 DEF LookupInv, FindInv
<1>4. /\ \A i \in 1 .. cursor' - 1 : Index[i].key <= Head(batch).hash + SearchRange
      /\ \A i \in cursor' .. Len(Index) : Index[i].key >= Head(batch).hash - SearchRange
  BY <1>1, <1>3, IndexFacts
<1>5. cursor \in DOMAIN Index /\ Index[cursor].key \in Head(batch).hash - SearchRange .. Head(batch).hash + SearchRange
  BY <1>1, <1>2, <1>3, IndexFacts
<1>6. Passed' = IF NoValue(Index[cursor]) THEN Passed ELSE Passed \cup {cursor}
  <2>1. \A i \in Wanted(Head(batch)) : i < cursor' <=> i < cursor \/ i = cursor
    BY <1>1, IndexFacts DEF Wanted
  <2>2. cursor \in Wanted(Head(batch)) <=> ~NoValue(Index[cursor])
    BY <1>5 DEF Wanted
  <2> QED BY <1>1, <2>1, <2>2 DEF Passed
<1>7. /\ Range(results') = {Index[i] : i \in Passed'}
      /\ \A i, j \in DOMAIN results' : results'[i] = results'[j] => i = j
      /\ Len(results') = Cardinality(Passed')
      /\ Len(results') <= MaxDBCollisions
  <2>1. CASE NoValue(Index[cursor])
    BY <1>1, <1>3, <1>6, <2>1
  <2>2. CASE ~NoValue(Index[cursor])
    <3> DEFINE e == Index[cursor]
               n == Len(results)
    <3>1. e \in IndexEntry /\ n \in Nat /\ DOMAIN results = 1 .. n
      BY <1>1, <1>5, IndexFacts
    <3>2. /\ results' = Append(results, e) /\ Len(results') = n + 1
          /\ DOMAIN results' = DOMAIN results \cup {n + 1}
          /\ results'[n + 1] = e
          /\ \A i \in DOMAIN results : results'[i] = results[i]
      BY <1>1, <2>2, <3>1, Appended
    <3>3. cursor \notin Passed /\ Passed' = Passed \cup {cursor}
      BY <1>1, <1>6, <2>2 DEF Passed
    <3>4. Cardinality(Passed') = Cardinality(Passed) + 1
      BY <3>3, PassedIsFinite, FS_AddElement
    <3>5. \A i \in DOMAIN results : results[i] # e
      <4> SUFFICES ASSUME NEW i \in DOMAIN results, results[i] = e PROVE FALSE
        OBVIOUS
      <4>1. PICK j \in Passed : Index[j] = e
        BY <1>3 DEF Range
      <4>2. j \in DOMAIN Index /\ j = cursor
        BY <1>5, <4>1, IndexFacts DEF Passed, Wanted
      <4> QED BY <3>3, <4>2
    <3>6. Range(results') = Range(results) \cup {e}
      BY <3>2 DEF Range
    <3> HIDE DEF e, n
    <3>7. \A i, j \in DOMAIN results' : results'[i] = results'[j] => i = j
      BY <1>3, <3>2, <3>5
    <3>8. {Index[i] : i \in Passed'} = {Index[i] : i \in Passed} \cup {e}
      BY <3>3 DEF e
    <3>9. Len(results') = Cardinality(Passed') /\ Len(results') <= MaxDBCollisions
      BY <1>1, <1>2, <1>3, <3>1, <3>2, <3>4 DEF n
    <3> QED BY <1>3, <3>6, <3>7, <3>8, <3>9
  <2> QED BY <2>1, <2>2
<1>8. FindInv'
  BY <1>1, <1>4, <1>7 DEF FindInv
<1> QED BY <1>1, <1>8 DEF LookupInv, LookupIsComplete

\* Where the lookup ends there is nothing more in the range, or no more room.
LEMMA LookupEnds ==
  ASSUME IInv, LookupInv, pc \in {"find", "notFound"}, pc' = "tally",
         batch' = batch, found' = results,
         \/ cursor > Len(Index)
         \/ cursor <= Len(Index) /\ Index[cursor].key > Head(batch).hash + SearchRange
         \/ Len(results) >= MaxDBCollisions
  PROVE  LookupInv'
<1>1. batch # <<>> /\ cursor \in 1 .. Len(Index) + 1 /\ results \in Seq(IndexEntry)
  BY DEF IInv, TypeOK, LoopInv
<1>2. Head(batch).hash \in Nat /\ SearchRange \in Nat /\ MaxDBCollisions \in Nat
  BY <1>1, HashType, MatcherAssumption DEF IInv
<1> DEFINE wanted == Wanted(Head(batch))
<1>3. /\ Range(results) = {Index[i] : i \in Passed}
      /\ \A i, j \in DOMAIN results : results[i] = results[j] => i = j
      /\ Len(results) = Cardinality(Passed)
      /\ Len(results) <= MaxDBCollisions
  BY DEF LookupInv, FindInv
<1>4. Passed = wanted \/ Len(results) = MaxDBCollisions
  <2>1. CASE Len(results) >= MaxDBCollisions
    BY <1>2, <1>3, <2>1, PassedIsFinite
  <2>2. CASE \/ cursor > Len(Index)
             \/ cursor <= Len(Index) /\ Index[cursor].key > Head(batch).hash + SearchRange
    <3> SUFFICES ASSUME NEW i \in wanted PROVE i < cursor
      BY DEF Passed
    <3>1. i \in DOMAIN Index /\ Index[i].key <= Head(batch).hash + SearchRange
      BY <1>2, IndexFacts DEF Wanted
    <3>2. ASSUME i >= cursor PROVE FALSE
      <4>1. cursor \in DOMAIN Index /\ Index[cursor].key > Head(batch).hash + SearchRange
        BY <1>1, <2>2, <3>1, <3>2, IndexFacts
      <4>2. Index[cursor].key <= Index[i].key
        BY <1>1, <3>1, <3>2, <4>1, IndexFacts
      <4> QED BY <1>2, <3>1, <4>1, <4>2, IndexFacts
    <3> QED BY <1>1, <3>1, <3>2, IndexFacts
  <2> QED BY <2>1, <2>2
<1>5. Range(results) \subseteq {Index[i] : i \in wanted}
  BY <1>3, PassedIsFinite
<1>6. /\ Cardinality(wanted) <= MaxDBCollisions => Len(results) = Cardinality(wanted)
      /\ Cardinality(wanted) > MaxDBCollisions => Len(results) = MaxDBCollisions
  <2>1. /\ Cardinality(Passed) \in Nat /\ Cardinality(wanted) \in Nat
        /\ Cardinality(Passed) <= Cardinality(wanted)
    BY PassedIsFinite, WantedIsFinite
  <2> HIDE DEF wanted
  <2> QED BY <1>2, <1>3, <1>4, <2>1
\* The cursor has passed all that is before an entry it has passed.
<1>7. ASSUME NEW i \in wanted, NEW j \in wanted, i < j, Index[j] \in Range(results)
      PROVE  Index[i] \in Range(results)
  <2>1. PICK k \in Passed : Index[j] = Index[k]
    BY <1>3, <1>7
  <2>2. i \in DOMAIN Index /\ j \in DOMAIN Index /\ k \in DOMAIN Index /\ k < cursor
    BY <2>1 DEF Passed, Wanted
  <2>3. j = k
    BY <2>1, <2>2, IndexFacts
  <2>4. i < cursor
    BY <1>1, <1>7, <2>2, <2>3, IndexFacts
  <2>5. i \in Passed
    BY <2>4 DEF Passed
  <2> QED BY <1>3, <2>5
<1>8. LookupIsComplete'
  BY <1>3, <1>5, <1>6, <1>7 DEF LookupIsComplete
<1> QED BY <1>8 DEF LookupInv, FindInv

LEMMA FindEndsLookup == ASSUME IInv, LookupInv, FindEnds PROVE LookupInv'
<1>1. /\ pc = "find" /\ pc' = "tally" /\ batch' = batch /\ batch # <<>> /\ found' = results
      /\ cursor \in 1 .. Len(Index) + 1 /\ results \in Seq(IndexEntry)
  BY DEF FindEnds, query, IInv, TypeOK, LoopInv
<1>2. Head(batch).hash \in Nat /\ SearchRange \in Nat /\ MaxDBCollisions \in Nat
  BY <1>1, HashType, MatcherAssumption DEF IInv
<1>3. \/ cursor > Len(Index)
      \/ cursor <= Len(Index) /\ Index[cursor].key > Head(batch).hash + SearchRange
      \/ Len(results) >= MaxDBCollisions
  <2>1. cursor \in Nat /\ Len(results) \in Nat /\ Len(Index) \in Nat
    BY <1>1, IndexFacts
  <2>2. cursor <= Len(Index) => Index[cursor].key \in Nat
    BY <1>1, <2>1, IndexFacts
  <2> QED BY <1>2, <2>1, <2>2 DEF FindEnds, InRange
<1> QED BY <1>1, <1>3, LookupEnds

\* The round without an entry adds nothing.
LEMMA ExamineNoEntryLookup == ASSUME IInv, LookupInv, ExamineNoEntry PROVE LookupInv'
<1>1. pc = "notFound" /\ pc' = "tally" /\ batch' = batch /\ found' = results
  BY DEF ExamineNoEntry, NoValue, NoEntry, query
<1>2. cursor > Len(Index)
  BY <1>1 DEF LookupInv, FindInv
<1> QED BY <1>1, <1>2, LookupEnds

\* Nothing else changes what a lookup has found.
LEMMA NextLookup ==
  ASSUME IInv, LookupInv, [Next]_vars
  PROVE  LookupInv'
<1>1. ASSUME pc' \notin {"find", "notFound", "tally"} PROVE LookupInv'
  BY <1>1 DEF LookupInv, FindInv, LookupIsComplete
<1>2. ASSUME UNCHANGED <<pc, batch, found>>, pc = "tally" PROVE LookupInv'
  BY <1>2 DEF LookupInv, FindInv, LookupIsComplete
<1>3. CASE UNCHANGED vars
  BY <1>3 DEF vars, LookupInv, FindInv, LookupIsComplete, Passed
<1>4. CASE Tally
  BY <1>2, <1>4 DEF Tally, query
<1>5. CASE Receive \/ NextFingerprint \/ BatchMatched \/ Report \/ Forget
  BY <1>1, <1>5 DEF Receive, NextFingerprint, BatchMatched, Report, Forget
<1>6. CASE \E k \in unvisited : RankMatch(k)
  BY <1>1, <1>6 DEF RankMatch
<1>7. CASE pc = "done" /\ UNCHANGED vars
  BY <1>3, <1>7
<1> QED BY <1>3, <1>4, <1>5, <1>6, <1>7, SetRangeLookup, ExamineEntryLookup,
            ExamineNoEntryLookup, FindEndsLookup DEF Next

\* olaf_db_find returns every entry in the range of hashes once, and nothing
\* else, or as many of the first ones as fit.
THEOREM LookupsAreComplete == Spec => []LookupIsComplete
<1>1. Init => LookupInv
  BY DEF Init, LookupInv, FindInv, LookupIsComplete
<1>2. IInv /\ LookupInv /\ [Next]_vars => LookupInv'
  BY NextLookup
<1>3. LookupInv => LookupIsComplete
  BY DEF LookupInv
<1> QED BY <1>1, <1>2, <1>3, Invariance, PTL DEF Spec
=============================================================================
