------------------------ MODULE MCFingerprintMatcher ------------------------
(***************************************************************************)
(* An instance of FingerprintMatcher for TLC: files in the index, and      *)
(* every query of a few batches with at most two fingerprints each.        *)
(***************************************************************************)
EXTENDS FingerprintMatcher, TLC

E(key, t1, id) == [key |-> key, t1 |-> t1, id |-> id]

\* Files 1 and 2 have hashes 10 to 12; file 0 has one at time 0.
TwoFiles == <<E(10, 0, 0), E(10, 1, 1), E(11, 3, 1), E(11, 3, 2), E(12, 5, 2), E(14, 2, 1)>>

Fingerprints(hashes, times) == {[hash |-> h, t1 |-> t, t3 |-> t + 1] : h \in hashes, t \in times}
Batches(hashes, times) ==
  {<<>>} \cup {<<f>> : f \in Fingerprints(hashes, times)} \cup
  {<<f, g>> : <<f, g>> \in {p \in Fingerprints(hashes, times) \X Fingerprints(hashes, times) :
                               p[1].t1 <= p[2].t1 /\ p[1] # p[2]}}

\* Hashes 10 and 12 have more entries in range than a lookup returns, 13 as many
\* as that and 20 none at or above its range.  Every batch of the second
\* half of the query may start one block before the end of the first half.
TwoBatches == {<<f, g>> : f \in Batches({10, 12, 13}, {2, 6}), g \in Batches({10, 13, 20}, {5, 9})}

\* A stream with a pause in it, longer than matches are kept.
Paused == {<<f, <<>>, g, h>> : f \in Batches({10}, {2, 6}), g \in Batches({13}, {5, 20}),
                               h \in Batches({13}, {21})}

Queries == TwoBatches \cup Paused
=============================================================================
