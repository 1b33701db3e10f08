--------------------------- MODULE MCMemoryIndex ----------------------------
(***************************************************************************)
(* An instance of MemoryIndex for TLC: every array of at most four entries *)
(* of which the hashes are close, or too far from each other for an int of *)
(* four bits.                                                              *)
(***************************************************************************)
EXTENDS MemoryIndex

P(hash, t1) == [hash |-> hash, t1 |-> t1]

\* Two of the entries have one hash, and two are the same word: the times 0
\* and 4 differ by the size of the field.
MCPrints == {P(1, 0), P(2, 0), P(2, 3), P(3, 0), P(3, 4), P(6, 1), P(12, 0), P(18, 0)}
MCHashes == {0, 1, 2, 4, 7, 12, 17}
=============================================================================
