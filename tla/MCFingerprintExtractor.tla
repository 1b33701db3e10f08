----------------------- MODULE MCFingerprintExtractor -----------------------
(* Small instances of FingerprintExtractor for TLC. *)
EXTENDS FingerprintExtractor

\* The smallest array that is never found full.
LargestArray == MostKept + Cardinality(Bins)
=============================================================================
