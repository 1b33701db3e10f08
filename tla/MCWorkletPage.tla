--------------------------- MODULE MCWorkletPage ----------------------------
(***************************************************************************)
(* Instances of WorkletPage for TLC.                                       *)
(***************************************************************************)
EXTENDS WorkletPage

=============================================================================
