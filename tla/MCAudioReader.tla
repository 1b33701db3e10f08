--------------------------- MODULE MCAudioReader ----------------------------
(***************************************************************************)
(* An instance of AudioReader for TLC.                                     *)
(***************************************************************************)
EXTENDS AudioReader

=============================================================================
