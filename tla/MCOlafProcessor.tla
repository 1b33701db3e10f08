-------------------------- MODULE MCOlafProcessor ---------------------------
(***************************************************************************)
(* An instance of OlafProcessor for TLC: blocks of 8 samples, a step of 2  *)
(* (1024 and 256 as shipped), quanta of 1 sample (128), resampled to       *)
(* nothing, less than a step, or more.                                     *)
(***************************************************************************)
EXTENDS OlafProcessor

MCResampled == {0, 1, 3, 7}
MCAtNull == {0, HeapTop}

=============================================================================
