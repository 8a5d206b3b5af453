--------------------------- MODULE MCEngineeringSweep ---------------------------
(***************************************************************************)
(* EngineeringSweep with a matrix of two cells, two collectors and the     *)
(* verifier, and up to three research cycles.                              *)
(***************************************************************************)
EXTENDS EngineeringSweep, TLC
=============================================================================
