--------------------------- MODULE MCOverflowNames ---------------------------
(***************************************************************************)
(* OverflowNames for TLC.                                                  *)
(***************************************************************************)
EXTENDS OverflowNames, TLC

WriterSymmetry == Permutations(Writers)
=============================================================================
