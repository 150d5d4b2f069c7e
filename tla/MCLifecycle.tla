----------------------------- MODULE MCLifecycle -----------------------------
(* Small instances of Lifecycle for TLC. *)
EXTENDS LifecycleInv, TLC

\* The calls are interchangeable wherever none of them is singled out.
CallSymmetry == Permutations(Calls)
=============================================================================
