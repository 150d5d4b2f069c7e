------------------------------ MODULE MCAttach ------------------------------
(* Small instances of Attach for TLC. *)
EXTENDS Attach, TLC

\* The hubs are interchangeable.
HubSymmetry == Permutations(Hubs)
=============================================================================
