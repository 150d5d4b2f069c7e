------------------------------ MODULE MCSlotBus ------------------------------
(* Small instances of SlotBus for TLC. *)
EXTENDS SlotBusInv, TLC

\* The calls are interchangeable wherever none of them is singled out.
CallSymmetry == Permutations(Calls)
=============================================================================
