----------------------------- MODULE MCSlotHeap -----------------------------
(***************************************************************************)
(* Small instances of SlotHeap for TLC.  In MCSlotHeap.cfg the heap has 85 *)
(* bytes: each arena gets 40 of the 42 bytes it is entitled to, 16 for     *)
(* requests and 24 for responses.  The lengths meet, miss by one and pass  *)
(* both halves, and are not multiples of 8.  MCSlotHeapWide.cfg has 4      *)
(* slots in the default 1 MB.                                              *)
(***************************************************************************)
EXTENDS SlotHeap
=============================================================================
