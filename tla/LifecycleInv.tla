---------------------------- MODULE LifecycleInv ----------------------------
(***************************************************************************)
(* The inductive invariant behind the safety properties of Lifecycle.      *)
(* What SlotBusInv says of the slots, the regions and the watcher outlives *)
(* stop, drop, kill and reopen, except ClaimedContent, which StuckInv      *)
(* replaces, and PendingInv, which lasts as long as the hub's maps.        *)
(***************************************************************************)
EXTENDS Lifecycle, SlotBusInv

\* The slots of a killed worker are those nobody tends any more, and nobody
\* alive comes near them.
StuckInv ==
    /\ \A i \in stuck : status[i] = CLAIMED
    /\ \A i \in Slots \ stuck : status[i] = CLAIMED => Tended(i, dead)
    /\ recv = "read" => rat \notin stuck
    /\ \A c \in Calls \ dead : hand[c] \in HandlingPc => hat[c] \notin stuck
    /\ \A c \in dead : hand[c] # "none"

\* A loop is between its tests of `running` exactly while it is not at the wait.
LoopInv == watchLoop # "in" => watch = "wait"

\* A SlotBus that is being dropped is not borrowed by any dispatch().
EndedPc == {"idle", "rejected", "error", "returned"}
QuietInv == bus \in {"dropping", "dropped"} => \A c \in Calls : disp[c] \in EndedPc

\* Every region has one handle, but for those that killed workers left.
LeakInv == HandleInv(dead, leaked)

\* Nothing is stored in the hub's maps once they are gone.
GoneInv == ~HubMapsAlive => pending = {} /\ \A i \in Slots : hubOvf[i] = 0

(***************************************************************************)
(* The inductive invariant of Lifecycle.                                   *)
(***************************************************************************)
LifeInv ==
    /\ LifeTypeOK
    /\ OwnershipInv
    /\ PayloadInv
    /\ WatcherInv
    /\ HubMapsAlive => PendingInv
    /\ StuckInv
    /\ LoopInv
    /\ QuietInv
    /\ LeakInv
    /\ GoneInv
=============================================================================
