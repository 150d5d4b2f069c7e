--------------------------- MODULE LifecycleProofs ---------------------------
(***************************************************************************)
(* The safety of Lifecycle, for every number of calls, slots, generations  *)
(* and workers: LifeInv is inductive.  A step is either one of SlotBus,    *)
(* for which the lemmas of its proofs are cited with the dead handlers     *)
(* taken out, or one that ends or opens something, which leaves the slots  *)
(* and the calls alone and takes handles away as a whole.                  *)
(***************************************************************************)
EXTENDS LifecycleInv, SlotBusPayloadProofs

ConnectionStep ==
    \/ \E c \in Calls : StartCall(c) \/ DispatchStep(c) \/ HandlerStep(c)
    \/ WatchStep
    \/ RecvStep

EndStep ==
    \/ WatchCheck \/ RecvCheck
    \/ BusStop \/ BusStopSignal \/ BusDrop \/ BusDropSignal
    \/ WorkerStop \/ WorkerStopSignal \/ UserRelease \/ WorkerDrop
    \/ WorkerKill \/ WorkerOpen

(***************************************************************************)
(* A step of the connection is one of SlotBus by somebody alive.           *)
(***************************************************************************)
LEMMA ConnectionSteps ==
    ASSUME ConnectionStep
    PROVE  /\ StepWithout(dead)
           /\ [Next]_vars
           /\ UNCHANGED <<bus, worker, userArc, session, dead, leaked, stuck>>
  <1>1. ASSUME NEW c \in Calls, StartCall(c) \/ DispatchStep(c) \/ HandlerStep(c)
        PROVE  StepWithout(dead) /\ UNCHANGED <<bus, worker, userArc, session, dead, leaked, stuck>>
    BY <1>1 DEF StartCall, DispatchStep, HandlerStep, StepWithout, endVars
  <1>2. WatchStep => StepWithout(dead) /\ UNCHANGED <<bus, worker, userArc, session, dead, leaked, stuck>>
    BY DEF WatchStep, StepWithout
  <1>3. RecvStep => StepWithout(dead) /\ UNCHANGED <<bus, worker, userArc, session, dead, leaked, stuck>>
    BY DEF RecvStep, StepWithout
  <1>4. StepWithout(dead) => Next
    BY DEF StepWithout, Next
  <1> QED
    BY <1>1, <1>2, <1>3, <1>4 DEF ConnectionStep

(***************************************************************************)
(* The other steps leave the slots and the progress of calls and handlers  *)
(* alone; the hub's maps go only when the SlotBus and the watcher's thread *)
(* are both gone, and the worker's only with the worker.                   *)
(***************************************************************************)
LEMMA EndSteps ==
    ASSUME EndStep
    PROVE  /\ UNCHANGED <<slotVars, dispVars, got, watchVars, handVars, seen, delivered>>
           /\ UNCHANGED <<pending, reqShm, hubOvf>>
              \/ (HubMapsGo /\ bus' = "dropped" /\ watchLoop' = "exited")
           /\ \/ UNCHANGED <<rspShm, wkOvf, recv, rat, dead, leaked, stuck>>
              \/ WorkerDrop
              \/ WorkerKill
  <1>1. CASE WatchCheck
    BY <1>1 DEF WatchCheck, workerVars, handVars, dispVars
  <1>2. CASE BusDropSignal
    BY <1>2 DEF BusDropSignal, workerVars, handVars, dispVars
  <1>3. CASE RecvCheck \/ BusStop \/ BusDrop \/ WorkerStop \/ UserRelease \/ WorkerOpen
    BY <1>3 DEF RecvCheck, BusStop, BusDrop, WorkerStop, UserRelease, WorkerOpen, vars, slotVars,
        osVars, hubVars, workerVars, dispVars, watchVars, handVars
  <1>4. CASE BusStopSignal \/ WorkerStopSignal
    BY <1>4 DEF BusStopSignal, WorkerStopSignal, slotVars, hubVars, workerVars, dispVars, watchVars,
        handVars
  <1>5. CASE WorkerDrop
    BY <1>5 DEF WorkerDrop, slotVars, hubVars, dispVars, watchVars, handVars
  <1>6. CASE WorkerKill
    BY <1>6 DEF WorkerKill, slotVars, osVars, hubVars, dispVars, watchVars, handVars
  <1> QED
    BY <1>1, <1>2, <1>3, <1>4, <1>5, <1>6 DEF EndStep

(***************************************************************************)
(* When a map of handles goes, names go, and no bytes change.              *)
(***************************************************************************)
LEMMA DropAllFacts ==
    ASSUME NEW shm \in ShmType, NEW ovf
    PROVE  /\ DropAll(shm, ovf) \in ShmType
           /\ \A i \in Slots, m \in Markers :
                  DropAll(shm, ovf)[i][m] = IF m = ovf[i] THEN None ELSE shm[i][m]
           /\ \A i \in Slots, m \in 0 .. MaxMarker : m # 0 =>
                  DropAll(shm, ovf)[i][m] \in {None, shm[i][m]}
  <1>1. \A m \in 0 .. MaxMarker : m # 0 => m \in Markers
    BY BusAssumption DEF Markers
  <1>2. None \in Payloads
    BY DEF Payloads
  <1> QED
    BY <1>1, <1>2 DEF DropAll, ShmType

(***************************************************************************)
(* Lifecycle starts well typed.                                            *)
(***************************************************************************)
LEMMA LifeTypeInit == LifeInit => LifeTypeOK
  BY TypeInit, LifecycleAssumption DEF LifeInit, LifeTypeOK

(***************************************************************************)
(* And stays so.                                                           *)
(***************************************************************************)
LEMMA LifeTypeStep == LifeTypeOK /\ [LifeNext]_lifeVars => LifeTypeOK'
  <1> SUFFICES ASSUME LifeTypeOK, [LifeNext]_lifeVars PROVE LifeTypeOK'
    OBVIOUS
  <1>1. CASE ConnectionStep
    <2>1. TypeOK'
      BY <1>1, ConnectionSteps, TypeStep DEF LifeTypeOK
    <2>2. watchLoop' \in {"check", "in", "exited"} /\ recvLoop' \in {"check", "in", "exited"}
      BY <1>1 DEF ConnectionStep, StartCall, DispatchStep, HandlerStep, WatchStep, RecvStep,
          endVars, LifeTypeOK
    <2> QED
      BY <1>1, <2>1, <2>2, ConnectionSteps DEF LifeTypeOK
  <1>2. CASE EndStep
    <2>1. SlotsTyped' /\ WatcherTyped'
      BY <1>2, EndSteps DEF LifeTypeOK, TypeOK, SlotsTyped, WatcherTyped, slotVars, watchVars
    <2>2. [i \in Slots |-> 0] \in [Slots -> 0 .. MaxMarker] /\ 0 \in Slots
      BY BusAssumption DEF Slots
    <2>3. DispatchTyped'
      BY <1>2, <2>2, EndSteps DEF LifeTypeOK, TypeOK, DispatchTyped, dispVars, HubMapsGo
    <2>4. WorkerTyped'
      BY <1>2, <2>2, EndSteps DEF LifeTypeOK, TypeOK, WorkerTyped, handVars, WorkerDrop, WorkerKill,
          recvVars, RecvPc
    <2>5. Signal(reqEvent) \in Nat /\ Signal(rspEvent) \in Nat
      BY DEF Signal, LifeTypeOK, TypeOK, OsTyped
    <2>6. reqEvent' \in {reqEvent, Signal(reqEvent)} /\ rspEvent' \in {rspEvent, Signal(rspEvent)}
      <3>1. CASE BusStop \/ BusDrop \/ RecvCheck \/ WorkerStop \/ UserRelease \/ WorkerOpen
        BY <3>1 DEF BusStop, BusDrop, RecvCheck, WorkerStop, UserRelease, WorkerOpen, vars, osVars
      <3>2. CASE WatchCheck \/ BusStopSignal \/ BusDropSignal
        BY <3>2 DEF WatchCheck, BusStopSignal, BusDropSignal
      <3>3. CASE WorkerStopSignal \/ WorkerDrop \/ WorkerKill
        BY <3>3 DEF WorkerStopSignal, WorkerDrop, WorkerKill, osVars
      <3> QED
        BY <1>2, <3>1, <3>2, <3>3 DEF EndStep
    <2>7. reqShm' \in ShmType /\ rspShm' \in ShmType
      <3>1. reqShm \in ShmType /\ rspShm \in ShmType
        BY TablesTyped DEF LifeTypeOK
      <3>2. DropAll(reqShm, hubOvf) \in ShmType /\ DropAll(rspShm, wkOvf) \in ShmType
        BY <3>1, DropAllFacts
      <3> QED
        BY <1>2, <3>1, <3>2, EndSteps DEF HubMapsGo, WorkerDrop, WorkerKill, osVars
    <2>8. OsTyped'
      BY <2>5, <2>6, <2>7 DEF LifeTypeOK, TypeOK, OsTyped, ShmType
    <2>9. /\ bus' \in {"up", "stopping", "stopped", "dropping", "dropped"}
          /\ watchLoop' \in {"check", "in", "exited"}
          /\ worker' \in {"up", "stopping", "stopped", "dropped", "killed"}
          /\ userArc' \in BOOLEAN
          /\ recvLoop' \in {"check", "in", "exited"}
          /\ session' \in 1 .. MaxSessions
      <3>1. CASE BusStop \/ BusDrop \/ RecvCheck \/ WorkerStop \/ UserRelease
        BY <3>1 DEF BusStop, BusDrop, RecvCheck, WorkerStop, UserRelease, LifeTypeOK
      <3>2. CASE WatchCheck \/ BusStopSignal \/ BusDropSignal
        BY <3>2 DEF WatchCheck, BusStopSignal, BusDropSignal, LifeTypeOK
      <3>3. CASE WorkerStopSignal \/ WorkerDrop \/ WorkerKill
        BY <3>3 DEF WorkerStopSignal, WorkerDrop, WorkerKill, LifeTypeOK
      <3>4. CASE WorkerOpen
        BY <3>4, LifecycleAssumption DEF WorkerOpen, LifeTypeOK
      <3> QED
        BY <1>2, <3>1, <3>2, <3>3, <3>4 DEF EndStep
    <2>10. dead' \subseteq Calls /\ leaked' \subseteq Slots \X Markers /\ stuck' \subseteq Slots
      BY <1>2, EndSteps DEF LifeTypeOK, WorkerDrop, WorkerKill
    <2> QED
      BY <2>1, <2>3, <2>4, <2>8, <2>9, <2>10 DEF LifeTypeOK, TypeOK
  <1>3. CASE UNCHANGED lifeVars
    <2>1. TypeOK'
      BY <1>3, TypeStep DEF lifeVars, LifeTypeOK
    <2> QED
      BY <1>3, <2>1 DEF lifeVars, endVars, LifeTypeOK
  <1> QED
    BY <1>1, <1>2, <1>3 DEF LifeNext, ConnectionStep, EndStep

(***************************************************************************)
(* Ownership outlives everything: a killed worker's receive loop is gone,  *)
(* and the slots it had claimed stay those of its handlers.                *)
(***************************************************************************)
LEMMA LifeOwnership ==
    ASSUME LifeTypeOK, OwnershipInv, ConnectionStep \/ EndStep
    PROVE  OwnershipInv'
  <1>1. CASE ConnectionStep
    BY <1>1, ConnectionSteps, OwnershipStep DEF LifeTypeOK
  <1>2. CASE EndStep
    <2>1. UNCHANGED <<status, reqArena, reqId, disp, at, hand, hat, watch, wat>>
      BY <1>2, EndSteps DEF slotVars, dispVars, handVars, watchVars
    <2>2. UNCHANGED <<recv, rat>> \/ recv' # "read"
      BY <1>2, EndSteps DEF WorkerDrop, WorkerKill, recvVars
    <2>3. RecvOwns'
      BY <2>1, <2>2 DEF OwnershipInv, RecvOwns
    <2> QED
      BY <2>1, <2>3 DEF OwnershipInv, WritersOwn, HandlersOwn, WatcherOwns, WritingContent,
          BusyContent, ReadyContent, WrittenSlot, UnpublishedUnseen
  <1> QED
    BY <1>1, <1>2

(***************************************************************************)
(* Payloads stay whole: what goes with a map is missing, never mixed.      *)
(***************************************************************************)
LEMMA LifePayloads ==
    ASSUME LifeTypeOK, OwnershipInv, PayloadInv, ConnectionStep \/ EndStep
    PROVE  PayloadInv'
  <1>1. CASE ConnectionStep
    BY <1>1, ConnectionSteps, PayloadStep DEF LifeTypeOK
  <1>2. CASE EndStep
    <2>1. UNCHANGED <<slotVars, disp, at, hand, hat, watch, wid, wrsp, got, seen, delivered>>
      BY <1>2, EndSteps DEF dispVars, handVars, watchVars
    <2>2. reqShm' = reqShm \/ reqShm' = DropAll(reqShm, hubOvf)
      BY <1>2, EndSteps DEF HubMapsGo
    <2>3. rspShm' = rspShm \/ rspShm' = DropAll(rspShm, wkOvf)
      BY <1>2, EndSteps DEF WorkerDrop, WorkerKill, osVars
    <2>4. reqShm \in ShmType /\ rspShm \in ShmType
      BY TablesTyped DEF LifeTypeOK
    <2>5. \A i \in Slots, m \in 0 .. MaxMarker : m # 0 =>
              reqShm'[i][m] \in {None, reqShm[i][m]} /\ rspShm'[i][m] \in {None, rspShm[i][m]}
      BY <2>2, <2>3, <2>4, DropAllFacts
    <2>6. \A i \in Slots : reqMarker[i] \in 0 .. MaxMarker /\ rspMarker[i] \in 0 .. MaxMarker
      BY DEF LifeTypeOK, TypeOK, SlotsTyped
    <2>7. \A c \in Calls : at[c] \in Slots /\ hat[c] \in Slots
      BY DEF LifeTypeOK, TypeOK, DispatchTyped, WorkerTyped
    <2>8. RequestContent' /\ DoneContent'
      BY <2>1, <2>5, <2>6 DEF PayloadInv, RequestContent, DoneContent, slotVars
    <2>9. WrittenRequest' /\ WrittenResponse'
      BY <2>1, <2>5, <2>6, <2>7 DEF PayloadInv, WrittenRequest, WrittenResponse, slotVars
    <2>10. DeliveredOnce' /\ WatcherConsistent' /\ RequestIntact' /\ ResponseMatches'
      BY <2>1 DEF PayloadInv, DeliveredOnce, WatcherConsistent, RequestIntact, ResponseMatches
    <2> QED
      BY <2>8, <2>9, <2>10 DEF PayloadInv
  <1> QED
    BY <1>1, <1>2

(***************************************************************************)
(* The watcher keeps to its slot, and its entry of the pending map is      *)
(* there as long as the map is.                                            *)
(***************************************************************************)
LEMMA LifePending ==
    ASSUME LifeTypeOK, OwnershipInv, WatcherInv, HubMapsAlive => PendingInv,
           ConnectionStep \/ EndStep
    PROVE  WatcherInv' /\ (HubMapsAlive' => PendingInv')
  <1>1. CASE ConnectionStep
    <2>1. HubMapsAlive' => HubMapsAlive
      BY <1>1, ConnectionSteps DEF HubMapsAlive, ConnectionStep, StartCall, DispatchStep,
          HandlerStep, WatchStep, RecvStep, endVars
    <2> QED
      BY <1>1, <2>1, ConnectionSteps, PendingStep DEF LifeTypeOK
  <1>2. CASE EndStep
    <2>1. UNCHANGED <<status, reqArena, reqId, disp, watch, wat, wid>>
      BY <1>2, EndSteps DEF slotVars, dispVars, watchVars
    <2>2. HubMapsAlive' => HubMapsAlive /\ pending' = pending
      <3>1. HubMapsAlive' => pending' = pending
        BY <1>2, EndSteps DEF HubMapsAlive
      <3>2. HubMapsAlive' => HubMapsAlive
        BY <1>2 DEF HubMapsAlive, EndStep, WatchCheck, RecvCheck, BusStop, BusStopSignal, BusDrop,
            BusDropSignal, WorkerStop, WorkerStopSignal, UserRelease, WorkerDrop, WorkerKill,
            WorkerOpen
      <3> QED
        BY <3>1, <3>2
    <2> QED
      BY <2>1, <2>2 DEF WatcherInv, IdCurrent, TakenOut, PendingInv, BusyPending, TakenPending
  <1> QED
    BY <1>1, <1>2

(***************************************************************************)
(* A claimed slot that is not stuck is tended by somebody alive, and       *)
(* nobody alive comes near a stuck one.  A kill makes all that was claimed *)
(* stuck.                                                                  *)
(***************************************************************************)
LEMMA LifeStuck ==
    ASSUME LifeTypeOK, OwnershipInv, StuckInv, ConnectionStep \/ EndStep
    PROVE  StuckInv'
  <1>0. dead \in SUBSET Calls /\ stuck \subseteq Slots /\ \A c \in dead : hand[c] # "none"
    BY DEF LifeTypeOK, StuckInv
  <1>1. CASE ConnectionStep
    <2>1. TypeOK /\ StepWithout(dead) /\ dead' = dead /\ stuck' = stuck
      BY <1>1, ConnectionSteps DEF LifeTypeOK
    <2>2. \A i \in stuck : /\ status'[i] = CLAIMED /\ ~(recv' = "read" /\ rat' = i)
                           /\ \A c \in Calls \ dead : ~(hand'[c] \in HandlingPc /\ hat'[c] = i)
      <3>1. TAKE i \in stuck
      <3>2. /\ i \in Slots /\ status[i] = CLAIMED /\ ~(recv = "read" /\ rat = i)
            /\ \A c \in Calls \ dead : ~(hand[c] \in HandlingPc /\ hat[c] = i)
        BY <1>0 DEF StuckInv
      <3> QED
        BY <1>0, <2>1, <3>2, UntendedStays
    <2>3. ASSUME NEW i \in Slots \ stuck, status'[i] = CLAIMED
          PROVE  Tended(i, dead)'
      <3>1. status[i] = CLAIMED => Tended(i, dead)
        BY <2>3 DEF StuckInv
      <3> QED
        BY <1>0, <2>1, <2>3, <3>1, TendedStays DEF Tended
    <2>4. \A c \in dead : hand'[c] # "none"
      <3>1. TypeOK /\ hand \in [Calls -> HandPc]
        BY DEF LifeTypeOK, TypeOK, WorkerTyped
      <3>2. CASE (\E c \in Calls : Start(c) \/ Dispatch(c)) \/ Watcher
        BY <1>0, <3>1, <3>2, HubLeavesClaims
      <3>3. CASE ReceiveLoop
        BY <1>0, <3>1, <3>3, ReceiveLoopClaims
      <3>4. ASSUME NEW c \in Calls \ dead, Handler(c) PROVE \A d \in dead : hand'[d] # "none"
        BY <1>0, <3>1, <3>4, HandlerClaims
      <3> QED
        BY <2>1, <3>2, <3>3, <3>4 DEF StepWithout
    <2> QED
      BY <2>1, <2>2, <2>3, <2>4 DEF StuckInv
  <1>2. CASE WorkerKill
    <2>1. /\ UNCHANGED <<status, hand, hat>>
          /\ recv' = "wait"
          /\ dead' = dead \cup {c \in Calls : Handling(c)}
          /\ stuck' = {i \in Slots : status[i] = CLAIMED}
      BY <1>2 DEF WorkerKill, slotVars, handVars
    <2>2. \A c \in Calls \ dead' : hand[c] \notin HandlingPc
      BY <2>1 DEF Handling
    <2>3. \A c \in dead' : hand[c] # "none"
      BY <1>0, <2>1 DEF Handling, HandlingPc
    <2> QED
      BY <2>1, <2>2, <2>3 DEF StuckInv
  <1>3. CASE EndStep /\ ~WorkerKill
    <2>1. UNCHANGED <<status, reqArena, hand, hat, recv, rat, dead, stuck>>
      BY <1>3, EndSteps DEF slotVars, handVars, WorkerDrop, recvVars
    <2> QED
      BY <2>1 DEF StuckInv, Tended
  <1> QED
    BY <1>1, <1>2, <1>3

(***************************************************************************)
(* The watcher's thread looks at `running` only between two iterations,    *)
(* and a SlotBus that is being dropped is not borrowed.                    *)
(***************************************************************************)
LEMMA LifeLoops ==
    ASSUME LifeTypeOK, LoopInv, QuietInv, ConnectionStep \/ EndStep
    PROVE  LoopInv' /\ QuietInv'
  <1>1. LoopInv'
    <2>1. CASE ConnectionStep
      <3>1. ASSUME NEW c \in Calls, StartCall(c) \/ DispatchStep(c) \/ HandlerStep(c)
            PROVE  UNCHANGED <<watch, watchLoop>>
        BY <3>1 DEF StartCall, DispatchStep, HandlerStep, endVars, Start, Dispatch, Handler,
            ClaimFreeSlot, DropStaleRequestOverflow, WriteRequest, PublishRequest,
            ReleaseFailedWrite, StoreRequestOverflow, RegisterPending, SignalRequest,
            DropStaleResponseOverflow, WriteResponse, PublishResponse, ReleaseFailedResponse,
            StoreResponseOverflow, SignalResponse, watchVars, hubVars
      <3>2. CASE RecvStep
        BY <3>2 DEF RecvStep, ReceiveLoop, RecvWait, RecvScan, RecvDeliver, RecvDiscard, hubVars,
            LoopInv
      <3>3. CASE WatchStep
        BY <3>3 DEF WatchStep, LoopInv
      <3> QED
        BY <2>1, <3>1, <3>2, <3>3 DEF ConnectionStep, LoopInv
    <2>2. CASE EndStep
      <3>1. watch' = watch
        BY <2>2, EndSteps DEF watchVars
      <3>2. watchLoop = "in" => watchLoop' = "in"
        BY <2>2 DEF EndStep, WatchCheck, RecvCheck, BusStop, BusStopSignal, BusDrop, BusDropSignal,
            WorkerStop, WorkerStopSignal, UserRelease, WorkerDrop, WorkerKill, WorkerOpen
      <3> QED
        BY <3>1, <3>2 DEF LoopInv
    <2> QED
      BY <2>1, <2>2
  <1>2. QuietInv'
    <2>1. CASE ConnectionStep
      <3>1. bus' = bus
        BY <2>1, ConnectionSteps
      <3>2. CASE bus \notin {"dropping", "dropped"}
        BY <3>1, <3>2 DEF QuietInv
      <3>3. CASE bus \in {"dropping", "dropped"}
        <4>1. ASSUME NEW c \in Calls PROVE ~StartCall(c) /\ ~DispatchStep(c)
          <5>1. disp[c] \in EndedPc
            BY <3>3 DEF QuietInv
          <5> QED
            BY <3>3, <5>1 DEF StartCall, DispatchStep, Dispatch, ClaimFreeSlot,
                DropStaleRequestOverflow, WriteRequest, PublishRequest, ReleaseFailedWrite,
                StoreRequestOverflow, RegisterPending, SignalRequest, EndedPc
        <4>2. ASSUME NEW c \in Calls, HandlerStep(c) PROVE disp' = disp
          BY <4>2 DEF HandlerStep, Handler, DropStaleResponseOverflow, WriteResponse,
              PublishResponse, ReleaseFailedResponse, StoreResponseOverflow, SignalResponse, hubVars
        <4>3. WatchStep \/ RecvStep => disp' = disp
          BY DEF WatchStep, RecvStep, Watcher, WatchWait, WatchScan, WatchRead, WatchRelease,
              WatchDropOverflow, WatchResolve, ReceiveLoop, RecvWait, RecvScan, RecvDeliver,
              RecvDiscard, dispVars, hubVars
        <4>4. disp' = disp
          BY <2>1, <4>1, <4>2, <4>3 DEF ConnectionStep
        <4> QED
          BY <3>1, <4>4 DEF QuietInv
      <3> QED
        BY <3>2, <3>3
    <2>2. CASE EndStep
      <3>1. disp' = disp
        BY <2>2, EndSteps DEF dispVars
      <3>2. CASE BusDrop
        BY <3>1, <3>2 DEF BusDrop, QuietInv, EndedPc
      <3>3. CASE ~BusDrop
        <4>1. bus' \in {"dropping", "dropped"} => bus \in {"dropping", "dropped"}
          BY <2>2, <3>3 DEF EndStep, WatchCheck, RecvCheck, BusStop, BusStopSignal, BusDropSignal,
              WorkerStop, WorkerStopSignal, UserRelease, WorkerDrop, WorkerKill, WorkerOpen
        <4> QED
          BY <3>1, <4>1 DEF QuietInv
      <3> QED
        BY <3>2, <3>3
    <2> QED
      BY <2>1, <2>2
  <1> QED
    BY <1>1, <1>2

(***************************************************************************)
(* A map of handles goes with all its names, while no call has a local     *)
(* handle on one of them.                                                  *)
(***************************************************************************)
LEMMA HandlesDropAll ==
    ASSUME NEW shm \in ShmType, NEW ovf \in OvfType, NEW slot \in SlotOf, NEW loc \in LocType, NEW B,
           HandleTable(shm, ovf, slot, loc, B)
    PROVE  HandleTable(DropAll(shm, ovf), [i \in Slots |-> 0], slot, loc, B)
  <1> DEFINE shm2 == DropAll(shm, ovf)
             ovf2 == [i \in Slots |-> 0]
  <1>1. \A i \in Slots, m \in Markers : shm2[i][m] = IF m = ovf[i] THEN None ELSE shm[i][m]
    BY DropAllFacts
  <1>2. \A m : m \in Markers <=> m \in 0 .. MaxMarker /\ m # 0
    BY BusAssumption DEF Markers
  <1>3. MapHandles(shm2, ovf2, B)
    BY DEF MapHandles
  <1>4. LocalHandles(shm2, ovf2, slot, loc, B)
    BY <1>1, <1>2 DEF HandleTable, LocalHandles, SlotOf, LocType
  <1>5. NamesHeld(shm2, ovf2, slot, loc, B)
    BY <1>1, <1>2 DEF HandleTable, NamesHeld
  <1>6. BurntKept(shm2, B)
    BY <1>1, <1>2 DEF HandleTable, BurntKept, MapHandles
  <1> QED
    BY <1>3, <1>4, <1>5, <1>6 DEF HandleTable

(***************************************************************************)
(* A region goes with the map or the call that has its handle, and what a  *)
(* killed worker had open becomes one more name that nobody holds.         *)
(***************************************************************************)
LEMMA LifeLeak ==
    ASSUME LifeTypeOK, OwnershipInv, LeakInv, ConnectionStep \/ EndStep
    PROVE  LeakInv'
  <1> USE TablesTyped
  <1>0. TypeOK
    BY DEF LifeTypeOK
  <1>1. CASE ConnectionStep
    <2>1. PICK D, B : D = dead /\ B = leaked
      OBVIOUS
    <2>2. HandleInv(D, B) /\ dead' = D /\ leaked' = B
      BY <1>1, <2>1, ConnectionSteps DEF LeakInv
    <2>3. HandleInv(D, B)'
      <3>1. ASSUME NEW c \in Calls, Start(c) \/ Dispatch(c) PROVE HandleInv(D, B)'
        BY <1>0, <2>2, <3>1, HandleDispatch
      <3>2. ASSUME NEW c \in Calls \ D, Handler(c) PROVE HandleInv(D, B)'
        BY <1>0, <2>2, <3>2, HandleHandler
      <3>3. Watcher => HandleInv(D, B)'
        BY <1>0, <2>2, HandleWatcher
      <3>4. ReceiveLoop => HandleInv(D, B)'
        BY <1>0, <2>2, HandleReceiveLoop
      <3> QED
        BY <1>1, <2>1, <3>1, <3>2, <3>3, <3>4, ConnectionSteps DEF StepWithout
    <2> QED
      BY <2>2, <2>3 DEF LeakInv, HandleInv, HandleTable, MapHandles, LocalHandles, NamesHeld,
          BurntKept, LiveLocals
  <1>2. CASE EndStep
    <2>1. /\ UNCHANGED <<reqMarker, rspMarker, at, held, disp, hand, hat, hheld>>
          /\ UNCHANGED <<reqShm, hubOvf>> \/ HubMapsGo
          /\ UNCHANGED <<rspShm, wkOvf, dead, leaked>> \/ WorkerDrop \/ WorkerKill
      BY <1>2, EndSteps DEF slotVars, dispVars, handVars
    <2>2. /\ HandleTable(reqShm, hubOvf, at, held, OrphanNames)
          /\ HandleTable(rspShm, wkOvf, hat, LiveLocals(dead), OrphanNames \cup leaked)
          /\ LocalsInUse
      BY DEF LeakInv, HandleInv
    <2>3. LiveLocals(dead) \in LocType
      BY <1>0, LiveLocalsFacts
    <2>4. LocalsInUse' /\ MarkersLive'
      BY <2>1 DEF LeakInv, HandleInv, LocalsInUse, MarkersLive
    <2>5. HandleTable(reqShm, hubOvf, at, held, OrphanNames)'
      <3>1. CASE UNCHANGED <<reqShm, hubOvf>>
        BY <2>1, <2>2, <3>1 DEF HandleTable, MapHandles, LocalHandles, NamesHeld, BurntKept,
            OrphanNames
      <3>2. CASE HubMapsGo
        <4>1. HandleTable(DropAll(reqShm, hubOvf), [i \in Slots |-> 0], at, held, OrphanNames)
          BY <1>0, <2>2, HandlesDropAll
        <4> QED
          BY <2>1, <3>2, <4>1 DEF HubMapsGo, OrphanNames
      <3> QED
        BY <2>1, <3>1, <3>2
    <2>6. HandleTable(rspShm, wkOvf, hat, LiveLocals(dead), OrphanNames \cup leaked)'
      <3>1. CASE UNCHANGED <<rspShm, wkOvf, dead, leaked>>
        BY <2>1, <2>2, <3>1 DEF HandleTable, MapHandles, LocalHandles, NamesHeld, BurntKept,
            OrphanNames, LiveLocals
      <3>2. CASE WorkerDrop
        <4>1. HandleTable(DropAll(rspShm, wkOvf), [i \in Slots |-> 0], hat, LiveLocals(dead),
                          OrphanNames \cup leaked)
          BY <1>0, <2>2, <2>3, HandlesDropAll
        <4>2. /\ rspShm' = DropAll(rspShm, wkOvf)
              /\ wkOvf' = [i \in Slots |-> 0]
              /\ UNCHANGED <<dead, leaked>>
          BY <3>2 DEF WorkerDrop
        <4> QED
          BY <2>1, <4>1, <4>2 DEF OrphanNames, LiveLocals
      <3>3. CASE WorkerKill
        <4>1. /\ rspShm' = rspShm
              /\ \A i \in Slots : wkOvf'[i] = 0
              /\ dead' = dead \cup {c \in Calls : Handling(c)}
              /\ leaked' = leaked \cup {im \in Slots \X Markers :
                              \/ wkOvf[im[1]] = im[2]
                              \/ \E c \in Calls \ dead : hat[c] = im[1] /\ hheld[c] = im[2]}
          BY <3>3 DEF WorkerKill, osVars
        <4>2. \A c \in Calls : LiveLocals(dead)'[c] = 0
          <5>1. \A c \in Calls : hheld[c] # 0 => c \in dead'
            BY <2>2, <4>1 DEF LocalsInUse, Handling, HandlingPc
          <5> QED
            BY <2>1, <5>1 DEF LiveLocals
        <4>3. \A m : m \in Markers <=> m \in 0 .. MaxMarker /\ m # 0
          BY BusAssumption DEF Markers
        <4>4. \A c \in Calls : LiveLocals(dead)[c] = IF c \in dead THEN 0 ELSE hheld[c]
          BY DEF LiveLocals
        <4>5. MapHandles(rspShm, wkOvf, OrphanNames \cup leaked)'
          BY <4>1 DEF MapHandles
        <4>6. LocalHandles(rspShm, wkOvf, hat, LiveLocals(dead), OrphanNames \cup leaked)'
          BY <4>2 DEF LocalHandles
        <4>7. NamesHeld(rspShm, wkOvf, hat, LiveLocals(dead), OrphanNames \cup leaked)'
          <5>1. ASSUME NEW i \in Slots, NEW m \in Markers, rspShm[i][m] # None,
                       <<i, m>> \notin OrphanNames \cup leaked
                PROVE  <<i, m>> \in leaked'
            <6>1. wkOvf[i] = m \/ \E c \in Calls : hat[c] = i /\ LiveLocals(dead)[c] = m
              BY <2>2, <5>1 DEF HandleTable, NamesHeld
            <6>2. wkOvf[i] = m \/ \E c \in Calls \ dead : hat[c] = i /\ hheld[c] = m
              BY <6>1, <4>3, <4>4
            <6> QED
              BY <6>2, <4>1
          <5>2. leaked \subseteq leaked'
            BY <4>1
          <5> QED
            BY <4>1, <5>1, <5>2 DEF NamesHeld, OrphanNames
        <4>8. BurntKept(rspShm, OrphanNames \cup leaked)'
          <5>1. ASSUME NEW i \in Slots, NEW m \in Markers, <<i, m>> \in leaked' \ leaked
                PROVE  rspShm[i][m] # None
            <6>1. wkOvf[i] = m \/ \E c \in Calls \ dead : hat[c] = i /\ hheld[c] = m
              BY <4>1, <5>1
            <6>2. CASE wkOvf[i] = m
              BY <6>2, <2>2, <4>3 DEF HandleTable, MapHandles
            <6>3. ASSUME NEW c \in Calls \ dead, hat[c] = i, hheld[c] = m
                  PROVE  rspShm[i][m] # None
              <7>1. c \in Calls /\ LiveLocals(dead)[c] = m /\ m # 0
                BY <6>3, <4>3, <4>4
              <7>2. rspShm[hat[c]][LiveLocals(dead)[c]] # None
                BY <7>1, <2>2 DEF HandleTable, LocalHandles
              <7> QED
                BY <6>3, <7>1, <7>2
            <6> QED
              BY <6>1, <6>2, <6>3
          <5>2. \A i \in Slots, m \in Markers : m \in Orphans => rspShm[i][m] = Mixed
            BY <2>2 DEF HandleTable, BurntKept, OrphanNames
          <5>3. \A i \in Slots, m \in Markers : <<i, m>> \in OrphanNames \cup leaked =>
                    rspShm[i][m] # None
            BY <2>2 DEF HandleTable, BurntKept
          <5> QED
            BY <4>1, <5>1, <5>2, <5>3 DEF BurntKept, OrphanNames
        <4> QED
          BY <4>5, <4>6, <4>7, <4>8 DEF HandleTable
      <3> QED
        BY <2>1, <3>1, <3>2, <3>3
    <2> QED
      BY <2>4, <2>5, <2>6 DEF LeakInv, HandleInv
  <1> QED
    BY <1>1, <1>2

(***************************************************************************)
(* The maps of the hub go with the last of those who could store in them.  *)
(***************************************************************************)
LEMMA LifeGone ==
    ASSUME LifeTypeOK, QuietInv, GoneInv, ConnectionStep \/ EndStep
    PROVE  GoneInv'
  <1>1. CASE ConnectionStep
    <2>1. HubMapsAlive' <=> HubMapsAlive
      BY <1>1, ConnectionSteps DEF HubMapsAlive, ConnectionStep, StartCall, DispatchStep,
          HandlerStep, WatchStep, RecvStep, endVars, LifeTypeOK
    <2>2. CASE ~HubMapsAlive
      <3>1. bus = "dropped" /\ watchLoop = "exited"
        BY <2>2 DEF HubMapsAlive
      <3>2. ASSUME NEW c \in Calls PROVE ~StartCall(c) /\ ~DispatchStep(c)
        <4>1. disp[c] \in EndedPc
          BY <3>1 DEF QuietInv
        <4> QED
          BY <3>1, <4>1 DEF StartCall, DispatchStep, Dispatch, ClaimFreeSlot,
              DropStaleRequestOverflow, WriteRequest, PublishRequest, ReleaseFailedWrite,
              StoreRequestOverflow, RegisterPending, SignalRequest, EndedPc
      <3>3. ~WatchStep
        BY <3>1 DEF WatchStep
      <3>4. ASSUME NEW c \in Calls, HandlerStep(c) PROVE UNCHANGED <<hubOvf, pending>>
        BY <3>4 DEF HandlerStep, Handler, DropStaleResponseOverflow, WriteResponse,
            PublishResponse, ReleaseFailedResponse, StoreResponseOverflow, SignalResponse, hubVars
      <3>5. RecvStep => UNCHANGED <<hubOvf, pending>>
        BY DEF RecvStep, ReceiveLoop, RecvWait, RecvScan, RecvDeliver, RecvDiscard, hubVars
      <3> QED
        BY <1>1, <3>2, <3>3, <3>4, <3>5, <2>1, <2>2 DEF ConnectionStep, GoneInv
    <2> QED
      BY <2>1, <2>2 DEF GoneInv
  <1>2. CASE EndStep
    <2>1. UNCHANGED <<hubOvf, pending>> \/ HubMapsGo
      BY <1>2, EndSteps
    <2>2. CASE HubMapsGo
      BY <2>2 DEF HubMapsGo, GoneInv
    <2>3. CASE ~HubMapsGo
      <3>1. ~HubMapsAlive' => ~HubMapsAlive
        BY <1>2, <2>3 DEF HubMapsAlive, EndStep, WatchCheck, RecvCheck, BusStop, BusStopSignal,
            BusDrop, BusDropSignal, WorkerStop, WorkerStopSignal, UserRelease, WorkerDrop,
            WorkerKill, WorkerOpen
      <3> QED
        BY <2>1, <2>3, <3>1 DEF GoneInv
    <2> QED
      BY <2>2, <2>3
  <1> QED
    BY <1>1, <1>2

(***************************************************************************)
(* The inductive invariant holds when the connection is made.              *)
(***************************************************************************)
LEMMA LifeInvInit == LifeInit => LifeInv
  <1> SUFFICES ASSUME LifeInit PROVE LifeInv
    OBVIOUS
  <1>1. Init /\ dead = {} /\ leaked = {} /\ stuck = {} /\ bus = "up"
    BY DEF LifeInit
  <1>2. LifeTypeOK
    BY LifeTypeInit
  <1>3. OwnershipInv /\ PayloadInv /\ WatcherInv /\ PendingInv /\ HandleInv({}, {})
    BY <1>1, OwnershipInit, PayloadInit, PendingInit, HandleInit
  <1>4. StuckInv /\ LoopInv
    BY <1>1 DEF Init, StuckInv, LoopInv, FREE, CLAIMED, HandlingPc
  <1>5. QuietInv /\ GoneInv
    BY <1>1 DEF QuietInv, GoneInv, HubMapsAlive
  <1>6. LeakInv
    BY <1>1, <1>3 DEF LeakInv
  <1> QED
    BY <1>2, <1>3, <1>4, <1>5, <1>6 DEF LifeInv

(***************************************************************************)
(* And every step keeps it.                                                *)
(***************************************************************************)
LEMMA LifeInvStep == LifeInv /\ [LifeNext]_lifeVars => LifeInv'
  <1> SUFFICES ASSUME LifeInv, [LifeNext]_lifeVars PROVE LifeInv'
    OBVIOUS
  <1>1. LifeTypeOK'
    BY LifeTypeStep DEF LifeInv
  <1>2. CASE ConnectionStep \/ EndStep
    <2>1. OwnershipInv' /\ PayloadInv' /\ WatcherInv' /\ (HubMapsAlive' => PendingInv')
      BY <1>2, LifeOwnership, LifePayloads, LifePending DEF LifeInv
    <2>2. StuckInv' /\ LoopInv' /\ QuietInv'
      BY <1>2, LifeStuck, LifeLoops DEF LifeInv
    <2>3. LeakInv' /\ GoneInv'
      BY <1>2, LifeLeak, LifeGone DEF LifeInv
    <2> QED
      BY <1>1, <2>1, <2>2, <2>3 DEF LifeInv
  <1>3. CASE UNCHANGED lifeVars
    <2>1. UNCHANGED vars /\ UNCHANGED <<bus, watchLoop, dead, leaked, stuck>>
      BY <1>3 DEF lifeVars, endVars
    <2>2. TypeOK /\ OwnershipInv' /\ PayloadInv' /\ WatcherInv' /\ (PendingInv => PendingInv')
      BY <2>1, OwnershipStep, PayloadStep, PendingStep DEF LifeInv, LifeTypeOK
    <2>3. HubMapsAlive' => PendingInv'
      BY <2>1, <2>2 DEF LifeInv, HubMapsAlive
    <2>4. StuckInv' /\ LoopInv' /\ QuietInv' /\ GoneInv'
      BY <2>1 DEF LifeInv, StuckInv, LoopInv, QuietInv, GoneInv, HubMapsAlive, Tended, vars, slotVars,
          hubVars, dispVars, watchVars, workerVars, recvVars, handVars
    <2>5. LeakInv'
      BY <2>1 DEF LifeInv, LeakInv, HandleInv, HandleTable, MapHandles, LocalHandles, NamesHeld,
          BurntKept, LiveLocals, LocalsInUse, MarkersLive, OrphanNames, vars, slotVars, osVars,
          hubVars, dispVars, workerVars, handVars
    <2> QED
      BY <1>1, <2>2, <2>3, <2>4, <2>5 DEF LifeInv
  <1> QED
    BY <1>2, <1>3 DEF LifeNext, ConnectionStep, EndStep

(***************************************************************************)
(* The inductive invariant holds however often workers are stopped, killed *)
(* and opened.                                                             *)
(***************************************************************************)
THEOREM LifeInvCorrect == LifeSpec => []LifeInv
  BY LifeInvInit, LifeInvStep, PTL DEF LifeSpec

(***************************************************************************)
(* The variables keep their types through stop, drop, kill and reopen.     *)
(***************************************************************************)
THEOREM LifeTypeCorrect == LifeSpec => []LifeTypeOK
  <1>1. LifeInv => LifeTypeOK
    BY DEF LifeInv
  <1> QED
    BY <1>1, LifeInvCorrect, PTL

(***************************************************************************)
(* Whenever workers are killed: the slots that are lost are exactly those  *)
(* a killed worker had claimed, and nobody alive touches them.             *)
(***************************************************************************)
THEOREM KillCostsTheClaimed == LifeSpec => []StuckOnlyByKill
  <1>1. LifeInv => StuckOnlyByKill
    <2> SUFFICES ASSUME LifeInv, NEW i \in Slots
                 PROVE  /\ status[i] \in {WRITING, CLAIMED} => (LiveAccessors(i) = {} <=> i \in stuck)
                        /\ i \in stuck => status[i] = CLAIMED
      BY DEF StuckOnlyByKill
    <2> USE DEF LifeInv
    <2>1. i \in stuck => status[i] = CLAIMED
      BY DEF StuckInv
    <2>2. CASE status[i] = WRITING
      <3>1. PICK c \in Calls : disp[c] \in WritingPc /\ at[c] = i
        BY <2>2 DEF OwnershipInv, WritingContent
      <3>2. <<"dispatch", c>> \in LiveAccessors(i)
        BY <3>1 DEF LiveAccessors, Accessors
      <3> QED
        BY <2>1, <2>2, <3>2 DEF WRITING, CLAIMED
    <2>3. CASE status[i] = CLAIMED /\ i \notin stuck
      <3>1. Tended(i, dead)
        BY <2>3 DEF StuckInv
      <3>2. reqArena[i] \in Calls
        BY <2>3 DEF OwnershipInv, BusyContent, Busy
      <3>3. CASE recv = "read" /\ rat = i
        <4>1. <<"receive", None>> \in LiveAccessors(i)
          BY <3>3 DEF LiveAccessors, Accessors
        <4> QED
          BY <2>1, <2>3, <4>1
      <3>4. CASE reqArena[i] \notin dead /\ hand[reqArena[i]] \in HandlingPc /\ hat[reqArena[i]] = i
        <4>1. <<"handler", reqArena[i]>> \in LiveAccessors(i)
          BY <3>2, <3>4 DEF LiveAccessors, Accessors
        <4> QED
          BY <2>1, <2>3, <4>1
      <3> QED
        BY <3>1, <3>3, <3>4 DEF Tended
    <2>4. CASE status[i] = CLAIMED /\ i \in stuck
      <3>1. \A c \in Calls : ~(disp[c] \in WritingPc /\ at[c] = i)
        BY <2>4 DEF OwnershipInv, WritersOwn, WRITING, CLAIMED
      <3>2. ~(watch \in {"read", "release"} /\ wat = i)
        BY <2>4 DEF OwnershipInv, WatcherOwns, CLAIMED, DONE
      <3>3. ~(recv = "read" /\ rat = i)
        BY <2>4 DEF StuckInv
      <3>4. \A c \in Calls \ dead : ~(hand[c] \in HandlingPc /\ hat[c] = i)
        BY <2>4 DEF StuckInv
      <3>5. LiveAccessors(i) = {}
        BY <3>1, <3>2, <3>3, <3>4 DEF LiveAccessors, Accessors
      <3> QED
        BY <2>1, <2>4, <3>5
    <2> QED
      BY <2>1, <2>2, <2>3, <2>4
  <1> QED
    BY <1>1, LifeInvCorrect, PTL

(***************************************************************************)
(* However many workers follow each other: no two threads, and not the     *)
(* handler of a dead worker and a new one's, are due at the bytes of one   *)
(* slot.                                                                   *)
(***************************************************************************)
THEOREM LifeAccessExclusive == LifeSpec => []SlotAccessExclusive
  <1>1. LifeInv => SlotAccessExclusive
    BY OwnershipExclusive DEF LifeInv
  <1> QED
    BY <1>1, LifeInvCorrect, PTL

(***************************************************************************)
(* Across any number of workers: a region is held by one live handle or    *)
(* was left by a killed worker.                                            *)
(***************************************************************************)
THEOREM LifeRegionsAccounted == LifeSpec => []RegionsAccountedFor
  <1>1. LifeInv => RegionsAccountedFor
    <2> SUFFICES ASSUME LifeInv, NEW i \in Slots, NEW m \in Markers \ Orphans
                 PROVE  /\ HeldOnce(LiveRequestHandles(i, m), reqShm[i][m] # None)
                        /\ IF <<i, m>> \in leaked
                           THEN LiveResponseHandles(i, m) = {} /\ rspShm[i][m] # None
                           ELSE HeldOnce(LiveResponseHandles(i, m), rspShm[i][m] # None)
      BY DEF RegionsAccountedFor
    <2>0. m \in Markers /\ <<i, m>> \notin OrphanNames /\ m # 0
      BY BusAssumption DEF OrphanNames, Markers
    <2>1. /\ HandleTable(reqShm, hubOvf, at, held, OrphanNames)
          /\ HandleTable(rspShm, wkOvf, hat, LiveLocals(dead), OrphanNames \cup leaked)
      BY DEF LifeInv, LeakInv, HandleInv
    <2>2. \A x : x \in LiveRequestHandles(i, m) <=>
              \/ x = <<"map", None>> /\ hubOvf[i] = m
              \/ \E c \in Calls : x = <<"local", c>> /\ at[c] = i /\ held[c] = m
      <3>1. ~HubMapsAlive => hubOvf[i] # m
        BY <2>0 DEF LifeInv, GoneInv
      <3> QED
        BY <3>1 DEF LiveRequestHandles, RequestHandles
    <2>3. \A x : x \in LiveResponseHandles(i, m) <=>
              \/ x = <<"map", None>> /\ wkOvf[i] = m
              \/ \E c \in Calls : x = <<"local", c>> /\ hat[c] = i /\ LiveLocals(dead)[c] = m
      <3>1. \A c \in Calls : LiveLocals(dead)[c] = m <=> c \notin dead /\ hheld[c] = m
        BY <2>0 DEF LiveLocals
      <3> QED
        BY <3>1 DEF LiveResponseHandles, ResponseHandles
    <2>4. HeldOnce(LiveRequestHandles(i, m), reqShm[i][m] # None)
      BY <2>0, <2>1, <2>2, TableHeldOnce
    <2>5. <<i, m>> \notin leaked => HeldOnce(LiveResponseHandles(i, m), rspShm[i][m] # None)
      BY <2>0, <2>1, <2>3, TableHeldOnce
    <2>6. CASE <<i, m>> \in leaked
      <3>1. rspShm[i][m] # None
        BY <2>0, <2>1, <2>6 DEF HandleTable, BurntKept
      <3>2. wkOvf[i] # m
        BY <2>0, <2>1, <2>6 DEF HandleTable, MapHandles
      <3>3. \A c \in Calls : ~(hat[c] = i /\ LiveLocals(dead)[c] = m)
        BY <2>0, <2>1, <2>6 DEF HandleTable, LocalHandles
      <3>4. \A x : x \notin LiveResponseHandles(i, m)
        BY <2>3, <3>2, <3>3
      <3> QED
        BY <2>4, <2>6, <3>1, <3>4
    <2> QED
      BY <2>4, <2>5, <2>6
  <1> QED
    BY <1>1, LifeInvCorrect, PTL

(***************************************************************************)
(* For every number of calls and slots, through stop, drop, kill and       *)
(* reopen: a scan passes over a slot only if another call is under way in  *)
(* it, with nobody dead in charge, or if a killed worker had claimed it.   *)
(***************************************************************************)
THEOREM LifeRefusedUnderLoad ==
    LifeSpec => [][\A c \in Calls :
                     PassesOver(c) => at[c] \in stuck \/ OccupiedByOther(c, dead)]_lifeVars
  <1> DEFINE Passes == \A c \in Calls :
                 PassesOver(c) => at[c] \in stuck \/ OccupiedByOther(c, dead)
  <1>1. LifeInv /\ [LifeNext]_lifeVars => [Passes]_lifeVars
    <2> SUFFICES ASSUME LifeInv, LifeNext, NEW c \in Calls, PassesOver(c), at[c] \notin stuck
                 PROVE  OccupiedByOther(c, dead)
      OBVIOUS
    <2>1. ~UNCHANGED dispVars
      BY DEF PassesOver, dispVars
    <2>2. ConnectionStep
      BY <2>1, EndSteps DEF LifeNext, ConnectionStep, EndStep
    <2>3. disp[c] = "scan" /\ at[c] \in Slots /\ status[at[c]] # FREE
      BY <2>2, ConnectionSteps, PassedNotFree DEF LifeInv, LifeTypeOK
    <2>4. status[at[c]] = CLAIMED => Tended(at[c], dead)
      BY <2>3 DEF LifeInv, StuckInv
    <2> QED
      BY <2>3, <2>4, TakenOccupied DEF LifeInv, LifeTypeOK
  <1> QED
    BY <1>1, LifeInvCorrect, PTL DEF LifeSpec

(***************************************************************************)
(* No worker is given a request that another worker, dead or stopped, was  *)
(* given.                                                                  *)
(***************************************************************************)
THEOREM LifeDeliveredOnce == LifeSpec => []AtMostOnceDelivery
  <1>1. LifeInv => AtMostOnceDelivery
    <2> SUFFICES ASSUME LifeInv, NEW c \in Calls PROVE delivered[c] <= 1
      BY DEF AtMostOnceDelivery
    <2>1. delivered[c] = 0 \/ delivered[c] = 1
      BY DEF LifeInv, PayloadInv, DeliveredOnce
    <2> QED
      BY <2>1
  <1> QED
    BY <1>1, LifeInvCorrect, PTL

(***************************************************************************)
(* Every step, of whoever stops, drops, dies or comes back, is a step of   *)
(* RequestReply or none.                                                   *)
(***************************************************************************)
LEMMA LifeRefineStep == LifeInv /\ [LifeNext]_lifeVars => [RR!Next]_(RR!vars)
  <1> SUFFICES ASSUME LifeInv, [LifeNext]_lifeVars PROVE [RR!Next]_(RR!vars)
    OBVIOUS
  <1>1. TypeOK /\ OwnershipInv /\ PayloadInv /\ WatcherInv /\ TypeOK'
    BY LifeTypeStep DEF LifeInv, LifeTypeOK
  <1>2. ASSUME UNCHANGED <<status, reqArena, disp, got, hand, watch, wid, wrsp>>
        PROVE  [RR!Next]_(RR!vars)
    <2>1. \A d \in Calls : Phase(d)' = Phase(d)
      BY <1>2 DEF Phase, Answered, Underway
    <2> QED
      BY <1>2, <2>1 DEF RR!vars, PhaseOfCalls
  <1>3. CASE EndStep
    BY <1>2, <1>3, EndSteps DEF slotVars, dispVars, watchVars, handVars
  <1>4. CASE UNCHANGED lifeVars
    BY <1>2, <1>4 DEF lifeVars, vars, slotVars, hubVars, dispVars, watchVars, workerVars, handVars
  <1>5. CASE ConnectionStep
    <2>1. ASSUME NEW c \in Calls, Start(c) \/ Dispatch(c) PROVE [RR!Next]_(RR!vars)
      BY <1>1, <2>1, RefineDispatch
    <2>2. ASSUME NEW c \in Calls, Handler(c) PROVE [RR!Next]_(RR!vars)
      BY <1>1, <2>2, RefineHandler
    <2>3. Watcher => [RR!Next]_(RR!vars)
      BY <1>1, RefineWatcher
    <2>4. ReceiveLoop => [RR!Next]_(RR!vars)
      BY <1>1, RefineReceiveLoop
    <2> QED
      BY <1>5, <2>1, <2>2, <2>3, <2>4, ConnectionSteps DEF StepWithout
  <1> QED
    BY <1>3, <1>4, <1>5 DEF LifeNext, ConnectionStep, EndStep

(***************************************************************************)
(* What a connection promises its callers is kept through stop, drop, kill *)
(* and reopen: at most one answer, the right one, and only if served.      *)
(***************************************************************************)
THEOREM LifeImplements == LifeSpec => ImplementsRequestReply
  <1>1. LifeInit => RR!Init
    <2> SUFFICES ASSUME LifeInit PROVE RR!Init
      OBVIOUS
    <2>1. Init
      BY DEF LifeInit
    <2>2. \A d \in Calls : disp[d] \in DispPc /\ disp[d] \in NewPc /\ got[d] = None
      BY <2>1 DEF Init, DispPc, NewPc
    <2>3. \A d \in Calls : Phase(d) = "new"
      BY <2>2, PhaseIs
    <2> QED
      BY <2>1, <2>3 DEF Init, RR!Init, PhaseOfCalls
  <1> QED
    BY <1>1, LifeRefineStep, LifeInvCorrect, PTL DEF LifeSpec, ImplementsRequestReply, RR!Spec

(***************************************************************************)
(* Once the SlotBus and its watcher are gone nobody is left waiting: every *)
(* sender in the pending map has closed its receiver, and no dispatch()    *)
(* puts another one there.                                                 *)
(***************************************************************************)
THEOREM GoneHubKeepsNobody == LifeSpec => [](~HubMapsAlive => pending = {})
  <1>1. LifeInv => (~HubMapsAlive => pending = {})
    BY DEF LifeInv, GoneInv
  <1> QED
    BY <1>1, LifeInvCorrect, PTL

(***************************************************************************)
(* Ending and opening only add signals.                                    *)
(***************************************************************************)
LEMMA EndStepsSignal ==
    ASSUME LifeTypeOK, EndStep
    PROVE  (reqEvent > 0 => reqEvent' > 0) /\ (rspEvent > 0 => rspEvent' > 0)
  <1>0. Signal(reqEvent) > 0 /\ Signal(rspEvent) > 0
    BY SignalPending DEF LifeTypeOK, TypeOK, OsTyped
  <1>1. CASE BusStop \/ BusDrop \/ RecvCheck \/ WorkerStop \/ UserRelease \/ WorkerOpen
    BY <1>1 DEF BusStop, BusDrop, RecvCheck, WorkerStop, UserRelease, WorkerOpen, vars, osVars
  <1>2. CASE WatchCheck \/ BusStopSignal \/ BusDropSignal
    BY <1>0, <1>2 DEF WatchCheck, BusStopSignal, BusDropSignal
  <1>3. CASE WorkerStopSignal \/ WorkerDrop \/ WorkerKill
    BY <1>0, <1>3 DEF WorkerStopSignal, WorkerDrop, WorkerKill, osVars
  <1> QED
    BY <1>1, <1>2, <1>3 DEF EndStep

(***************************************************************************)
(* However a connection is stopped, dropped and opened again: whatever     *)
(* waits in a slot stays noticed, unless a worker is killed.               *)
(***************************************************************************)
THEOREM WakeupsOutliveStops == LifeSpec => OnlyKillLosesWakeup
  <1> DEFINE Kept == \A i \in Slots : /\ RequestNoticed(i) => RequestNoticed(i)'
                                      /\ ResponseNoticed(i, dead) => ResponseNoticed(i, dead)'
  <1>1. LifeInv /\ [LifeNext]_lifeVars => [WorkerKill \/ Kept]_lifeVars
    <2> SUFFICES ASSUME LifeInv, LifeNext, ~WorkerKill, NEW i \in Slots
                 PROVE  /\ RequestNoticed(i) => RequestNoticed(i)'
                        /\ ResponseNoticed(i, dead) => ResponseNoticed(i, dead)'
      OBVIOUS
    <2>1. CASE ConnectionStep
      <3>1. PICK D \in SUBSET Calls : D = dead
        BY DEF LifeInv, LifeTypeOK
      <3>2. dead' = D /\ StepWithout(D)
        BY <2>1, <3>1, ConnectionSteps
      <3>3. /\ RequestNoticed(i) => RequestNoticed(i)'
            /\ ResponseNoticed(i, D) => ResponseNoticed(i, D)'
        BY <3>2, WakeStep DEF LifeInv, LifeTypeOK
      <3> QED
        BY <3>1, <3>2, <3>3 DEF ResponseNoticed
    <2>2. CASE EndStep
      <3>1. /\ UNCHANGED <<status, reqArena, disp, hand, watch, wat, recv, rat, dead>>
            /\ reqEvent > 0 => reqEvent' > 0
            /\ rspEvent > 0 => rspEvent' > 0
        BY <2>2, EndSteps, EndStepsSignal
            DEF LifeInv, slotVars, dispVars, handVars, watchVars, WorkerDrop, recvVars
      <3> QED
        BY <3>1 DEF RequestNoticed, ResponseNoticed, RecvWillPass, WatchWillPass
    <2> QED
      BY <2>1, <2>2 DEF LifeNext, ConnectionStep, EndStep
  <1> QED
    BY <1>1, LifeInvCorrect, PTL DEF LifeSpec, OnlyKillLosesWakeup

(***************************************************************************)
(* The steps of the connection take a signal only from the event that the  *)
(* loop waits for, and then that loop is not at the wait any more.         *)
(***************************************************************************)
LEMMA StopNoticedConnection ==
    ASSUME LifeTypeOK, StopNoticed, ConnectionStep
    PROVE  StopNoticed'
  <1>0. UNCHANGED <<bus, worker>> /\ Signal(reqEvent) > 0 /\ Signal(rspEvent) > 0
    BY ConnectionSteps, SignalPending DEF LifeTypeOK, TypeOK, OsTyped
  <1>1. ASSUME NEW c \in Calls, StartCall(c) \/ DispatchStep(c)
        PROVE  /\ UNCHANGED <<watch, watchLoop, recv, recvLoop>>
               /\ reqEvent > 0 => reqEvent' > 0
               /\ rspEvent > 0 => rspEvent' > 0
    BY <1>0, <1>1 DEF StartCall, DispatchStep, endVars, Start, Dispatch, ClaimFreeSlot,
        DropStaleRequestOverflow, WriteRequest, PublishRequest, ReleaseFailedWrite,
        StoreRequestOverflow, RegisterPending, SignalRequest, osVars, watchVars, workerVars
  <1>2. ASSUME NEW c \in Calls, HandlerStep(c)
        PROVE  /\ UNCHANGED <<watch, watchLoop, recv, recvLoop>>
               /\ reqEvent > 0 => reqEvent' > 0
               /\ rspEvent > 0 => rspEvent' > 0
    BY <1>0, <1>2 DEF HandlerStep, endVars, Handler, DropStaleResponseOverflow, WriteResponse,
        PublishResponse, ReleaseFailedResponse, StoreResponseOverflow, SignalResponse, osVars,
        hubVars, recvVars
  <1>3. CASE WatchStep
    <2>1. /\ watch' = "wait" => watchLoop' = "check"
          /\ UNCHANGED <<recv, recvLoop, reqEvent>>
      BY <1>3 DEF WatchStep, Watcher, WatchWait, WatchScan, WatchRead, WatchRelease,
          WatchDropOverflow, WatchResolve, osVars, workerVars
    <2> QED
      BY <1>0, <2>1 DEF StopNoticed
  <1>4. CASE RecvStep
    <2>1. /\ recv' = "wait" => recvLoop' = "check"
          /\ UNCHANGED <<watch, watchLoop, rspEvent>>
      BY <1>4 DEF RecvStep, ReceiveLoop, RecvWait, RecvScan, RecvDeliver, RecvDiscard, osVars,
          hubVars
    <2> QED
      BY <1>0, <2>1 DEF StopNoticed
  <1> QED
    BY <1>0, <1>1, <1>2, <1>3, <1>4 DEF ConnectionStep, StopNoticed

(***************************************************************************)
(* A loop passes its test of `running` only before it is cleared, and the  *)
(* signal follows.                                                         *)
(***************************************************************************)
LEMMA StopNoticedEnd ==
    ASSUME LifeTypeOK, StopNoticed, EndStep
    PROVE  StopNoticed'
  <1>0. Signal(reqEvent) > 0 /\ Signal(rspEvent) > 0
    BY SignalPending DEF LifeTypeOK, TypeOK, OsTyped
  <1>1. /\ UNCHANGED watch
        /\ UNCHANGED recv \/ WorkerKill
        /\ reqEvent > 0 => reqEvent' > 0
        /\ rspEvent > 0 => rspEvent' > 0
    BY EndSteps, EndStepsSignal DEF watchVars, WorkerDrop, recvVars
  <1>2. bus' \in {"stopped", "dropped"} /\ watchLoop' = "in" =>
            rspEvent' > 0 \/ (bus \in {"stopped", "dropped"} /\ watchLoop = "in")
    BY <1>0 DEF EndStep, WatchCheck, RecvCheck, BusStop, BusStopSignal, BusDrop, BusDropSignal,
        WorkerStop, WorkerStopSignal, UserRelease, WorkerDrop, WorkerKill, WorkerOpen
  <1>3. worker' = "stopped" /\ recvLoop' = "in" =>
            reqEvent' > 0 \/ (worker = "stopped" /\ recvLoop = "in" /\ ~WorkerKill)
    BY <1>0 DEF EndStep, WatchCheck, RecvCheck, BusStop, BusStopSignal, BusDrop, BusDropSignal,
        WorkerStop, WorkerStopSignal, UserRelease, WorkerDrop, WorkerKill, WorkerOpen
  <1> QED
    BY <1>1, <1>2, <1>3 DEF StopNoticed

(***************************************************************************)
(* For every number of threads and workers: a loop that is told to stop    *)
(* needs no timeout to find out.                                           *)
(***************************************************************************)
THEOREM StopsNoticed == LifeSpec => []StopNoticed
  <1>1. LifeInit => StopNoticed
    BY DEF LifeInit, StopNoticed
  <1>2. LifeTypeOK /\ StopNoticed /\ [LifeNext]_lifeVars => StopNoticed'
    <2> SUFFICES ASSUME LifeTypeOK, StopNoticed, [LifeNext]_lifeVars PROVE StopNoticed'
      OBVIOUS
    <2>1. CASE UNCHANGED lifeVars
      BY <2>1 DEF StopNoticed, lifeVars, endVars, vars, osVars, hubVars, workerVars
    <2> QED
      BY <2>1, StopNoticedConnection, StopNoticedEnd DEF LifeNext, ConnectionStep, EndStep
  <1> QED
    BY <1>1, <1>2, LifeTypeCorrect, PTL DEF LifeSpec

(***************************************************************************)
(* Through stop, drop, kill and reopen the slots stay mailboxes: a new     *)
(* worker finds each request and answer as its predecessor left it.        *)
(***************************************************************************)
THEOREM LifeSlotsImplement == LifeSpec => ImplementsSlotProtocol
  <1>1. LifeInit => SP!Init
    BY SlotInit DEF LifeInit
  <1>2. LifeInv /\ [LifeNext]_lifeVars => [SP!Next]_(SP!vars)
    <2> SUFFICES ASSUME LifeInv, [LifeNext]_lifeVars PROVE [SP!Next]_(SP!vars)
      OBVIOUS
    <2>1. CASE ConnectionStep
      BY <2>1, ConnectionSteps, SlotStep DEF LifeInv, LifeTypeOK
    <2>2. CASE EndStep
      <3>1. UNCHANGED slotVars /\ PublishedCalls' = PublishedCalls
        BY <2>2, EndSteps DEF dispVars, PublishedCalls
      <3> QED
        BY <3>1, NoSlotTurns DEF slotVars
    <2>3. CASE UNCHANGED lifeVars
      <3>1. UNCHANGED slotVars /\ PublishedCalls' = PublishedCalls
        BY <2>3 DEF lifeVars, vars, hubVars, PublishedCalls
      <3> QED
        BY <3>1, NoSlotTurns DEF slotVars
    <2> QED
      BY <2>1, <2>2, <2>3 DEF LifeNext, ConnectionStep, EndStep
  <1> QED
    BY <1>1, <1>2, LifeInvCorrect, PTL DEF LifeSpec, ImplementsSlotProtocol, SP!Spec
=============================================================================
