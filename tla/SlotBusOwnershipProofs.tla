----------------------- MODULE SlotBusOwnershipProofs -----------------------
(***************************************************************************)
(* Every reachable state of SlotBus is well typed; and who owns a slot:    *)
(* the conjuncts of OwnershipInv are inductive together, and with them     *)
(* nobody touches the bytes of a slot somebody else is using and no        *)
(* reserved slot is left without somebody to move it on.                   *)
(***************************************************************************)
EXTENDS SlotBusInv, TLAPS

USE DEF Slots, Markers, Payloads

(***************************************************************************)
(* Dropping a handle keeps the table of overflow names well typed.         *)
(***************************************************************************)
LEMMA DropHandleType ==
    ASSUME NEW shm \in [Slots -> [Markers -> Payloads]],
           NEW i \in Slots, NEW m
    PROVE  DropHandle(shm, i, m) \in [Slots -> [Markers -> Payloads]]
  BY DEF DropHandle

(***************************************************************************)
(* So does creating a region.                                              *)
(***************************************************************************)
LEMMA NameTableType ==
    ASSUME NEW shm \in [Slots -> [Markers -> Payloads]],
           NEW i \in Slots, NEW m \in Markers, NEW p \in Payloads
    PROVE  [shm EXCEPT ![i][m] = p] \in [Slots -> [Markers -> Payloads]]
  OBVIOUS

(***************************************************************************)
(* The connection starts well typed.                                       *)
(***************************************************************************)
LEMMA TypeInit == Init => TypeOK
  <1> SUFFICES ASSUME Init PROVE TypeOK
    OBVIOUS
  <1>1. SlotsTyped
    BY BusAssumption DEF Init, SlotsTyped, Statuses, FREE
  <1>2. OsTyped
    BY BusAssumption DEF Init, OsTyped
  <1>3. DispatchTyped
    BY BusAssumption DEF Init, DispatchTyped, DispPc
  <1>4. WatcherTyped
    BY BusAssumption DEF Init, WatcherTyped, WatchPc
  <1>5. WorkerTyped
    BY BusAssumption DEF Init, WorkerTyped, RecvPc, HandPc
  <1> QED
    BY <1>1, <1>2, <1>3, <1>4, <1>5 DEF TypeOK

(*****************************************************************************)
(* Types are kept by a step of a dispatch(), the call of it included.        *)
(*****************************************************************************)
LEMMA TypeDispatch ==
    ASSUME TypeOK, NEW c \in Calls, Start(c) \/ Dispatch(c)
    PROVE  TypeOK'
  <1>1. CASE Start(c)
    <2>1. SlotsTyped'
      BY <1>1 DEF Start, TypeOK, SlotsTyped, slotVars, osVars, watchVars, workerVars
    <2>2. OsTyped'
      BY <1>1 DEF Start, TypeOK, OsTyped, slotVars, osVars, watchVars, workerVars
    <2>3. DispatchTyped'
      <3>1. disp' \in [Calls -> DispPc]
        BY <1>1 DEF Start, TypeOK, DispatchTyped, DispPc, WritingPc, PublishedPc
      <3>2. at' \in [Calls -> Slots]
        BY <1>1, BusAssumption DEF Start, TypeOK, DispatchTyped
      <3> QED
        BY <1>1, <3>1, <3>2 DEF Start, TypeOK, DispatchTyped, slotVars, osVars, watchVars,
            workerVars
    <2>4. WatcherTyped'
      BY <1>1 DEF Start, TypeOK, WatcherTyped, slotVars, osVars, watchVars, workerVars
    <2>5. WorkerTyped'
      BY <1>1 DEF Start, TypeOK, WorkerTyped, slotVars, osVars, watchVars, workerVars
    <2> QED
      BY <2>1, <2>2, <2>3, <2>4, <2>5 DEF TypeOK
  <1>2. CASE ClaimFreeSlot(c)
    <2>1. SlotsTyped'
      <3>1. status' \in [Slots -> Statuses]
        BY <1>2 DEF ClaimFreeSlot, TypeOK, SlotsTyped, DispatchTyped, Statuses, WRITING
      <3> QED
        BY <1>2, <3>1 DEF ClaimFreeSlot, TypeOK, SlotsTyped, osVars, watchVars, workerVars
    <2>2. OsTyped'
      BY <1>2 DEF ClaimFreeSlot, TypeOK, OsTyped, osVars, watchVars, workerVars
    <2>3. DispatchTyped'
      <3>1. disp' \in [Calls -> DispPc]
        BY <1>2 DEF ClaimFreeSlot, TypeOK, DispatchTyped, DispPc, WritingPc, PublishedPc
      <3>2. at' \in [Calls -> Slots]
        <4>1. at[c] \in 0 .. NumSlots - 1 /\ NumSlots \in Nat
          BY BusAssumption DEF TypeOK, DispatchTyped
        <4>2. at' = at \/ (at[c] < NumSlots - 1 /\ at' = [at EXCEPT ![c] = at[c] + 1])
          BY <1>2 DEF ClaimFreeSlot
        <4> QED
          BY <4>1, <4>2 DEF TypeOK, DispatchTyped
      <3> QED
        BY <1>2, <3>1, <3>2 DEF ClaimFreeSlot, TypeOK, DispatchTyped, osVars, watchVars,
            workerVars
    <2>4. WatcherTyped'
      BY <1>2 DEF ClaimFreeSlot, TypeOK, WatcherTyped, osVars, watchVars, workerVars
    <2>5. WorkerTyped'
      BY <1>2 DEF ClaimFreeSlot, TypeOK, WorkerTyped, osVars, watchVars, workerVars
    <2> QED
      BY <2>1, <2>2, <2>3, <2>4, <2>5 DEF TypeOK
  <1>3. CASE DropStaleRequestOverflow(c)
    <2>1. SlotsTyped'
      BY <1>3 DEF DropStaleRequestOverflow, TypeOK, SlotsTyped, slotVars, watchVars, workerVars
    <2>2. OsTyped'
      <3>1. reqShm' \in [Slots -> [Markers -> Payloads]]
        BY <1>3, DropHandleType DEF DropStaleRequestOverflow, TypeOK, OsTyped, DispatchTyped
      <3> QED
        BY <1>3, <3>1 DEF DropStaleRequestOverflow, TypeOK, OsTyped, slotVars, watchVars,
            workerVars
    <2>3. DispatchTyped'
      <3>1. disp' \in [Calls -> DispPc]
        BY <1>3 DEF DropStaleRequestOverflow, TypeOK, DispatchTyped, DispPc, WritingPc,
            PublishedPc
      <3>2. hubOvf' \in [Slots -> 0 .. MaxMarker]
        BY <1>3, BusAssumption DEF DropStaleRequestOverflow, TypeOK, DispatchTyped
      <3> QED
        BY <1>3, <3>1, <3>2 DEF DropStaleRequestOverflow, TypeOK, DispatchTyped, slotVars,
            watchVars, workerVars
    <2>4. WatcherTyped'
      BY <1>3 DEF DropStaleRequestOverflow, TypeOK, WatcherTyped, slotVars, watchVars,
          workerVars
    <2>5. WorkerTyped'
      BY <1>3 DEF DropStaleRequestOverflow, TypeOK, WorkerTyped, slotVars, watchVars, workerVars
    <2> QED
      BY <2>1, <2>2, <2>3, <2>4, <2>5 DEF TypeOK
  <1>4. CASE WriteRequest(c)
    <2>1. SlotsTyped'
      <3>1. reqId' \in [Slots -> Calls \cup {None}]
        BY <1>4 DEF WriteRequest, TypeOK, SlotsTyped, DispatchTyped, SlotId
      <3>2. reqMarker' \in [Slots -> 0 .. MaxMarker]
        <4>1. \/ reqMarker' = reqMarker
              \/ \E m \in {0} \cup Markers : reqMarker' = [reqMarker EXCEPT ![at[c]] = m]
          BY <1>4 DEF WriteRequest
        <4>2. ASSUME NEW m \in {0} \cup Markers, reqMarker' = [reqMarker EXCEPT ![at[c]] = m]
              PROVE  reqMarker' \in [Slots -> 0 .. MaxMarker]
          <5>1. m \in 0 .. MaxMarker
            BY BusAssumption
          <5> QED
            BY <4>2, <5>1 DEF TypeOK, SlotsTyped
        <4> QED
          BY <4>1, <4>2 DEF TypeOK, SlotsTyped
      <3>3. reqArena' \in [Slots -> Calls \cup {None}]
        BY <1>4 DEF WriteRequest, TypeOK, SlotsTyped, DispatchTyped
      <3> QED
        BY <1>4, <3>1, <3>2, <3>3 DEF WriteRequest, TypeOK, SlotsTyped, watchVars, workerVars
    <2>2. OsTyped'
      <3>1. reqShm' \in [Slots -> [Markers -> Payloads]]
        <4>1. reqShm' = reqShm \/ \E m \in Markers : reqShm' = [reqShm EXCEPT ![at[c]][m] = c]
          BY <1>4 DEF WriteRequest
        <4>2. ASSUME NEW m \in Markers, reqShm' = [reqShm EXCEPT ![at[c]][m] = c]
              PROVE  reqShm' \in [Slots -> [Markers -> Payloads]]
          BY <4>2, NameTableType DEF TypeOK, OsTyped, DispatchTyped
        <4> QED
          BY <4>1, <4>2 DEF TypeOK, OsTyped
      <3> QED
        BY <1>4, <3>1 DEF WriteRequest, TypeOK, OsTyped, watchVars, workerVars
    <2>3. DispatchTyped'
      <3>1. disp' \in [Calls -> DispPc]
        BY <1>4 DEF WriteRequest, TypeOK, DispatchTyped, DispPc, WritingPc, PublishedPc
      <3>2. held' \in [Calls -> 0 .. MaxMarker]
        BY <1>4, BusAssumption DEF WriteRequest, TypeOK, DispatchTyped, IsFreshMarker,
            FreeMarkers
      <3> QED
        BY <1>4, <3>1, <3>2 DEF WriteRequest, TypeOK, DispatchTyped, watchVars, workerVars
    <2>4. WatcherTyped'
      BY <1>4 DEF WriteRequest, TypeOK, WatcherTyped, watchVars, workerVars
    <2>5. WorkerTyped'
      BY <1>4 DEF WriteRequest, TypeOK, WorkerTyped, watchVars, workerVars
    <2> QED
      BY <2>1, <2>2, <2>3, <2>4, <2>5 DEF TypeOK
  <1>5. CASE PublishRequest(c)
    <2>1. SlotsTyped'
      <3>1. status' \in [Slots -> Statuses]
        BY <1>5 DEF PublishRequest, TypeOK, SlotsTyped, DispatchTyped, Statuses, READY
      <3> QED
        BY <1>5, <3>1 DEF PublishRequest, TypeOK, SlotsTyped, osVars, watchVars, workerVars
    <2>2. OsTyped'
      BY <1>5 DEF PublishRequest, TypeOK, OsTyped, osVars, watchVars, workerVars
    <2>3. DispatchTyped'
      <3>1. disp' \in [Calls -> DispPc]
        BY <1>5 DEF PublishRequest, TypeOK, DispatchTyped, DispPc, WritingPc, PublishedPc
      <3> QED
        BY <1>5, <3>1 DEF PublishRequest, TypeOK, DispatchTyped, osVars, watchVars, workerVars
    <2>4. WatcherTyped'
      BY <1>5 DEF PublishRequest, TypeOK, WatcherTyped, osVars, watchVars, workerVars
    <2>5. WorkerTyped'
      BY <1>5 DEF PublishRequest, TypeOK, WorkerTyped, osVars, watchVars, workerVars
    <2> QED
      BY <2>1, <2>2, <2>3, <2>4, <2>5 DEF TypeOK
  <1>6. CASE ReleaseFailedWrite(c)
    <2>1. SlotsTyped'
      <3>1. status' \in [Slots -> Statuses]
        BY <1>6 DEF ReleaseFailedWrite, TypeOK, SlotsTyped, DispatchTyped, Statuses, FREE
      <3> QED
        BY <1>6, <3>1 DEF ReleaseFailedWrite, TypeOK, SlotsTyped, osVars, watchVars, workerVars
    <2>2. OsTyped'
      BY <1>6 DEF ReleaseFailedWrite, TypeOK, OsTyped, osVars, watchVars, workerVars
    <2>3. DispatchTyped'
      <3>1. disp' \in [Calls -> DispPc]
        BY <1>6 DEF ReleaseFailedWrite, TypeOK, DispatchTyped, DispPc, WritingPc, PublishedPc
      <3> QED
        BY <1>6, <3>1 DEF ReleaseFailedWrite, TypeOK, DispatchTyped, osVars, watchVars,
            workerVars
    <2>4. WatcherTyped'
      BY <1>6 DEF ReleaseFailedWrite, TypeOK, WatcherTyped, osVars, watchVars, workerVars
    <2>5. WorkerTyped'
      BY <1>6 DEF ReleaseFailedWrite, TypeOK, WorkerTyped, osVars, watchVars, workerVars
    <2> QED
      BY <2>1, <2>2, <2>3, <2>4, <2>5 DEF TypeOK
  <1>7. CASE StoreRequestOverflow(c)
    <2>1. SlotsTyped'
      BY <1>7 DEF StoreRequestOverflow, TypeOK, SlotsTyped, slotVars, watchVars, workerVars
    <2>2. OsTyped'
      <3>1. reqShm' \in [Slots -> [Markers -> Payloads]]
        <4>1. reqShm' = reqShm \/ reqShm' = DropHandle(reqShm, at[c], hubOvf[at[c]])
          BY <1>7 DEF StoreRequestOverflow
        <4>2. DropHandle(reqShm, at[c], hubOvf[at[c]]) \in [Slots -> [Markers -> Payloads]]
          BY DropHandleType DEF TypeOK, OsTyped, DispatchTyped
        <4> QED
          BY <4>1, <4>2 DEF TypeOK, OsTyped
      <3> QED
        BY <1>7, <3>1 DEF StoreRequestOverflow, TypeOK, OsTyped, slotVars, watchVars, workerVars
    <2>3. DispatchTyped'
      <3>1. disp' \in [Calls -> DispPc]
        BY <1>7 DEF StoreRequestOverflow, TypeOK, DispatchTyped, DispPc, WritingPc, PublishedPc
      <3>2. held' \in [Calls -> 0 .. MaxMarker]
        BY <1>7, BusAssumption DEF StoreRequestOverflow, TypeOK, DispatchTyped
      <3>3. hubOvf' \in [Slots -> 0 .. MaxMarker]
        BY <1>7 DEF StoreRequestOverflow, TypeOK, DispatchTyped
      <3> QED
        BY <1>7, <3>1, <3>2, <3>3 DEF StoreRequestOverflow, TypeOK, DispatchTyped, slotVars,
            watchVars, workerVars
    <2>4. WatcherTyped'
      BY <1>7 DEF StoreRequestOverflow, TypeOK, WatcherTyped, slotVars, watchVars, workerVars
    <2>5. WorkerTyped'
      BY <1>7 DEF StoreRequestOverflow, TypeOK, WorkerTyped, slotVars, watchVars, workerVars
    <2> QED
      BY <2>1, <2>2, <2>3, <2>4, <2>5 DEF TypeOK
  <1>8. CASE RegisterPending(c)
    <2>1. SlotsTyped'
      BY <1>8 DEF RegisterPending, TypeOK, SlotsTyped, slotVars, osVars, watchVars, workerVars
    <2>2. OsTyped'
      BY <1>8 DEF RegisterPending, TypeOK, OsTyped, slotVars, osVars, watchVars, workerVars
    <2>3. DispatchTyped'
      <3>1. disp' \in [Calls -> DispPc]
        BY <1>8 DEF RegisterPending, TypeOK, DispatchTyped, DispPc, WritingPc, PublishedPc
      <3>2. pending' \in SUBSET Calls
        BY <1>8 DEF RegisterPending, TypeOK, DispatchTyped
      <3> QED
        BY <1>8, <3>1, <3>2 DEF RegisterPending, TypeOK, DispatchTyped, slotVars, osVars,
            watchVars, workerVars
    <2>4. WatcherTyped'
      BY <1>8 DEF RegisterPending, TypeOK, WatcherTyped, slotVars, osVars, watchVars, workerVars
    <2>5. WorkerTyped'
      BY <1>8 DEF RegisterPending, TypeOK, WorkerTyped, slotVars, osVars, watchVars, workerVars
    <2> QED
      BY <2>1, <2>2, <2>3, <2>4, <2>5 DEF TypeOK
  <1>9. CASE SignalRequest(c)
    <2>1. SlotsTyped'
      BY <1>9 DEF SignalRequest, TypeOK, SlotsTyped, slotVars, watchVars, workerVars
    <2>2. OsTyped'
      <3>1. reqEvent' \in Nat
        BY <1>9 DEF SignalRequest, TypeOK, OsTyped, Signal
      <3> QED
        BY <1>9, <3>1 DEF SignalRequest, TypeOK, OsTyped, slotVars, watchVars, workerVars
    <2>3. DispatchTyped'
      <3>1. disp' \in [Calls -> DispPc]
        BY <1>9 DEF SignalRequest, TypeOK, DispatchTyped, DispPc, WritingPc, PublishedPc
      <3> QED
        BY <1>9, <3>1 DEF SignalRequest, TypeOK, DispatchTyped, slotVars, watchVars, workerVars
    <2>4. WatcherTyped'
      BY <1>9 DEF SignalRequest, TypeOK, WatcherTyped, slotVars, watchVars, workerVars
    <2>5. WorkerTyped'
      BY <1>9 DEF SignalRequest, TypeOK, WorkerTyped, slotVars, watchVars, workerVars
    <2> QED
      BY <2>1, <2>2, <2>3, <2>4, <2>5 DEF TypeOK
  <1> QED
    BY <1>1, <1>2, <1>3, <1>4, <1>5, <1>6, <1>7, <1>8, <1>9 DEF Dispatch

(*****************************************************************************)
(* Types are kept by a step of the response watcher.                         *)
(*****************************************************************************)
LEMMA TypeWatcher ==
    ASSUME TypeOK, Watcher
    PROVE  TypeOK'
  <1>1. CASE WatchWait
    <2>1. SlotsTyped'
      BY <1>1 DEF WatchWait, TypeOK, SlotsTyped, slotVars, dispVars, workerVars
    <2>2. OsTyped'
      <3>1. rspEvent' \in Nat
        BY <1>1 DEF WatchWait, AfterWait, TypeOK, OsTyped
      <3> QED
        BY <1>1, <3>1 DEF WatchWait, TypeOK, OsTyped, slotVars, dispVars, workerVars
    <2>3. DispatchTyped'
      BY <1>1 DEF WatchWait, TypeOK, DispatchTyped, slotVars, dispVars, workerVars
    <2>4. WatcherTyped'
      <3>1. watch' \in WatchPc
        BY <1>1 DEF WatchWait, TypeOK, WatcherTyped, WatchPc
      <3>2. wat' \in Slots
        BY <1>1, BusAssumption DEF WatchWait, TypeOK, WatcherTyped
      <3> QED
        BY <1>1, <3>1, <3>2 DEF WatchWait, TypeOK, WatcherTyped, slotVars, dispVars, workerVars
    <2>5. WorkerTyped'
      BY <1>1 DEF WatchWait, TypeOK, WorkerTyped, slotVars, dispVars, workerVars
    <2> QED
      BY <2>1, <2>2, <2>3, <2>4, <2>5 DEF TypeOK
  <1>2. CASE WatchScan
    <2>1. SlotsTyped'
      BY <1>2 DEF WatchScan, TypeOK, SlotsTyped, slotVars, osVars, dispVars, workerVars
    <2>2. OsTyped'
      BY <1>2 DEF WatchScan, TypeOK, OsTyped, slotVars, osVars, dispVars, workerVars
    <2>3. DispatchTyped'
      BY <1>2 DEF WatchScan, TypeOK, DispatchTyped, slotVars, osVars, dispVars, workerVars
    <2>4. WatcherTyped'
      <3>1. watch' \in WatchPc
        BY <1>2 DEF WatchScan, TypeOK, WatcherTyped, WatchPc, NextSlotOfWatch
      <3>2. wat' \in Slots
        BY <1>2, BusAssumption DEF WatchScan, TypeOK, WatcherTyped, NextSlotOfWatch
      <3> QED
        BY <1>2, <3>1, <3>2 DEF WatchScan, TypeOK, WatcherTyped, slotVars, osVars, dispVars,
            workerVars
    <2>5. WorkerTyped'
      BY <1>2 DEF WatchScan, TypeOK, WorkerTyped, slotVars, osVars, dispVars, workerVars
    <2> QED
      BY <2>1, <2>2, <2>3, <2>4, <2>5 DEF TypeOK
  <1>3. CASE WatchRead
    <2>1. SlotsTyped'
      BY <1>3 DEF WatchRead, TypeOK, SlotsTyped, slotVars, osVars, dispVars, workerVars
    <2>2. OsTyped'
      BY <1>3 DEF WatchRead, TypeOK, OsTyped, slotVars, osVars, dispVars, workerVars
    <2>3. DispatchTyped'
      BY <1>3 DEF WatchRead, TypeOK, DispatchTyped, slotVars, osVars, dispVars, workerVars
    <2>4. WatcherTyped'
      <3>1. watch' \in WatchPc
        BY <1>3 DEF WatchRead, TypeOK, WatcherTyped, WatchPc
      <3>2. wid' \in Calls \cup {None}
        BY <1>3 DEF WatchRead, TypeOK, SlotsTyped, OsTyped, WatcherTyped
      <3>3. wrsp' \in Payloads
        BY <1>3, BusAssumption DEF WatchRead, TypeOK, SlotsTyped, OsTyped, WatcherTyped,
            ReadPayload, Body
      <3> QED
        BY <1>3, <3>1, <3>2, <3>3 DEF WatchRead, TypeOK, WatcherTyped, slotVars, osVars,
            dispVars, workerVars
    <2>5. WorkerTyped'
      BY <1>3 DEF WatchRead, TypeOK, WorkerTyped, slotVars, osVars, dispVars, workerVars
    <2> QED
      BY <2>1, <2>2, <2>3, <2>4, <2>5 DEF TypeOK
  <1>4. CASE WatchRelease
    <2>1. SlotsTyped'
      <3>1. status' \in [Slots -> Statuses]
        BY <1>4 DEF WatchRelease, TypeOK, SlotsTyped, WatcherTyped, Statuses, FREE
      <3> QED
        BY <1>4, <3>1 DEF WatchRelease, TypeOK, SlotsTyped, osVars, dispVars, workerVars
    <2>2. OsTyped'
      BY <1>4 DEF WatchRelease, TypeOK, OsTyped, osVars, dispVars, workerVars
    <2>3. DispatchTyped'
      BY <1>4 DEF WatchRelease, TypeOK, DispatchTyped, osVars, dispVars, workerVars
    <2>4. WatcherTyped'
      <3>1. watch' \in WatchPc
        BY <1>4 DEF WatchRelease, TypeOK, WatcherTyped, WatchPc, NextSlotOfWatch
      <3>2. wat' \in Slots
        BY <1>4, BusAssumption DEF WatchRelease, TypeOK, WatcherTyped, NextSlotOfWatch
      <3>3. wid' \in Calls \cup {None}
        BY <1>4 DEF WatchRelease, TypeOK, SlotsTyped, OsTyped, WatcherTyped
      <3>4. wrsp' \in Payloads
        BY <1>4 DEF WatchRelease, TypeOK, SlotsTyped, OsTyped, WatcherTyped
      <3> QED
        BY <1>4, <3>1, <3>2, <3>3, <3>4 DEF WatchRelease, TypeOK, WatcherTyped, osVars,
            dispVars, workerVars
    <2>5. WorkerTyped'
      BY <1>4 DEF WatchRelease, TypeOK, WorkerTyped, osVars, dispVars, workerVars
    <2> QED
      BY <2>1, <2>2, <2>3, <2>4, <2>5 DEF TypeOK
  <1>5. CASE WatchDropOverflow
    <2>1. SlotsTyped'
      BY <1>5 DEF WatchDropOverflow, TypeOK, SlotsTyped, slotVars, dispVars, workerVars
    <2>2. OsTyped'
      <3>1. reqShm' \in [Slots -> [Markers -> Payloads]]
        BY <1>5, DropHandleType DEF WatchDropOverflow, TypeOK, OsTyped, DispatchTyped,
            WatcherTyped
      <3> QED
        BY <1>5, <3>1 DEF WatchDropOverflow, TypeOK, OsTyped, slotVars, dispVars, workerVars
    <2>3. DispatchTyped'
      <3>1. hubOvf' \in [Slots -> 0 .. MaxMarker]
        BY <1>5, BusAssumption DEF WatchDropOverflow, TypeOK, DispatchTyped, WatcherTyped
      <3> QED
        BY <1>5, <3>1 DEF WatchDropOverflow, TypeOK, DispatchTyped, slotVars, dispVars,
            workerVars
    <2>4. WatcherTyped'
      <3>1. watch' \in WatchPc
        BY <1>5 DEF WatchDropOverflow, TypeOK, WatcherTyped, WatchPc
      <3> QED
        BY <1>5, <3>1 DEF WatchDropOverflow, TypeOK, WatcherTyped, slotVars, dispVars,
            workerVars
    <2>5. WorkerTyped'
      BY <1>5 DEF WatchDropOverflow, TypeOK, WorkerTyped, slotVars, dispVars, workerVars
    <2> QED
      BY <2>1, <2>2, <2>3, <2>4, <2>5 DEF TypeOK
  <1>6. CASE WatchResolve
    <2>1. SlotsTyped'
      BY <1>6 DEF WatchResolve, TypeOK, SlotsTyped, slotVars, osVars, dispVars, workerVars
    <2>2. OsTyped'
      BY <1>6 DEF WatchResolve, TypeOK, OsTyped, slotVars, osVars, dispVars, workerVars
    <2>3. DispatchTyped'
      <3>1. pending' \in SUBSET Calls
        BY <1>6 DEF WatchResolve, TypeOK, DispatchTyped, WatcherTyped
      <3>2. got' \in [Calls -> Payloads]
        BY <1>6 DEF WatchResolve, TypeOK, DispatchTyped, WatcherTyped
      <3> QED
        BY <1>6, <3>1, <3>2 DEF WatchResolve, TypeOK, DispatchTyped, slotVars, osVars, dispVars,
            workerVars
    <2>4. WatcherTyped'
      <3>1. watch' \in WatchPc
        BY <1>6 DEF WatchResolve, TypeOK, WatcherTyped, WatchPc, NextSlotOfWatch
      <3>2. wat' \in Slots
        BY <1>6, BusAssumption DEF WatchResolve, TypeOK, WatcherTyped, NextSlotOfWatch
      <3>3. wid' \in Calls \cup {None}
        BY <1>6 DEF WatchResolve, TypeOK, SlotsTyped, OsTyped, WatcherTyped
      <3>4. wrsp' \in Payloads
        BY <1>6 DEF WatchResolve, TypeOK, SlotsTyped, OsTyped, WatcherTyped
      <3> QED
        BY <1>6, <3>1, <3>2, <3>3, <3>4 DEF WatchResolve, TypeOK, WatcherTyped, slotVars,
            osVars, dispVars, workerVars
    <2>5. WorkerTyped'
      BY <1>6 DEF WatchResolve, TypeOK, WorkerTyped, slotVars, osVars, dispVars, workerVars
    <2> QED
      BY <2>1, <2>2, <2>3, <2>4, <2>5 DEF TypeOK
  <1> QED
    BY <1>1, <1>2, <1>3, <1>4, <1>5, <1>6 DEF Watcher

(*****************************************************************************)
(* Types are kept by a step of the receive loop.                             *)
(*****************************************************************************)
LEMMA TypeReceiveLoop ==
    ASSUME TypeOK, ReceiveLoop
    PROVE  TypeOK'
  <1>1. CASE RecvWait
    <2>1. SlotsTyped'
      BY <1>1 DEF RecvWait, TypeOK, SlotsTyped, slotVars, hubVars, handVars
    <2>2. OsTyped'
      <3>1. reqEvent' \in Nat
        BY <1>1 DEF RecvWait, AfterWait, TypeOK, OsTyped
      <3> QED
        BY <1>1, <3>1 DEF RecvWait, TypeOK, OsTyped, slotVars, hubVars, handVars
    <2>3. DispatchTyped'
      BY <1>1 DEF RecvWait, TypeOK, DispatchTyped, slotVars, hubVars, handVars
    <2>4. WatcherTyped'
      BY <1>1 DEF RecvWait, TypeOK, WatcherTyped, slotVars, hubVars, handVars
    <2>5. WorkerTyped'
      <3>1. recv' \in RecvPc
        BY <1>1 DEF RecvWait, TypeOK, WorkerTyped, RecvPc
      <3>2. rat' \in Slots
        BY <1>1, BusAssumption DEF RecvWait, TypeOK, WorkerTyped
      <3> QED
        BY <1>1, <3>1, <3>2 DEF RecvWait, TypeOK, WorkerTyped, slotVars, hubVars, handVars
    <2> QED
      BY <2>1, <2>2, <2>3, <2>4, <2>5 DEF TypeOK
  <1>2. CASE RecvScan
    <2>1. SlotsTyped'
      <3>1. status' \in [Slots -> Statuses]
        BY <1>2 DEF RecvScan, TypeOK, SlotsTyped, WorkerTyped, Statuses, CLAIMED
      <3> QED
        BY <1>2, <3>1 DEF RecvScan, TypeOK, SlotsTyped, osVars, hubVars, handVars
    <2>2. OsTyped'
      BY <1>2 DEF RecvScan, TypeOK, OsTyped, osVars, hubVars, handVars
    <2>3. DispatchTyped'
      BY <1>2 DEF RecvScan, TypeOK, DispatchTyped, osVars, hubVars, handVars
    <2>4. WatcherTyped'
      BY <1>2 DEF RecvScan, TypeOK, WatcherTyped, osVars, hubVars, handVars
    <2>5. WorkerTyped'
      <3>1. recv' \in RecvPc
        BY <1>2 DEF RecvScan, TypeOK, WorkerTyped, RecvPc, NextSlotOfRecv
      <3>2. rat' \in Slots
        BY <1>2, BusAssumption DEF RecvScan, TypeOK, WorkerTyped, NextSlotOfRecv
      <3> QED
        BY <1>2, <3>1, <3>2 DEF RecvScan, TypeOK, WorkerTyped, osVars, hubVars, handVars
    <2> QED
      BY <2>1, <2>2, <2>3, <2>4, <2>5 DEF TypeOK
  <1>3. CASE RecvDeliver
    <2>1. SlotsTyped'
      BY <1>3 DEF RecvDeliver, TypeOK, SlotsTyped, slotVars, osVars, hubVars
    <2>2. OsTyped'
      BY <1>3 DEF RecvDeliver, TypeOK, OsTyped, slotVars, osVars, hubVars
    <2>3. DispatchTyped'
      BY <1>3 DEF RecvDeliver, TypeOK, DispatchTyped, slotVars, osVars, hubVars
    <2>4. WatcherTyped'
      BY <1>3 DEF RecvDeliver, TypeOK, WatcherTyped, slotVars, osVars, hubVars
    <2>5. WorkerTyped'
      <3>1. recv' \in RecvPc
        BY <1>3 DEF RecvDeliver, TypeOK, WorkerTyped, RecvPc, NextSlotOfRecv
      <3>2. rat' \in Slots
        BY <1>3, BusAssumption DEF RecvDeliver, TypeOK, WorkerTyped, NextSlotOfRecv
      <3>3. hand' \in [Calls -> HandPc]
        BY <1>3 DEF RecvDeliver, TypeOK, SlotsTyped, OsTyped, WorkerTyped, HandPc, HandlingPc
      <3>4. hat' \in [Calls -> Slots]
        BY <1>3 DEF RecvDeliver, TypeOK, SlotsTyped, OsTyped, WorkerTyped
      <3>5. seen' \in [Calls -> Payloads]
        BY <1>3 DEF RecvDeliver, TypeOK, SlotsTyped, OsTyped, WorkerTyped, RequestRead,
            ReadPayload, Body
      <3>6. delivered' \in [Calls -> Nat]
        <4>1. \A d : [delivered EXCEPT ![d] = @ + 1] \in [Calls -> Nat]
          <5> SUFFICES ASSUME NEW d PROVE [delivered EXCEPT ![d] = @ + 1] \in [Calls -> Nat]
            OBVIOUS
          <5>1. delivered \in [Calls -> Nat]
            BY DEF TypeOK, WorkerTyped
          <5>2. CASE d \in Calls
            BY <5>1, <5>2
          <5>3. CASE d \notin Calls
            BY <5>1, <5>3
          <5> QED
            BY <5>2, <5>3
        <4> QED
          BY <1>3, <4>1 DEF RecvDeliver
      <3> QED
        BY <1>3, <3>1, <3>2, <3>3, <3>4, <3>5, <3>6 DEF RecvDeliver, TypeOK, WorkerTyped,
            slotVars, osVars, hubVars
    <2> QED
      BY <2>1, <2>2, <2>3, <2>4, <2>5 DEF TypeOK
  <1>4. CASE RecvDiscard
    <2>1. SlotsTyped'
      <3>1. status' \in [Slots -> Statuses]
        BY <1>4 DEF RecvDiscard, TypeOK, SlotsTyped, WorkerTyped, Statuses, FREE
      <3> QED
        BY <1>4, <3>1 DEF RecvDiscard, TypeOK, SlotsTyped, osVars, hubVars, handVars
    <2>2. OsTyped'
      BY <1>4 DEF RecvDiscard, TypeOK, OsTyped, osVars, hubVars, handVars
    <2>3. DispatchTyped'
      BY <1>4 DEF RecvDiscard, TypeOK, DispatchTyped, osVars, hubVars, handVars
    <2>4. WatcherTyped'
      BY <1>4 DEF RecvDiscard, TypeOK, WatcherTyped, osVars, hubVars, handVars
    <2>5. WorkerTyped'
      <3>1. recv' \in RecvPc
        BY <1>4 DEF RecvDiscard, TypeOK, WorkerTyped, RecvPc, NextSlotOfRecv
      <3>2. rat' \in Slots
        BY <1>4, BusAssumption DEF RecvDiscard, TypeOK, WorkerTyped, NextSlotOfRecv
      <3> QED
        BY <1>4, <3>1, <3>2 DEF RecvDiscard, TypeOK, WorkerTyped, osVars, hubVars, handVars
    <2> QED
      BY <2>1, <2>2, <2>3, <2>4, <2>5 DEF TypeOK
  <1> QED
    BY <1>1, <1>2, <1>3, <1>4 DEF ReceiveLoop

(*****************************************************************************)
(* Types are kept by a step of a handler's send_response.                    *)
(*****************************************************************************)
LEMMA TypeHandler ==
    ASSUME TypeOK, NEW c \in Calls, Handler(c)
    PROVE  TypeOK'
  <1>1. CASE DropStaleResponseOverflow(c)
    <2>1. SlotsTyped'
      BY <1>1 DEF DropStaleResponseOverflow, TypeOK, SlotsTyped, slotVars, hubVars, recvVars
    <2>2. OsTyped'
      <3>1. rspShm' \in [Slots -> [Markers -> Payloads]]
        BY <1>1, DropHandleType DEF DropStaleResponseOverflow, TypeOK, OsTyped, WorkerTyped
      <3> QED
        BY <1>1, <3>1 DEF DropStaleResponseOverflow, TypeOK, OsTyped, slotVars, hubVars,
            recvVars
    <2>3. DispatchTyped'
      BY <1>1 DEF DropStaleResponseOverflow, TypeOK, DispatchTyped, slotVars, hubVars, recvVars
    <2>4. WatcherTyped'
      BY <1>1 DEF DropStaleResponseOverflow, TypeOK, WatcherTyped, slotVars, hubVars, recvVars
    <2>5. WorkerTyped'
      <3>1. hand' \in [Calls -> HandPc]
        BY <1>1 DEF DropStaleResponseOverflow, TypeOK, WorkerTyped, HandPc, HandlingPc
      <3>2. wkOvf' \in [Slots -> 0 .. MaxMarker]
        BY <1>1, BusAssumption DEF DropStaleResponseOverflow, TypeOK, WorkerTyped
      <3> QED
        BY <1>1, <3>1, <3>2 DEF DropStaleResponseOverflow, TypeOK, WorkerTyped, slotVars,
            hubVars, recvVars
    <2> QED
      BY <2>1, <2>2, <2>3, <2>4, <2>5 DEF TypeOK
  <1>2. CASE WriteResponse(c)
    <2>1. SlotsTyped'
      <3>1. rspMarker' \in [Slots -> 0 .. MaxMarker]
        <4>1. \/ rspMarker' = rspMarker
              \/ \E m \in {0} \cup Markers : rspMarker' = [rspMarker EXCEPT ![hat[c]] = m]
          BY <1>2 DEF WriteResponse
        <4>2. ASSUME NEW m \in {0} \cup Markers, rspMarker' = [rspMarker EXCEPT ![hat[c]] = m]
              PROVE  rspMarker' \in [Slots -> 0 .. MaxMarker]
          <5>1. m \in 0 .. MaxMarker
            BY BusAssumption
          <5> QED
            BY <4>2, <5>1 DEF TypeOK, SlotsTyped
        <4> QED
          BY <4>1, <4>2 DEF TypeOK, SlotsTyped
      <3>2. rspArena' \in [Slots -> Calls \cup {None}]
        BY <1>2 DEF WriteResponse, TypeOK, SlotsTyped, WorkerTyped
      <3> QED
        BY <1>2, <3>1, <3>2 DEF WriteResponse, TypeOK, SlotsTyped, hubVars, recvVars
    <2>2. OsTyped'
      <3>1. rspShm' \in [Slots -> [Markers -> Payloads]]
        <4>1. rspShm' = rspShm \/ \E m \in Markers : rspShm' = [rspShm EXCEPT ![hat[c]][m] = c]
          BY <1>2 DEF WriteResponse
        <4>2. ASSUME NEW m \in Markers, rspShm' = [rspShm EXCEPT ![hat[c]][m] = c]
              PROVE  rspShm' \in [Slots -> [Markers -> Payloads]]
          BY <4>2, NameTableType DEF TypeOK, OsTyped, WorkerTyped
        <4> QED
          BY <4>1, <4>2 DEF TypeOK, OsTyped
      <3> QED
        BY <1>2, <3>1 DEF WriteResponse, TypeOK, OsTyped, hubVars, recvVars
    <2>3. DispatchTyped'
      BY <1>2 DEF WriteResponse, TypeOK, DispatchTyped, hubVars, recvVars
    <2>4. WatcherTyped'
      BY <1>2 DEF WriteResponse, TypeOK, WatcherTyped, hubVars, recvVars
    <2>5. WorkerTyped'
      <3>1. hand' \in [Calls -> HandPc]
        BY <1>2 DEF WriteResponse, TypeOK, WorkerTyped, HandPc, HandlingPc
      <3>2. hheld' \in [Calls -> 0 .. MaxMarker]
        BY <1>2, BusAssumption DEF WriteResponse, TypeOK, WorkerTyped, IsFreshMarker,
            FreeMarkers
      <3> QED
        BY <1>2, <3>1, <3>2 DEF WriteResponse, TypeOK, WorkerTyped, hubVars, recvVars
    <2> QED
      BY <2>1, <2>2, <2>3, <2>4, <2>5 DEF TypeOK
  <1>3. CASE PublishResponse(c)
    <2>1. SlotsTyped'
      <3>1. status' \in [Slots -> Statuses]
        BY <1>3 DEF PublishResponse, TypeOK, SlotsTyped, WorkerTyped, Statuses, DONE
      <3> QED
        BY <1>3, <3>1 DEF PublishResponse, TypeOK, SlotsTyped, osVars, hubVars, recvVars
    <2>2. OsTyped'
      BY <1>3 DEF PublishResponse, TypeOK, OsTyped, osVars, hubVars, recvVars
    <2>3. DispatchTyped'
      BY <1>3 DEF PublishResponse, TypeOK, DispatchTyped, osVars, hubVars, recvVars
    <2>4. WatcherTyped'
      BY <1>3 DEF PublishResponse, TypeOK, WatcherTyped, osVars, hubVars, recvVars
    <2>5. WorkerTyped'
      <3>1. hand' \in [Calls -> HandPc]
        BY <1>3 DEF PublishResponse, TypeOK, WorkerTyped, HandPc, HandlingPc
      <3> QED
        BY <1>3, <3>1 DEF PublishResponse, TypeOK, WorkerTyped, osVars, hubVars, recvVars
    <2> QED
      BY <2>1, <2>2, <2>3, <2>4, <2>5 DEF TypeOK
  <1>4. CASE ReleaseFailedResponse(c)
    <2>1. SlotsTyped'
      <3>1. status' \in [Slots -> Statuses]
        BY <1>4 DEF ReleaseFailedResponse, TypeOK, SlotsTyped, WorkerTyped, Statuses, FREE
      <3> QED
        BY <1>4, <3>1 DEF ReleaseFailedResponse, TypeOK, SlotsTyped, osVars, hubVars, recvVars
    <2>2. OsTyped'
      BY <1>4 DEF ReleaseFailedResponse, TypeOK, OsTyped, osVars, hubVars, recvVars
    <2>3. DispatchTyped'
      BY <1>4 DEF ReleaseFailedResponse, TypeOK, DispatchTyped, osVars, hubVars, recvVars
    <2>4. WatcherTyped'
      BY <1>4 DEF ReleaseFailedResponse, TypeOK, WatcherTyped, osVars, hubVars, recvVars
    <2>5. WorkerTyped'
      <3>1. hand' \in [Calls -> HandPc]
        BY <1>4 DEF ReleaseFailedResponse, TypeOK, WorkerTyped, HandPc, HandlingPc
      <3> QED
        BY <1>4, <3>1 DEF ReleaseFailedResponse, TypeOK, WorkerTyped, osVars, hubVars, recvVars
    <2> QED
      BY <2>1, <2>2, <2>3, <2>4, <2>5 DEF TypeOK
  <1>5. CASE StoreResponseOverflow(c)
    <2>1. SlotsTyped'
      BY <1>5 DEF StoreResponseOverflow, TypeOK, SlotsTyped, slotVars, hubVars, recvVars
    <2>2. OsTyped'
      <3>1. rspShm' \in [Slots -> [Markers -> Payloads]]
        <4>1. rspShm' = rspShm \/ rspShm' = DropHandle(rspShm, hat[c], wkOvf[hat[c]])
          BY <1>5 DEF StoreResponseOverflow
        <4>2. DropHandle(rspShm, hat[c], wkOvf[hat[c]]) \in [Slots -> [Markers -> Payloads]]
          BY DropHandleType DEF TypeOK, OsTyped, WorkerTyped
        <4> QED
          BY <4>1, <4>2 DEF TypeOK, OsTyped
      <3> QED
        BY <1>5, <3>1 DEF StoreResponseOverflow, TypeOK, OsTyped, slotVars, hubVars, recvVars
    <2>3. DispatchTyped'
      BY <1>5 DEF StoreResponseOverflow, TypeOK, DispatchTyped, slotVars, hubVars, recvVars
    <2>4. WatcherTyped'
      BY <1>5 DEF StoreResponseOverflow, TypeOK, WatcherTyped, slotVars, hubVars, recvVars
    <2>5. WorkerTyped'
      <3>1. hand' \in [Calls -> HandPc]
        BY <1>5 DEF StoreResponseOverflow, TypeOK, WorkerTyped, HandPc, HandlingPc
      <3>2. hheld' \in [Calls -> 0 .. MaxMarker]
        BY <1>5, BusAssumption DEF StoreResponseOverflow, TypeOK, WorkerTyped
      <3>3. wkOvf' \in [Slots -> 0 .. MaxMarker]
        BY <1>5 DEF StoreResponseOverflow, TypeOK, WorkerTyped
      <3> QED
        BY <1>5, <3>1, <3>2, <3>3 DEF StoreResponseOverflow, TypeOK, WorkerTyped, slotVars,
            hubVars, recvVars
    <2> QED
      BY <2>1, <2>2, <2>3, <2>4, <2>5 DEF TypeOK
  <1>6. CASE SignalResponse(c)
    <2>1. SlotsTyped'
      BY <1>6 DEF SignalResponse, TypeOK, SlotsTyped, slotVars, hubVars, recvVars
    <2>2. OsTyped'
      <3>1. rspEvent' \in Nat
        BY <1>6 DEF SignalResponse, TypeOK, OsTyped, Signal
      <3> QED
        BY <1>6, <3>1 DEF SignalResponse, TypeOK, OsTyped, slotVars, hubVars, recvVars
    <2>3. DispatchTyped'
      BY <1>6 DEF SignalResponse, TypeOK, DispatchTyped, slotVars, hubVars, recvVars
    <2>4. WatcherTyped'
      BY <1>6 DEF SignalResponse, TypeOK, WatcherTyped, slotVars, hubVars, recvVars
    <2>5. WorkerTyped'
      <3>1. hand' \in [Calls -> HandPc]
        BY <1>6 DEF SignalResponse, TypeOK, WorkerTyped, HandPc, HandlingPc
      <3> QED
        BY <1>6, <3>1 DEF SignalResponse, TypeOK, WorkerTyped, slotVars, hubVars, recvVars
    <2> QED
      BY <2>1, <2>2, <2>3, <2>4, <2>5 DEF TypeOK
  <1> QED
    BY <1>1, <1>2, <1>3, <1>4, <1>5, <1>6 DEF Handler

(***************************************************************************)
(* No step of the connection leaves the types.                             *)
(***************************************************************************)
LEMMA TypeStep == TypeOK /\ [Next]_vars => TypeOK'
  <1> SUFFICES ASSUME TypeOK, [Next]_vars PROVE TypeOK'
    OBVIOUS
  <1>1. CASE UNCHANGED vars
    BY <1>1 DEF TypeOK, SlotsTyped, OsTyped, DispatchTyped, WatcherTyped, WorkerTyped,
                vars, slotVars, osVars, hubVars, workerVars
  <1>2. ASSUME NEW c \in Calls, Start(c) \/ Dispatch(c) PROVE TypeOK'
    BY <1>2, TypeDispatch
  <1>3. ASSUME NEW c \in Calls, Handler(c) PROVE TypeOK'
    BY <1>3, TypeHandler
  <1>4. CASE Watcher
    BY <1>4, TypeWatcher
  <1>5. CASE ReceiveLoop
    BY <1>5, TypeReceiveLoop
  <1> QED
    BY <1>1, <1>2, <1>3, <1>4, <1>5 DEF Next

(***************************************************************************)
(* Type correctness of the connection.                                     *)
(***************************************************************************)
THEOREM TypeCorrect == Spec => []TypeOK
  BY TypeInit, TypeStep, PTL DEF Spec
HIDE DEF Slots, Markers, Payloads
-----------------------------------------------------------------------------

(***************************************************************************)
(* At the start every slot is free and nobody is at work.                  *)
(***************************************************************************)
LEMMA OwnershipInit == Init => OwnershipInv
  BY DEF Init, OwnershipInv, WritersOwn, RecvOwns, HandlersOwn, WatcherOwns, WritingContent,
      BusyContent, ReadyContent, WrittenSlot, UnpublishedUnseen, WritingPc,
      HandlingPc, PublishedPc, Busy, FREE, READY, CLAIMED, DONE, WRITING

(*****************************************************************************)
(* Ownership is kept by the steps of a dispatch(), its call included.        *)
(*****************************************************************************)
LEMMA OwnershipDispatch ==
    ASSUME TypeOK, OwnershipInv, NEW c \in Calls, Start(c) \/ Dispatch(c)
    PROVE  OwnershipInv'
  <1>1. CASE Start(c)
    <2>1. WritersOwn'
      BY <1>1 DEF Start, TypeOK, SlotsTyped, DispatchTyped, OwnershipInv, WritersOwn, FREE,
          READY, CLAIMED, DONE, WRITING, WritingPc, PublishedPc, slotVars, osVars, watchVars,
          workerVars
    <2>2. WritingContent'
      BY <1>1 DEF Start, TypeOK, SlotsTyped, DispatchTyped, OwnershipInv, WritingContent, FREE,
          READY, CLAIMED, DONE, WRITING, WritingPc, PublishedPc, slotVars, osVars, watchVars,
          workerVars
    <2>3. BusyContent'
      BY <1>1 DEF Start, TypeOK, SlotsTyped, DispatchTyped, OwnershipInv, BusyContent, FREE,
          READY, CLAIMED, DONE, WRITING, WritingPc, PublishedPc, Busy, slotVars, osVars,
          watchVars, workerVars
    <2>4. WrittenSlot'
      BY <1>1 DEF Start, TypeOK, SlotsTyped, DispatchTyped, OwnershipInv, WrittenSlot,
          WritingPc, PublishedPc, slotVars, osVars, watchVars, workerVars
    <2>5. UnpublishedUnseen'
      BY <1>1 DEF Start, TypeOK, DispatchTyped, WorkerTyped, OwnershipInv, UnpublishedUnseen,
          WritingPc, PublishedPc, HandlingPc, slotVars, osVars, watchVars, workerVars
    <2>6. /\ RecvOwns'
         /\ HandlersOwn'
         /\ WatcherOwns'
         /\ ReadyContent'
      BY <1>1 DEF Start, OwnershipInv, RecvOwns, HandlersOwn, WatcherOwns, ReadyContent,
          slotVars, osVars, watchVars, workerVars
    <2> QED
      BY <2>1, <2>2, <2>3, <2>4, <2>5, <2>6 DEF OwnershipInv
  <1>2. CASE ClaimFreeSlot(c)
    <2>1. \/ /\ status[at[c]] = FREE /\ at[c] \in Slots
             /\ status' = [status EXCEPT ![at[c]] = WRITING]
             /\ disp' = [disp EXCEPT ![c] = "claimed"]
             /\ UNCHANGED at
          \/ /\ \E pc \in {"scan", "rejected"} : disp' = [disp EXCEPT ![c] = pc]
             /\ \A d \in Calls : d # c => at'[d] = at[d]
             /\ UNCHANGED status
      BY <1>2 DEF ClaimFreeSlot, TypeOK, DispatchTyped
    <2>0. disp[c] = "scan" /\ UNCHANGED <<reqArena, reqId, hand>>
      BY <1>2 DEF ClaimFreeSlot, workerVars
    <2>2. WritersOwn'
      BY <2>1, <2>0 DEF TypeOK, SlotsTyped, DispatchTyped, WorkerTyped, OwnershipInv,
          WritersOwn, WritingPc, FREE, READY, CLAIMED, DONE, WRITING
    <2>3. RecvOwns'
      BY <1>2 DEF ClaimFreeSlot, TypeOK, SlotsTyped, WorkerTyped, OwnershipInv, RecvOwns, FREE,
          READY, CLAIMED, DONE, WRITING, HandlingPc, osVars, watchVars, workerVars
    <2>4. HandlersOwn'
      BY <1>2 DEF ClaimFreeSlot, TypeOK, SlotsTyped, WorkerTyped, OwnershipInv, HandlersOwn,
          FREE, READY, CLAIMED, DONE, WRITING, HandlingPc, osVars, watchVars, workerVars
    <2>5. WatcherOwns'
      BY <1>2 DEF ClaimFreeSlot, TypeOK, SlotsTyped, WatcherTyped, OwnershipInv, WatcherOwns,
          FREE, READY, CLAIMED, DONE, WRITING, osVars, watchVars, workerVars
    <2>6. WritingContent'
      BY <2>1, <2>0 DEF TypeOK, SlotsTyped, DispatchTyped, WorkerTyped, OwnershipInv,
          WritingContent, WritingPc, FREE, READY, CLAIMED, DONE, WRITING
    <2>7. BusyContent'
      BY <2>1, <2>0 DEF TypeOK, SlotsTyped, DispatchTyped, WorkerTyped, OwnershipInv,
          BusyContent, Busy, PublishedPc, FREE, READY, CLAIMED, DONE, WRITING
    <2>8. ReadyContent'
      BY <1>2 DEF ClaimFreeSlot, TypeOK, SlotsTyped, WorkerTyped, OwnershipInv, ReadyContent,
          FREE, READY, CLAIMED, DONE, WRITING, HandlingPc, osVars, watchVars, workerVars
    <2>10. WrittenSlot'
      BY <1>2 DEF ClaimFreeSlot, TypeOK, SlotsTyped, DispatchTyped, OwnershipInv, WrittenSlot,
          WritingPc, PublishedPc, osVars, watchVars, workerVars
    <2>11. UnpublishedUnseen'
      BY <1>2 DEF ClaimFreeSlot, TypeOK, DispatchTyped, WorkerTyped, OwnershipInv,
          UnpublishedUnseen, WritingPc, PublishedPc, HandlingPc, osVars, watchVars, workerVars
    <2> QED
      BY <2>2, <2>3, <2>4, <2>5, <2>6, <2>7, <2>8, <2>10, <2>11 DEF OwnershipInv
  <1>3. CASE DropStaleRequestOverflow(c)
    <2>1. WritersOwn'
      BY <1>3 DEF DropStaleRequestOverflow, TypeOK, SlotsTyped, DispatchTyped, OwnershipInv,
          WritersOwn, FREE, READY, CLAIMED, DONE, WRITING, WritingPc, PublishedPc, slotVars,
          watchVars, workerVars
    <2>2. WritingContent'
      BY <1>3 DEF DropStaleRequestOverflow, TypeOK, SlotsTyped, DispatchTyped, OwnershipInv,
          WritingContent, FREE, READY, CLAIMED, DONE, WRITING, WritingPc, PublishedPc, slotVars,
          watchVars, workerVars
    <2>3. BusyContent'
      BY <1>3 DEF DropStaleRequestOverflow, TypeOK, SlotsTyped, DispatchTyped, OwnershipInv,
          BusyContent, FREE, READY, CLAIMED, DONE, WRITING, WritingPc, PublishedPc, Busy,
          slotVars, watchVars, workerVars
    <2>4. WrittenSlot'
      BY <1>3 DEF DropStaleRequestOverflow, TypeOK, SlotsTyped, DispatchTyped, OwnershipInv,
          WrittenSlot, WritingPc, PublishedPc, slotVars, watchVars, workerVars
    <2>5. UnpublishedUnseen'
      BY <1>3 DEF DropStaleRequestOverflow, TypeOK, DispatchTyped, WorkerTyped, OwnershipInv,
          UnpublishedUnseen, WritingPc, PublishedPc, HandlingPc, slotVars, watchVars, workerVars
    <2>6. /\ RecvOwns'
         /\ HandlersOwn'
         /\ WatcherOwns'
         /\ ReadyContent'
      BY <1>3 DEF DropStaleRequestOverflow, OwnershipInv, RecvOwns, HandlersOwn, WatcherOwns,
          ReadyContent, slotVars, watchVars, workerVars
    <2> QED
      BY <2>1, <2>2, <2>3, <2>4, <2>5, <2>6 DEF OwnershipInv
  <1>4. CASE WriteRequest(c)
    <2>1. /\ disp[c] = "clean" /\ status[at[c]] = WRITING
          /\ at[c] \in Slots
          /\ UNCHANGED <<status, at, hand, hat, recv, rat>>
      BY <1>4 DEF WriteRequest, TypeOK, DispatchTyped, OwnershipInv, WritersOwn, WritingPc, workerVars
    <2>2. \A i \in Slots : i # at[c] => reqArena'[i] = reqArena[i] /\ reqId'[i] = reqId[i]
      BY <1>4 DEF WriteRequest, TypeOK, SlotsTyped
    <2>3. /\ \A d \in Calls : d # c => disp'[d] = disp[d]
          /\ disp'[c] \in {"written", "failed"}
          /\ disp'[c] = "written" => reqArena'[at[c]] = c /\ reqId'[at[c]] \in {None, c}
      BY <1>4 DEF WriteRequest, SlotId, TypeOK, SlotsTyped, DispatchTyped
    <2>4. WritersOwn'
      BY <2>1, <2>2, <2>3 DEF TypeOK, SlotsTyped, DispatchTyped, WorkerTyped, OwnershipInv,
          WritersOwn, WritingPc
    <2>5. RecvOwns'
      BY <2>1, <2>2, <2>3 DEF TypeOK, SlotsTyped, DispatchTyped, WorkerTyped, OwnershipInv,
          RecvOwns, CLAIMED, WRITING
    <2>6. HandlersOwn'
      BY <2>1, <2>2, <2>3 DEF TypeOK, SlotsTyped, DispatchTyped, WorkerTyped, OwnershipInv,
          HandlersOwn, CLAIMED, WRITING
    <2>7. WritingContent'
      BY <2>1, <2>2, <2>3 DEF TypeOK, SlotsTyped, DispatchTyped, WorkerTyped, OwnershipInv,
          WritingContent, WritingPc
    <2>8. BusyContent'
      BY <2>1, <2>2, <2>3 DEF TypeOK, SlotsTyped, DispatchTyped, WorkerTyped, OwnershipInv,
          BusyContent, Busy, PublishedPc, FREE, READY, CLAIMED, DONE, WRITING
    <2>9. ReadyContent'
      BY <2>1, <2>2, <2>3 DEF TypeOK, SlotsTyped, DispatchTyped, WorkerTyped, OwnershipInv,
          ReadyContent, READY, WRITING
    <2>11. WrittenSlot'
      BY <2>1, <2>2, <2>3 DEF TypeOK, SlotsTyped, DispatchTyped, WorkerTyped, OwnershipInv,
          WrittenSlot, WritersOwn, WritingPc
    <2>12. UnpublishedUnseen'
      BY <2>1, <2>2, <2>3 DEF TypeOK, SlotsTyped, DispatchTyped, WorkerTyped, OwnershipInv,
          UnpublishedUnseen, PublishedPc
    <2>13. WatcherOwns'
      BY <1>4 DEF WriteRequest, OwnershipInv, WatcherOwns, watchVars, workerVars
    <2> QED
      BY <2>4, <2>5, <2>6, <2>7, <2>8, <2>9, <2>11, <2>12, <2>13 DEF OwnershipInv
  <1>5. CASE PublishRequest(c)
    <2>1. WritersOwn'
      BY <1>5 DEF PublishRequest, TypeOK, SlotsTyped, DispatchTyped, OwnershipInv, WritersOwn,
          FREE, READY, CLAIMED, DONE, WRITING, WritingPc, PublishedPc, osVars, watchVars,
          workerVars
    <2>2. RecvOwns'
      BY <1>5 DEF PublishRequest, TypeOK, SlotsTyped, DispatchTyped, WorkerTyped, OwnershipInv,
          RecvOwns, WritersOwn, FREE, READY, CLAIMED, DONE, WRITING, WritingPc, PublishedPc,
          HandlingPc, osVars, watchVars, workerVars
    <2>3. HandlersOwn'
      BY <1>5 DEF PublishRequest, TypeOK, SlotsTyped, DispatchTyped, WorkerTyped, OwnershipInv,
          HandlersOwn, WritersOwn, FREE, READY, CLAIMED, DONE, WRITING, WritingPc, PublishedPc,
          HandlingPc, osVars, watchVars, workerVars
    <2>4. WatcherOwns'
      BY <1>5 DEF PublishRequest, TypeOK, SlotsTyped, DispatchTyped, WatcherTyped, OwnershipInv,
          WatcherOwns, WritersOwn, FREE, READY, CLAIMED, DONE, WRITING, WritingPc, PublishedPc,
          osVars, watchVars, workerVars
    <2>5. WritingContent'
      BY <1>5 DEF PublishRequest, TypeOK, SlotsTyped, DispatchTyped, OwnershipInv,
          WritingContent, WritersOwn, FREE, READY, CLAIMED, DONE, WRITING, WritingPc,
          PublishedPc, osVars, watchVars, workerVars
    <2>6. BusyContent'
      BY <1>5 DEF PublishRequest, TypeOK, SlotsTyped, DispatchTyped, OwnershipInv, BusyContent,
          WritersOwn, WrittenSlot, FREE, READY, CLAIMED, DONE, WRITING, WritingPc, PublishedPc,
          Busy, osVars, watchVars, workerVars
    <2>7. ReadyContent'
      BY <1>5 DEF PublishRequest, TypeOK, SlotsTyped, DispatchTyped, WorkerTyped, OwnershipInv,
          ReadyContent, WritersOwn, WrittenSlot, UnpublishedUnseen, FREE, READY, CLAIMED, DONE,
          WRITING, WritingPc, PublishedPc, HandlingPc, osVars, watchVars, workerVars
    <2>9. WrittenSlot'
      BY <1>5 DEF PublishRequest, TypeOK, SlotsTyped, DispatchTyped, OwnershipInv, WrittenSlot,
          WritersOwn, FREE, READY, CLAIMED, DONE, WRITING, WritingPc, PublishedPc, osVars,
          watchVars, workerVars
    <2>10. UnpublishedUnseen'
      BY <1>5 DEF PublishRequest, TypeOK, SlotsTyped, DispatchTyped, WorkerTyped, OwnershipInv,
          UnpublishedUnseen, WritersOwn, FREE, READY, CLAIMED, DONE, WRITING, WritingPc,
          PublishedPc, HandlingPc, osVars, watchVars, workerVars
    <2> QED
      BY <2>1, <2>2, <2>3, <2>4, <2>5, <2>6, <2>7, <2>9, <2>10 DEF OwnershipInv
  <1>6. CASE ReleaseFailedWrite(c)
    <2>1. WritersOwn'
      BY <1>6 DEF ReleaseFailedWrite, TypeOK, SlotsTyped, DispatchTyped, OwnershipInv,
          WritersOwn, FREE, READY, CLAIMED, DONE, WRITING, WritingPc, PublishedPc, osVars,
          watchVars, workerVars
    <2>2. RecvOwns'
      BY <1>6 DEF ReleaseFailedWrite, TypeOK, SlotsTyped, DispatchTyped, WorkerTyped,
          OwnershipInv, RecvOwns, WritersOwn, FREE, READY, CLAIMED, DONE, WRITING, WritingPc,
          PublishedPc, HandlingPc, osVars, watchVars, workerVars
    <2>3. HandlersOwn'
      BY <1>6 DEF ReleaseFailedWrite, TypeOK, SlotsTyped, DispatchTyped, WorkerTyped,
          OwnershipInv, HandlersOwn, WritersOwn, FREE, READY, CLAIMED, DONE, WRITING, WritingPc,
          PublishedPc, HandlingPc, osVars, watchVars, workerVars
    <2>4. WatcherOwns'
      BY <1>6 DEF ReleaseFailedWrite, TypeOK, SlotsTyped, DispatchTyped, WatcherTyped,
          OwnershipInv, WatcherOwns, WritersOwn, FREE, READY, CLAIMED, DONE, WRITING, WritingPc,
          PublishedPc, osVars, watchVars, workerVars
    <2>5. WritingContent'
      BY <1>6 DEF ReleaseFailedWrite, TypeOK, SlotsTyped, DispatchTyped, OwnershipInv,
          WritingContent, WritersOwn, FREE, READY, CLAIMED, DONE, WRITING, WritingPc,
          PublishedPc, osVars, watchVars, workerVars
    <2>6. BusyContent'
      BY <1>6 DEF ReleaseFailedWrite, TypeOK, SlotsTyped, DispatchTyped, OwnershipInv,
          BusyContent, WritersOwn, FREE, READY, CLAIMED, DONE, WRITING, WritingPc, PublishedPc,
          Busy, osVars, watchVars, workerVars
    <2>7. ReadyContent'
      BY <1>6 DEF ReleaseFailedWrite, TypeOK, SlotsTyped, DispatchTyped, WorkerTyped,
          OwnershipInv, ReadyContent, WritersOwn, FREE, READY, CLAIMED, DONE, WRITING,
          WritingPc, PublishedPc, HandlingPc, osVars, watchVars, workerVars
    <2>9. WrittenSlot'
      BY <1>6 DEF ReleaseFailedWrite, TypeOK, SlotsTyped, DispatchTyped, OwnershipInv,
          WrittenSlot, WritersOwn, FREE, READY, CLAIMED, DONE, WRITING, WritingPc, PublishedPc,
          osVars, watchVars, workerVars
    <2>10. UnpublishedUnseen'
      BY <1>6 DEF ReleaseFailedWrite, TypeOK, SlotsTyped, DispatchTyped, WorkerTyped,
          OwnershipInv, UnpublishedUnseen, WritersOwn, FREE, READY, CLAIMED, DONE, WRITING,
          WritingPc, PublishedPc, HandlingPc, osVars, watchVars, workerVars
    <2> QED
      BY <2>1, <2>2, <2>3, <2>4, <2>5, <2>6, <2>7, <2>9, <2>10 DEF OwnershipInv
  <1>7. CASE StoreRequestOverflow(c)
    <2>1. WritersOwn'
      BY <1>7 DEF StoreRequestOverflow, TypeOK, SlotsTyped, DispatchTyped, OwnershipInv,
          WritersOwn, FREE, READY, CLAIMED, DONE, WRITING, WritingPc, PublishedPc, slotVars,
          watchVars, workerVars
    <2>2. WritingContent'
      BY <1>7 DEF StoreRequestOverflow, TypeOK, SlotsTyped, DispatchTyped, OwnershipInv,
          WritingContent, FREE, READY, CLAIMED, DONE, WRITING, WritingPc, PublishedPc, slotVars,
          watchVars, workerVars
    <2>3. BusyContent'
      BY <1>7 DEF StoreRequestOverflow, TypeOK, SlotsTyped, DispatchTyped, OwnershipInv,
          BusyContent, FREE, READY, CLAIMED, DONE, WRITING, WritingPc, PublishedPc, Busy,
          slotVars, watchVars, workerVars
    <2>4. WrittenSlot'
      BY <1>7 DEF StoreRequestOverflow, TypeOK, SlotsTyped, DispatchTyped, OwnershipInv,
          WrittenSlot, WritingPc, PublishedPc, slotVars, watchVars, workerVars
    <2>5. UnpublishedUnseen'
      BY <1>7 DEF StoreRequestOverflow, TypeOK, DispatchTyped, WorkerTyped, OwnershipInv,
          UnpublishedUnseen, WritingPc, PublishedPc, HandlingPc, slotVars, watchVars, workerVars
    <2>6. /\ RecvOwns'
         /\ HandlersOwn'
         /\ WatcherOwns'
         /\ ReadyContent'
      BY <1>7 DEF StoreRequestOverflow, OwnershipInv, RecvOwns, HandlersOwn, WatcherOwns,
          ReadyContent, slotVars, watchVars, workerVars
    <2> QED
      BY <2>1, <2>2, <2>3, <2>4, <2>5, <2>6 DEF OwnershipInv
  <1>8. CASE RegisterPending(c)
    <2>1. WritersOwn'
      BY <1>8 DEF RegisterPending, TypeOK, SlotsTyped, DispatchTyped, OwnershipInv, WritersOwn,
          FREE, READY, CLAIMED, DONE, WRITING, WritingPc, PublishedPc, slotVars, osVars,
          watchVars, workerVars
    <2>2. WritingContent'
      BY <1>8 DEF RegisterPending, TypeOK, SlotsTyped, DispatchTyped, OwnershipInv,
          WritingContent, FREE, READY, CLAIMED, DONE, WRITING, WritingPc, PublishedPc, slotVars,
          osVars, watchVars, workerVars
    <2>3. BusyContent'
      BY <1>8 DEF RegisterPending, TypeOK, SlotsTyped, DispatchTyped, OwnershipInv, BusyContent,
          FREE, READY, CLAIMED, DONE, WRITING, WritingPc, PublishedPc, Busy, slotVars, osVars,
          watchVars, workerVars
    <2>4. WrittenSlot'
      BY <1>8 DEF RegisterPending, TypeOK, SlotsTyped, DispatchTyped, OwnershipInv, WrittenSlot,
          WritingPc, PublishedPc, slotVars, osVars, watchVars, workerVars
    <2>5. UnpublishedUnseen'
      BY <1>8 DEF RegisterPending, TypeOK, DispatchTyped, WorkerTyped, OwnershipInv,
          UnpublishedUnseen, WritingPc, PublishedPc, HandlingPc, slotVars, osVars, watchVars,
          workerVars
    <2>6. /\ RecvOwns'
         /\ HandlersOwn'
         /\ WatcherOwns'
         /\ ReadyContent'
      BY <1>8 DEF RegisterPending, OwnershipInv, RecvOwns, HandlersOwn, WatcherOwns,
          ReadyContent, slotVars, osVars, watchVars, workerVars
    <2> QED
      BY <2>1, <2>2, <2>3, <2>4, <2>5, <2>6 DEF OwnershipInv
  <1>9. CASE SignalRequest(c)
    <2>1. WritersOwn'
      BY <1>9 DEF SignalRequest, TypeOK, SlotsTyped, DispatchTyped, OwnershipInv, WritersOwn,
          FREE, READY, CLAIMED, DONE, WRITING, WritingPc, PublishedPc, slotVars, watchVars,
          workerVars
    <2>2. WritingContent'
      BY <1>9 DEF SignalRequest, TypeOK, SlotsTyped, DispatchTyped, OwnershipInv,
          WritingContent, FREE, READY, CLAIMED, DONE, WRITING, WritingPc, PublishedPc, slotVars,
          watchVars, workerVars
    <2>3. BusyContent'
      BY <1>9 DEF SignalRequest, TypeOK, SlotsTyped, DispatchTyped, OwnershipInv, BusyContent,
          FREE, READY, CLAIMED, DONE, WRITING, WritingPc, PublishedPc, Busy, slotVars,
          watchVars, workerVars
    <2>4. WrittenSlot'
      BY <1>9 DEF SignalRequest, TypeOK, SlotsTyped, DispatchTyped, OwnershipInv, WrittenSlot,
          WritingPc, PublishedPc, slotVars, watchVars, workerVars
    <2>5. UnpublishedUnseen'
      BY <1>9 DEF SignalRequest, TypeOK, DispatchTyped, WorkerTyped, OwnershipInv,
          UnpublishedUnseen, WritingPc, PublishedPc, HandlingPc, slotVars, watchVars, workerVars
    <2>6. /\ RecvOwns'
         /\ HandlersOwn'
         /\ WatcherOwns'
         /\ ReadyContent'
      BY <1>9 DEF SignalRequest, OwnershipInv, RecvOwns, HandlersOwn, WatcherOwns, ReadyContent,
          slotVars, watchVars, workerVars
    <2> QED
      BY <2>1, <2>2, <2>3, <2>4, <2>5, <2>6 DEF OwnershipInv
  <1> QED
    BY <1>1, <1>2, <1>3, <1>4, <1>5, <1>6, <1>7, <1>8, <1>9 DEF Dispatch

(*****************************************************************************)
(* Ownership is kept by the steps of the response watcher.                   *)
(*****************************************************************************)
LEMMA OwnershipWatcher ==
    ASSUME TypeOK, OwnershipInv, Watcher
    PROVE  OwnershipInv'
  <1>1. CASE WatchWait
    <2>1. WatcherOwns'
      BY <1>1 DEF WatchWait, TypeOK, SlotsTyped, WatcherTyped, OwnershipInv, WatcherOwns, FREE,
          READY, CLAIMED, DONE, WRITING, slotVars, dispVars, workerVars
    <2>2. /\ WritersOwn'
         /\ RecvOwns'
         /\ HandlersOwn'
         /\ WritingContent'
         /\ BusyContent'
         /\ ReadyContent'
         /\ WrittenSlot'
         /\ UnpublishedUnseen'
      BY <1>1 DEF WatchWait, OwnershipInv, WritersOwn, RecvOwns, HandlersOwn, WritingContent,
          BusyContent, ReadyContent, WrittenSlot, UnpublishedUnseen, slotVars,
          dispVars, workerVars
    <2> QED
      BY <2>1, <2>2 DEF OwnershipInv
  <1>2. CASE WatchScan
    <2>1. WatcherOwns'
      BY <1>2 DEF WatchScan, TypeOK, SlotsTyped, WatcherTyped, OwnershipInv, WatcherOwns, FREE,
          READY, CLAIMED, DONE, WRITING, NextSlotOfWatch, slotVars, osVars, dispVars, workerVars
    <2>2. /\ WritersOwn'
         /\ RecvOwns'
         /\ HandlersOwn'
         /\ WritingContent'
         /\ BusyContent'
         /\ ReadyContent'
         /\ WrittenSlot'
         /\ UnpublishedUnseen'
      BY <1>2 DEF WatchScan, OwnershipInv, WritersOwn, RecvOwns, HandlersOwn, WritingContent,
          BusyContent, ReadyContent, WrittenSlot, UnpublishedUnseen, slotVars,
          osVars, dispVars, workerVars
    <2> QED
      BY <2>1, <2>2 DEF OwnershipInv
  <1>3. CASE WatchRead
    <2>1. WatcherOwns'
      BY <1>3 DEF WatchRead, TypeOK, SlotsTyped, WatcherTyped, OwnershipInv, WatcherOwns, FREE,
          READY, CLAIMED, DONE, WRITING, slotVars, osVars, dispVars, workerVars
    <2>2. /\ WritersOwn'
         /\ RecvOwns'
         /\ HandlersOwn'
         /\ WritingContent'
         /\ BusyContent'
         /\ ReadyContent'
         /\ WrittenSlot'
         /\ UnpublishedUnseen'
      BY <1>3 DEF WatchRead, OwnershipInv, WritersOwn, RecvOwns, HandlersOwn, WritingContent,
          BusyContent, ReadyContent, WrittenSlot, UnpublishedUnseen, slotVars,
          osVars, dispVars, workerVars
    <2> QED
      BY <2>1, <2>2 DEF OwnershipInv
  <1>4. CASE WatchRelease
    <2>1. WritersOwn'
      BY <1>4 DEF WatchRelease, TypeOK, SlotsTyped, DispatchTyped, OwnershipInv, WritersOwn,
          FREE, READY, CLAIMED, DONE, WRITING, WritingPc, PublishedPc, osVars, dispVars,
          workerVars
    <2>2. RecvOwns'
      BY <1>4 DEF WatchRelease, TypeOK, SlotsTyped, WorkerTyped, OwnershipInv, RecvOwns, FREE,
          READY, CLAIMED, DONE, WRITING, HandlingPc, osVars, dispVars, workerVars
    <2>3. HandlersOwn'
      BY <1>4 DEF WatchRelease, TypeOK, SlotsTyped, WorkerTyped, OwnershipInv, HandlersOwn,
          FREE, READY, CLAIMED, DONE, WRITING, HandlingPc, osVars, dispVars, workerVars
    <2>4. WatcherOwns'
      BY <1>4 DEF WatchRelease, TypeOK, SlotsTyped, WatcherTyped, OwnershipInv, WatcherOwns,
          FREE, READY, CLAIMED, DONE, WRITING, NextSlotOfWatch, osVars, dispVars, workerVars
    <2>5. WritingContent'
      BY <1>4 DEF WatchRelease, TypeOK, SlotsTyped, DispatchTyped, OwnershipInv, WritingContent,
          FREE, READY, CLAIMED, DONE, WRITING, WritingPc, PublishedPc, osVars, dispVars,
          workerVars
    <2>6. BusyContent'
      BY <1>4 DEF WatchRelease, TypeOK, SlotsTyped, DispatchTyped, OwnershipInv, BusyContent,
          FREE, READY, CLAIMED, DONE, WRITING, WritingPc, PublishedPc, Busy, osVars, dispVars,
          workerVars
    <2>7. ReadyContent'
      BY <1>4 DEF WatchRelease, TypeOK, SlotsTyped, WorkerTyped, OwnershipInv, ReadyContent,
          FREE, READY, CLAIMED, DONE, WRITING, HandlingPc, osVars, dispVars, workerVars
    <2>9. /\ WrittenSlot'
         /\ UnpublishedUnseen'
      BY <1>4 DEF WatchRelease, OwnershipInv, WrittenSlot, UnpublishedUnseen, osVars, dispVars,
          workerVars
    <2> QED
      BY <2>1, <2>2, <2>3, <2>4, <2>5, <2>6, <2>7, <2>9 DEF OwnershipInv
  <1>5. CASE WatchDropOverflow
    <2>1. WatcherOwns'
      BY <1>5 DEF WatchDropOverflow, TypeOK, SlotsTyped, WatcherTyped, OwnershipInv,
          WatcherOwns, FREE, READY, CLAIMED, DONE, WRITING, slotVars, dispVars, workerVars
    <2>2. /\ WritersOwn'
         /\ RecvOwns'
         /\ HandlersOwn'
         /\ WritingContent'
         /\ BusyContent'
         /\ ReadyContent'
         /\ WrittenSlot'
         /\ UnpublishedUnseen'
      BY <1>5 DEF WatchDropOverflow, OwnershipInv, WritersOwn, RecvOwns, HandlersOwn,
          WritingContent, BusyContent, ReadyContent, WrittenSlot,
          UnpublishedUnseen, slotVars, dispVars, workerVars
    <2> QED
      BY <2>1, <2>2 DEF OwnershipInv
  <1>6. CASE WatchResolve
    <2>1. WatcherOwns'
      BY <1>6 DEF WatchResolve, TypeOK, SlotsTyped, WatcherTyped, OwnershipInv, WatcherOwns,
          FREE, READY, CLAIMED, DONE, WRITING, NextSlotOfWatch, slotVars, osVars, dispVars,
          workerVars
    <2>2. /\ WritersOwn'
         /\ RecvOwns'
         /\ HandlersOwn'
         /\ WritingContent'
         /\ BusyContent'
         /\ ReadyContent'
         /\ WrittenSlot'
         /\ UnpublishedUnseen'
      BY <1>6 DEF WatchResolve, OwnershipInv, WritersOwn, RecvOwns, HandlersOwn, WritingContent,
          BusyContent, ReadyContent, WrittenSlot, UnpublishedUnseen, slotVars,
          osVars, dispVars, workerVars
    <2> QED
      BY <2>1, <2>2 DEF OwnershipInv
  <1> QED
    BY <1>1, <1>2, <1>3, <1>4, <1>5, <1>6 DEF Watcher

(*****************************************************************************)
(* Ownership is kept by the steps of the receive loop.                       *)
(*****************************************************************************)
LEMMA OwnershipReceiveLoop ==
    ASSUME TypeOK, OwnershipInv, ReceiveLoop
    PROVE  OwnershipInv'
  <1>1. CASE RecvWait
    <2>1. RecvOwns'
      BY <1>1 DEF RecvWait, TypeOK, SlotsTyped, WorkerTyped, OwnershipInv, RecvOwns, FREE,
          READY, CLAIMED, DONE, WRITING, HandlingPc, slotVars, hubVars, handVars
    <2>3. /\ WritersOwn'
         /\ HandlersOwn'
         /\ WatcherOwns'
         /\ WritingContent'
         /\ BusyContent'
         /\ ReadyContent'
         /\ WrittenSlot'
         /\ UnpublishedUnseen'
      BY <1>1 DEF RecvWait, OwnershipInv, WritersOwn, HandlersOwn, WatcherOwns, WritingContent,
          BusyContent, ReadyContent, WrittenSlot, UnpublishedUnseen, slotVars, hubVars, handVars
    <2> QED
      BY <2>1, <2>3 DEF OwnershipInv
  <1>2. CASE RecvScan
    <2>1. WritersOwn'
      BY <1>2 DEF RecvScan, TypeOK, SlotsTyped, DispatchTyped, OwnershipInv, WritersOwn, FREE,
          READY, CLAIMED, DONE, WRITING, WritingPc, PublishedPc, osVars, hubVars, handVars
    <2>2. RecvOwns'
      BY <1>2 DEF RecvScan, TypeOK, SlotsTyped, WorkerTyped, OwnershipInv, RecvOwns,
          ReadyContent, FREE, READY, CLAIMED, DONE, WRITING, HandlingPc, NextSlotOfRecv, osVars,
          hubVars, handVars
    <2>3. HandlersOwn'
      BY <1>2 DEF RecvScan, TypeOK, SlotsTyped, WorkerTyped, OwnershipInv, HandlersOwn, FREE,
          READY, CLAIMED, DONE, WRITING, HandlingPc, osVars, hubVars, handVars
    <2>4. WatcherOwns'
      BY <1>2 DEF RecvScan, TypeOK, SlotsTyped, WatcherTyped, OwnershipInv, WatcherOwns, FREE,
          READY, CLAIMED, DONE, WRITING, osVars, hubVars, handVars
    <2>5. WritingContent'
      BY <1>2 DEF RecvScan, TypeOK, SlotsTyped, DispatchTyped, OwnershipInv, WritingContent,
          FREE, READY, CLAIMED, DONE, WRITING, WritingPc, PublishedPc, osVars, hubVars, handVars
    <2>6. BusyContent'
      BY <1>2 DEF RecvScan, TypeOK, SlotsTyped, DispatchTyped, OwnershipInv, BusyContent, FREE,
          READY, CLAIMED, DONE, WRITING, WritingPc, PublishedPc, Busy, osVars, hubVars, handVars
    <2>7. ReadyContent'
      BY <1>2 DEF RecvScan, TypeOK, SlotsTyped, WorkerTyped, OwnershipInv, ReadyContent, FREE,
          READY, CLAIMED, DONE, WRITING, HandlingPc, osVars, hubVars, handVars
    <2>9. /\ WrittenSlot'
         /\ UnpublishedUnseen'
      BY <1>2 DEF RecvScan, OwnershipInv, WrittenSlot, UnpublishedUnseen, osVars, hubVars,
          handVars
    <2> QED
      BY <2>1, <2>2, <2>3, <2>4, <2>5, <2>6, <2>7, <2>9 DEF OwnershipInv
  <1>3. CASE RecvDeliver
    <2>1. RecvOwns'
      BY <1>3 DEF RecvDeliver, TypeOK, SlotsTyped, WorkerTyped, OwnershipInv, RecvOwns, FREE,
          READY, CLAIMED, DONE, WRITING, HandlingPc, NextSlotOfRecv, slotVars, osVars, hubVars
    <2>2. HandlersOwn'
      BY <1>3 DEF RecvDeliver, TypeOK, SlotsTyped, DispatchTyped, WorkerTyped, OwnershipInv,
          HandlersOwn, RecvOwns, BusyContent, FREE, READY, CLAIMED, DONE, WRITING, WritingPc,
          PublishedPc, HandlingPc, Busy, slotVars, osVars, hubVars
    <2>3. ReadyContent'
      BY <1>3 DEF RecvDeliver, TypeOK, SlotsTyped, DispatchTyped, WorkerTyped, OwnershipInv,
          ReadyContent, RecvOwns, BusyContent, FREE, READY, CLAIMED, DONE, WRITING, WritingPc,
          PublishedPc, HandlingPc, Busy, slotVars, osVars, hubVars
    <2>5. UnpublishedUnseen'
      BY <1>3 DEF RecvDeliver, TypeOK, SlotsTyped, DispatchTyped, WorkerTyped, OwnershipInv,
          UnpublishedUnseen, RecvOwns, BusyContent, FREE, READY, CLAIMED, DONE, WRITING,
          WritingPc, PublishedPc, HandlingPc, Busy, slotVars, osVars, hubVars
    <2>6. /\ WritersOwn'
         /\ WatcherOwns'
         /\ WritingContent'
         /\ BusyContent'
         /\ WrittenSlot'
      BY <1>3 DEF RecvDeliver, OwnershipInv, WritersOwn, WatcherOwns, WritingContent,
          BusyContent, WrittenSlot, slotVars, osVars, hubVars
    <2> QED
      BY <2>1, <2>2, <2>3, <2>5, <2>6 DEF OwnershipInv
  <1>4. CASE RecvDiscard
    <2>1. WritersOwn'
      BY <1>4 DEF RecvDiscard, TypeOK, SlotsTyped, DispatchTyped, WorkerTyped, OwnershipInv,
          WritersOwn, RecvOwns, FREE, READY, CLAIMED, DONE, WRITING, WritingPc, PublishedPc,
          HandlingPc, osVars, hubVars, handVars
    <2>2. RecvOwns'
      BY <1>4 DEF RecvDiscard, TypeOK, SlotsTyped, WorkerTyped, OwnershipInv, RecvOwns, FREE,
          READY, CLAIMED, DONE, WRITING, HandlingPc, NextSlotOfRecv, osVars, hubVars, handVars
    <2>3. HandlersOwn'
      BY <1>4 DEF RecvDiscard, TypeOK, SlotsTyped, WorkerTyped, OwnershipInv, HandlersOwn,
          RecvOwns, FREE, READY, CLAIMED, DONE, WRITING, HandlingPc, osVars, hubVars, handVars
    <2>4. WatcherOwns'
      BY <1>4 DEF RecvDiscard, TypeOK, SlotsTyped, WatcherTyped, WorkerTyped, OwnershipInv,
          WatcherOwns, RecvOwns, FREE, READY, CLAIMED, DONE, WRITING, HandlingPc, osVars,
          hubVars, handVars
    <2>5. WritingContent'
      BY <1>4 DEF RecvDiscard, TypeOK, SlotsTyped, DispatchTyped, WorkerTyped, OwnershipInv,
          WritingContent, RecvOwns, FREE, READY, CLAIMED, DONE, WRITING, WritingPc, PublishedPc,
          HandlingPc, osVars, hubVars, handVars
    <2>6. BusyContent'
      BY <1>4 DEF RecvDiscard, TypeOK, SlotsTyped, DispatchTyped, WorkerTyped, OwnershipInv,
          BusyContent, RecvOwns, FREE, READY, CLAIMED, DONE, WRITING, WritingPc, PublishedPc,
          HandlingPc, Busy, osVars, hubVars, handVars
    <2>7. ReadyContent'
      BY <1>4 DEF RecvDiscard, TypeOK, SlotsTyped, WorkerTyped, OwnershipInv, ReadyContent,
          RecvOwns, FREE, READY, CLAIMED, DONE, WRITING, HandlingPc, osVars, hubVars, handVars
    <2>9. /\ WrittenSlot'
         /\ UnpublishedUnseen'
      BY <1>4 DEF RecvDiscard, OwnershipInv, WrittenSlot, UnpublishedUnseen, osVars, hubVars,
          handVars
    <2> QED
      BY <2>1, <2>2, <2>3, <2>4, <2>5, <2>6, <2>7, <2>9 DEF OwnershipInv
  <1> QED
    BY <1>1, <1>2, <1>3, <1>4 DEF ReceiveLoop

(*****************************************************************************)
(* Ownership is kept by the steps of a handler's send_response.              *)
(*****************************************************************************)
LEMMA OwnershipHandler ==
    ASSUME TypeOK, OwnershipInv, NEW c \in Calls, Handler(c)
    PROVE  OwnershipInv'
  <1>1. CASE DropStaleResponseOverflow(c)
    <2>1. RecvOwns'
      BY <1>1 DEF DropStaleResponseOverflow, TypeOK, SlotsTyped, WorkerTyped, OwnershipInv,
          RecvOwns, FREE, READY, CLAIMED, DONE, WRITING, HandlingPc, slotVars, hubVars, recvVars
    <2>2. HandlersOwn'
      BY <1>1 DEF DropStaleResponseOverflow, TypeOK, SlotsTyped, WorkerTyped, OwnershipInv,
          HandlersOwn, FREE, READY, CLAIMED, DONE, WRITING, HandlingPc, slotVars, hubVars,
          recvVars
    <2>3. ReadyContent'
      BY <1>1 DEF DropStaleResponseOverflow, TypeOK, SlotsTyped, WorkerTyped, OwnershipInv,
          ReadyContent, FREE, READY, CLAIMED, DONE, WRITING, HandlingPc, slotVars, hubVars,
          recvVars
    <2>5. UnpublishedUnseen'
      BY <1>1 DEF DropStaleResponseOverflow, TypeOK, DispatchTyped, WorkerTyped, OwnershipInv,
          UnpublishedUnseen, WritingPc, PublishedPc, HandlingPc, slotVars, hubVars, recvVars
    <2>6. /\ WritersOwn'
         /\ WatcherOwns'
         /\ WritingContent'
         /\ BusyContent'
         /\ WrittenSlot'
      BY <1>1 DEF DropStaleResponseOverflow, OwnershipInv, WritersOwn, WatcherOwns,
          WritingContent, BusyContent, WrittenSlot, slotVars, hubVars, recvVars
    <2> QED
      BY <2>1, <2>2, <2>3, <2>5, <2>6 DEF OwnershipInv
  <1>2. CASE WriteResponse(c)
    <2>1. /\ hand[c] = "clean" /\ hand'[c] \in {"written", "failed"}
          /\ \A d \in Calls : d # c => hand'[d] = hand[d]
          /\ UNCHANGED <<status, reqArena, hat, recv, rat, disp, at>>
      BY <1>2 DEF WriteResponse, TypeOK, WorkerTyped, hubVars, recvVars
    <2>2. RecvOwns'
      BY <2>1 DEF TypeOK, SlotsTyped, DispatchTyped, WorkerTyped, OwnershipInv, RecvOwns,
          CLAIMED, BusyContent, Busy
    <2>3. HandlersOwn'
      BY <2>1 DEF TypeOK, SlotsTyped, DispatchTyped, WorkerTyped, OwnershipInv, HandlersOwn,
          HandlingPc
    <2>4. ReadyContent'
      BY <2>1 DEF TypeOK, SlotsTyped, DispatchTyped, WorkerTyped, OwnershipInv, ReadyContent,
          READY, BusyContent, Busy
    <2>6. UnpublishedUnseen'
      BY <2>1 DEF TypeOK, SlotsTyped, DispatchTyped, WorkerTyped, OwnershipInv,
          UnpublishedUnseen
    <2>7. /\ WritersOwn'
         /\ WatcherOwns'
         /\ WritingContent'
         /\ BusyContent'
         /\ WrittenSlot'
      BY <1>2 DEF WriteResponse, OwnershipInv, WritersOwn, WatcherOwns, WritingContent,
          BusyContent, WrittenSlot, hubVars, recvVars
    <2> QED
      BY <2>2, <2>3, <2>4, <2>6, <2>7 DEF OwnershipInv
  <1>3. CASE PublishResponse(c)
    <2>1. WritersOwn'
      BY <1>3 DEF PublishResponse, TypeOK, SlotsTyped, DispatchTyped, WorkerTyped, OwnershipInv,
          WritersOwn, HandlersOwn, FREE, READY, CLAIMED, DONE, WRITING, WritingPc, PublishedPc,
          HandlingPc, osVars, hubVars, recvVars
    <2>2. RecvOwns'
      BY <1>3 DEF PublishResponse, TypeOK, SlotsTyped, WorkerTyped, OwnershipInv, RecvOwns,
          HandlersOwn, FREE, READY, CLAIMED, DONE, WRITING, HandlingPc, osVars, hubVars,
          recvVars
    <2>3. HandlersOwn'
      BY <1>3 DEF PublishResponse, TypeOK, SlotsTyped, WorkerTyped, OwnershipInv, HandlersOwn,
          FREE, READY, CLAIMED, DONE, WRITING, HandlingPc, osVars, hubVars, recvVars
    <2>4. WatcherOwns'
      BY <1>3 DEF PublishResponse, TypeOK, SlotsTyped, WatcherTyped, WorkerTyped, OwnershipInv,
          WatcherOwns, HandlersOwn, FREE, READY, CLAIMED, DONE, WRITING, HandlingPc, osVars,
          hubVars, recvVars
    <2>5. WritingContent'
      BY <1>3 DEF PublishResponse, TypeOK, SlotsTyped, DispatchTyped, WorkerTyped, OwnershipInv,
          WritingContent, HandlersOwn, FREE, READY, CLAIMED, DONE, WRITING, WritingPc,
          PublishedPc, HandlingPc, osVars, hubVars, recvVars
    <2>6. BusyContent'
      BY <1>3 DEF PublishResponse, TypeOK, SlotsTyped, DispatchTyped, WorkerTyped, OwnershipInv,
          BusyContent, HandlersOwn, FREE, READY, CLAIMED, DONE, WRITING, WritingPc, PublishedPc,
          HandlingPc, Busy, osVars, hubVars, recvVars
    <2>7. ReadyContent'
      BY <1>3 DEF PublishResponse, TypeOK, SlotsTyped, WorkerTyped, OwnershipInv, ReadyContent,
          HandlersOwn, FREE, READY, CLAIMED, DONE, WRITING, HandlingPc, osVars, hubVars,
          recvVars
    <2>9. UnpublishedUnseen'
      BY <1>3 DEF PublishResponse, TypeOK, SlotsTyped, DispatchTyped, WorkerTyped, OwnershipInv,
          UnpublishedUnseen, HandlersOwn, FREE, READY, CLAIMED, DONE, WRITING, WritingPc,
          PublishedPc, HandlingPc, osVars, hubVars, recvVars
    <2>10. WrittenSlot'
      BY <1>3 DEF PublishResponse, OwnershipInv, WrittenSlot, osVars, hubVars, recvVars
    <2> QED
      BY <2>1, <2>2, <2>3, <2>4, <2>5, <2>6, <2>7, <2>9, <2>10 DEF OwnershipInv
  <1>4. CASE ReleaseFailedResponse(c)
    <2>1. WritersOwn'
      BY <1>4 DEF ReleaseFailedResponse, TypeOK, SlotsTyped, DispatchTyped, WorkerTyped,
          OwnershipInv, WritersOwn, HandlersOwn, FREE, READY, CLAIMED, DONE, WRITING, WritingPc,
          PublishedPc, HandlingPc, osVars, hubVars, recvVars
    <2>2. RecvOwns'
      BY <1>4 DEF ReleaseFailedResponse, TypeOK, SlotsTyped, WorkerTyped, OwnershipInv,
          RecvOwns, HandlersOwn, FREE, READY, CLAIMED, DONE, WRITING, HandlingPc, osVars,
          hubVars, recvVars
    <2>3. HandlersOwn'
      BY <1>4 DEF ReleaseFailedResponse, TypeOK, SlotsTyped, WorkerTyped, OwnershipInv,
          HandlersOwn, FREE, READY, CLAIMED, DONE, WRITING, HandlingPc, osVars, hubVars,
          recvVars
    <2>4. WatcherOwns'
      BY <1>4 DEF ReleaseFailedResponse, TypeOK, SlotsTyped, WatcherTyped, WorkerTyped,
          OwnershipInv, WatcherOwns, HandlersOwn, FREE, READY, CLAIMED, DONE, WRITING,
          HandlingPc, osVars, hubVars, recvVars
    <2>5. WritingContent'
      BY <1>4 DEF ReleaseFailedResponse, TypeOK, SlotsTyped, DispatchTyped, WorkerTyped,
          OwnershipInv, WritingContent, HandlersOwn, FREE, READY, CLAIMED, DONE, WRITING,
          WritingPc, PublishedPc, HandlingPc, osVars, hubVars, recvVars
    <2>6. BusyContent'
      BY <1>4 DEF ReleaseFailedResponse, TypeOK, SlotsTyped, DispatchTyped, WorkerTyped,
          OwnershipInv, BusyContent, HandlersOwn, FREE, READY, CLAIMED, DONE, WRITING,
          WritingPc, PublishedPc, HandlingPc, Busy, osVars, hubVars, recvVars
    <2>7. ReadyContent'
      BY <1>4 DEF ReleaseFailedResponse, TypeOK, SlotsTyped, WorkerTyped, OwnershipInv,
          ReadyContent, HandlersOwn, FREE, READY, CLAIMED, DONE, WRITING, HandlingPc, osVars,
          hubVars, recvVars
    <2>9. UnpublishedUnseen'
      BY <1>4 DEF ReleaseFailedResponse, TypeOK, SlotsTyped, DispatchTyped, WorkerTyped,
          OwnershipInv, UnpublishedUnseen, HandlersOwn, FREE, READY, CLAIMED, DONE, WRITING,
          WritingPc, PublishedPc, HandlingPc, osVars, hubVars, recvVars
    <2>10. WrittenSlot'
      BY <1>4 DEF ReleaseFailedResponse, OwnershipInv, WrittenSlot, osVars, hubVars, recvVars
    <2> QED
      BY <2>1, <2>2, <2>3, <2>4, <2>5, <2>6, <2>7, <2>9, <2>10 DEF OwnershipInv
  <1>5. CASE StoreResponseOverflow(c)
    <2>1. RecvOwns'
      BY <1>5 DEF StoreResponseOverflow, TypeOK, SlotsTyped, WorkerTyped, OwnershipInv,
          RecvOwns, FREE, READY, CLAIMED, DONE, WRITING, HandlingPc, slotVars, hubVars, recvVars
    <2>2. HandlersOwn'
      BY <1>5 DEF StoreResponseOverflow, TypeOK, SlotsTyped, WorkerTyped, OwnershipInv,
          HandlersOwn, FREE, READY, CLAIMED, DONE, WRITING, HandlingPc, slotVars, hubVars,
          recvVars
    <2>3. ReadyContent'
      BY <1>5 DEF StoreResponseOverflow, TypeOK, SlotsTyped, WorkerTyped, OwnershipInv,
          ReadyContent, FREE, READY, CLAIMED, DONE, WRITING, HandlingPc, slotVars, hubVars,
          recvVars
    <2>5. UnpublishedUnseen'
      BY <1>5 DEF StoreResponseOverflow, TypeOK, DispatchTyped, WorkerTyped, OwnershipInv,
          UnpublishedUnseen, WritingPc, PublishedPc, HandlingPc, slotVars, hubVars, recvVars
    <2>6. /\ WritersOwn'
         /\ WatcherOwns'
         /\ WritingContent'
         /\ BusyContent'
         /\ WrittenSlot'
      BY <1>5 DEF StoreResponseOverflow, OwnershipInv, WritersOwn, WatcherOwns, WritingContent,
          BusyContent, WrittenSlot, slotVars, hubVars, recvVars
    <2> QED
      BY <2>1, <2>2, <2>3, <2>5, <2>6 DEF OwnershipInv
  <1>6. CASE SignalResponse(c)
    <2>1. RecvOwns'
      BY <1>6 DEF SignalResponse, TypeOK, SlotsTyped, WorkerTyped, OwnershipInv, RecvOwns, FREE,
          READY, CLAIMED, DONE, WRITING, HandlingPc, slotVars, hubVars, recvVars
    <2>2. HandlersOwn'
      BY <1>6 DEF SignalResponse, TypeOK, SlotsTyped, WorkerTyped, OwnershipInv, HandlersOwn,
          FREE, READY, CLAIMED, DONE, WRITING, HandlingPc, slotVars, hubVars, recvVars
    <2>3. ReadyContent'
      BY <1>6 DEF SignalResponse, TypeOK, SlotsTyped, WorkerTyped, OwnershipInv, ReadyContent,
          FREE, READY, CLAIMED, DONE, WRITING, HandlingPc, slotVars, hubVars, recvVars
    <2>5. UnpublishedUnseen'
      BY <1>6 DEF SignalResponse, TypeOK, DispatchTyped, WorkerTyped, OwnershipInv,
          UnpublishedUnseen, WritingPc, PublishedPc, HandlingPc, slotVars, hubVars, recvVars
    <2>6. /\ WritersOwn'
         /\ WatcherOwns'
         /\ WritingContent'
         /\ BusyContent'
         /\ WrittenSlot'
      BY <1>6 DEF SignalResponse, OwnershipInv, WritersOwn, WatcherOwns, WritingContent,
          BusyContent, WrittenSlot, slotVars, hubVars, recvVars
    <2> QED
      BY <2>1, <2>2, <2>3, <2>5, <2>6 DEF OwnershipInv
  <1> QED
    BY <1>1, <1>2, <1>3, <1>4, <1>5, <1>6 DEF Handler

(***************************************************************************)
(* No step of the connection breaks the ownership of a slot.               *)
(***************************************************************************)
LEMMA OwnershipStep == TypeOK /\ OwnershipInv /\ [Next]_vars => OwnershipInv'
  <1> SUFFICES ASSUME TypeOK, OwnershipInv, [Next]_vars PROVE OwnershipInv'
    OBVIOUS
  <1>1. CASE UNCHANGED vars
    BY <1>1 DEF OwnershipInv, WritersOwn, RecvOwns, HandlersOwn, WatcherOwns, WritingContent,
        BusyContent, ReadyContent, WrittenSlot, UnpublishedUnseen,
        vars, slotVars, osVars, hubVars, workerVars
  <1>2. ASSUME NEW c \in Calls, Start(c) \/ Dispatch(c) PROVE OwnershipInv'
    BY <1>2, OwnershipDispatch
  <1>3. ASSUME NEW c \in Calls, Handler(c) PROVE OwnershipInv'
    BY <1>3, OwnershipHandler
  <1>4. CASE Watcher
    BY <1>4, OwnershipWatcher
  <1>5. CASE ReceiveLoop
    BY <1>5, OwnershipReceiveLoop
  <1> QED
    BY <1>1, <1>2, <1>3, <1>4, <1>5 DEF Next

(***************************************************************************)
(* The hub neither makes nor takes a claim.                                *)
(***************************************************************************)
LEMMA HubLeavesClaims ==
    ASSUME TypeOK, OwnershipInv, (\E c \in Calls : Start(c) \/ Dispatch(c)) \/ Watcher
    PROVE  /\ UNCHANGED <<recv, rat, hand, hat>>
           /\ \A i \in Slots : status'[i] = CLAIMED <=> status[i] = CLAIMED
           /\ \A i \in Slots : status[i] = CLAIMED => reqArena'[i] = reqArena[i]
  <1>1. ASSUME NEW c \in Calls, Start(c) \/ Dispatch(c)
        PROVE  /\ UNCHANGED <<recv, rat, hand, hat>>
               /\ \A i \in Slots : status'[i] = CLAIMED <=> status[i] = CLAIMED
               /\ \A i \in Slots : status[i] = CLAIMED => reqArena'[i] = reqArena[i]
    <2>1. CASE Start(c) \/ DropStaleRequestOverflow(c) \/ StoreRequestOverflow(c)
               \/ RegisterPending(c) \/ SignalRequest(c)
      BY <2>1 DEF Start, DropStaleRequestOverflow, StoreRequestOverflow, RegisterPending,
          SignalRequest, slotVars, workerVars
    <2>2. CASE ClaimFreeSlot(c)
      BY <2>2 DEF ClaimFreeSlot, TypeOK, SlotsTyped, DispatchTyped, workerVars, FREE, CLAIMED, WRITING
    <2>3. CASE PublishRequest(c) \/ ReleaseFailedWrite(c)
      BY <2>3 DEF PublishRequest, ReleaseFailedWrite, TypeOK, SlotsTyped, DispatchTyped, OwnershipInv,
          WritersOwn, WritingPc, workerVars, FREE, READY, CLAIMED, WRITING
    <2>4. CASE WriteRequest(c)
      <3>1. status[at[c]] = WRITING /\ UNCHANGED <<status, recv, rat, hand, hat>>
        BY <2>4 DEF WriteRequest, OwnershipInv, WritersOwn, WritingPc, workerVars
      <3>2. \A i \in Slots : i # at[c] => reqArena'[i] = reqArena[i]
        BY <2>4 DEF WriteRequest, TypeOK, SlotsTyped
      <3> QED
        BY <3>1, <3>2 DEF CLAIMED, WRITING
    <2> QED
      BY <1>1, <2>1, <2>2, <2>3, <2>4 DEF Dispatch
  <1>2. CASE Watcher
    <2>1. CASE WatchRelease
      BY <2>1 DEF WatchRelease, TypeOK, SlotsTyped, WatcherTyped, OwnershipInv, workerVars, FREE,
          CLAIMED, DONE
    <2>2. CASE WatchWait \/ WatchScan \/ WatchRead \/ WatchDropOverflow \/ WatchResolve
      BY <2>2 DEF WatchWait, WatchScan, WatchRead, WatchDropOverflow, WatchResolve, slotVars, workerVars
    <2> QED
      BY <1>2, <2>1, <2>2 DEF Watcher
  <1> QED
    BY <1>1, <1>2

(***************************************************************************)
(* What the receive loop and a handler do to claims: the one moves the     *)
(* slot it has claimed on or gives it to a handler that had not begun, the *)
(* other keeps its slot until it leaves it.                                *)
(***************************************************************************)
LEMMA ReceiveLoopClaims ==
    ASSUME TypeOK, OwnershipInv, ReceiveLoop
    PROVE  /\ UNCHANGED reqArena
           /\ \/ /\ recv # "read" \/ status' = [status EXCEPT ![rat] = FREE]
                 /\ UNCHANGED <<hand, hat>>
                 /\ recv' = "read" => rat' = rat /\ status[rat] = READY
                                      /\ status' = [status EXCEPT ![rat] = CLAIMED]
                 /\ recv' # "read" /\ recv # "read" => UNCHANGED status
              \/ /\ recv = "read" /\ recv' # "read"
                 /\ UNCHANGED status
                 /\ hand[reqArena[rat]] = "none"
                 /\ hand' = [hand EXCEPT ![reqArena[rat]] = "got"]
                 /\ hat' = [hat EXCEPT ![reqArena[rat]] = rat]
  <1>1. CASE RecvWait
    BY <1>1 DEF RecvWait, slotVars, handVars
  <1>2. CASE RecvScan
    BY <1>2 DEF RecvScan, NextSlotOfRecv, handVars
  <1>3. CASE RecvDeliver
    BY <1>3 DEF RecvDeliver, NextSlotOfRecv, OwnershipInv, RecvOwns, slotVars
  <1>4. CASE RecvDiscard
    BY <1>4 DEF RecvDiscard, NextSlotOfRecv, handVars
  <1> QED
    BY <1>1, <1>2, <1>3, <1>4 DEF ReceiveLoop

(***************************************************************************)
(* A handler stays with its slot as long as it handles, and leaves it      *)
(* answered or free.                                                       *)
(***************************************************************************)
LEMMA HandlerClaims ==
    ASSUME TypeOK, OwnershipInv, NEW c \in Calls, Handler(c)
    PROVE  /\ UNCHANGED <<reqArena, recv, rat, hat>>
           /\ hand[c] # "none"
           /\ \A d \in Calls \ {c} : hand'[d] = hand[d]
           /\ \/ UNCHANGED status /\ (hand'[c] \in HandlingPc <=> hand[c] \in HandlingPc)
              \/ /\ hand[c] \in HandlingPc /\ hand'[c] \notin HandlingPc
                 /\ \E s \in {FREE, DONE} : status' = [status EXCEPT ![hat[c]] = s]
  <1>0. hand \in [Calls -> HandPc]
    BY DEF TypeOK, WorkerTyped
  <1>1. CASE DropStaleResponseOverflow(c) \/ StoreResponseOverflow(c) \/ SignalResponse(c)
    BY <1>0, <1>1 DEF DropStaleResponseOverflow, StoreResponseOverflow, SignalResponse, slotVars,
        recvVars, HandlingPc
  <1>2. CASE WriteResponse(c)
    BY <1>0, <1>2 DEF WriteResponse, recvVars, HandlingPc
  <1>3. CASE PublishResponse(c) \/ ReleaseFailedResponse(c)
    BY <1>0, <1>3 DEF PublishResponse, ReleaseFailedResponse, recvVars, HandlingPc
  <1> QED
    BY <1>1, <1>2, <1>3 DEF Handler

(***************************************************************************)
(* A step of the connection, with no handler of a call in D at work.       *)
(***************************************************************************)
StepWithout(D) ==
    \/ \E c \in Calls : Start(c) \/ Dispatch(c)
    \/ \E c \in Calls \ D : Handler(c)
    \/ Watcher
    \/ ReceiveLoop

(***************************************************************************)
(* A claimed slot that was tended, or not claimed, before a step is tended *)
(* after it: a new handler is none of those in D, which had begun.         *)
(***************************************************************************)
LEMMA TendedStays ==
    ASSUME TypeOK, OwnershipInv, NEW D \in SUBSET Calls, \A c \in D : hand[c] # "none",
           StepWithout(D), NEW i \in Slots, status'[i] = CLAIMED, status[i] = CLAIMED => Tended(i, D)
    PROVE  Tended(i, D)'
  <1> USE DEF FREE, READY, CLAIMED, DONE
  <1>0. /\ hand \in [Calls -> HandPc] /\ hat \in [Calls -> Slots]
        /\ status \in [Slots -> Statuses] /\ rat \in Slots
        /\ status[i] = CLAIMED => reqArena[i] \in Calls
    BY DEF TypeOK, SlotsTyped, WorkerTyped, OwnershipInv, BusyContent, Busy
  <1>1. CASE (\E c \in Calls : Start(c) \/ Dispatch(c)) \/ Watcher
    BY <1>1, HubLeavesClaims DEF Tended
  <1>2. CASE ReceiveLoop
    <2>0. recv = "read" => status[rat] = CLAIMED
      BY DEF OwnershipInv, RecvOwns
    <2> QED
      BY <1>0, <1>2, <2>0, ReceiveLoopClaims DEF Tended, HandlingPc
  <1>3. ASSUME NEW c \in Calls \ D, Handler(c) PROVE Tended(i, D)'
    BY <1>0, <1>3, HandlerClaims DEF Tended
  <1> QED
    BY <1>1, <1>2, <1>3 DEF StepWithout

(***************************************************************************)
(* A claimed slot nobody tends stays claimed and untended: the scan of the *)
(* receive loop takes only Ready, and everybody else keeps to the slot it  *)
(* has.                                                                    *)
(***************************************************************************)
LEMMA UntendedStays ==
    ASSUME TypeOK, OwnershipInv, NEW D \in SUBSET Calls, StepWithout(D), NEW i \in Slots,
           status[i] = CLAIMED, ~(recv = "read" /\ rat = i),
           \A c \in Calls \ D : ~(hand[c] \in HandlingPc /\ hat[c] = i)
    PROVE  /\ status'[i] = CLAIMED /\ ~(recv' = "read" /\ rat' = i)
           /\ \A c \in Calls \ D : ~(hand'[c] \in HandlingPc /\ hat'[c] = i)
  <1> USE DEF FREE, READY, CLAIMED, DONE
  <1>0. /\ hand \in [Calls -> HandPc] /\ hat \in [Calls -> Slots]
        /\ status \in [Slots -> Statuses] /\ rat \in Slots
    BY DEF TypeOK, SlotsTyped, WorkerTyped
  <1>1. CASE (\E c \in Calls : Start(c) \/ Dispatch(c)) \/ Watcher
    BY <1>1, HubLeavesClaims
  <1>2. CASE ReceiveLoop
    BY <1>0, <1>2, ReceiveLoopClaims
  <1>3. ASSUME NEW c \in Calls \ D, Handler(c)
        PROVE  /\ status'[i] = CLAIMED /\ ~(recv' = "read" /\ rat' = i)
               /\ \A d \in Calls \ D : ~(hand'[d] \in HandlingPc /\ hat'[d] = i)
    BY <1>0, <1>3, HandlerClaims
  <1> QED
    BY <1>1, <1>2, <1>3 DEF StepWithout

(***************************************************************************)
(* While both sides stay up every claimed slot is tended.                  *)
(***************************************************************************)
LEMMA ClaimedStep == TypeOK /\ OwnershipInv /\ ClaimedContent /\ [Next]_vars => ClaimedContent'
  <1> SUFFICES ASSUME TypeOK, OwnershipInv, ClaimedContent, [Next]_vars PROVE ClaimedContent'
    OBVIOUS
  <1>1. CASE UNCHANGED vars
    BY <1>1 DEF ClaimedContent, Tended, vars, slotVars, workerVars
  <1>2. CASE Next
    <2>1. StepWithout({})
      BY <1>2 DEF Next, StepWithout
    <2> QED
      BY <2>1, TendedStays DEF ClaimedContent
  <1> QED
    BY <1>1, <1>2

(***************************************************************************)
(* Ownership holds in every reachable state.                               *)
(***************************************************************************)
THEOREM OwnershipCorrect == Spec => [](TypeOK /\ OwnershipInv)
  <1>1. Init => TypeOK /\ OwnershipInv
    BY TypeInit, OwnershipInit
  <1>2. (TypeOK /\ OwnershipInv) /\ [Next]_vars => (TypeOK /\ OwnershipInv)'
    BY TypeStep, OwnershipStep
  <1> QED
    BY <1>1, <1>2, PTL DEF Spec

(***************************************************************************)
(* So does the tending of claimed slots.                                   *)
(***************************************************************************)
THEOREM ClaimsCorrect == Spec => [](TypeOK /\ OwnershipInv /\ ClaimedContent)
  <1>1. Init => TypeOK /\ OwnershipInv /\ ClaimedContent
    BY TypeInit, OwnershipInit DEF Init, ClaimedContent, FREE, CLAIMED
  <1>2. (TypeOK /\ OwnershipInv /\ ClaimedContent) /\ [Next]_vars
        => (TypeOK /\ OwnershipInv /\ ClaimedContent)'
    BY TypeStep, OwnershipStep, ClaimedStep
  <1> QED
    BY <1>1, <1>2, PTL DEF Spec

(***************************************************************************)
(* Any two accessors of a slot are one.  The status word tells them apart: *)
(* a dispatch() implies Writing, the worker Claimed, the watcher Done; two *)
(* dispatches are kept apart by WritersOwn, two handlers by the call the   *)
(* slot carries, and the receive loop from a handler because the call it   *)
(* reads has no handler yet.                                               *)
(***************************************************************************)
LEMMA OwnershipExclusive == OwnershipInv => SlotAccessExclusive
  <1> SUFFICES ASSUME OwnershipInv,
                      NEW i \in Slots, NEW x \in Accessors(i), NEW y \in Accessors(i)
               PROVE  x = y
    BY DEF SlotAccessExclusive
  <1> DEFINE IsDispatch(z) == \E c \in Calls :
                 z = <<"dispatch", c>> /\ disp[c] \in WritingPc /\ at[c] = i
             IsHandler(z) == \E c \in Calls :
                 z = <<"handler", c>> /\ hand[c] \in HandlingPc /\ hat[c] = i
             IsReceive(z) == z = <<"receive", None>> /\ recv = "read" /\ rat = i
             IsWatcher(z) == z = <<"watcher", None>> /\ watch \in {"read", "release"} /\ wat = i
  <1>1. ASSUME NEW z \in Accessors(i)
        PROVE  IsDispatch(z) \/ IsHandler(z) \/ IsReceive(z) \/ IsWatcher(z)
    BY <1>1 DEF Accessors
  <1>2. ASSUME NEW z \in Accessors(i)
        PROVE  /\ IsDispatch(z) => status[i] = WRITING
               /\ IsHandler(z) \/ IsReceive(z) => status[i] = CLAIMED
               /\ IsWatcher(z) => status[i] = DONE
    BY DEF OwnershipInv, WritersOwn, RecvOwns, HandlersOwn, WatcherOwns
  <1>3. WRITING # CLAIMED /\ CLAIMED # DONE /\ DONE # WRITING
    BY DEF WRITING, CLAIMED, DONE
  <1>4. CASE status[i] = WRITING
    <2>1. IsDispatch(x) /\ IsDispatch(y)
      BY <1>1, <1>2, <1>3, <1>4
    <2> QED
      BY <2>1 DEF OwnershipInv, WritersOwn
  <1>5. CASE status[i] = CLAIMED
    <2>1. (IsHandler(x) \/ IsReceive(x)) /\ (IsHandler(y) \/ IsReceive(y))
      BY <1>1, <1>2, <1>3, <1>5
    <2>2. ~(\E z, u : IsHandler(z) /\ IsReceive(u))
      BY DEF OwnershipInv, HandlersOwn, RecvOwns, HandlingPc
    <2>3. \A z, u : IsHandler(z) /\ IsHandler(u) => z = u
      BY DEF OwnershipInv, HandlersOwn
    <2> QED
      BY <2>1, <2>2, <2>3
  <1>6. CASE status[i] = DONE
    <2>1. IsWatcher(x) /\ IsWatcher(y)
      BY <1>1, <1>2, <1>3, <1>6
    <2> QED
      BY <2>1
  <1> QED
    BY <1>1, <1>2, <1>4, <1>5, <1>6

(***************************************************************************)
(* For every number of calls and slots: no two threads are ever at the     *)
(* bytes of one slot at the same time.                                     *)
(***************************************************************************)
THEOREM AccessExclusive == Spec => []SlotAccessExclusive
  BY OwnershipCorrect, OwnershipExclusive, PTL

(***************************************************************************)
(* A reserved or claimed slot is always somebody's.                        *)
(***************************************************************************)
LEMMA OwnershipNotAbandoned == TypeOK /\ OwnershipInv /\ ClaimedContent => NoAbandonedSlot
  <1> SUFFICES ASSUME TypeOK, OwnershipInv, ClaimedContent, NEW i \in Slots, status[i] \in {WRITING, CLAIMED}
               PROVE  \E x : x \in Accessors(i)
    BY DEF NoAbandonedSlot
  <1>1. CASE status[i] = WRITING
    <2>1. PICK c \in Calls : disp[c] \in WritingPc /\ at[c] = i
      BY <1>1 DEF OwnershipInv, WritingContent
    <2>2. <<"dispatch", c>> \in Accessors(i)
      BY <2>1 DEF Accessors
    <2> QED
      BY <2>2
  <1>2. CASE status[i] = CLAIMED /\ recv = "read" /\ rat = i
    <2>1. <<"receive", None>> \in Accessors(i)
      BY <1>2 DEF Accessors
    <2> QED
      BY <2>1
  <1>3. CASE status[i] = CLAIMED /\ hand[reqArena[i]] \in HandlingPc /\ hat[reqArena[i]] = i
    <2>1. reqArena[i] \in Calls
      BY <1>3 DEF OwnershipInv, BusyContent, Busy
    <2>2. <<"handler", reqArena[i]>> \in Accessors(i)
      BY <1>3, <2>1 DEF Accessors
    <2> QED
      BY <2>2
  <1> QED
    BY <1>1, <1>2, <1>3 DEF ClaimedContent, Tended

(***************************************************************************)
(* For every number of calls and slots: no slot is left in Writing or      *)
(* Claimed with nobody to move it on.                                      *)
(***************************************************************************)
THEOREM NeverAbandoned == Spec => []NoAbandonedSlot
  BY ClaimsCorrect, OwnershipNotAbandoned, PTL

(***************************************************************************)
(* The watcher's compare_exchange finds the Done it saw: nobody but the    *)
(* watcher moves a slot out of Done.                                       *)
(***************************************************************************)
THEOREM CasSucceeds == Spec => []WatcherCasSucceeds
  <1>1. OwnershipInv => WatcherCasSucceeds
    BY DEF OwnershipInv, WatcherOwns, WatcherCasSucceeds
  <1> QED
    BY OwnershipCorrect, <1>1, PTL

(***************************************************************************)
(* claim_free_slot goes on from one slot to the next only because it did   *)
(* not find it Free.                                                       *)
(***************************************************************************)
LEMMA PassedNotFree ==
    ASSUME TypeOK, [Next]_vars, NEW c \in Calls, PassesOver(c)
    PROVE  disp[c] = "scan" /\ at[c] \in Slots /\ status[at[c]] # FREE
  <1>1. disp[c] = "scan" /\ at[c] \in Slots /\ ~UNCHANGED <<at, disp>>
    BY DEF PassesOver, TypeOK, DispatchTyped
  <1>2. PICK d \in Calls : Start(d) \/ Dispatch(d)
    BY <1>1 DEF Next, vars, hubVars, dispVars, Handler, DropStaleResponseOverflow, WriteResponse,
        PublishResponse, ReleaseFailedResponse, StoreResponseOverflow, SignalResponse, Watcher,
        WatchWait, WatchScan, WatchRead, WatchRelease, WatchDropOverflow, WatchResolve,
        ReceiveLoop, RecvWait, RecvScan, RecvDeliver, RecvDiscard
  <1>3. \A e \in Calls \ {d} : at'[e] = at[e] /\ disp'[e] = disp[e]
    BY <1>2 DEF TypeOK, DispatchTyped, Start, Dispatch, ClaimFreeSlot, DropStaleRequestOverflow,
        WriteRequest, PublishRequest, ReleaseFailedWrite, StoreRequestOverflow, RegisterPending,
        SignalRequest
  <1>4. d = c
    BY <1>1, <1>3 DEF PassesOver
  <1>5. ClaimFreeSlot(c)
    BY <1>1, <1>2, <1>4 DEF Start, Dispatch, DropStaleRequestOverflow, WriteRequest,
        PublishRequest, ReleaseFailedWrite, StoreRequestOverflow, RegisterPending, SignalRequest
  <1>6. status[at[c]] = FREE => at' = at /\ disp'[c] # "rejected"
    BY <1>5 DEF ClaimFreeSlot, TypeOK, DispatchTyped
  <1> QED
    BY <1>1, <1>6 DEF PassesOver

(***************************************************************************)
(* A slot that is not Free, and tended if it is Claimed, has some call     *)
(* under way in it; it is not one that is still looking for a slot.        *)
(***************************************************************************)
LEMMA TakenOccupied ==
    ASSUME TypeOK, OwnershipInv, NEW D, NEW c \in Calls,
           disp[c] = "scan", at[c] \in Slots, status[at[c]] # FREE,
           status[at[c]] = CLAIMED => Tended(at[c], D)
    PROVE  OccupiedByOther(c, D)
  <1>1. CASE status[at[c]] = WRITING
    <2>1. PICK d \in Calls : disp[d] \in WritingPc /\ at[d] = at[c]
      BY <1>1 DEF OwnershipInv, WritingContent
    <2>2. d # c
      BY <2>1 DEF WritingPc
    <2> QED
      BY <2>1, <2>2 DEF OccupiedByOther, Occupies
  <1>2. CASE status[at[c]] \in Busy
    <2>1. reqArena[at[c]] \in Calls /\ disp[reqArena[at[c]]] \in PublishedPc
      BY <1>2 DEF OwnershipInv, BusyContent
    <2>2. reqArena[at[c]] # c
      BY <2>1 DEF PublishedPc
    <2>3. Occupies(reqArena[at[c]], at[c], D)
      BY <1>2 DEF Occupies, Busy, Tended
    <2> QED
      BY <2>1, <2>2, <2>3 DEF OccupiedByOther
  <1>3. status[at[c]] \in Busy \cup {WRITING}
    BY DEF TypeOK, SlotsTyped, Statuses, Busy
  <1> QED
    BY <1>1, <1>2, <1>3

(***************************************************************************)
(* For every number of calls and slots: a scan passes over slots that are  *)
(* occupied by others, and over no others.                                 *)
(***************************************************************************)
THEOREM RefusedUnderLoad == Spec => RefusedOnlyUnderLoad
  <1> DEFINE Passes == \A c \in Calls : PassesOver(c) => OccupiedByOther(c, {})
  <1>1. (TypeOK /\ OwnershipInv /\ ClaimedContent) /\ [Next]_vars => [Passes]_vars
    BY PassedNotFree, TakenOccupied DEF ClaimedContent
  <1> QED
    BY <1>1, ClaimsCorrect, PTL DEF Spec, RefusedOnlyUnderLoad
=============================================================================
