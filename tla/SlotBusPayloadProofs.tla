------------------------ MODULE SlotBusPayloadProofs ------------------------
(***************************************************************************)
(* What the bytes of a slot are: with the ownership of the slots, the      *)
(* conjuncts of PayloadInv are inductive, and with them no handler is      *)
(* given a mixed request and no receiver the answer to another call; and   *)
(* the connection implements RequestReply.                                 *)
(***************************************************************************)
EXTENDS SlotBusBookkeepingProofs

(***************************************************************************)
(* Dropping a handle takes names away and changes no region's bytes.       *)
(***************************************************************************)
LEMMA DropHandlePointwise ==
    ASSUME NEW shm \in [Slots -> [Markers -> Payloads]], NEW k \in Slots, NEW h
    PROVE  \A i \in Slots, m \in 0 .. MaxMarker :
               m # 0 => DropHandle(shm, k, h)[i][m] \in {None, shm[i][m]}
  <1>1. \A i \in Slots, m \in Markers : DropHandle(shm, k, h)[i][m] \in {None, shm[i][m]}
    BY DEF DropHandle
  <1>2. \A m \in 0 .. MaxMarker : m # 0 => m \in Markers
    BY BusAssumption DEF Markers
  <1> QED
    BY <1>1, <1>2

(***************************************************************************)
(* A payload that was read is missing, or that of the call in the arena,   *)
(* if the region the marker points to is missing or that call's.           *)
(***************************************************************************)
LEMMA ReadPayloadWhole ==
    ASSUME NEW arena, NEW shm, NEW i, NEW m,
           m # 0 => shm[i][m] \in {None, arena[i]}
    PROVE  ReadPayload(arena, shm, i, m) \in {None, arena[i]}
  BY DEF ReadPayload, Body

(***************************************************************************)
(* At the start no slot carries anything.                                  *)
(***************************************************************************)
LEMMA PayloadInit == Init => PayloadInv
  BY DEF Init, PayloadInv, RequestContent, DoneContent, WrittenRequest, WrittenResponse,
      DeliveredOnce, WatcherConsistent, RequestIntact, ResponseMatches, Busy,
      FREE, READY, CLAIMED, DONE

(*****************************************************************************)
(* Payloads stay whole under the steps of a dispatch(), its call included.   *)
(*****************************************************************************)
LEMMA PayloadDispatch ==
    ASSUME TypeOK, OwnershipInv, PayloadInv, NEW c \in Calls, Start(c) \/ Dispatch(c)
    PROVE  PayloadInv'
  <1>1. CASE Start(c)
    <2>1. WrittenRequest'
      BY <1>1 DEF Start, TypeOK, SlotsTyped, OsTyped, DispatchTyped, PayloadInv, WrittenRequest,
          WritingPc, PublishedPc, slotVars, osVars, watchVars, workerVars
    <2>2. /\ RequestContent'
         /\ DoneContent'
         /\ WrittenResponse'
         /\ DeliveredOnce'
         /\ WatcherConsistent'
         /\ RequestIntact'
         /\ ResponseMatches'
      BY <1>1 DEF Start, PayloadInv, RequestContent, DoneContent, WrittenResponse,
          DeliveredOnce, WatcherConsistent, RequestIntact, ResponseMatches, slotVars, osVars,
          watchVars, workerVars
    <2> QED
      BY <2>1, <2>2 DEF PayloadInv
  <1>2. CASE ClaimFreeSlot(c)
    <2>1. RequestContent'
      BY <1>2 DEF ClaimFreeSlot, TypeOK, SlotsTyped, OsTyped, PayloadInv, RequestContent, FREE,
          READY, CLAIMED, DONE, WRITING, Busy, osVars, watchVars, workerVars
    <2>2. DoneContent'
      BY <1>2 DEF ClaimFreeSlot, TypeOK, SlotsTyped, OsTyped, WorkerTyped, PayloadInv,
          DoneContent, FREE, READY, CLAIMED, DONE, WRITING, osVars, watchVars, workerVars
    <2>3. WrittenRequest'
      BY <1>2 DEF ClaimFreeSlot, TypeOK, SlotsTyped, OsTyped, DispatchTyped, PayloadInv,
          WrittenRequest, WritingPc, PublishedPc, osVars, watchVars, workerVars
    <2>4. /\ WrittenResponse'
         /\ DeliveredOnce'
         /\ WatcherConsistent'
         /\ RequestIntact'
         /\ ResponseMatches'
      BY <1>2 DEF ClaimFreeSlot, PayloadInv, WrittenResponse, DeliveredOnce, WatcherConsistent,
          RequestIntact, ResponseMatches, osVars, watchVars, workerVars
    <2> QED
      BY <2>1, <2>2, <2>3, <2>4 DEF PayloadInv
  <1>3. CASE DropStaleRequestOverflow(c)
    <2>1. \A i \in Slots, m \in 0 .. MaxMarker :
              m # 0 => reqShm'[i][m] \in {None, reqShm[i][m]}
      BY <1>3, DropHandlePointwise DEF DropStaleRequestOverflow, TypeOK, OsTyped, DispatchTyped
    <2>2. RequestContent'
      BY <1>3, <2>1 DEF DropStaleRequestOverflow, TypeOK, SlotsTyped, PayloadInv,
          RequestContent, slotVars, watchVars, workerVars
    <2>3. WrittenRequest'
      BY <1>3, <2>1 DEF DropStaleRequestOverflow, TypeOK, SlotsTyped, DispatchTyped, PayloadInv,
          WrittenRequest, slotVars, watchVars, workerVars
    <2>4. /\ DoneContent'
         /\ WrittenResponse'
         /\ DeliveredOnce'
         /\ WatcherConsistent'
         /\ RequestIntact'
         /\ ResponseMatches'
      BY <1>3 DEF DropStaleRequestOverflow, PayloadInv, DoneContent, WrittenResponse,
          DeliveredOnce, WatcherConsistent, RequestIntact, ResponseMatches, slotVars, watchVars,
          workerVars
    <2> QED
      BY <2>2, <2>3, <2>4 DEF PayloadInv
  <1>4. CASE WriteRequest(c)
    <2>1. /\ disp[c] = "clean" /\ status[at[c]] = WRITING /\ at[c] \in Slots
          /\ \A d \in Calls : d # c => disp'[d] = disp[d]
          /\ UNCHANGED <<status, at, hand, rspArena, rspMarker, rspShm>>
          /\ \A i \in Slots : i # at[c] =>
                 reqArena'[i] = reqArena[i] /\ reqMarker'[i] = reqMarker[i] /\ reqShm'[i] = reqShm[i]
      BY <1>4 DEF WriteRequest, TypeOK, SlotsTyped, OsTyped, DispatchTyped, OwnershipInv, WritersOwn,
          WritingPc, workerVars
    <2>2. disp'[c] = "written" /\ reqMarker'[at[c]] # 0 => reqShm'[at[c]][reqMarker'[at[c]]] = c
      <3>1. CASE reqMarker' = [reqMarker EXCEPT ![at[c]] = 0]
        BY <2>1, <3>1 DEF TypeOK, SlotsTyped
      <3>2. ASSUME NEW m \in Markers, reqMarker' = [reqMarker EXCEPT ![at[c]] = m],
                   reqShm' = [reqShm EXCEPT ![at[c]][m] = c]
            PROVE  reqShm'[at[c]][reqMarker'[at[c]]] = c
        BY <2>1, <3>2 DEF TypeOK, SlotsTyped, OsTyped
      <3>3. CASE disp' = [disp EXCEPT ![c] = "failed"]
        BY <3>3 DEF TypeOK, DispatchTyped
      <3> QED
        BY <1>4, <3>1, <3>2, <3>3 DEF WriteRequest
    <2>3. RequestContent'
      BY <2>1 DEF PayloadInv, RequestContent, Busy, FREE, READY, CLAIMED, DONE, WRITING
    <2>4. DoneContent'
      BY <2>1 DEF PayloadInv, DoneContent, WRITING, DONE
    <2>5. WrittenRequest'
      BY <2>1, <2>2 DEF TypeOK, DispatchTyped, OwnershipInv, WritersOwn, WritingPc, PayloadInv,
          WrittenRequest
    <2>6. /\ WrittenResponse'
         /\ DeliveredOnce'
         /\ WatcherConsistent'
         /\ RequestIntact'
         /\ ResponseMatches'
      BY <1>4 DEF WriteRequest, PayloadInv, WrittenResponse, DeliveredOnce, WatcherConsistent,
          RequestIntact, ResponseMatches, watchVars, workerVars
    <2> QED
      BY <2>3, <2>4, <2>5, <2>6 DEF PayloadInv
  <1>5. CASE PublishRequest(c)
    <2>1. RequestContent'
      BY <1>5 DEF PublishRequest, TypeOK, SlotsTyped, OsTyped, DispatchTyped, OwnershipInv,
          PayloadInv, RequestContent, WritersOwn, WrittenSlot, WrittenRequest, FREE, READY,
          CLAIMED, DONE, WRITING, WritingPc, PublishedPc, Busy, osVars, watchVars, workerVars
    <2>2. DoneContent'
      BY <1>5 DEF PublishRequest, TypeOK, SlotsTyped, OsTyped, DispatchTyped, WorkerTyped,
          OwnershipInv, PayloadInv, DoneContent, WritersOwn, FREE, READY, CLAIMED, DONE,
          WRITING, WritingPc, PublishedPc, HandlingPc, osVars, watchVars, workerVars
    <2>3. WrittenRequest'
      BY <1>5 DEF PublishRequest, TypeOK, SlotsTyped, OsTyped, DispatchTyped, PayloadInv,
          WrittenRequest, WritingPc, PublishedPc, osVars, watchVars, workerVars
    <2>4. /\ WrittenResponse'
         /\ DeliveredOnce'
         /\ WatcherConsistent'
         /\ RequestIntact'
         /\ ResponseMatches'
      BY <1>5 DEF PublishRequest, PayloadInv, WrittenResponse, DeliveredOnce, WatcherConsistent,
          RequestIntact, ResponseMatches, osVars, watchVars, workerVars
    <2> QED
      BY <2>1, <2>2, <2>3, <2>4 DEF PayloadInv
  <1>6. CASE ReleaseFailedWrite(c)
    <2>1. RequestContent'
      BY <1>6 DEF ReleaseFailedWrite, TypeOK, SlotsTyped, OsTyped, DispatchTyped, OwnershipInv,
          PayloadInv, RequestContent, WritersOwn, FREE, READY, CLAIMED, DONE, WRITING,
          WritingPc, PublishedPc, Busy, osVars, watchVars, workerVars
    <2>2. DoneContent'
      BY <1>6 DEF ReleaseFailedWrite, TypeOK, SlotsTyped, OsTyped, DispatchTyped, WorkerTyped,
          OwnershipInv, PayloadInv, DoneContent, WritersOwn, FREE, READY, CLAIMED, DONE,
          WRITING, WritingPc, PublishedPc, HandlingPc, osVars, watchVars, workerVars
    <2>3. WrittenRequest'
      BY <1>6 DEF ReleaseFailedWrite, TypeOK, SlotsTyped, OsTyped, DispatchTyped, OwnershipInv,
          PayloadInv, WrittenRequest, WritersOwn, FREE, READY, CLAIMED, DONE, WRITING,
          WritingPc, PublishedPc, osVars, watchVars, workerVars
    <2>4. /\ WrittenResponse'
         /\ DeliveredOnce'
         /\ WatcherConsistent'
         /\ RequestIntact'
         /\ ResponseMatches'
      BY <1>6 DEF ReleaseFailedWrite, PayloadInv, WrittenResponse, DeliveredOnce,
          WatcherConsistent, RequestIntact, ResponseMatches, osVars, watchVars, workerVars
    <2> QED
      BY <2>1, <2>2, <2>3, <2>4 DEF PayloadInv
  <1>7. CASE StoreRequestOverflow(c)
    <2>1. \A i \in Slots, m \in 0 .. MaxMarker :
              m # 0 => reqShm'[i][m] \in {None, reqShm[i][m]}
      <3>1. reqShm' = reqShm \/ reqShm' = DropHandle(reqShm, at[c], hubOvf[at[c]])
        BY <1>7 DEF StoreRequestOverflow
      <3>2. reqShm \in [Slots -> [Markers -> Payloads]] /\ at[c] \in Slots
        BY DEF TypeOK, OsTyped, DispatchTyped
      <3> QED
        BY <3>1, <3>2, DropHandlePointwise
    <2>2. RequestContent'
      BY <1>7, <2>1 DEF StoreRequestOverflow, TypeOK, SlotsTyped, OsTyped, PayloadInv,
          RequestContent, FREE, READY, CLAIMED, DONE, WRITING, Busy, slotVars, watchVars,
          workerVars
    <2>3. WrittenRequest'
      BY <1>7, <2>1 DEF StoreRequestOverflow, TypeOK, SlotsTyped, OsTyped, DispatchTyped,
          PayloadInv, WrittenRequest, WritingPc, PublishedPc, slotVars, watchVars, workerVars
    <2>4. /\ DoneContent'
         /\ WrittenResponse'
         /\ DeliveredOnce'
         /\ WatcherConsistent'
         /\ RequestIntact'
         /\ ResponseMatches'
      BY <1>7 DEF StoreRequestOverflow, PayloadInv, DoneContent, WrittenResponse, DeliveredOnce,
          WatcherConsistent, RequestIntact, ResponseMatches, slotVars, watchVars, workerVars
    <2> QED
      BY <2>2, <2>3, <2>4 DEF PayloadInv
  <1>8. CASE RegisterPending(c)
    <2>1. WrittenRequest'
      BY <1>8 DEF RegisterPending, TypeOK, SlotsTyped, OsTyped, DispatchTyped, PayloadInv,
          WrittenRequest, WritingPc, PublishedPc, slotVars, osVars, watchVars, workerVars
    <2>2. /\ RequestContent'
         /\ DoneContent'
         /\ WrittenResponse'
         /\ DeliveredOnce'
         /\ WatcherConsistent'
         /\ RequestIntact'
         /\ ResponseMatches'
      BY <1>8 DEF RegisterPending, PayloadInv, RequestContent, DoneContent, WrittenResponse,
          DeliveredOnce, WatcherConsistent, RequestIntact, ResponseMatches, slotVars, osVars,
          watchVars, workerVars
    <2> QED
      BY <2>1, <2>2 DEF PayloadInv
  <1>9. CASE SignalRequest(c)
    <2>1. WrittenRequest'
      BY <1>9 DEF SignalRequest, TypeOK, SlotsTyped, OsTyped, DispatchTyped, PayloadInv,
          WrittenRequest, WritingPc, PublishedPc, slotVars, watchVars, workerVars
    <2>2. /\ RequestContent'
         /\ DoneContent'
         /\ WrittenResponse'
         /\ DeliveredOnce'
         /\ WatcherConsistent'
         /\ RequestIntact'
         /\ ResponseMatches'
      BY <1>9 DEF SignalRequest, PayloadInv, RequestContent, DoneContent, WrittenResponse,
          DeliveredOnce, WatcherConsistent, RequestIntact, ResponseMatches, slotVars, watchVars,
          workerVars
    <2> QED
      BY <2>1, <2>2 DEF PayloadInv
  <1> QED
    BY <1>1, <1>2, <1>3, <1>4, <1>5, <1>6, <1>7, <1>8, <1>9 DEF Dispatch

(*****************************************************************************)
(* Payloads stay whole under the steps of the response watcher.              *)
(*****************************************************************************)
LEMMA PayloadWatcher ==
    ASSUME TypeOK, OwnershipInv, PayloadInv, Watcher
    PROVE  PayloadInv'
  <1>1. CASE WatchWait
    <2>1. WatcherConsistent'
      BY <1>1 DEF WatchWait, TypeOK, WatcherTyped, PayloadInv, WatcherConsistent, slotVars,
          dispVars, workerVars
    <2>2. /\ RequestContent'
         /\ DoneContent'
         /\ WrittenRequest'
         /\ WrittenResponse'
         /\ DeliveredOnce'
         /\ RequestIntact'
         /\ ResponseMatches'
      BY <1>1 DEF WatchWait, PayloadInv, RequestContent, DoneContent, WrittenRequest,
          WrittenResponse, DeliveredOnce, RequestIntact, ResponseMatches, slotVars, dispVars,
          workerVars
    <2> QED
      BY <2>1, <2>2 DEF PayloadInv
  <1>2. CASE WatchScan
    <2>1. WatcherConsistent'
      <3>1. watch' \notin {"release", "drop", "resolve"}
        BY <1>2 DEF WatchScan, NextSlotOfWatch
      <3> QED
        BY <3>1 DEF WatcherConsistent
    <2>2. /\ RequestContent'
         /\ DoneContent'
         /\ WrittenRequest'
         /\ WrittenResponse'
         /\ DeliveredOnce'
         /\ RequestIntact'
         /\ ResponseMatches'
      BY <1>2 DEF WatchScan, PayloadInv, RequestContent, DoneContent, WrittenRequest,
          WrittenResponse, DeliveredOnce, RequestIntact, ResponseMatches, slotVars, osVars,
          dispVars, workerVars
    <2> QED
      BY <2>1, <2>2 DEF PayloadInv
  <1>3. CASE WatchRead
    <2>1. WatcherConsistent'
      <3>1. status[wat] = DONE /\ wat \in Slots
        BY <1>3 DEF WatchRead, TypeOK, WatcherTyped, OwnershipInv, WatcherOwns
      <3>2. wid' \in {None, reqArena[wat]}
        BY <1>3, <3>1 DEF WatchRead, OwnershipInv, BusyContent, Busy
      <3>3. wrsp' \in {None, reqArena[wat]}
        BY <1>3, <3>1, ReadPayloadWhole DEF WatchRead, PayloadInv, DoneContent
      <3> QED
        BY <3>2, <3>3, BusAssumption DEF WatcherConsistent
    <2>2. /\ RequestContent'
         /\ DoneContent'
         /\ WrittenRequest'
         /\ WrittenResponse'
         /\ DeliveredOnce'
         /\ RequestIntact'
         /\ ResponseMatches'
      BY <1>3 DEF WatchRead, PayloadInv, RequestContent, DoneContent, WrittenRequest,
          WrittenResponse, DeliveredOnce, RequestIntact, ResponseMatches, slotVars, osVars,
          dispVars, workerVars
    <2> QED
      BY <2>1, <2>2 DEF PayloadInv
  <1>4. CASE WatchRelease
    <2>1. RequestContent'
      BY <1>4 DEF WatchRelease, TypeOK, SlotsTyped, OsTyped, PayloadInv, RequestContent, FREE,
          READY, CLAIMED, DONE, WRITING, Busy, osVars, dispVars, workerVars
    <2>2. DoneContent'
      BY <1>4 DEF WatchRelease, TypeOK, SlotsTyped, OsTyped, WorkerTyped, PayloadInv,
          DoneContent, FREE, READY, CLAIMED, DONE, WRITING, osVars, dispVars, workerVars
    <2>3. WatcherConsistent'
      BY <1>4 DEF WatchRelease, TypeOK, WatcherTyped, PayloadInv, WatcherConsistent, osVars,
          dispVars, workerVars
    <2>4. /\ WrittenRequest'
         /\ WrittenResponse'
         /\ DeliveredOnce'
         /\ RequestIntact'
         /\ ResponseMatches'
      BY <1>4 DEF WatchRelease, PayloadInv, WrittenRequest, WrittenResponse, DeliveredOnce,
          RequestIntact, ResponseMatches, osVars, dispVars, workerVars
    <2> QED
      BY <2>1, <2>2, <2>3, <2>4 DEF PayloadInv
  <1>5. CASE WatchDropOverflow
    <2>1. \A i \in Slots, m \in 0 .. MaxMarker :
              m # 0 => reqShm'[i][m] \in {None, reqShm[i][m]}
      BY <1>5, DropHandlePointwise DEF WatchDropOverflow, TypeOK, OsTyped, WatcherTyped
    <2>2. RequestContent'
      BY <1>5, <2>1 DEF WatchDropOverflow, TypeOK, SlotsTyped, PayloadInv, RequestContent,
          slotVars, dispVars, workerVars
    <2>3. WrittenRequest'
      BY <1>5, <2>1 DEF WatchDropOverflow, TypeOK, SlotsTyped, DispatchTyped, PayloadInv,
          WrittenRequest, slotVars, dispVars, workerVars
    <2>4. WatcherConsistent'
      BY <1>5, <2>1 DEF WatchDropOverflow, TypeOK, WatcherTyped, PayloadInv, WatcherConsistent,
          slotVars, dispVars, workerVars
    <2>5. /\ DoneContent'
         /\ WrittenResponse'
         /\ DeliveredOnce'
         /\ RequestIntact'
         /\ ResponseMatches'
      BY <1>5 DEF WatchDropOverflow, PayloadInv, DoneContent, WrittenResponse, DeliveredOnce,
          RequestIntact, ResponseMatches, slotVars, dispVars, workerVars
    <2> QED
      BY <2>2, <2>3, <2>4, <2>5 DEF PayloadInv
  <1>6. CASE WatchResolve
    <2>1. WatcherConsistent'
      BY <1>6 DEF WatchResolve, TypeOK, WatcherTyped, PayloadInv, WatcherConsistent, slotVars,
          osVars, dispVars, workerVars
    <2>2. ResponseMatches'
      <3>1. CASE got' = got
        BY <3>1 DEF PayloadInv, ResponseMatches
      <3>2. CASE wid \in pending /\ got' = [got EXCEPT ![wid] = wrsp]
        <4>1. wid \in Calls /\ wrsp \in {None, wid}
          BY <1>6, <3>2 DEF WatchResolve, TypeOK, DispatchTyped, PayloadInv, WatcherConsistent
        <4> QED
          BY <3>2, <4>1 DEF TypeOK, DispatchTyped, PayloadInv, ResponseMatches
      <3> QED
        BY <1>6, <3>1, <3>2 DEF WatchResolve
    <2>3. /\ RequestContent'
         /\ DoneContent'
         /\ WrittenRequest'
         /\ WrittenResponse'
         /\ DeliveredOnce'
         /\ RequestIntact'
      BY <1>6 DEF WatchResolve, PayloadInv, RequestContent, DoneContent, WrittenRequest,
          WrittenResponse, DeliveredOnce, RequestIntact, slotVars, osVars, dispVars, workerVars
    <2> QED
      BY <2>1, <2>2, <2>3 DEF PayloadInv
  <1> QED
    BY <1>1, <1>2, <1>3, <1>4, <1>5, <1>6 DEF Watcher

(*****************************************************************************)
(* Payloads stay whole under the steps of the receive loop.                  *)
(*****************************************************************************)
LEMMA PayloadReceiveLoop ==
    ASSUME TypeOK, OwnershipInv, PayloadInv, ReceiveLoop
    PROVE  PayloadInv'
  <1>1. CASE RecvWait
    <2>1. /\ RequestContent'
         /\ DoneContent'
         /\ WrittenRequest'
         /\ WrittenResponse'
         /\ DeliveredOnce'
         /\ WatcherConsistent'
         /\ RequestIntact'
         /\ ResponseMatches'
      BY <1>1 DEF RecvWait, PayloadInv, RequestContent, DoneContent, WrittenRequest,
          WrittenResponse, DeliveredOnce, WatcherConsistent, RequestIntact, ResponseMatches,
          slotVars, hubVars, handVars
    <2> QED
      BY <2>1 DEF PayloadInv
  <1>2. CASE RecvScan
    <2>1. RequestContent'
      BY <1>2 DEF RecvScan, TypeOK, SlotsTyped, OsTyped, PayloadInv, RequestContent, FREE,
          READY, CLAIMED, DONE, WRITING, Busy, osVars, hubVars, handVars
    <2>2. DoneContent'
      BY <1>2 DEF RecvScan, TypeOK, SlotsTyped, OsTyped, WorkerTyped, PayloadInv, DoneContent,
          FREE, READY, CLAIMED, DONE, WRITING, osVars, hubVars, handVars
    <2>3. /\ WrittenRequest'
         /\ WrittenResponse'
         /\ DeliveredOnce'
         /\ WatcherConsistent'
         /\ RequestIntact'
         /\ ResponseMatches'
      BY <1>2 DEF RecvScan, PayloadInv, WrittenRequest, WrittenResponse, DeliveredOnce,
          WatcherConsistent, RequestIntact, ResponseMatches, osVars, hubVars, handVars
    <2> QED
      BY <2>1, <2>2, <2>3 DEF PayloadInv
  <1>3. CASE RecvDeliver
    <2>1. DoneContent'
      BY <1>3 DEF RecvDeliver, TypeOK, SlotsTyped, OsTyped, DispatchTyped, WorkerTyped,
          OwnershipInv, PayloadInv, DoneContent, RecvOwns, BusyContent, FREE, READY, CLAIMED,
          DONE, WRITING, WritingPc, PublishedPc, HandlingPc, Busy, slotVars, osVars, hubVars
    <2>2. WrittenResponse'
      BY <1>3 DEF RecvDeliver, TypeOK, SlotsTyped, OsTyped, DispatchTyped, WorkerTyped,
          OwnershipInv, PayloadInv, WrittenResponse, RecvOwns, BusyContent, FREE, READY,
          CLAIMED, DONE, WRITING, WritingPc, PublishedPc, HandlingPc, Busy, slotVars, osVars,
          hubVars
    <2>3. DeliveredOnce'
      BY <1>3 DEF RecvDeliver, TypeOK, SlotsTyped, DispatchTyped, WorkerTyped, OwnershipInv,
          PayloadInv, DeliveredOnce, RecvOwns, BusyContent, FREE, READY, CLAIMED, DONE, WRITING,
          WritingPc, PublishedPc, HandlingPc, Busy, slotVars, osVars, hubVars
    <2>4. RequestIntact'
      <3>1. status[rat] = CLAIMED /\ rat \in Slots
        BY <1>3 DEF RecvDeliver, TypeOK, WorkerTyped, OwnershipInv, RecvOwns
      <3>2. reqArena[rat] \in Calls
        BY <3>1 DEF OwnershipInv, BusyContent, Busy
      <3>3. RequestRead \in {None, reqArena[rat]}
        BY <3>1, ReadPayloadWhole DEF RequestRead, PayloadInv, RequestContent, Busy
      <3>4. seen' = [seen EXCEPT ![reqArena[rat]] = RequestRead]
        BY <1>3 DEF RecvDeliver
      <3> QED
        BY <3>2, <3>3, <3>4 DEF TypeOK, WorkerTyped, PayloadInv, RequestIntact
    <2>5. /\ RequestContent'
         /\ WrittenRequest'
         /\ WatcherConsistent'
         /\ ResponseMatches'
      BY <1>3 DEF RecvDeliver, PayloadInv, RequestContent, WrittenRequest, WatcherConsistent,
          ResponseMatches, slotVars, osVars, hubVars
    <2> QED
      BY <2>1, <2>2, <2>3, <2>4, <2>5 DEF PayloadInv
  <1>4. CASE RecvDiscard
    <2>1. RequestContent'
      BY <1>4 DEF RecvDiscard, TypeOK, SlotsTyped, OsTyped, WorkerTyped, OwnershipInv,
          PayloadInv, RequestContent, RecvOwns, FREE, READY, CLAIMED, DONE, WRITING, HandlingPc,
          Busy, osVars, hubVars, handVars
    <2>2. DoneContent'
      BY <1>4 DEF RecvDiscard, TypeOK, SlotsTyped, OsTyped, WorkerTyped, OwnershipInv,
          PayloadInv, DoneContent, RecvOwns, FREE, READY, CLAIMED, DONE, WRITING, HandlingPc,
          osVars, hubVars, handVars
    <2>3. /\ WrittenRequest'
         /\ WrittenResponse'
         /\ DeliveredOnce'
         /\ WatcherConsistent'
         /\ RequestIntact'
         /\ ResponseMatches'
      BY <1>4 DEF RecvDiscard, PayloadInv, WrittenRequest, WrittenResponse, DeliveredOnce,
          WatcherConsistent, RequestIntact, ResponseMatches, osVars, hubVars, handVars
    <2> QED
      BY <2>1, <2>2, <2>3 DEF PayloadInv
  <1> QED
    BY <1>1, <1>2, <1>3, <1>4 DEF ReceiveLoop

(*****************************************************************************)
(* Payloads stay whole under the steps of a handler's send_response.         *)
(*****************************************************************************)
LEMMA PayloadHandler ==
    ASSUME TypeOK, OwnershipInv, PayloadInv, NEW c \in Calls, Handler(c)
    PROVE  PayloadInv'
  <1>1. CASE DropStaleResponseOverflow(c)
    <2>1. \A i \in Slots, m \in 0 .. MaxMarker :
              m # 0 => rspShm'[i][m] \in {None, rspShm[i][m]}
      BY <1>1, DropHandlePointwise DEF DropStaleResponseOverflow, TypeOK, OsTyped, WorkerTyped
    
    <2>2. /\ hand[c] = "got" /\ hand'[c] = "clean"
          /\ \A d \in Calls : d # c => hand'[d] = hand[d]
          /\ UNCHANGED <<status, reqArena, rspArena, rspMarker, hat>>
      BY <1>1 DEF DropStaleResponseOverflow, TypeOK, WorkerTyped, slotVars
    <2>3. \A i \in Slots : rspMarker[i] # 0 =>
              rspShm'[i][rspMarker[i]] \in {None, rspShm[i][rspMarker[i]]}
      BY <2>1 DEF TypeOK, SlotsTyped
    <2>4. DoneContent'
      BY <2>2, <2>3 DEF PayloadInv, DoneContent, OwnershipInv, HandlersOwn, HandlingPc, CLAIMED,
          DONE, BusyContent, Busy
    <2>5. WrittenResponse'
      BY <2>2, <2>3 DEF TypeOK, WorkerTyped, PayloadInv, WrittenResponse
    <2>6. DeliveredOnce'
      BY <1>1, <2>1 DEF DropStaleResponseOverflow, TypeOK, SlotsTyped, DispatchTyped,
          WorkerTyped, OwnershipInv, PayloadInv, DeliveredOnce, HandlersOwn, BusyContent, FREE,
          READY, CLAIMED, DONE, WRITING, WritingPc, PublishedPc, HandlingPc, Busy, slotVars,
          hubVars, recvVars
    <2>7. /\ RequestContent'
         /\ WrittenRequest'
         /\ WatcherConsistent'
         /\ RequestIntact'
         /\ ResponseMatches'
      BY <1>1 DEF DropStaleResponseOverflow, PayloadInv, RequestContent, WrittenRequest,
          WatcherConsistent, RequestIntact, ResponseMatches, slotVars, hubVars, recvVars
    <2> QED
      BY <2>4, <2>5, <2>6, <2>7 DEF PayloadInv
  <1>2. CASE WriteResponse(c)
    <2>1. /\ hand[c] = "clean" /\ hat[c] \in Slots
          /\ hand'[c] \in {"written", "failed"}
          /\ \A d \in Calls : d # c => hand'[d] = hand[d]
          /\ UNCHANGED <<status, reqArena, hat, delivered>>
          /\ \A i \in Slots : i # hat[c] =>
                 rspArena'[i] = rspArena[i] /\ rspMarker'[i] = rspMarker[i] /\ rspShm'[i] = rspShm[i]
      BY <1>2 DEF WriteResponse, TypeOK, SlotsTyped, OsTyped, WorkerTyped
    <2>2. hand'[c] = "written" =>
              /\ rspArena'[hat[c]] = c
              /\ rspMarker'[hat[c]] # 0 => rspShm'[hat[c]][rspMarker'[hat[c]]] = c
      <3>1. CASE /\ rspArena' = [rspArena EXCEPT ![hat[c]] = c]
                 /\ rspMarker' = [rspMarker EXCEPT ![hat[c]] = 0]
        BY <2>1, <3>1 DEF TypeOK, SlotsTyped
      <3>2. ASSUME NEW m \in Markers, rspMarker' = [rspMarker EXCEPT ![hat[c]] = m],
                   rspArena' = [rspArena EXCEPT ![hat[c]] = c],
                   rspShm' = [rspShm EXCEPT ![hat[c]][m] = c]
            PROVE  rspArena'[hat[c]] = c /\ rspShm'[hat[c]][rspMarker'[hat[c]]] = c
        BY <2>1, <3>2 DEF TypeOK, SlotsTyped, OsTyped
      <3>3. CASE hand' = [hand EXCEPT ![c] = "failed"]
        BY <3>3 DEF TypeOK, WorkerTyped
      <3> QED
        BY <1>2, <3>1, <3>2, <3>3 DEF WriteResponse
    <2>3. DoneContent'
      BY <2>1 DEF PayloadInv, DoneContent, OwnershipInv, HandlersOwn, HandlingPc, BusyContent,
          Busy, CLAIMED, DONE
    <2>4. WrittenResponse'
      BY <2>1, <2>2 DEF TypeOK, WorkerTyped, PayloadInv, WrittenResponse, OwnershipInv,
          HandlersOwn, HandlingPc
    <2>5. DeliveredOnce'
      BY <1>2, <2>1 DEF WriteResponse, TypeOK, SlotsTyped, DispatchTyped, WorkerTyped,
          OwnershipInv, PayloadInv, DeliveredOnce, HandlersOwn, BusyContent, FREE, READY,
          CLAIMED, DONE, WRITING, WritingPc, PublishedPc, HandlingPc, Busy, hubVars, recvVars
    <2>6. /\ RequestContent'
         /\ WrittenRequest'
         /\ WatcherConsistent'
         /\ RequestIntact'
         /\ ResponseMatches'
      BY <1>2 DEF WriteResponse, PayloadInv, RequestContent, WrittenRequest, WatcherConsistent,
          RequestIntact, ResponseMatches, hubVars, recvVars
    <2> QED
      BY <2>3, <2>4, <2>5, <2>6 DEF PayloadInv
  <1>3. CASE PublishResponse(c)
    <2>1. RequestContent'
      BY <1>3 DEF PublishResponse, TypeOK, SlotsTyped, OsTyped, DispatchTyped, WorkerTyped,
          OwnershipInv, PayloadInv, RequestContent, HandlersOwn, BusyContent, FREE, READY,
          CLAIMED, DONE, WRITING, WritingPc, PublishedPc, HandlingPc, Busy, osVars, hubVars,
          recvVars
    <2>2. DoneContent'
      BY <1>3 DEF PublishResponse, TypeOK, SlotsTyped, OsTyped, DispatchTyped, WorkerTyped,
          OwnershipInv, PayloadInv, DoneContent, HandlersOwn, BusyContent, WrittenResponse,
          FREE, READY, CLAIMED, DONE, WRITING, WritingPc, PublishedPc, HandlingPc, Busy, osVars,
          hubVars, recvVars
    <2>3. WrittenResponse'
      BY <1>3 DEF PublishResponse, TypeOK, SlotsTyped, OsTyped, DispatchTyped, WorkerTyped,
          OwnershipInv, PayloadInv, WrittenResponse, HandlersOwn, BusyContent, FREE, READY,
          CLAIMED, DONE, WRITING, WritingPc, PublishedPc, HandlingPc, Busy, osVars, hubVars,
          recvVars
    <2>4. DeliveredOnce'
      BY <1>3 DEF PublishResponse, TypeOK, SlotsTyped, DispatchTyped, WorkerTyped, OwnershipInv,
          PayloadInv, DeliveredOnce, HandlersOwn, BusyContent, FREE, READY, CLAIMED, DONE,
          WRITING, WritingPc, PublishedPc, HandlingPc, Busy, osVars, hubVars, recvVars
    <2>5. /\ WrittenRequest'
         /\ WatcherConsistent'
         /\ RequestIntact'
         /\ ResponseMatches'
      BY <1>3 DEF PublishResponse, PayloadInv, WrittenRequest, WatcherConsistent, RequestIntact,
          ResponseMatches, osVars, hubVars, recvVars
    <2> QED
      BY <2>1, <2>2, <2>3, <2>4, <2>5 DEF PayloadInv
  <1>4. CASE ReleaseFailedResponse(c)
    <2>1. RequestContent'
      BY <1>4 DEF ReleaseFailedResponse, TypeOK, SlotsTyped, OsTyped, DispatchTyped,
          WorkerTyped, OwnershipInv, PayloadInv, RequestContent, HandlersOwn, BusyContent, FREE,
          READY, CLAIMED, DONE, WRITING, WritingPc, PublishedPc, HandlingPc, Busy, osVars,
          hubVars, recvVars
    <2>2. DoneContent'
      BY <1>4 DEF ReleaseFailedResponse, TypeOK, SlotsTyped, OsTyped, DispatchTyped,
          WorkerTyped, OwnershipInv, PayloadInv, DoneContent, HandlersOwn, BusyContent, FREE,
          READY, CLAIMED, DONE, WRITING, WritingPc, PublishedPc, HandlingPc, Busy, osVars,
          hubVars, recvVars
    <2>3. WrittenResponse'
      BY <1>4 DEF ReleaseFailedResponse, TypeOK, SlotsTyped, OsTyped, DispatchTyped,
          WorkerTyped, OwnershipInv, PayloadInv, WrittenResponse, HandlersOwn, BusyContent,
          FREE, READY, CLAIMED, DONE, WRITING, WritingPc, PublishedPc, HandlingPc, Busy, osVars,
          hubVars, recvVars
    <2>4. DeliveredOnce'
      BY <1>4 DEF ReleaseFailedResponse, TypeOK, SlotsTyped, DispatchTyped, WorkerTyped,
          OwnershipInv, PayloadInv, DeliveredOnce, HandlersOwn, BusyContent, FREE, READY,
          CLAIMED, DONE, WRITING, WritingPc, PublishedPc, HandlingPc, Busy, osVars, hubVars,
          recvVars
    <2>5. /\ WrittenRequest'
         /\ WatcherConsistent'
         /\ RequestIntact'
         /\ ResponseMatches'
      BY <1>4 DEF ReleaseFailedResponse, PayloadInv, WrittenRequest, WatcherConsistent,
          RequestIntact, ResponseMatches, osVars, hubVars, recvVars
    <2> QED
      BY <2>1, <2>2, <2>3, <2>4, <2>5 DEF PayloadInv
  <1>5. CASE StoreResponseOverflow(c)
    <2>1. \A i \in Slots, m \in 0 .. MaxMarker :
              m # 0 => rspShm'[i][m] \in {None, rspShm[i][m]}
      <3>1. rspShm' = rspShm \/ rspShm' = DropHandle(rspShm, hat[c], wkOvf[hat[c]])
        BY <1>5 DEF StoreResponseOverflow
      <3>2. rspShm \in [Slots -> [Markers -> Payloads]] /\ hat[c] \in Slots
        BY DEF TypeOK, OsTyped, WorkerTyped
      <3> QED
        BY <3>1, <3>2, DropHandlePointwise
    
    <2>2. /\ hand[c] = "published" /\ hand'[c] = "stored"
          /\ \A d \in Calls : d # c => hand'[d] = hand[d]
          /\ UNCHANGED <<status, reqArena, rspArena, rspMarker, hat>>
      BY <1>5 DEF StoreResponseOverflow, TypeOK, WorkerTyped, slotVars
    <2>3. \A i \in Slots : rspMarker[i] # 0 =>
              rspShm'[i][rspMarker[i]] \in {None, rspShm[i][rspMarker[i]]}
      BY <2>1 DEF TypeOK, SlotsTyped
    <2>4. DoneContent'
      BY <2>2, <2>3 DEF PayloadInv, DoneContent, OwnershipInv, BusyContent, Busy
    <2>5. WrittenResponse'
      BY <2>2, <2>3 DEF TypeOK, WorkerTyped, PayloadInv, WrittenResponse
    <2>6. DeliveredOnce'
      BY <1>5, <2>1 DEF StoreResponseOverflow, TypeOK, SlotsTyped, DispatchTyped, WorkerTyped,
          OwnershipInv, PayloadInv, DeliveredOnce, HandlersOwn, BusyContent, FREE, READY,
          CLAIMED, DONE, WRITING, WritingPc, PublishedPc, HandlingPc, Busy, slotVars, hubVars,
          recvVars
    <2>7. /\ RequestContent'
         /\ WrittenRequest'
         /\ WatcherConsistent'
         /\ RequestIntact'
         /\ ResponseMatches'
      BY <1>5 DEF StoreResponseOverflow, PayloadInv, RequestContent, WrittenRequest,
          WatcherConsistent, RequestIntact, ResponseMatches, slotVars, hubVars, recvVars
    <2> QED
      BY <2>4, <2>5, <2>6, <2>7 DEF PayloadInv
  <1>6. CASE SignalResponse(c)
    <2>1. DoneContent'
      BY <1>6 DEF SignalResponse, TypeOK, SlotsTyped, OsTyped, DispatchTyped, WorkerTyped,
          OwnershipInv, PayloadInv, DoneContent, HandlersOwn, BusyContent, FREE, READY, CLAIMED,
          DONE, WRITING, WritingPc, PublishedPc, HandlingPc, Busy, slotVars, hubVars, recvVars
    <2>2. WrittenResponse'
      BY <1>6 DEF SignalResponse, TypeOK, SlotsTyped, OsTyped, DispatchTyped, WorkerTyped,
          OwnershipInv, PayloadInv, WrittenResponse, HandlersOwn, BusyContent, FREE, READY,
          CLAIMED, DONE, WRITING, WritingPc, PublishedPc, HandlingPc, Busy, slotVars, hubVars,
          recvVars
    <2>3. DeliveredOnce'
      BY <1>6 DEF SignalResponse, TypeOK, SlotsTyped, DispatchTyped, WorkerTyped, OwnershipInv,
          PayloadInv, DeliveredOnce, HandlersOwn, BusyContent, FREE, READY, CLAIMED, DONE,
          WRITING, WritingPc, PublishedPc, HandlingPc, Busy, slotVars, hubVars, recvVars
    <2>4. /\ RequestContent'
         /\ WrittenRequest'
         /\ WatcherConsistent'
         /\ RequestIntact'
         /\ ResponseMatches'
      BY <1>6 DEF SignalResponse, PayloadInv, RequestContent, WrittenRequest, WatcherConsistent,
          RequestIntact, ResponseMatches, slotVars, hubVars, recvVars
    <2> QED
      BY <2>1, <2>2, <2>3, <2>4 DEF PayloadInv
  <1> QED
    BY <1>1, <1>2, <1>3, <1>4, <1>5, <1>6 DEF Handler

(***************************************************************************)
(* No step of the connection mixes payloads.                               *)
(***************************************************************************)
LEMMA PayloadStep == TypeOK /\ OwnershipInv /\ PayloadInv /\ [Next]_vars => PayloadInv'
  <1> SUFFICES ASSUME TypeOK, OwnershipInv, PayloadInv, [Next]_vars PROVE PayloadInv'
    OBVIOUS
  <1>1. CASE UNCHANGED vars
    BY <1>1 DEF PayloadInv, RequestContent, DoneContent, WrittenRequest, WrittenResponse,
        DeliveredOnce, WatcherConsistent, RequestIntact, ResponseMatches,
        vars, slotVars, osVars, hubVars, workerVars
  <1>2. ASSUME NEW c \in Calls, Start(c) \/ Dispatch(c) PROVE PayloadInv'
    BY <1>2, PayloadDispatch
  <1>3. ASSUME NEW c \in Calls, Handler(c) PROVE PayloadInv'
    BY <1>3, PayloadHandler
  <1>4. CASE Watcher
    BY <1>4, PayloadWatcher
  <1>5. CASE ReceiveLoop
    BY <1>5, PayloadReceiveLoop
  <1> QED
    BY <1>1, <1>2, <1>3, <1>4, <1>5 DEF Next

(***************************************************************************)
(* The inductive invariant holds in every reachable state.                 *)
(***************************************************************************)
THEOREM InvariantCorrect == Spec => []IInv
  <1>1. Init => IInv
    BY TypeInit, OwnershipInit, PayloadInit DEF IInv, Init, ClaimedContent, FREE, CLAIMED
  <1>2. IInv /\ [Next]_vars => IInv'
    BY TypeStep, OwnershipStep, ClaimedStep, PayloadStep DEF IInv
  <1> QED
    BY <1>1, <1>2, PTL DEF Spec

(***************************************************************************)
(* For every number of calls and slots, every mix of sizes and any orphan: *)
(* a handler is given the metadata and the body of one and the same call.  *)
(***************************************************************************)
THEOREM HandlerGetsItsRequest == Spec => []RequestIntact
  <1>1. IInv => RequestIntact
    BY DEF IInv, PayloadInv
  <1> QED
    BY InvariantCorrect, <1>1, PTL

(***************************************************************************)
(* A receiver is resolved with the answer to its own call or not at all.   *)
(***************************************************************************)
THEOREM CallerGetsItsAnswer == Spec => []ResponseMatches
  <1>1. IInv => ResponseMatches
    BY DEF IInv, PayloadInv
  <1> QED
    BY InvariantCorrect, <1>1, PTL

(***************************************************************************)
(* No request is handed to a handler twice.                                *)
(***************************************************************************)
THEOREM DeliveredAtMostOnce == Spec => []AtMostOnceDelivery
  <1>1. IInv => AtMostOnceDelivery
    <2> SUFFICES ASSUME IInv, NEW c \in Calls PROVE delivered[c] <= 1
      BY DEF AtMostOnceDelivery
    <2>1. delivered[c] = 0 \/ delivered[c] = 1
      BY DEF IInv, PayloadInv, DeliveredOnce
    <2> QED
      BY <2>1
  <1> QED
    BY InvariantCorrect, <1>1, PTL
-----------------------------------------------------------------------------

(***************************************************************************)
(* A connection implements RequestReply: every step moves at most one call *)
(* on, and along the phases RequestReply knows.  What it takes is that a   *)
(* call is in one slot at most (OwnershipInv), that the watcher holds the  *)
(* answer of the call it names (PayloadInv), and that this call has left   *)
(* its slot (WatcherInv).                                                  *)
(***************************************************************************)

NewPc == {"idle", "scan"} \cup WritingPc
RefusedPc == {"rejected", "error"}

\* The watcher has taken the answer of call c out of its slot.
InHand(c) == watch \in {"drop", "resolve"} /\ wid = c /\ wrsp # None

\* Slot i holds the answer to call c, or its request.
AnswerIn(i, c) == status[i] = DONE /\ reqArena[i] = c
RequestIn(i, c) == status[i] \in {READY, CLAIMED} /\ reqArena[i] = c

(***************************************************************************)
(* A step that changes nothing Phase looks at leaves the phase of a call.  *)
(***************************************************************************)
LEMMA PhaseSame ==
    ASSUME NEW d \in Calls, disp[d] \in DispPc, disp'[d] \in DispPc,
           got'[d] = got[d],
           disp'[d] \in NewPc <=> disp[d] \in NewPc,
           disp'[d] \in RefusedPc <=> disp[d] \in RefusedPc,
           hand'[d] = "none" <=> hand[d] = "none",
           Answered(d)' <=> Answered(d),
           Underway(d)' <=> Underway(d)
    PROVE  Phase(d)' = Phase(d)
  <1>1. /\ disp'[d] \in PublishedPc <=> disp[d] \in PublishedPc
        /\ disp[d] \in NewPc \/ disp[d] \in RefusedPc \/ disp[d] \in PublishedPc
        /\ disp'[d] \in NewPc \/ disp'[d] \in RefusedPc \/ disp'[d] \in PublishedPc
        /\ ~(disp[d] \in NewPc /\ disp[d] \in RefusedPc)
    BY DEF DispPc, NewPc, RefusedPc, PublishedPc, WritingPc
  <1> QED
    BY <1>1 DEF Phase, NewPc, RefusedPc

(***************************************************************************)
(* What the phase of a call is, clause by clause.                          *)
(***************************************************************************)
LEMMA PhaseIs ==
    ASSUME NEW d \in Calls, disp[d] \in DispPc
    PROVE  /\ got[d] # None => Phase(d) = "received"
           /\ got[d] = None /\ disp[d] \in RefusedPc => Phase(d) = "refused"
           /\ got[d] = None /\ disp[d] \in NewPc => Phase(d) = "new"
           /\ got[d] = None /\ disp[d] \in PublishedPc =>
                /\ Answered(d) => Phase(d) = "replied"
                /\ ~Answered(d) /\ ~Underway(d) => Phase(d) = "lost"
                /\ ~Answered(d) /\ Underway(d) =>
                     Phase(d) = IF hand[d] = "none" THEN "asked" ELSE "served"
  BY DEF Phase, RefusedPc, NewPc, PublishedPc, WritingPc

(***************************************************************************)
(* The same of the next state.                                             *)
(***************************************************************************)
LEMMA PhaseIsNext ==
    ASSUME NEW d \in Calls, disp'[d] \in DispPc
    PROVE  /\ got'[d] # None => Phase(d)' = "received"
           /\ got'[d] = None /\ disp'[d] \in RefusedPc => Phase(d)' = "refused"
           /\ got'[d] = None /\ disp'[d] \in NewPc => Phase(d)' = "new"
           /\ got'[d] = None /\ disp'[d] \in PublishedPc =>
                /\ Answered(d)' => Phase(d)' = "replied"
                /\ ~Answered(d)' /\ ~Underway(d)' => Phase(d)' = "lost"
                /\ ~Answered(d)' /\ Underway(d)' =>
                     Phase(d)' = IF hand'[d] = "none" THEN "asked" ELSE "served"
  BY DEF Phase, RefusedPc, NewPc, PublishedPc, WritingPc

(***************************************************************************)
(* One call moves along a phase of RequestReply, no receiver is resolved.  *)
(***************************************************************************)
LEMMA OneCallMoves ==
    ASSUME NEW c \in Calls, UNCHANGED got,
           \A d \in Calls \ {c} : Phase(d)' = Phase(d),
           \/ Phase(c)' = Phase(c)
           \/ Phase(c) = "new" /\ Phase(c)' \in {"asked", "refused"}
           \/ Phase(c) = "asked" /\ Phase(c)' \in {"served", "lost"}
           \/ Phase(c) = "served" /\ Phase(c)' \in {"replied", "lost"}
           \/ Phase(c) = "replied" /\ Phase(c)' = "lost"
    PROVE  [RR!Next]_(RR!vars)
  <1>1. PhaseOfCalls' = [PhaseOfCalls EXCEPT ![c] = Phase(c)'] /\ PhaseOfCalls[c] = Phase(c)
    BY DEF PhaseOfCalls
  <1>2. CASE Phase(c)' = Phase(c)
    <2>1. PhaseOfCalls' = PhaseOfCalls
      BY <1>2 DEF PhaseOfCalls
    <2> QED
      BY <2>1 DEF RR!vars
  <1>3. CASE Phase(c)' # Phase(c)
    <2>1. RR!Ask(c) \/ RR!Refuse(c) \/ RR!Serve(c) \/ RR!Reply(c) \/ RR!Lose(c)
      BY <1>1, <1>3 DEF RR!Ask, RR!Refuse, RR!Serve, RR!Reply, RR!Lose, RR!Move
    <2> QED
      BY <2>1 DEF RR!Next
  <1> QED
    BY <1>2, <1>3

(***************************************************************************)
(* A step in which no call enters or leaves a slot, nor the watcher's      *)
(* hands, changes no phase but that of a dispatch() that goes on.          *)
(***************************************************************************)
LEMMA NothingMoves ==
    ASSUME \A d \in Calls : InHand(d)' <=> InHand(d),
           \A i \in Slots, d \in Calls : /\ AnswerIn(i, d)' <=> AnswerIn(i, d)
                                         /\ RequestIn(i, d)' <=> RequestIn(i, d)
    PROVE  \A d \in Calls : (Answered(d)' <=> Answered(d)) /\ (Underway(d)' <=> Underway(d))
  BY DEF Answered, Underway, InHand, AnswerIn, RequestIn

(***************************************************************************)
(* The steps of a dispatch(): refused or, when Ready is stored, asked.     *)
(***************************************************************************)
LEMMA RefineDispatch ==
    ASSUME TypeOK, TypeOK', OwnershipInv, WatcherInv, NEW c \in Calls, Start(c) \/ Dispatch(c)
    PROVE  [RR!Next]_(RR!vars)
  <1>1. /\ UNCHANGED <<watch, wid, wrsp, got, hand>>
        /\ \A d \in Calls \ {c} : disp'[d] = disp[d]
        /\ \A d \in Calls : disp[d] \in DispPc /\ disp'[d] \in DispPc
        /\ at[c] \in Slots
    BY DEF Start, Dispatch, ClaimFreeSlot, DropStaleRequestOverflow, WriteRequest,
        PublishRequest, ReleaseFailedWrite, StoreRequestOverflow, RegisterPending, SignalRequest,
        watchVars, workerVars, TypeOK, DispatchTyped
  <1>2. \A d \in Calls : InHand(d)' <=> InHand(d)
    BY <1>1 DEF InHand
  <1>3. CASE PublishRequest(c)
    <2>1. /\ disp[c] = "written" /\ disp'[c] = "published"
          /\ status[at[c]] = WRITING /\ status' = [status EXCEPT ![at[c]] = READY]
          /\ reqArena[at[c]] = c
          /\ UNCHANGED <<reqArena, at>>
      BY <1>3 DEF PublishRequest, OwnershipInv, WritersOwn, WrittenSlot, WritingPc, TypeOK,
          DispatchTyped
    <2>2. /\ \A i \in Slots, d \in Calls : AnswerIn(i, d)' <=> AnswerIn(i, d)
          /\ \A i \in Slots, d \in Calls \ {c} : RequestIn(i, d)' <=> RequestIn(i, d)
      BY <1>1, <2>1 DEF AnswerIn, RequestIn, READY, CLAIMED, DONE, WRITING, TypeOK, SlotsTyped
    <2>3. RequestIn(at[c], c)'
      BY <1>1, <2>1 DEF RequestIn, READY, TypeOK, SlotsTyped
    <2>4. ~Answered(c) /\ hand[c] = "none"
      BY <2>1 DEF Answered, OwnershipInv, BusyContent, Busy, UnpublishedUnseen, WatcherInv,
          TakenOut, PublishedPc
    <2>5. /\ \A d \in Calls : Answered(d)' <=> Answered(d)
          /\ \A d \in Calls \ {c} : Underway(d)' <=> Underway(d)
          /\ Underway(c)'
      BY <1>1, <1>2, <2>1, <2>2, <2>3 DEF Answered, Underway, AnswerIn, RequestIn, InHand
    <2>6. \A d \in Calls \ {c} : Phase(d)' = Phase(d)
      BY <1>1, <2>5, PhaseSame
    <2>7. disp[c] \in NewPc /\ disp'[c] \in PublishedPc
      BY <2>1 DEF NewPc, WritingPc, PublishedPc
    <2>8. Phase(c)' = Phase(c) \/ (Phase(c) = "new" /\ Phase(c)' = "asked")
      BY <1>1, <2>4, <2>5, <2>7, PhaseIs, PhaseIsNext
    <2> QED
      BY <1>1, <2>6, <2>8, OneCallMoves
  <1>4. CASE ~PublishRequest(c)
    <2>1. \A i \in Slots : (status[i] \in Busy \/ status'[i] \in Busy) =>
              status'[i] = status[i] /\ reqArena'[i] = reqArena[i]
      <3>1. CASE WriteRequest(c)
        <4>1. status[at[c]] = WRITING
          BY <3>1 DEF WriteRequest, OwnershipInv, WritersOwn, WritingPc
        <4> QED
          BY <3>1, <4>1 DEF WriteRequest, Busy, READY, CLAIMED, DONE, WRITING, TypeOK, SlotsTyped
      <3>2. CASE ClaimFreeSlot(c)
        BY <3>2 DEF ClaimFreeSlot, Busy, FREE, READY, CLAIMED, DONE, WRITING, TypeOK, SlotsTyped
      <3>3. CASE ReleaseFailedWrite(c)
        <4>1. status[at[c]] = WRITING
          BY <3>3 DEF ReleaseFailedWrite, OwnershipInv, WritersOwn, WritingPc
        <4> QED
          BY <3>3, <4>1 DEF ReleaseFailedWrite, Busy, FREE, READY, CLAIMED, DONE, WRITING, TypeOK,
              SlotsTyped
      <3>4. CASE UNCHANGED <<status, reqArena>>
        BY <3>4
      <3> QED
        BY <1>4, <3>1, <3>2, <3>3, <3>4 DEF Start, Dispatch, DropStaleRequestOverflow,
            StoreRequestOverflow, RegisterPending, SignalRequest, slotVars
    <2>2. \A i \in Slots, d \in Calls : /\ AnswerIn(i, d)' <=> AnswerIn(i, d)
                                        /\ RequestIn(i, d)' <=> RequestIn(i, d)
      BY <2>1 DEF AnswerIn, RequestIn, Busy
    <2>3. \A d \in Calls : (Answered(d)' <=> Answered(d)) /\ (Underway(d)' <=> Underway(d))
      BY <1>2, <2>2, NothingMoves
    <2>4. \A d \in Calls \ {c} : Phase(d)' = Phase(d)
      BY <1>1, <2>3, PhaseSame
    <2>5. \/ disp[c] \in NewPc /\ disp'[c] \in NewPc \cup RefusedPc
          \/ disp[c] \in PublishedPc /\ disp'[c] \in PublishedPc
      BY <1>1, <1>4 DEF Start, Dispatch, ClaimFreeSlot, DropStaleRequestOverflow, WriteRequest,
          ReleaseFailedWrite, StoreRequestOverflow, RegisterPending, SignalRequest, NewPc,
          RefusedPc, PublishedPc, WritingPc, TypeOK, DispatchTyped
    <2>6. Phase(c)' = Phase(c) \/ (Phase(c) = "new" /\ Phase(c)' = "refused")
      BY <1>1, <2>3, <2>5, PhaseIs, PhaseIsNext
    <2> QED
      BY <1>1, <2>4, <2>6, OneCallMoves
  <1> QED
    BY <1>3, <1>4

(***************************************************************************)
(* The steps of the receive loop: the request is served, or lost.          *)
(***************************************************************************)
LEMMA RefineReceiveLoop ==
    ASSUME TypeOK, OwnershipInv, WatcherInv, ReceiveLoop
    PROVE  [RR!Next]_(RR!vars)
  <1>1. /\ UNCHANGED <<watch, wid, wrsp, got, disp, reqArena>>
        /\ \A d \in Calls : disp[d] \in DispPc
        /\ rat \in Slots
    BY DEF ReceiveLoop, RecvWait, RecvScan, RecvDeliver, RecvDiscard, hubVars, slotVars, TypeOK,
        DispatchTyped, WorkerTyped
  <1>2. \A d \in Calls : InHand(d)' <=> InHand(d)
    BY <1>1 DEF InHand
  <1>3. CASE RecvWait \/ RecvScan
    <2>1. UNCHANGED hand
      BY <1>3 DEF RecvWait, RecvScan, handVars
    <2>2. \A i \in Slots, d \in Calls : /\ AnswerIn(i, d)' <=> AnswerIn(i, d)
                                        /\ RequestIn(i, d)' <=> RequestIn(i, d)
      BY <1>1, <1>3 DEF RecvWait, RecvScan, slotVars, AnswerIn, RequestIn, READY, CLAIMED, DONE,
          TypeOK, SlotsTyped
    <2>3. \A d \in Calls : (Answered(d)' <=> Answered(d)) /\ (Underway(d)' <=> Underway(d))
      BY <1>2, <2>2, NothingMoves
    <2>4. \A d \in Calls : Phase(d)' = Phase(d)
      BY <1>1, <2>1, <2>3, PhaseSame
    <2>5. PhaseOfCalls' = PhaseOfCalls
      BY <2>4 DEF PhaseOfCalls
    <2> QED
      BY <1>1, <2>5 DEF RR!vars
  <1>4. CASE RecvDeliver \/ RecvDiscard
    <2>1. PICK c \in Calls :
              /\ reqArena[rat] = c
              /\ status[rat] = CLAIMED
              /\ disp[c] \in PublishedPc
              /\ hand[c] = "none"
              /\ \A i \in Slots : status[i] \in Busy /\ reqArena[i] = c => i = rat
      BY <1>1, <1>4 DEF RecvDeliver, RecvDiscard, OwnershipInv, RecvOwns, BusyContent, Busy
    <2>2. ~InHand(c)
      BY <1>1, <2>1 DEF InHand, WatcherInv, TakenOut, Busy
    <2>3. ~Answered(c) /\ Underway(c)
      BY <1>1, <2>1, <2>2 DEF Answered, Underway, InHand, Busy, CLAIMED, DONE
    <2>4. CASE RecvDeliver
      <3>1. /\ UNCHANGED status
            /\ hand' = [hand EXCEPT ![c] = "got"]
        BY <2>1, <2>4 DEF RecvDeliver, slotVars
      <3>2. \A i \in Slots, d \in Calls : /\ AnswerIn(i, d)' <=> AnswerIn(i, d)
                                          /\ RequestIn(i, d)' <=> RequestIn(i, d)
        BY <1>1, <3>1 DEF AnswerIn, RequestIn
      <3>3. \A d \in Calls : (Answered(d)' <=> Answered(d)) /\ (Underway(d)' <=> Underway(d))
        BY <1>2, <3>2, NothingMoves
      <3>4. \A d \in Calls \ {c} : hand'[d] = hand[d]
        BY <2>1, <3>1 DEF TypeOK, WorkerTyped
      <3>5. \A d \in Calls \ {c} : Phase(d)' = Phase(d)
        BY <1>1, <3>3, <3>4, PhaseSame
      <3>6. hand'[c] # "none"
        BY <2>1, <3>1 DEF TypeOK, WorkerTyped
      <3>7. Phase(c)' = Phase(c) \/ (Phase(c) = "asked" /\ Phase(c)' = "served")
        BY <1>1, <2>1, <2>3, <3>3, <3>6, PhaseIs, PhaseIsNext
      <3> QED
        BY <1>1, <2>1, <3>5, <3>7, OneCallMoves
    <2>5. CASE RecvDiscard
      <3>1. /\ status' = [status EXCEPT ![rat] = FREE]
            /\ UNCHANGED hand
        BY <2>5 DEF RecvDiscard, handVars
      <3>2. /\ \A i \in Slots, d \in Calls : AnswerIn(i, d)' <=> AnswerIn(i, d)
            /\ \A i \in Slots, d \in Calls \ {c} : RequestIn(i, d)' <=> RequestIn(i, d)
            /\ \A i \in Slots : ~RequestIn(i, c)'
        BY <1>1, <2>1, <3>1 DEF AnswerIn, RequestIn, Busy, FREE, READY, CLAIMED, DONE, TypeOK,
            SlotsTyped
      <3>3. /\ \A d \in Calls : Answered(d)' <=> Answered(d)
            /\ \A d \in Calls \ {c} : Underway(d)' <=> Underway(d)
            /\ ~Underway(c)'
        BY <1>1, <1>2, <3>2 DEF Answered, Underway, AnswerIn, RequestIn, InHand
      <3>4. \A d \in Calls \ {c} : Phase(d)' = Phase(d)
        BY <1>1, <3>1, <3>3, PhaseSame
      <3>5. Phase(c)' = Phase(c) \/ (Phase(c) = "asked" /\ Phase(c)' = "lost")
        BY <1>1, <2>1, <2>3, <3>1, <3>3, PhaseIs, PhaseIsNext
      <3> QED
        BY <1>1, <2>1, <3>4, <3>5, OneCallMoves
    <2> QED
      BY <1>4, <2>4, <2>5
  <1> QED
    BY <1>3, <1>4 DEF ReceiveLoop

(***************************************************************************)
(* The steps of a handler: its call is replied to, or lost.                *)
(***************************************************************************)
LEMMA RefineHandler ==
    ASSUME TypeOK, OwnershipInv, WatcherInv, NEW c \in Calls, Handler(c)
    PROVE  [RR!Next]_(RR!vars)
  <1>1. /\ UNCHANGED <<watch, wid, wrsp, got, disp, reqArena>>
        /\ \A d \in Calls : disp[d] \in DispPc
        /\ hat[c] \in Slots
        /\ \A d \in Calls : hand'[d] = "none" <=> hand[d] = "none"
        /\ hand[c] # "none"
    BY DEF Handler, DropStaleResponseOverflow, WriteResponse, PublishResponse,
        ReleaseFailedResponse, StoreResponseOverflow, SignalResponse, hubVars, slotVars, TypeOK,
        DispatchTyped, WorkerTyped
  <1>2. \A d \in Calls : InHand(d)' <=> InHand(d)
    BY <1>1 DEF InHand
  <1>3. CASE PublishResponse(c) \/ ReleaseFailedResponse(c)
    <2>1. /\ hand[c] \in HandlingPc
          /\ status' = [status EXCEPT ![hat[c]] = DONE] \/ status' = [status EXCEPT ![hat[c]] = FREE]
      BY <1>3 DEF PublishResponse, ReleaseFailedResponse, HandlingPc
    <2>2. /\ status[hat[c]] = CLAIMED
          /\ reqArena[hat[c]] = c
          /\ disp[c] \in PublishedPc
          /\ \A i \in Slots : status[i] \in Busy /\ reqArena[i] = c => i = hat[c]
      BY <1>1, <2>1 DEF OwnershipInv, HandlersOwn, BusyContent, Busy
    <2>3. ~InHand(c)
      BY <1>1, <2>2 DEF InHand, WatcherInv, TakenOut, Busy
    <2>4. ~Answered(c) /\ Underway(c)
      BY <1>1, <2>2, <2>3 DEF Answered, Underway, InHand, Busy, CLAIMED, DONE
    <2>5. /\ \A i \in Slots, d \in Calls \ {c} : /\ AnswerIn(i, d)' <=> AnswerIn(i, d)
                                                 /\ RequestIn(i, d)' <=> RequestIn(i, d)
          /\ \A i \in Slots : ~RequestIn(i, c)'
      BY <1>1, <2>1, <2>2 DEF AnswerIn, RequestIn, Busy, FREE, READY, CLAIMED, DONE, TypeOK,
          SlotsTyped
    <2>6. /\ \A d \in Calls \ {c} : (Answered(d)' <=> Answered(d)) /\ (Underway(d)' <=> Underway(d))
          /\ ~Underway(c)'
      BY <1>2, <2>5 DEF Answered, Underway, AnswerIn, RequestIn, InHand
    <2>7. \A d \in Calls \ {c} : Phase(d)' = Phase(d)
      BY <1>1, <2>6, PhaseSame
    <2>8. Phase(c)' = Phase(c) \/ (Phase(c) = "served" /\ Phase(c)' \in {"replied", "lost"})
      BY <1>1, <2>2, <2>4, <2>6, PhaseIs, PhaseIsNext
    <2> QED
      BY <1>1, <2>7, <2>8, OneCallMoves
  <1>4. CASE UNCHANGED status
    <2>1. \A i \in Slots, d \in Calls : /\ AnswerIn(i, d)' <=> AnswerIn(i, d)
                                        /\ RequestIn(i, d)' <=> RequestIn(i, d)
      BY <1>1, <1>4 DEF AnswerIn, RequestIn
    <2>2. \A d \in Calls : (Answered(d)' <=> Answered(d)) /\ (Underway(d)' <=> Underway(d))
      BY <1>2, <2>1, NothingMoves
    <2>3. \A d \in Calls : Phase(d)' = Phase(d)
      BY <1>1, <2>2, PhaseSame
    <2>4. PhaseOfCalls' = PhaseOfCalls
      BY <2>3 DEF PhaseOfCalls
    <2> QED
      BY <1>1, <2>4 DEF RR!vars
  <1> QED
    BY <1>3, <1>4 DEF Handler, DropStaleResponseOverflow, WriteResponse, StoreResponseOverflow,
        SignalResponse, slotVars

(***************************************************************************)
(* The watcher frees a slot: it has the answer in its hands, or the call   *)
(* is lost because the answer or its id could not be read.                 *)
(***************************************************************************)
LEMMA RefineRelease ==
    ASSUME TypeOK, OwnershipInv, WatcherInv, WatchRelease
    PROVE  [RR!Next]_(RR!vars)
  <1>1. PICK c \in Calls :
            /\ reqArena[wat] = c
            /\ status[wat] = DONE
            /\ disp[c] \in PublishedPc
            /\ \A i \in Slots : status[i] \in Busy /\ reqArena[i] = c => i = wat
            /\ wid \in {None, c}
    BY DEF WatchRelease, OwnershipInv, WatcherOwns, BusyContent, Busy, WatcherInv, IdCurrent,
        TypeOK, WatcherTyped
  <1>2. /\ status' = [status EXCEPT ![wat] = FREE]
        /\ watch = "release" /\ watch' = "drop"
        /\ UNCHANGED <<reqArena, disp, got, hand, wid, wrsp>>
        /\ \A d \in Calls : disp[d] \in DispPc
        /\ wat \in Slots
    BY <1>1 DEF WatchRelease, dispVars, workerVars, TypeOK, DispatchTyped, WatcherTyped
  <1>3. /\ \A d \in Calls : ~InHand(d)
        /\ \A d \in Calls \ {c} : ~InHand(d)'
    BY <1>1, <1>2, BusAssumption DEF InHand
  <1>4. /\ \A i \in Slots, d \in Calls \ {c} : AnswerIn(i, d)' <=> AnswerIn(i, d)
        /\ \A i \in Slots, d \in Calls \ {c} : RequestIn(i, d)' <=> RequestIn(i, d)
        /\ \A i \in Slots : ~AnswerIn(i, c)' /\ ~RequestIn(i, c)'
        /\ AnswerIn(wat, c)
    BY <1>1, <1>2 DEF AnswerIn, RequestIn, Busy, FREE, READY, CLAIMED, DONE, TypeOK, SlotsTyped
  <1>5. /\ \A d \in Calls \ {c} : (Answered(d)' <=> Answered(d)) /\ (Underway(d)' <=> Underway(d))
        /\ Answered(c) /\ ~Underway(c)'
    BY <1>2, <1>3, <1>4 DEF Answered, Underway, AnswerIn, RequestIn, InHand
  <1>6. \A d \in Calls \ {c} : Phase(d)' = Phase(d)
    BY <1>2, <1>5, PhaseSame
  <1>7. Phase(c)' = Phase(c) \/ (Phase(c) = "replied" /\ Phase(c)' = "lost")
    BY <1>1, <1>2, <1>5, PhaseIs, PhaseIsNext
  <1> QED
    BY <1>2, <1>6, <1>7, OneCallMoves

(***************************************************************************)
(* The watcher resolves a receiver, or throws the answer away.             *)
(***************************************************************************)
LEMMA RefineResolve ==
    ASSUME TypeOK, PayloadInv, WatcherInv, WatchResolve
    PROVE  [RR!Next]_(RR!vars)
  <1>1. /\ watch = "resolve" /\ watch' \in {"wait", "scan"}
        /\ UNCHANGED <<status, reqArena, disp, hand>>
        /\ \A d \in Calls : disp[d] \in DispPc
    BY DEF WatchResolve, NextSlotOfWatch, slotVars, dispVars, workerVars, TypeOK, DispatchTyped
  <1>2. \A i \in Slots, d \in Calls : /\ AnswerIn(i, d)' <=> AnswerIn(i, d)
                                      /\ RequestIn(i, d)' <=> RequestIn(i, d)
    BY <1>1 DEF AnswerIn, RequestIn
  <1>3. \A d \in Calls : ~InHand(d)'
    BY <1>1 DEF InHand
  <1>4. CASE wid \notin Calls \/ wrsp = None
    <2>1. UNCHANGED got
      BY <1>4 DEF WatchResolve, TypeOK, DispatchTyped
    <2>2. \A d \in Calls : ~InHand(d)
      BY <1>4 DEF InHand
    <2>3. \A d \in Calls : (Answered(d)' <=> Answered(d)) /\ (Underway(d)' <=> Underway(d))
      BY <1>2, <1>3, <2>2, NothingMoves
    <2>4. \A d \in Calls : Phase(d)' = Phase(d)
      BY <1>1, <2>1, <2>3, PhaseSame
    <2>5. PhaseOfCalls' = PhaseOfCalls
      BY <2>4 DEF PhaseOfCalls
    <2> QED
      BY <2>1, <2>5 DEF RR!vars
  <1>5. ASSUME NEW c \in Calls, c = wid, wrsp # None
        PROVE  [RR!Next]_(RR!vars)
    <2>1. /\ disp[c] \in PublishedPc
          /\ \A i \in Slots : status[i] \in Busy => reqArena[i] # c
      BY <1>1, <1>5 DEF WatcherInv, TakenOut
    <2>2. /\ \A i \in Slots : ~AnswerIn(i, c) /\ ~RequestIn(i, c)
          /\ InHand(c)
          /\ \A d \in Calls \ {c} : ~InHand(d)
      BY <1>1, <1>5, <2>1 DEF AnswerIn, RequestIn, Busy, InHand
    <2>3. /\ \A d \in Calls \ {c} : (Answered(d)' <=> Answered(d)) /\ (Underway(d)' <=> Underway(d))
          /\ Answered(c)
          /\ ~Answered(c)' /\ ~Underway(c)'
      BY <1>2, <1>3, <2>2 DEF Answered, Underway, AnswerIn, RequestIn, InHand
    <2>4. CASE c \in pending
      <3>1. wrsp = c /\ got[c] \in {None, c}
        BY <1>1, <1>5 DEF PayloadInv, WatcherConsistent, ResponseMatches
      <3>2. /\ got' = [got EXCEPT ![c] = c]
            /\ got \in [Calls -> Payloads]
            /\ c # None
        BY <1>5, <2>4, <3>1, BusAssumption DEF WatchResolve, TypeOK, DispatchTyped
      <3>3. \A d \in Calls \ {c} : Phase(d)' = Phase(d)
        BY <1>1, <2>3, <3>2, PhaseSame
      <3>4. Phase(c)' = "received"
        BY <1>1, <3>2, PhaseIsNext
      <3>5. CASE got[c] = c
        <4>1. got' = got /\ Phase(c) = "received"
          BY <1>1, <3>2, <3>5, PhaseIs
        <4> QED
          BY <3>3, <3>4, <4>1, OneCallMoves
      <3>6. CASE got[c] = None
        <4>1. Phase(c) = "replied"
          BY <1>1, <2>1, <2>3, <3>6, PhaseIs
        <4>2. PhaseOfCalls' = [PhaseOfCalls EXCEPT ![c] = "received"] /\ PhaseOfCalls[c] = "replied"
          BY <3>3, <3>4, <4>1 DEF PhaseOfCalls
        <4>3. RR!Receive(c)
          BY <3>2, <4>2 DEF RR!Receive, RR!Move
        <4> QED
          BY <4>3 DEF RR!Next
      <3> QED
        BY <3>1, <3>5, <3>6
    <2>5. CASE c \notin pending
      <3>1. UNCHANGED got
        BY <1>5, <2>5 DEF WatchResolve
      <3>2. \A d \in Calls \ {c} : Phase(d)' = Phase(d)
        BY <1>1, <2>3, <3>1, PhaseSame
      <3>3. Phase(c)' = Phase(c) \/ (Phase(c) = "replied" /\ Phase(c)' = "lost")
        BY <1>1, <2>1, <2>3, <3>1, PhaseIs, PhaseIsNext
      <3> QED
        BY <3>1, <3>2, <3>3, OneCallMoves
    <2> QED
      BY <2>4, <2>5
  <1> QED
    BY <1>4, <1>5

(***************************************************************************)
(* The other steps of the watcher move no call.                            *)
(***************************************************************************)
LEMMA RefineWatcher ==
    ASSUME TypeOK, OwnershipInv, PayloadInv, WatcherInv, Watcher
    PROVE  [RR!Next]_(RR!vars)
  <1>1. CASE WatchWait \/ WatchScan \/ WatchRead \/ WatchDropOverflow
    <2>1. /\ UNCHANGED <<status, reqArena, disp, got, hand>>
          /\ \A d \in Calls : disp[d] \in DispPc
      BY <1>1 DEF WatchWait, WatchScan, WatchRead, WatchDropOverflow, slotVars, dispVars, workerVars,
          TypeOK, DispatchTyped
    <2>2. \A d \in Calls : InHand(d)' <=> InHand(d)
      BY <1>1 DEF WatchWait, WatchScan, WatchRead, WatchDropOverflow, NextSlotOfWatch, InHand
    <2>3. \A i \in Slots, d \in Calls : /\ AnswerIn(i, d)' <=> AnswerIn(i, d)
                                        /\ RequestIn(i, d)' <=> RequestIn(i, d)
      BY <2>1 DEF AnswerIn, RequestIn
    <2>4. \A d \in Calls : (Answered(d)' <=> Answered(d)) /\ (Underway(d)' <=> Underway(d))
      BY <2>2, <2>3, NothingMoves
    <2>5. \A d \in Calls : Phase(d)' = Phase(d)
      BY <2>1, <2>4, PhaseSame
    <2>6. PhaseOfCalls' = PhaseOfCalls
      BY <2>5 DEF PhaseOfCalls
    <2> QED
      BY <2>1, <2>6 DEF RR!vars
  <1>2. CASE WatchRelease
    BY <1>2, RefineRelease
  <1>3. CASE WatchResolve
    BY <1>3, RefineResolve
  <1> QED
    BY <1>1, <1>2, <1>3 DEF Watcher

(***************************************************************************)
(* Every step of the connection is a step of RequestReply, or none.        *)
(***************************************************************************)
LEMMA RefineStep ==
    (IInv /\ WatcherInv) /\ [Next]_vars => [RR!Next]_(RR!vars)
  <1> SUFFICES ASSUME IInv, WatcherInv, [Next]_vars PROVE [RR!Next]_(RR!vars)
    OBVIOUS
  <1>1. TypeOK /\ OwnershipInv /\ PayloadInv /\ TypeOK'
    BY TypeStep DEF IInv
  <1>2. CASE UNCHANGED vars
    <2>1. UNCHANGED <<status, reqArena, disp, got, hand, watch, wid, wrsp>>
      BY <1>2 DEF vars, slotVars, hubVars, workerVars
    <2>2. \A d \in Calls : Phase(d)' = Phase(d)
      BY <2>1 DEF Phase, Answered, Underway
    <2> QED
      BY <2>1, <2>2 DEF RR!vars, PhaseOfCalls
  <1>3. ASSUME NEW c \in Calls, Start(c) \/ Dispatch(c) PROVE [RR!Next]_(RR!vars)
    BY <1>1, <1>3, RefineDispatch
  <1>4. ASSUME NEW c \in Calls, Handler(c) PROVE [RR!Next]_(RR!vars)
    BY <1>1, <1>4, RefineHandler
  <1>5. CASE Watcher
    BY <1>1, <1>5, RefineWatcher
  <1>6. CASE ReceiveLoop
    BY <1>1, <1>6, RefineReceiveLoop
  <1> QED
    BY <1>2, <1>3, <1>4, <1>5, <1>6 DEF Next

(***************************************************************************)
(* For every number of calls, slots and generations, on either platform    *)
(* and with any timeouts: the connection implements RequestReply.          *)
(***************************************************************************)
THEOREM ConnectionImplements == Spec => ImplementsRequestReply
  <1>1. Init => RR!Init
    <2> SUFFICES ASSUME Init PROVE RR!Init
      OBVIOUS
    <2>1. \A d \in Calls : disp[d] \in DispPc /\ disp[d] \in NewPc /\ got[d] = None
      BY DEF Init, DispPc, NewPc
    <2>2. \A d \in Calls : Phase(d) = "new"
      BY <2>1, PhaseIs
    <2> QED
      BY <2>2 DEF Init, RR!Init, PhaseOfCalls
  <1> QED
    BY <1>1, RefineStep, InvariantCorrect, PendingCorrect, PTL DEF Spec, ImplementsRequestReply, RR!Spec
-----------------------------------------------------------------------------
(***************************************************************************)
(* The slots as mailboxes.  What a slot that does not turn carries depends *)
(* only on the fields its status tells to read.                            *)
(***************************************************************************)
LEMMA CarriedSame ==
    ASSUME NEW i,
           status'[i] = status[i],
           status[i] \in Busy =>
               reqArena'[i] = reqArena[i] /\ reqId'[i] = reqId[i] /\ reqMarker'[i] = reqMarker[i],
           status[i] = DONE => rspArena'[i] = rspArena[i] /\ rspMarker'[i] = rspMarker[i]
    PROVE  CarriedRequest(i)' = CarriedRequest(i) /\ CarriedAnswer(i)' = CarriedAnswer(i)
  BY DEF CarriedRequest, CarriedAnswer, Busy

(***************************************************************************)
(* A step that turns no slot and publishes no call is none of              *)
(* SlotProtocol.                                                           *)
(***************************************************************************)
LEMMA NoSlotTurns ==
    ASSUME UNCHANGED status, PublishedCalls' = PublishedCalls,
           \A i \in Slots : status[i] \in Busy =>
               reqArena'[i] = reqArena[i] /\ reqId'[i] = reqId[i] /\ reqMarker'[i] = reqMarker[i],
           \A i \in Slots : status[i] = DONE =>
               rspArena'[i] = rspArena[i] /\ rspMarker'[i] = rspMarker[i]
    PROVE  UNCHANGED SP!vars
  <1>1. \A i \in Slots : CarriedRequest(i)' = CarriedRequest(i) /\ CarriedAnswer(i)' = CarriedAnswer(i)
    BY CarriedSame
  <1>2. CarriedRequests' = CarriedRequests /\ CarriedAnswers' = CarriedAnswers
    BY <1>1 DEF CarriedRequests, CarriedAnswers
  <1> QED
    BY <1>2 DEF SP!vars

(***************************************************************************)
(* A store or an exchange on one status word, by itself, turns one slot    *)
(* and leaves what the other slots carry.                                  *)
(***************************************************************************)
LEMMA OneSlotTurns ==
    ASSUME TypeOK, NEW k \in Slots, NEW s, status' = [status EXCEPT ![k] = s],
           UNCHANGED <<reqId, reqMarker, rspMarker, reqArena, rspArena>>
    PROVE  /\ status'[k] = s
           /\ SP!Turn(k, status[k], s)
           /\ CarriedRequests' = [CarriedRequests EXCEPT ![k] = CarriedRequest(k)']
           /\ CarriedAnswers' = [CarriedAnswers EXCEPT ![k] = CarriedAnswer(k)']
           /\ CarriedRequest(k)' = CarriedRequest(k) => UNCHANGED CarriedRequests
           /\ CarriedAnswer(k)' = CarriedAnswer(k) => UNCHANGED CarriedAnswers
  <1>1. /\ status'[k] = s
        /\ \A i \in Slots \ {k} : status'[i] = status[i]
    BY DEF TypeOK, SlotsTyped
  <1>2. \A i \in Slots \ {k} :
            CarriedRequest(i)' = CarriedRequest(i) /\ CarriedAnswer(i)' = CarriedAnswer(i)
    BY <1>1, CarriedSame
  <1>3. SP!Turn(k, status[k], s)
    BY DEF SP!Turn
  <1>4. /\ CarriedRequests' = [CarriedRequests EXCEPT ![k] = CarriedRequest(k)']
        /\ CarriedAnswers' = [CarriedAnswers EXCEPT ![k] = CarriedAnswer(k)']
    BY <1>2 DEF CarriedRequests, CarriedAnswers
  <1>5. /\ CarriedRequest(k)' = CarriedRequest(k) => UNCHANGED CarriedRequests
        /\ CarriedAnswer(k)' = CarriedAnswer(k) => UNCHANGED CarriedAnswers
    BY <1>2 DEF CarriedRequests, CarriedAnswers
  <1> QED
    BY <1>1, <1>3, <1>4, <1>5

(***************************************************************************)
(* The steps of a dispatch(): Reserve, Withdraw and Publish.               *)
(***************************************************************************)
LEMMA SlotDispatch ==
    ASSUME TypeOK, OwnershipInv, NEW c \in Calls, Start(c) \/ Dispatch(c)
    PROVE  [SP!Next]_(SP!vars)
  <1> USE DEF FREE, READY, CLAIMED, DONE, WRITING
  <1>1. /\ disp \in [Calls -> DispPc] /\ at[c] \in Slots
        /\ \A d \in Calls \ {c} : disp'[d] = disp[d]
    BY DEF Start, Dispatch, ClaimFreeSlot, DropStaleRequestOverflow, WriteRequest,
        PublishRequest, ReleaseFailedWrite, StoreRequestOverflow, RegisterPending, SignalRequest,
        TypeOK, DispatchTyped
  <1>0. PICK k \in Slots : k = at[c]
    BY <1>1
  <1>2. ~PublishRequest(c) => PublishedCalls' = PublishedCalls
    <2>1. ~PublishRequest(c) => (disp'[c] \in PublishedPc <=> disp[c] \in PublishedPc)
      BY <1>1 DEF Start, Dispatch, ClaimFreeSlot, DropStaleRequestOverflow, WriteRequest,
          ReleaseFailedWrite, StoreRequestOverflow, RegisterPending, SignalRequest, PublishedPc
    <2> QED
      BY <1>1, <2>1 DEF PublishedCalls
  <1>3. CASE /\ ~PublishRequest(c)
             /\ Start(c) \/ DropStaleRequestOverflow(c) \/ StoreRequestOverflow(c)
                \/ RegisterPending(c) \/ SignalRequest(c) \/ (ClaimFreeSlot(c) /\ UNCHANGED status)
    <2>1. UNCHANGED slotVars
      BY <1>3 DEF Start, DropStaleRequestOverflow, StoreRequestOverflow, RegisterPending,
          SignalRequest, ClaimFreeSlot, slotVars
    <2> QED
      BY <1>2, <1>3, <2>1, NoSlotTurns DEF slotVars
  <1>4. CASE WriteRequest(c)
    <2>1. /\ UNCHANGED <<status, rspArena, rspMarker>>
          /\ status[k] = WRITING
          /\ ~PublishRequest(c)
      BY <1>0, <1>4 DEF WriteRequest, PublishRequest, OwnershipInv, WritersOwn, WritingPc
    <2>2. \A i \in Slots : i # k =>
              reqArena'[i] = reqArena[i] /\ reqId'[i] = reqId[i] /\ reqMarker'[i] = reqMarker[i]
      BY <1>0, <1>1, <1>4 DEF WriteRequest, TypeOK, SlotsTyped
    <2> QED
      BY <1>2, <2>1, <2>2, NoSlotTurns DEF Busy
  <1>5. CASE ClaimFreeSlot(c) /\ status' # status
    <2>1. /\ status[k] = FREE
          /\ status' = [status EXCEPT ![k] = WRITING]
          /\ UNCHANGED <<reqId, reqMarker, rspMarker, reqArena, rspArena>>
          /\ ~PublishRequest(c)
      BY <1>0, <1>5 DEF ClaimFreeSlot, PublishRequest
    <2>2. /\ SP!Turn(k, "free", "writing")
          /\ CarriedRequest(k)' = CarriedRequest(k) => UNCHANGED CarriedRequests
          /\ CarriedAnswer(k)' = CarriedAnswer(k) => UNCHANGED CarriedAnswers
          /\ status'[k] = WRITING
      BY <1>1, <2>1, OneSlotTurns
    <2>3. CarriedRequest(k)' = CarriedRequest(k) /\ CarriedAnswer(k)' = CarriedAnswer(k)
      BY <1>1, <2>1, <2>2 DEF CarriedRequest, CarriedAnswer
    <2>4. SP!Reserve(k)
      BY <1>2, <2>1, <2>2, <2>3 DEF SP!Reserve
    <2> QED
      BY <1>1, <2>4 DEF SP!Next
  <1>6. CASE ReleaseFailedWrite(c)
    <2>1. /\ status[k] = WRITING
          /\ status' = [status EXCEPT ![k] = FREE]
          /\ UNCHANGED <<reqId, reqMarker, rspMarker, reqArena, rspArena>>
          /\ ~PublishRequest(c)
      BY <1>0, <1>6 DEF ReleaseFailedWrite, PublishRequest, OwnershipInv, WritersOwn, WritingPc
    <2>2. /\ SP!Turn(k, "writing", "free")
          /\ CarriedRequest(k)' = CarriedRequest(k) => UNCHANGED CarriedRequests
          /\ CarriedAnswer(k)' = CarriedAnswer(k) => UNCHANGED CarriedAnswers
          /\ status'[k] = FREE
      BY <1>1, <2>1, OneSlotTurns
    <2>3. CarriedRequest(k)' = CarriedRequest(k) /\ CarriedAnswer(k)' = CarriedAnswer(k)
      BY <1>1, <2>1, <2>2 DEF CarriedRequest, CarriedAnswer
    <2>4. SP!Withdraw(k)
      BY <1>2, <2>1, <2>2, <2>3 DEF SP!Withdraw
    <2> QED
      BY <1>1, <2>4 DEF SP!Next
  <1>7. CASE PublishRequest(c)
    <2> DEFINE r == [call |-> c, id |-> reqId[k], body |-> reqMarker[k]]
    <2>0. reqArena[k] = c /\ reqId[k] \in {None, c}
      BY <1>0, <1>7 DEF PublishRequest, OwnershipInv, WrittenSlot
    <2>1. /\ status[k] = WRITING
          /\ status' = [status EXCEPT ![k] = READY]
          /\ UNCHANGED <<reqId, reqMarker, rspMarker, reqArena, rspArena>>
          /\ disp[c] = "written" /\ disp'[c] = "published"
      BY <1>0, <1>1, <1>7 DEF PublishRequest, OwnershipInv, WritersOwn, WritingPc
    <2>2. /\ SP!Turn(k, "writing", "ready")
          /\ CarriedRequests' = [CarriedRequests EXCEPT ![k] = CarriedRequest(k)']
          /\ CarriedAnswer(k)' = CarriedAnswer(k) => UNCHANGED CarriedAnswers
          /\ status'[k] = READY
      BY <2>1, OneSlotTurns
    <2>3. CarriedRequest(k)' = r /\ CarriedAnswer(k)' = CarriedAnswer(k)
      BY <1>1, <2>0, <2>1, <2>2 DEF CarriedRequest, CarriedAnswer
    <2>4. r \in SP!Requests
      BY <1>1, <2>0, <2>1 DEF SP!Requests, TypeOK, SlotsTyped
    <2>5. /\ c \notin PublishedCalls
          /\ PublishedCalls' = PublishedCalls \cup {c}
      BY <1>1, <2>1 DEF PublishedCalls, PublishedPc
    <2>6. SP!Publish(k)
      <3>1. /\ r \in SP!Requests /\ r.call \notin PublishedCalls
            /\ CarriedRequests' = [CarriedRequests EXCEPT ![k] = r]
            /\ PublishedCalls' = PublishedCalls \cup {r.call}
        BY <2>2, <2>3, <2>4, <2>5
      <3> HIDE DEF r
      <3> QED
        BY <2>2, <2>3, <3>1 DEF SP!Publish
    <2> QED
      BY <1>1, <2>6 DEF SP!Next
  <1> QED
    BY <1>3, <1>4, <1>5, <1>6, <1>7 DEF Dispatch, Start, DropStaleRequestOverflow,
        StoreRequestOverflow, RegisterPending, SignalRequest, ClaimFreeSlot, PublishRequest

(***************************************************************************)
(* The steps of the watcher: Release.                                      *)
(***************************************************************************)
LEMMA SlotWatcher ==
    ASSUME TypeOK, OwnershipInv, Watcher
    PROVE  [SP!Next]_(SP!vars)
  <1> USE DEF FREE, READY, CLAIMED, DONE, WRITING
  <1>1. UNCHANGED <<reqId, reqMarker, rspMarker, reqArena, rspArena, disp>> /\ wat \in Slots
    BY DEF Watcher, WatchWait, WatchScan, WatchRead, WatchRelease, WatchDropOverflow,
        WatchResolve, slotVars, dispVars, TypeOK, WatcherTyped
  <1>0. PICK k \in Slots : k = wat
    BY <1>1
  <1>2. PublishedCalls' = PublishedCalls
    BY <1>1 DEF PublishedCalls
  <1>3. CASE UNCHANGED status
    BY <1>1, <1>2, <1>3, NoSlotTurns
  <1>4. CASE WatchRelease
    <2>1. status[k] = DONE /\ status' = [status EXCEPT ![k] = FREE]
      BY <1>0, <1>4 DEF WatchRelease, OwnershipInv, WatcherOwns
    <2>2. /\ SP!Turn(k, "done", "free")
          /\ CarriedRequests' = [CarriedRequests EXCEPT ![k] = CarriedRequest(k)']
          /\ CarriedAnswers' = [CarriedAnswers EXCEPT ![k] = CarriedAnswer(k)']
          /\ status'[k] = FREE
      BY <1>1, <2>1, OneSlotTurns
    <2>3. CarriedRequest(k)' = None /\ CarriedAnswer(k)' = None
      BY <2>2 DEF CarriedRequest, CarriedAnswer
    <2>4. SP!Release(k)
      BY <1>2, <2>2, <2>3 DEF SP!Release
    <2> QED
      BY <1>1, <2>4 DEF SP!Next
  <1> QED
    BY <1>3, <1>4 DEF Watcher, WatchWait, WatchScan, WatchRead, WatchDropOverflow, WatchResolve,
        slotVars

(***************************************************************************)
(* A claimed slot is given up, by the receive loop or by a handler.        *)
(***************************************************************************)
LEMMA SlotDiscarded ==
    ASSUME TypeOK, NEW k \in Slots, status[k] = CLAIMED, status' = [status EXCEPT ![k] = FREE],
           UNCHANGED <<reqId, reqMarker, rspMarker, reqArena, rspArena, disp>>
    PROVE  [SP!Next]_(SP!vars)
  <1> USE DEF FREE, READY, CLAIMED, DONE, WRITING
  <1>1. /\ SP!Turn(k, "claimed", "free")
        /\ CarriedRequests' = [CarriedRequests EXCEPT ![k] = CarriedRequest(k)']
        /\ CarriedAnswer(k)' = CarriedAnswer(k) => UNCHANGED CarriedAnswers
        /\ status'[k] = FREE
    BY OneSlotTurns
  <1>2. CarriedRequest(k)' = None /\ CarriedAnswer(k)' = CarriedAnswer(k)
    BY <1>1 DEF CarriedRequest, CarriedAnswer
  <1>3. UNCHANGED PublishedCalls
    BY DEF PublishedCalls
  <1>4. SP!Discard(k)
    BY <1>1, <1>2, <1>3 DEF SP!Discard
  <1> QED
    BY <1>4 DEF SP!Next

(***************************************************************************)
(* The steps of the receive loop: Claim and Discard.                       *)
(***************************************************************************)
LEMMA SlotReceiveLoop ==
    ASSUME TypeOK, OwnershipInv, ReceiveLoop
    PROVE  [SP!Next]_(SP!vars)
  <1> USE DEF FREE, READY, CLAIMED, DONE, WRITING
  <1>1. UNCHANGED <<reqId, reqMarker, rspMarker, reqArena, rspArena, disp>> /\ rat \in Slots
    BY DEF ReceiveLoop, RecvWait, RecvScan, RecvDeliver, RecvDiscard, slotVars, hubVars, TypeOK,
        WorkerTyped
  <1>0. PICK k \in Slots : k = rat
    BY <1>1
  <1>2. PublishedCalls' = PublishedCalls
    BY <1>1 DEF PublishedCalls
  <1>3. CASE UNCHANGED status
    BY <1>1, <1>2, <1>3, NoSlotTurns
  <1>4. CASE RecvScan /\ status' # status
    <2>1. status[k] = READY /\ status' = [status EXCEPT ![k] = CLAIMED]
      BY <1>0, <1>4 DEF RecvScan
    <2>2. /\ SP!Turn(k, "ready", "claimed")
          /\ CarriedRequest(k)' = CarriedRequest(k) => UNCHANGED CarriedRequests
          /\ CarriedAnswer(k)' = CarriedAnswer(k) => UNCHANGED CarriedAnswers
          /\ status'[k] = CLAIMED
      BY <1>1, <2>1, OneSlotTurns
    <2>3. CarriedRequest(k)' = CarriedRequest(k) /\ CarriedAnswer(k)' = CarriedAnswer(k)
      BY <1>1, <2>1, <2>2 DEF CarriedRequest, CarriedAnswer
    <2>4. SP!Claim(k)
      BY <1>2, <2>2, <2>3 DEF SP!Claim
    <2> QED
      BY <1>1, <2>4 DEF SP!Next
  <1>5. CASE RecvDiscard
    <2>1. status[k] = CLAIMED /\ status' = [status EXCEPT ![k] = FREE]
      BY <1>0, <1>5 DEF RecvDiscard, OwnershipInv, RecvOwns
    <2> QED
      BY <1>1, <2>1, SlotDiscarded
  <1> QED
    BY <1>3, <1>4, <1>5 DEF ReceiveLoop, RecvWait, RecvDeliver, slotVars

(***************************************************************************)
(* The steps of a handler: Answer and Discard.  Until Done is stored the   *)
(* response half of the slot is nobody else's business.                    *)
(***************************************************************************)
LEMMA SlotHandler ==
    ASSUME TypeOK, OwnershipInv, PayloadInv, NEW c \in Calls, Handler(c)
    PROVE  [SP!Next]_(SP!vars)
  <1> USE DEF FREE, READY, CLAIMED, DONE, WRITING
  <1>1. UNCHANGED <<reqId, reqMarker, reqArena, disp>> /\ hat[c] \in Slots
    BY DEF Handler, DropStaleResponseOverflow, WriteResponse, PublishResponse,
        ReleaseFailedResponse, StoreResponseOverflow, SignalResponse, slotVars, hubVars, TypeOK,
        WorkerTyped
  <1>0. PICK k \in Slots : k = hat[c]
    BY <1>1
  <1>2. PublishedCalls' = PublishedCalls
    BY <1>1 DEF PublishedCalls
  <1>3. hand[c] \in HandlingPc => status[k] = CLAIMED /\ reqArena[k] = c
    BY <1>0 DEF OwnershipInv, HandlersOwn
  <1>4. CASE UNCHANGED slotVars
    BY <1>2, <1>4, NoSlotTurns DEF slotVars
  <1>5. CASE WriteResponse(c)
    <2>1. UNCHANGED status /\ status[k] = CLAIMED
      BY <1>3, <1>5 DEF WriteResponse, HandlingPc
    <2>2. \A i \in Slots : i # k => rspArena'[i] = rspArena[i] /\ rspMarker'[i] = rspMarker[i]
      BY <1>0, <1>1, <1>5 DEF WriteResponse, TypeOK, SlotsTyped
    <2> QED
      BY <1>1, <1>2, <2>1, <2>2, NoSlotTurns
  <1>6. CASE PublishResponse(c)
    <2>1. /\ status[k] = CLAIMED /\ reqArena[k] = c /\ rspArena[k] = c
          /\ status' = [status EXCEPT ![k] = DONE]
          /\ UNCHANGED <<rspMarker, rspArena>>
          /\ rspMarker[k] \in 0 .. MaxMarker
      BY <1>0, <1>1, <1>3, <1>6 DEF PublishResponse, HandlingPc, PayloadInv, WrittenResponse, TypeOK,
          SlotsTyped
    <2>2. /\ SP!Turn(k, "claimed", "done")
          /\ CarriedRequest(k)' = CarriedRequest(k) => UNCHANGED CarriedRequests
          /\ CarriedAnswers' = [CarriedAnswers EXCEPT ![k] = CarriedAnswer(k)']
          /\ status'[k] = DONE
      BY <1>1, <2>1, OneSlotTurns
    <2>3. /\ CarriedRequest(k)' = CarriedRequest(k)
          /\ CarriedAnswer(k)' = [call |-> c, body |-> rspMarker[k]]
      BY <1>1, <2>1, <2>2 DEF CarriedRequest, CarriedAnswer
    <2>4. CarriedRequests[k].call = c
      BY <1>1, <2>1 DEF CarriedRequests, CarriedRequest
    <2>5. SP!Answer(k)
      BY <1>2, <2>1, <2>2, <2>3, <2>4 DEF SP!Answer
    <2> QED
      BY <1>1, <2>5 DEF SP!Next
  <1>7. CASE ReleaseFailedResponse(c)
    <2>1. /\ status[k] = CLAIMED /\ status' = [status EXCEPT ![k] = FREE]
          /\ UNCHANGED <<rspMarker, rspArena>>
      BY <1>0, <1>3, <1>7 DEF ReleaseFailedResponse, HandlingPc
    <2> QED
      BY <1>1, <2>1, SlotDiscarded
  <1> QED
    BY <1>4, <1>5, <1>6, <1>7 DEF Handler, DropStaleResponseOverflow, StoreResponseOverflow,
        SignalResponse

(***************************************************************************)
(* Every step of the connection is a step of SlotProtocol, or none.        *)
(***************************************************************************)
LEMMA SlotStep ==
    TypeOK /\ OwnershipInv /\ PayloadInv /\ [Next]_vars => [SP!Next]_(SP!vars)
  <1> SUFFICES ASSUME TypeOK, OwnershipInv, PayloadInv, [Next]_vars PROVE [SP!Next]_(SP!vars)
    OBVIOUS
  <1>1. ASSUME NEW c \in Calls, Start(c) \/ Dispatch(c) PROVE [SP!Next]_(SP!vars)
    BY <1>1, SlotDispatch
  <1>2. ASSUME NEW c \in Calls, Handler(c) PROVE [SP!Next]_(SP!vars)
    BY <1>2, SlotHandler
  <1>3. CASE UNCHANGED vars
    <2>1. UNCHANGED slotVars /\ PublishedCalls' = PublishedCalls
      BY <1>3 DEF vars, hubVars, PublishedCalls
    <2> QED
      BY <2>1, NoSlotTurns DEF slotVars
  <1> QED
    BY <1>1, <1>2, <1>3, SlotWatcher, SlotReceiveLoop DEF Next

(***************************************************************************)
(* A new connection has empty mailboxes.                                   *)
(***************************************************************************)
LEMMA SlotInit == Init => SP!Init
  <1> SUFFICES ASSUME Init PROVE SP!Init
    OBVIOUS
  <1>1. \A i \in Slots : CarriedRequest(i) = None /\ CarriedAnswer(i) = None
    BY DEF Init, CarriedRequest, CarriedAnswer, FREE, READY, CLAIMED, DONE
  <1>2. CarriedRequests = [i \in Slots |-> None] /\ CarriedAnswers = [i \in Slots |-> None]
    BY <1>1 DEF CarriedRequests, CarriedAnswers
  <1>3. PublishedCalls = {}
    BY DEF Init, PublishedCalls, PublishedPc
  <1> QED
    BY <1>2, <1>3 DEF Init, SP!Init, FREE

(***************************************************************************)
(* For every number of calls, slots and generations: a slot only turns     *)
(* along its cycle, carries one request from Ready to Free, and is Done    *)
(* only with the answer to it.                                             *)
(***************************************************************************)
THEOREM SlotsImplement == Spec => ImplementsSlotProtocol
  <1>1. IInv /\ [Next]_vars => [SP!Next]_(SP!vars)
    BY SlotStep DEF IInv
  <1> QED
    BY <1>1, SlotInit, InvariantCorrect, PTL DEF Spec, ImplementsSlotProtocol, SP!Spec
=============================================================================
