------------------------------- MODULE HubSide -------------------------------
(***************************************************************************)
(* The hub process: SlotBus::dispatch, called by one thread per call, and  *)
(* the loop of SlotBus::start_response_watcher on its own thread.  A step  *)
(* is one access to what other threads see: an atomic operation on a       *)
(* status word, a critical section of a mutex, a system call on a region   *)
(* or an event, or the copying of a payload into or out of a slot.         *)
(***************************************************************************)
EXTENDS BusState

\* dispatch(c) is called; claim_free_slot starts at slot 0.
Start(c) ==
    /\ disp[c] = "idle"
    /\ disp' = [disp EXCEPT ![c] = "scan"]
    /\ at' = [at EXCEPT ![c] = 0]
    /\ UNCHANGED <<held, slotVars, osVars, hubOvf, pending, got, watchVars, workerVars>>

\* ClaimFreeSlot gone wrong: an answered slot is taken for a free one.
MutClaimDone(c) ==
    /\ disp[c] = "scan"
    /\ status[at[c]] \in {FREE, DONE}
    /\ status' = [status EXCEPT ![at[c]] = WRITING]
    /\ disp' = [disp EXCEPT ![c] = "claimed"]
    /\ UNCHANGED <<at, held, reqId, reqMarker, rspMarker, reqArena, rspArena, osVars,
                   hubOvf, pending, got, watchVars, workerVars>>

\* claim_free_slot: the compare_exchange Free -> Writing on one slot, and the
\* loop around it.  Every slot refused once: NoFreeSlots.
ClaimFreeSlot(c) ==
    /\ disp[c] = "scan"
    /\ \/ /\ status[at[c]] = FREE
          /\ status' = [status EXCEPT ![at[c]] = WRITING]
          /\ disp' = [disp EXCEPT ![c] = "claimed"]
          /\ UNCHANGED at
       \/ /\ status[at[c]] # FREE
          /\ at[c] < NumSlots - 1
          /\ at' = [at EXCEPT ![c] = @ + 1]
          /\ UNCHANGED <<disp, status>>
       \/ /\ status[at[c]] # FREE
          /\ at[c] = NumSlots - 1
          /\ disp' = [disp EXCEPT ![c] = "rejected"]
          /\ UNCHANGED <<at, status>>
    /\ UNCHANGED <<held, reqId, reqMarker, rspMarker, reqArena, rspArena, osVars,
                   hubOvf, pending, got, watchVars, workerVars>>

\* overflow_regions.remove(&slot_index): dropping the handle removes the name.
DropStaleRequestOverflow(c) ==
    /\ disp[c] = "claimed"
    /\ reqShm' = DropHandle(reqShm, at[c], hubOvf[at[c]])
    /\ hubOvf' = [hubOvf EXCEPT ![at[c]] = 0]
    /\ disp' = [disp EXCEPT ![c] = "clean"]
    /\ UNCHANGED <<at, held, slotVars, rspShm, reqEvent, rspEvent,
                   pending, got, watchVars, workerVars>>

\* WriteRequest gone wrong: a body in the arena leaves the old marker.
MutWriteInlineKeepsMarker(c) ==
    /\ disp[c] = "clean"
    /\ reqId' = [reqId EXCEPT ![at[c]] = SlotId(c)]
    /\ reqArena' = [reqArena EXCEPT ![at[c]] = c]
    /\ \/ UNCHANGED <<reqMarker, reqShm, held>>
       \/ \E m \in Markers :
            /\ IsFreshMarker(reqShm, at[c], m)
            /\ reqShm' = [reqShm EXCEPT ![at[c]][m] = c]
            /\ reqMarker' = [reqMarker EXCEPT ![at[c]] = m]
            /\ held' = [held EXCEPT ![c] = m]
    /\ disp' = [disp EXCEPT ![c] = "written"]
    /\ UNCHANGED <<at, status, rspMarker, rspArena, rspShm, reqEvent, rspEvent,
                   hubOvf, pending, got, watchVars, workerVars>>

\* write_request_inner up to the store of Ready: req_id, metadata, then the body
\* in the arena or in a fresh overflow region.
WriteRequest(c) ==
    /\ disp[c] = "clean"
    /\ reqId' = [reqId EXCEPT ![at[c]] = SlotId(c)]
    /\ \E size \in ReqSizes :
        \/ /\ size = "inline"
           /\ reqArena' = [reqArena EXCEPT ![at[c]] = c]
           /\ reqMarker' = [reqMarker EXCEPT ![at[c]] = 0]
           /\ disp' = [disp EXCEPT ![c] = "written"]
           /\ UNCHANGED <<reqShm, held>>
        \/ /\ size = "spill"
           /\ reqArena' = [reqArena EXCEPT ![at[c]] = c]
           /\ \E m \in Markers :
                /\ IsFreshMarker(reqShm, at[c], m)
                /\ reqShm' = [reqShm EXCEPT ![at[c]][m] = c]
                /\ reqMarker' = [reqMarker EXCEPT ![at[c]] = m]
                /\ held' = [held EXCEPT ![c] = m]
           /\ disp' = [disp EXCEPT ![c] = "written"]
        \/ \* every generation is taken: the metadata is written, the body is not
           /\ size = "spill"
           /\ FreeMarkers(reqShm, at[c]) = {}
           /\ reqArena' = [reqArena EXCEPT ![at[c]] = c]
           /\ disp' = [disp EXCEPT ![c] = "failed"]
           /\ UNCHANGED <<reqMarker, reqShm, held>>
        \/ /\ size = "oversize"
           /\ disp' = [disp EXCEPT ![c] = "failed"]
           /\ UNCHANGED <<reqArena, reqMarker, reqShm, held>>
    /\ UNCHANGED <<at, status, rspMarker, rspArena, rspShm, reqEvent, rspEvent,
                   hubOvf, pending, got, watchVars, workerVars>>

\* The store of Ready that ends write_request_inner.
PublishRequest(c) ==
    /\ disp[c] = "written"
    /\ status' = [status EXCEPT ![at[c]] = READY]
    /\ disp' = [disp EXCEPT ![c] = "published"]
    /\ UNCHANGED <<at, held, reqId, reqMarker, rspMarker, reqArena, rspArena, osVars,
                   hubOvf, pending, got, watchVars, workerVars>>

\* ReleaseFailedWrite gone wrong: the error is returned with the slot reserved.
MutFailedWriteKeepsSlot(c) ==
    /\ disp[c] = "failed"
    /\ disp' = [disp EXCEPT ![c] = "error"]
    /\ UNCHANGED <<at, held, slotVars, osVars, hubOvf, pending, got, watchVars, workerVars>>

\* The error path of write_request: the slot is released, dispatch() fails.
ReleaseFailedWrite(c) ==
    /\ disp[c] = "failed"
    /\ status' = [status EXCEPT ![at[c]] = FREE]
    /\ disp' = [disp EXCEPT ![c] = "error"]
    /\ UNCHANGED <<at, held, reqId, reqMarker, rspMarker, reqArena, rspArena, osVars,
                   hubOvf, pending, got, watchVars, workerVars>>

\* overflow_regions.insert(slot_index, ovf), when write_request returned a
\* handle: a handle the map held for the slot is replaced and so dropped.
StoreRequestOverflow(c) ==
    /\ disp[c] = "published"
    /\ IF held[c] = 0
       THEN UNCHANGED <<reqShm, hubOvf>>
       ELSE /\ reqShm' = DropHandle(reqShm, at[c], hubOvf[at[c]])
            /\ hubOvf' = [hubOvf EXCEPT ![at[c]] = held[c]]
    /\ held' = [held EXCEPT ![c] = 0]
    /\ disp' = [disp EXCEPT ![c] = "stored"]
    /\ UNCHANGED <<at, slotVars, rspShm, reqEvent, rspEvent,
                   pending, got, watchVars, workerVars>>

\* pending.insert(req_id, ...).
RegisterPending(c) ==
    /\ disp[c] = "stored"
    /\ pending' = pending \cup {c}
    /\ disp' = [disp EXCEPT ![c] = "registered"]
    /\ UNCHANGED <<at, held, slotVars, osVars, hubOvf, got, watchVars, workerVars>>

\* req_event.signal(), then the receiver is returned to the caller.
SignalRequest(c) ==
    /\ disp[c] = "registered"
    /\ reqEvent' = Signal(reqEvent)
    /\ disp' = [disp EXCEPT ![c] = "returned"]
    /\ UNCHANGED <<at, held, slotVars, reqShm, rspShm, rspEvent,
                   hubOvf, pending, got, watchVars, workerVars>>

Dispatch(c) ==
    \/ ClaimFreeSlot(c)
    \/ DropStaleRequestOverflow(c)
    \/ WriteRequest(c)
    \/ PublishRequest(c)
    \/ ReleaseFailedWrite(c)
    \/ StoreRequestOverflow(c)
    \/ RegisterPending(c)
    \/ SignalRequest(c)
-----------------------------------------------------------------------------
\* rsp_event.wait_timeout returns, signalled or not, and the scan starts.
WatchWait ==
    /\ watch = "wait"
    /\ rspEvent' \in AfterWait(rspEvent)
    /\ watch' = "scan"
    /\ wat' = 0
    /\ UNCHANGED <<wid, wrsp, slotVars, reqShm, rspShm, reqEvent, dispVars,
                   hubOvf, pending, got, workerVars>>

\* NextSlotOfWatch gone wrong: the loop runs one slot too far.
MutWatchPastTheEnd ==
    IF wat < NumSlots
    THEN watch' = "scan" /\ wat' = wat + 1
    ELSE watch' = "wait" /\ wat' = 0

\* The loop over the slots goes on, or the watcher waits again.
NextSlotOfWatch ==
    IF wat < NumSlots - 1
    THEN watch' = "scan" /\ wat' = wat + 1
    ELSE watch' = "wait" /\ wat' = 0

\* WatchScan gone wrong: the slot is freed before it is read.
MutWatchFreesFirst ==
    /\ watch = "scan"
    /\ \/ /\ status[wat] = DONE
          /\ status' = [status EXCEPT ![wat] = FREE]
          /\ watch' = "read"
          /\ UNCHANGED wat
       \/ /\ status[wat] # DONE
          /\ NextSlotOfWatch
          /\ UNCHANGED status
    /\ UNCHANGED <<wid, wrsp, reqId, reqMarker, rspMarker, reqArena, rspArena, osVars,
                   dispVars, hubOvf, pending, got, workerVars>>

\* The load of the status word: only a Done slot is looked into.
WatchScan ==
    /\ watch = "scan"
    /\ \/ /\ status[wat] = DONE
          /\ watch' = "read"
          /\ UNCHANGED wat
       \/ /\ status[wat] # DONE
          /\ NextSlotOfWatch
    /\ UNCHANGED <<wid, wrsp, slotVars, osVars, dispVars, hubOvf, pending, got, workerVars>>

\* The req_id is copied and read_response copies the response.
WatchRead ==
    /\ watch = "read"
    /\ wid' = reqId[wat]
    /\ wrsp' = ReadPayload(rspArena, rspShm, wat, rspMarker[wat])
    /\ watch' = "release"
    /\ UNCHANGED <<wat, slotVars, osVars, dispVars, hubOvf, pending, got, workerVars>>

\* The compare_exchange Done -> Free; were it to fail the response is skipped.
WatchRelease ==
    /\ watch = "release"
    /\ IF status[wat] = DONE
       THEN /\ status' = [status EXCEPT ![wat] = FREE]
            /\ watch' = "drop"
            /\ UNCHANGED <<wat, wid, wrsp>>
       ELSE /\ NextSlotOfWatch
            /\ wid' = None
            /\ wrsp' = None
            /\ UNCHANGED status
    /\ UNCHANGED <<reqId, reqMarker, rspMarker, reqArena, rspArena, osVars, dispVars,
                   hubOvf, pending, got, workerVars>>

\* WatchDropOverflow gone wrong: the id is read again after the slot was freed.
MutIdReadAfterFree ==
    /\ watch = "drop"
    /\ reqShm' = DropHandle(reqShm, wat, hubOvf[wat])
    /\ hubOvf' = [hubOvf EXCEPT ![wat] = 0]
    /\ wid' = reqId[wat]
    /\ watch' = "resolve"
    /\ UNCHANGED <<wat, wrsp, slotVars, rspShm, reqEvent, rspEvent, dispVars,
                   pending, got, workerVars>>

\* overflow_regions.remove(&i).
WatchDropOverflow ==
    /\ watch = "drop"
    /\ reqShm' = DropHandle(reqShm, wat, hubOvf[wat])
    /\ hubOvf' = [hubOvf EXCEPT ![wat] = 0]
    /\ watch' = "resolve"
    /\ UNCHANGED <<wat, wid, wrsp, slotVars, rspShm, reqEvent, rspEvent, dispVars,
                   pending, got, workerVars>>

\* WatchResolve gone wrong: the entry removed is that of whoever has the slot now.
MutResolveRemovesOccupant ==
    /\ watch = "resolve"
    /\ IF wrsp # None /\ wid \in pending
       THEN /\ pending' = pending \ {reqId[wat]}
            /\ got' = [got EXCEPT ![wid] = wrsp]
       ELSE UNCHANGED <<pending, got>>
    /\ wid' = None
    /\ wrsp' = None
    /\ NextSlotOfWatch
    /\ UNCHANGED <<slotVars, osVars, dispVars, hubOvf, workerVars>>

\* WatchResolve gone wrong: one response is taken per wakeup.
MutOneResponsePerWakeup ==
    /\ watch = "resolve"
    /\ IF wrsp # None /\ wid \in pending
       THEN /\ pending' = pending \ {wid}
            /\ got' = [got EXCEPT ![wid] = wrsp]
       ELSE UNCHANGED <<pending, got>>
    /\ wid' = None
    /\ wrsp' = None
    /\ watch' = "wait"
    /\ wat' = 0
    /\ UNCHANGED <<slotVars, osVars, dispVars, hubOvf, workerVars>>

\* pending.remove(&req_id) and tx.send when the response was read and the call
\* is pending; otherwise the response is gone.  wid and wrsp go out of scope.
WatchResolve ==
    /\ watch = "resolve"
    /\ IF wrsp # None /\ wid \in pending
       THEN /\ pending' = pending \ {wid}
            /\ got' = [got EXCEPT ![wid] = wrsp]
       ELSE UNCHANGED <<pending, got>>
    /\ wid' = None
    /\ wrsp' = None
    /\ NextSlotOfWatch
    /\ UNCHANGED <<slotVars, osVars, dispVars, hubOvf, workerVars>>

Watcher ==
    \/ WatchWait
    \/ WatchScan
    \/ WatchRead
    \/ WatchRelease
    \/ WatchDropOverflow
    \/ WatchResolve
=============================================================================
