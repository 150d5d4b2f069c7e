----------------------------- MODULE WorkerSide -----------------------------
(***************************************************************************)
(* The worker process: the loop of SlotWorker::start_receive_loop on its   *)
(* own thread, and SlotWorker::send_response called by the handlers.  A    *)
(* handler may answer from the receive thread or hand the call to another  *)
(* thread, so each handler runs on its own here; the receive loop waiting  *)
(* for a handler is one of the schedules of that.                          *)
(***************************************************************************)
EXTENDS BusState

\* req_event.wait_timeout returns, signalled or not, and the scan starts.
RecvWait ==
    /\ recv = "wait"
    /\ reqEvent' \in AfterWait(reqEvent)
    /\ recv' = "scan"
    /\ rat' = 0
    /\ UNCHANGED <<slotVars, reqShm, rspShm, rspEvent, hubVars,
                   handVars, wkOvf, seen, delivered>>

\* The loop over the slots goes on, or the receive loop waits again.
NextSlotOfRecv ==
    IF rat < NumSlots - 1
    THEN recv' = "scan" /\ rat' = rat + 1
    ELSE recv' = "wait" /\ rat' = 0

\* RecvScan gone wrong: the status is looked at, not exchanged.
MutScanWithoutClaim ==
    /\ recv = "scan"
    /\ \/ /\ status[rat] = READY
          /\ recv' = "read"
          /\ UNCHANGED rat
       \/ /\ status[rat] # READY
          /\ NextSlotOfRecv
    /\ UNCHANGED <<slotVars, osVars, hubVars, handVars, wkOvf, seen, delivered>>

\* The compare_exchange Ready -> Claimed.
RecvScan ==
    /\ recv = "scan"
    /\ \/ /\ status[rat] = READY
          /\ status' = [status EXCEPT ![rat] = CLAIMED]
          /\ recv' = "read"
          /\ UNCHANGED rat
       \/ /\ status[rat] # READY
          /\ NextSlotOfRecv
          /\ UNCHANGED status
    /\ UNCHANGED <<reqId, reqMarker, rspMarker, reqArena, rspArena, osVars, hubVars,
                   handVars, wkOvf, seen, delivered>>

\* What read_request makes of the slot the receive loop has claimed.
RequestRead == ReadPayload(reqArena, reqShm, rat, reqMarker[rat])

\* RecvDeliver gone wrong: one request is taken per wakeup.
MutOneRequestPerWakeup ==
    /\ recv = "read"
    /\ RequestRead # None
    /\ LET c == reqArena[rat] IN
        /\ hand' = [hand EXCEPT ![c] = "got"]
        /\ hat' = [hat EXCEPT ![c] = rat]
        /\ seen' = [seen EXCEPT ![c] = RequestRead]
        /\ delivered' = [delivered EXCEPT ![c] = @ + 1]
    /\ recv' = "wait"
    /\ rat' = 0
    /\ UNCHANGED <<slotVars, osVars, hubVars, hheld, wkOvf>>

\* read_request succeeds: the handler is called with the slot and the request.
RecvDeliver ==
    /\ recv = "read"
    /\ RequestRead # None
    /\ LET c == reqArena[rat] IN
        /\ hand' = [hand EXCEPT ![c] = "got"]
        /\ hat' = [hat EXCEPT ![c] = rat]
        /\ seen' = [seen EXCEPT ![c] = RequestRead]
        /\ delivered' = [delivered EXCEPT ![c] = @ + 1]
    /\ NextSlotOfRecv
    /\ UNCHANGED <<slotVars, osVars, hubVars, hheld, wkOvf>>

\* RecvDiscard gone wrong: the slot of an unreadable request stays claimed.
MutDiscardKeepsSlot ==
    /\ recv = "read"
    /\ RequestRead = None
    /\ NextSlotOfRecv
    /\ UNCHANGED <<slotVars, osVars, hubVars, handVars, wkOvf, seen, delivered>>

\* read_request fails: the slot is freed, no response is ever sent.
RecvDiscard ==
    /\ recv = "read"
    /\ RequestRead = None
    /\ status' = [status EXCEPT ![rat] = FREE]
    /\ NextSlotOfRecv
    /\ UNCHANGED <<reqId, reqMarker, rspMarker, reqArena, rspArena, osVars, hubVars,
                   handVars, wkOvf, seen, delivered>>

ReceiveLoop ==
    \/ RecvWait
    \/ RecvScan
    \/ RecvDeliver
    \/ RecvDiscard
-----------------------------------------------------------------------------
\* send_response starts: overflow_regions.remove(&slot_index).
DropStaleResponseOverflow(c) ==
    /\ hand[c] = "got"
    /\ rspShm' = DropHandle(rspShm, hat[c], wkOvf[hat[c]])
    /\ wkOvf' = [wkOvf EXCEPT ![hat[c]] = 0]
    /\ hand' = [hand EXCEPT ![c] = "clean"]
    /\ UNCHANGED <<hat, hheld, slotVars, reqShm, reqEvent, rspEvent, hubVars,
                   recvVars, seen, delivered>>

\* WriteResponse gone wrong: a body in the arena leaves the old marker.
MutRespondInlineKeepsMarker(c) ==
    /\ hand[c] = "clean"
    /\ rspArena' = [rspArena EXCEPT ![hat[c]] = c]
    /\ \/ UNCHANGED <<rspMarker, rspShm, hheld>>
       \/ \E m \in Markers :
            /\ IsFreshMarker(rspShm, hat[c], m)
            /\ rspShm' = [rspShm EXCEPT ![hat[c]][m] = c]
            /\ rspMarker' = [rspMarker EXCEPT ![hat[c]] = m]
            /\ hheld' = [hheld EXCEPT ![c] = m]
    /\ hand' = [hand EXCEPT ![c] = "written"]
    /\ UNCHANGED <<hat, status, reqId, reqMarker, reqArena, reqShm, reqEvent, rspEvent,
                   hubVars, recvVars, wkOvf, seen, delivered>>

\* write_response up to the store of Done.
WriteResponse(c) ==
    /\ hand[c] = "clean"
    /\ \E size \in RspSizes :
        \/ /\ size = "inline"
           /\ rspArena' = [rspArena EXCEPT ![hat[c]] = c]
           /\ rspMarker' = [rspMarker EXCEPT ![hat[c]] = 0]
           /\ hand' = [hand EXCEPT ![c] = "written"]
           /\ UNCHANGED <<rspShm, hheld>>
        \/ /\ size = "spill"
           /\ rspArena' = [rspArena EXCEPT ![hat[c]] = c]
           /\ \E m \in Markers :
                /\ IsFreshMarker(rspShm, hat[c], m)
                /\ rspShm' = [rspShm EXCEPT ![hat[c]][m] = c]
                /\ rspMarker' = [rspMarker EXCEPT ![hat[c]] = m]
                /\ hheld' = [hheld EXCEPT ![c] = m]
           /\ hand' = [hand EXCEPT ![c] = "written"]
        \/ \* every generation is taken: the metadata is written, the body is not
           /\ size = "spill"
           /\ FreeMarkers(rspShm, hat[c]) = {}
           /\ rspArena' = [rspArena EXCEPT ![hat[c]] = c]
           /\ hand' = [hand EXCEPT ![c] = "failed"]
           /\ UNCHANGED <<rspMarker, rspShm, hheld>>
        \/ /\ size = "oversize"
           /\ hand' = [hand EXCEPT ![c] = "failed"]
           /\ UNCHANGED <<rspArena, rspMarker, rspShm, hheld>>
    /\ UNCHANGED <<hat, status, reqId, reqMarker, reqArena, reqShm, reqEvent, rspEvent,
                   hubVars, recvVars, wkOvf, seen, delivered>>

\* The store of Done that ends write_response.
PublishResponse(c) ==
    /\ hand[c] = "written"
    /\ status' = [status EXCEPT ![hat[c]] = DONE]
    /\ hand' = [hand EXCEPT ![c] = "published"]
    /\ UNCHANGED <<hat, hheld, reqId, reqMarker, rspMarker, reqArena, rspArena, osVars,
                   hubVars, recvVars, wkOvf, seen, delivered>>

\* The error path of send_response: the slot is freed without a response.
ReleaseFailedResponse(c) ==
    /\ hand[c] = "failed"
    /\ status' = [status EXCEPT ![hat[c]] = FREE]
    /\ hand' = [hand EXCEPT ![c] = "dropped"]
    /\ UNCHANGED <<hat, hheld, reqId, reqMarker, rspMarker, reqArena, rspArena, osVars,
                   hubVars, recvVars, wkOvf, seen, delivered>>

\* overflow_regions.insert(slot_index, ovf), when write_response returned one.
StoreResponseOverflow(c) ==
    /\ hand[c] = "published"
    /\ IF hheld[c] = 0
       THEN UNCHANGED <<rspShm, wkOvf>>
       ELSE /\ rspShm' = DropHandle(rspShm, hat[c], wkOvf[hat[c]])
            /\ wkOvf' = [wkOvf EXCEPT ![hat[c]] = hheld[c]]
    /\ hheld' = [hheld EXCEPT ![c] = 0]
    /\ hand' = [hand EXCEPT ![c] = "stored"]
    /\ UNCHANGED <<hat, slotVars, reqShm, reqEvent, rspEvent, hubVars,
                   recvVars, seen, delivered>>

\* rsp_event.signal().
SignalResponse(c) ==
    /\ hand[c] = "stored"
    /\ rspEvent' = Signal(rspEvent)
    /\ hand' = [hand EXCEPT ![c] = "sent"]
    /\ UNCHANGED <<hat, hheld, slotVars, reqShm, rspShm, reqEvent, hubVars,
                   recvVars, wkOvf, seen, delivered>>

Handler(c) ==
    \/ DropStaleResponseOverflow(c)
    \/ WriteResponse(c)
    \/ PublishResponse(c)
    \/ ReleaseFailedResponse(c)
    \/ StoreResponseOverflow(c)
    \/ SignalResponse(c)
=============================================================================
