------------------------------- MODULE SlotBus -------------------------------
(***************************************************************************)
(* One slotbus connection in operation: the hub's dispatching threads and  *)
(* response watcher, and the worker's receive loop and handlers, over one  *)
(* control region.                                                         *)
(***************************************************************************)
EXTENDS HubSide, WorkerSide

Next ==
    \/ \E c \in Calls : Start(c) \/ Dispatch(c) \/ Handler(c)
    \/ Watcher
    \/ ReceiveLoop

Spec == Init /\ [][Next]_vars

\* Every thread that can run goes on running: a dispatch() that was called, the
\* two loops, and handlers, which "must call send_response when done".  Whether
\* dispatch() is called at all is up to the program.
Fairness ==
    /\ \A c \in Calls : WF_vars(Dispatch(c)) /\ WF_vars(Handler(c))
    /\ WF_vars(Watcher)
    /\ WF_vars(ReceiveLoop)

FairSpec == Spec /\ Fairness
-----------------------------------------------------------------------------
\* Who may be touching the plain (non-atomic) bytes of slot i: its fields, its
\* arena and the overflow names it points to.
Accessors(i) ==
    {<<"dispatch", c>> : c \in {c \in Calls : disp[c] \in WritingPc /\ at[c] = i}}
    \cup {<<"handler", c>> : c \in {c \in Calls : hand[c] \in HandlingPc /\ hat[c] = i}}
    \cup {<<"receive", n>> : n \in {n \in {None} : recv = "read" /\ rat = i}}
    \cup {<<"watcher", n>> : n \in {n \in {None} : watch \in {"read", "release"} /\ wat = i}}

(***************************************************************************)
(* The slot's bytes are written and read without any lock: the status word *)
(* alone must keep a dispatch(), the receive loop, a handler and the       *)
(* response watcher out of one slot at the same time.                      *)
(***************************************************************************)
SlotAccessExclusive ==
    \A i \in Slots : \A x, y \in Accessors(i) : x = y

(***************************************************************************)
(* A slot in Writing or Claimed always has somebody left to move it on;    *)
(* every early return releases what it had reserved.  A slot nobody works  *)
(* on would never be used again, for no timeout reclaims one.              *)
(***************************************************************************)
NoAbandonedSlot ==
    \A i \in Slots : status[i] \in {WRITING, CLAIMED} => Accessors(i) # {}

(***************************************************************************)
(* A handler is given the metadata and the body of one and the same call,  *)
(* wherever the body was, whatever the slot carried before.                *)
(***************************************************************************)
RequestIntact ==
    \A c \in Calls : seen[c] \in {None, c}

(***************************************************************************)
(* A receiver is only ever resolved with the answer to its own call: slot  *)
(* reuse never lets an answer cross over to another caller.                *)
(***************************************************************************)
ResponseMatches ==
    \A c \in Calls : got[c] \in {None, c}

(***************************************************************************)
(* No request reaches a handler twice, however often the receive loop      *)
(* scans the slot and whether or not it was woken by a signal.             *)
(***************************************************************************)
AtMostOnceDelivery ==
    \A c \in Calls : delivered[c] <= 1

(***************************************************************************)
(* When the watcher gets to its compare_exchange Done -> Free nobody has   *)
(* changed the status since it looked: "the CAS should always succeed".    *)
(***************************************************************************)
WatcherCasSucceeds ==
    watch = "release" => status[wat] = DONE

\* The handles in the program on request region m of slot i, and on its
\* response region m.
RequestHandles(i, m) ==
    {<<"map", n>> : n \in {n \in {None} : hubOvf[i] = m}}
    \cup {<<"local", c>> : c \in {c \in Calls : at[c] = i /\ held[c] = m}}
ResponseHandles(i, m) ==
    {<<"map", n>> : n \in {n \in {None} : wkOvf[i] = m}}
    \cup {<<"local", c>> : c \in {c \in Calls : hat[c] = i /\ hheld[c] = m}}

HeldOnce(handles, present) ==
    /\ \A x, y \in handles : x = y
    /\ present <=> handles # {}

(***************************************************************************)
(* Every overflow region of the connection is named by exactly one handle, *)
(* in a map or in the call that made it: none leaks its generation, and no *)
(* handle outlives its region to remove a later region of the same name.   *)
(***************************************************************************)
EveryRegionHeldOnce ==
    \A i \in Slots : \A m \in Markers \ Orphans :
        /\ HeldOnce(RequestHandles(i, m), reqShm[i][m] # None)
        /\ HeldOnce(ResponseHandles(i, m), rspShm[i][m] # None)

(***************************************************************************)
(* The regions of killed processes are neither written nor removed, and no *)
(* slot ever points to one.                                                *)
(***************************************************************************)
OrphansLeftAlone ==
    \A i \in Slots :
        /\ \A m \in Orphans : reqShm[i][m] = Mixed /\ rspShm[i][m] = Mixed
        /\ reqMarker[i] \notin Orphans /\ rspMarker[i] \notin Orphans

(***************************************************************************)
(* The watcher throws away an answer it has read, for a call whose id fits *)
(* the slot, only while the dispatch() of that call is still between the   *)
(* store of Ready and its insertion in the pending map.  (It has read none *)
(* when the response's overflow region is gone.)                           *)
(***************************************************************************)
OnlyLateRegistrationLosesAnswer ==
    watch = "resolve" /\ wrsp # None /\ wid \in Calls \ pending =>
        disp[wid] \in {"published", "stored"}

\* claim_free_slot, called for c, looks at a slot and goes on without it.
PassesOver(c) == disp[c] = "scan" /\ (at'[c] # at[c] \/ disp'[c] = "rejected")

\* Somebody works on call d in slot i, or d waits there for one of the loops.
\* Handlers of the calls in D do not work any more.
Occupies(d, i, D) ==
    \/ disp[d] \in WritingPc /\ at[d] = i
    \/ /\ reqArena[i] = d
       /\ \/ status[i] \in {READY, DONE}
          \/ recv = "read" /\ rat = i
          \/ d \notin D /\ hand[d] \in HandlingPc /\ hat[d] = i

OccupiedByOther(c, D) == \E d \in Calls \ {c} : Occupies(d, at[c], D)

(***************************************************************************)
(* dispatch() is refused with "all slots in use" only under load: each     *)
(* slot its scan passes over is, when it is looked at, occupied by another *)
(* call that is under way.  No call that has failed, was discarded or is   *)
(* over keeps a slot from a later one.                                     *)
(***************************************************************************)
RefusedOnlyUnderLoad ==
    [][\A c \in Calls : PassesOver(c) => OccupiedByOther(c, {})]_vars
-----------------------------------------------------------------------------
\* How far a call has come, seen from its caller.
Answered(c) ==
    \/ \E i \in Slots : status[i] = DONE /\ reqArena[i] = c
    \/ watch \in {"drop", "resolve"} /\ wid = c /\ wrsp # None

Underway(c) ==
    \E i \in Slots : status[i] \in {READY, CLAIMED} /\ reqArena[i] = c

Phase(c) ==
    CASE got[c] # None -> "received"
      [] got[c] = None /\ disp[c] \in {"rejected", "error"} -> "refused"
      [] got[c] = None /\ disp[c] \in {"idle", "scan"} \cup WritingPc -> "new"
      [] got[c] = None /\ disp[c] \in PublishedPc ->
            IF Answered(c) THEN "replied"
            ELSE IF ~Underway(c) THEN "lost"
            ELSE IF hand[c] = "none" THEN "asked" ELSE "served"

PhaseOfCalls == [c \in Calls |-> Phase(c)]

(***************************************************************************)
(* The connection implements RequestReply: calls are served at most once,  *)
(* answered at most once, with their own answer, and only after having     *)
(* been served; what is lost stays lost.                                   *)
(***************************************************************************)
RR == INSTANCE RequestReply WITH phase <- PhaseOfCalls, result <- got

ImplementsRequestReply == RR!Spec
-----------------------------------------------------------------------------
\* What a slot carries, as whoever finds it in its status will read it.
CarriedRequest(i) ==
    IF status[i] \in {READY, CLAIMED, DONE}
    THEN [call |-> reqArena[i], id |-> reqId[i], body |-> reqMarker[i]]
    ELSE None

CarriedAnswer(i) ==
    IF status[i] = DONE THEN [call |-> rspArena[i], body |-> rspMarker[i]] ELSE None

CarriedRequests == [i \in Slots |-> CarriedRequest(i)]
CarriedAnswers == [i \in Slots |-> CarriedAnswer(i)]
PublishedCalls == {c \in Calls : disp[c] \in PublishedPc}

SP == INSTANCE SlotProtocol WITH
    Markers <- 0 .. MaxMarker, Nothing <- None, word <- status,
    request <- CarriedRequests, answer <- CarriedAnswers, sent <- PublishedCalls

(***************************************************************************)
(* The slots implement SlotProtocol: although Ready, Done and Free are     *)
(* plain stores that look at nothing, a status word only ever moves on     *)
(* along its cycle, the bytes behind it stay as they are from Ready to     *)
(* Free, and Done is only stored over the request it answers.              *)
(***************************************************************************)
ImplementsSlotProtocol == SP!Spec
-----------------------------------------------------------------------------
\* The loop will still look at slot i before it waits again.
RecvWillPass(i) ==
    \/ recv = "scan" /\ rat <= i
    \/ recv = "read" /\ rat < i

WatchWillPass(i) ==
    \/ watch \in {"scan", "read", "release"} /\ wat <= i
    \/ watch \in {"drop", "resolve"} /\ wat < i

\* A request or a response that waits in slot i has a signal, pending or still
\* to come from the very thread that put it there, or a loop on its way to it.
\* Handlers of the calls in D send no signal any more.
RequestNoticed(i) ==
    status[i] = READY =>
        \/ reqEvent > 0
        \/ RecvWillPass(i)
        \/ disp[reqArena[i]] \in {"published", "stored", "registered"}

ResponseNoticed(i, D) ==
    status[i] = DONE =>
        \/ rspEvent > 0
        \/ WatchWillPass(i)
        \/ reqArena[i] \notin D /\ hand[reqArena[i]] \in {"published", "stored"}

(***************************************************************************)
(* No wakeup is lost: neither loop goes to sleep on a slot that waits for  *)
(* it, although events merge their signals, a signal may be taken by a     *)
(* scan that has already passed the slot, and a request may be published   *)
(* behind the scan.  No timeout is needed to find what is in the slots.    *)
(***************************************************************************)
NoLostWakeup ==
    \A i \in Slots : RequestNoticed(i) /\ ResponseNoticed(i, {})
-----------------------------------------------------------------------------
(***************************************************************************)
(* Every slot that was reserved is free again some time later.  Without    *)
(* Timeouts this says that no wakeup is lost: a request or a response is   *)
(* never left in a slot while the thread that should see it sleeps.        *)
(***************************************************************************)
SlotRecycled ==
    \A i \in Slots : status[i] # FREE ~> status[i] = FREE

-----------------------------------------------------------------------------
\* What the repository says of the program and the program does not do: each
\* of these is violated.

(***************************************************************************)
(* "Returns a oneshot receiver that resolves when the worker responds."    *)
(* (dispatch)                                                              *)
(***************************************************************************)
ReceiverResolves ==
    \A c \in Calls : (disp[c] = "returned" /\ hand[c] = "sent") ~> got[c] # None

(***************************************************************************)
(* "Returns the overflow region handle if one was needed (caller must keep *)
(* it alive)" (write_request): the body of a request waiting in a slot is  *)
(* still there for the worker.                                             *)
(***************************************************************************)
RequestOverflowAlive ==
    \A i \in Slots : status[i] = READY /\ reqMarker[i] # 0 =>
        reqShm[i][reqMarker[i]] = reqArena[i]

(***************************************************************************)
(* Overflow regions are "created on demand and released when the slot is   *)
(* freed" (README), so not before: the body of a response waiting in a     *)
(* slot is still there for the watcher.                                    *)
(***************************************************************************)
ResponseOverflowAlive ==
    \A i \in Slots : status[i] = DONE /\ rspMarker[i] # 0 =>
        rspShm[i][rspMarker[i]] = rspArena[i]
=============================================================================
