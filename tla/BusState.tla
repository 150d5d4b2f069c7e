------------------------------ MODULE BusState ------------------------------
(***************************************************************************)
(* The state of one slotbus connection: the shared control region (the     *)
(* status word, the pointers and the arena contents of every slot), the    *)
(* named overflow regions, the two named events, and the private state of  *)
(* the hub process (its dispatching threads, its response watcher, its     *)
(* maps) and of the worker process (its receive loop, its handlers, its    *)
(* map).  HubSide and WorkerSide hold the actions, SlotBus composes them.  *)
(*                                                                         *)
(* A payload is abstracted to the call it belongs to: an arena or an       *)
(* overflow region "contains c" when the bytes last written there are      *)
(* those of call c.                                                        *)
(***************************************************************************)
EXTENDS Integers

CONSTANTS
    Calls,        \* the calls of dispatch(), one caller thread each
    NumSlots,     \* slots in the control region
    MaxMarker,    \* largest overflow marker (255 in the code)
    ReqSizes,     \* sizes a request payload may have
    RspSizes,     \* sizes a response payload may have
    Orphans,      \* overflow markers burnt by processes that were killed
    LongIds,      \* calls whose req_id exceeds the 36 bytes of the slot field
    AutoReset,    \* TRUE: Windows auto-reset event; FALSE: POSIX semaphore
    Timeouts,     \* whether wait_timeout may return without a signal
    None,         \* no call
    Mixed         \* a payload put together from two different calls

\* "inline": metadata and body fit the half of the arena (or there is no body);
\* "spill": the body goes to an overflow region; "oversize": the metadata
\* exceeds the half and the write is refused.  SlotLayout!Placement decides.
Sizes == {"inline", "spill", "oversize"}

ASSUME BusAssumption ==
    /\ NumSlots \in Nat \ {0}
    /\ MaxMarker \in Nat
    /\ ReqSizes \subseteq Sizes
    /\ RspSizes \subseteq Sizes
    /\ Orphans \subseteq 1 .. MaxMarker
    /\ LongIds \subseteq Calls
    /\ AutoReset \in BOOLEAN
    /\ Timeouts \in BOOLEAN
    /\ None \notin Calls
    /\ Mixed \notin Calls
    /\ None # Mixed

Slots == 0 .. NumSlots - 1

\* Marker 0 is a body in the arena (OVERFLOW_INLINE), marker m > 0 the overflow
\* region of generation m - 1.  Each of the two directions of a slot has a
\* family of region names, one per generation.
Markers == 1 .. MaxMarker

FREE    == "free"
READY   == "ready"
CLAIMED == "claimed"
DONE    == "done"
WRITING == "writing"
Statuses == {FREE, READY, CLAIMED, DONE, WRITING}

VARIABLES
    \* --- shared memory: the slots of the control region ---
    status,     \* the atomic status word of a slot
    reqId,      \* the req_id field: a call, or None for an id that names no call
    reqMarker,  \* body_overflow
    rspMarker,  \* resp_body_overflow
    reqArena,   \* whose request is in the request half of the arena
    rspArena,   \* whose response is in the response half of the arena
    \* --- named OS objects ---
    reqShm,     \* request overflow regions by slot and marker; None: no such name
    rspShm,     \* response overflow regions by slot and marker
    reqEvent,   \* signals pending on the request event
    rspEvent,   \* signals pending on the response event
    \* --- hub process ---
    disp,       \* progress of each dispatch()
    at,         \* the slot a dispatch() examines or owns
    held,       \* marker of the overflow handle local to a dispatch(), 0 if none
    hubOvf,     \* overflow_regions of SlotBus: the marker held per slot, 0 if none
    pending,    \* the calls with an entry in the pending map
    got,        \* what the receiver of each call was resolved with
    watch,      \* where the response watcher is
    wat,        \* the slot the response watcher examines
    wid,        \* the req_id it read
    wrsp,       \* the response it read; None when the read failed
    \* --- worker process ---
    recv,       \* where the receive loop is
    rat,        \* the slot the receive loop examines
    hand,       \* progress of the handler of each call
    hat,        \* the slot_index a handler was given
    hheld,      \* marker of the overflow handle local to a send_response()
    wkOvf,      \* overflow_regions of SlotWorker
    seen,       \* the request a handler was given
    delivered   \* how often a request was handed to a handler (not in the code)

slotVars == <<status, reqId, reqMarker, rspMarker, reqArena, rspArena>>
osVars   == <<reqShm, rspShm, reqEvent, rspEvent>>
dispVars == <<disp, at, held>>
watchVars == <<watch, wat, wid, wrsp>>
hubVars  == <<disp, at, held, hubOvf, pending, got, watch, wat, wid, wrsp>>
recvVars == <<recv, rat>>
handVars == <<hand, hat, hheld>>
workerVars == <<recv, rat, hand, hat, hheld, wkOvf, seen, delivered>>
vars == <<slotVars, osVars, hubVars, workerVars>>
-----------------------------------------------------------------------------
\* A dispatch() that has reserved a slot it has not published yet.
WritingPc == {"claimed", "clean", "written", "failed"}

\* A dispatch() whose request is visible to the worker.
PublishedPc == {"published", "stored", "registered", "returned"}

DispPc == {"idle", "scan", "rejected", "error"} \cup WritingPc \cup PublishedPc

\* A handler that owns its slot.
HandlingPc == {"got", "clean", "written", "failed"}

HandPc == {"none", "published", "stored", "sent", "dropped"} \cup HandlingPc

WatchPc == {"wait", "scan", "read", "release", "drop", "resolve"}
RecvPc == {"wait", "scan", "read"}

Payloads == Calls \cup {None, Mixed}

SlotsTyped ==
    /\ status \in [Slots -> Statuses]
    /\ reqId \in [Slots -> Calls \cup {None}]
    /\ reqMarker \in [Slots -> 0 .. MaxMarker]
    /\ rspMarker \in [Slots -> 0 .. MaxMarker]
    /\ reqArena \in [Slots -> Calls \cup {None}]
    /\ rspArena \in [Slots -> Calls \cup {None}]

OsTyped ==
    /\ reqShm \in [Slots -> [Markers -> Payloads]]
    /\ rspShm \in [Slots -> [Markers -> Payloads]]
    /\ reqEvent \in Nat
    /\ rspEvent \in Nat

DispatchTyped ==
    /\ disp \in [Calls -> DispPc]
    /\ at \in [Calls -> Slots]
    /\ held \in [Calls -> 0 .. MaxMarker]
    /\ hubOvf \in [Slots -> 0 .. MaxMarker]
    /\ pending \in SUBSET Calls
    /\ got \in [Calls -> Payloads]

WatcherTyped ==
    /\ watch \in WatchPc
    /\ wat \in Slots
    /\ wid \in Calls \cup {None}
    /\ wrsp \in Payloads

WorkerTyped ==
    /\ recv \in RecvPc
    /\ rat \in Slots
    /\ hand \in [Calls -> HandPc]
    /\ hat \in [Calls -> Slots]
    /\ hheld \in [Calls -> 0 .. MaxMarker]
    /\ wkOvf \in [Slots -> 0 .. MaxMarker]
    /\ seen \in [Calls -> Payloads]
    /\ delivered \in [Calls -> Nat]

TypeOK == SlotsTyped /\ OsTyped /\ DispatchTyped /\ WatcherTyped /\ WorkerTyped
-----------------------------------------------------------------------------
\* The bytes of the slot's req_id field name the call unless they were cut.
SlotId(c) == IF c \in LongIds THEN None ELSE c

\* A further signal: a set auto-reset event stays set, a semaphore counts.
Signal(event) == IF AutoReset THEN 1 ELSE event + 1

\* wait_timeout: the signals that may be left when it returns.  It takes one if
\* there is one; without any it returns only when it times out.
AfterWait(event) == IF event > 0 THEN {event - 1} ELSE {e \in {event} : Timeouts}

\* Overflow names of a slot that no live region has.
FreeMarkers(shm, i) == {m \in Markers : shm[i][m] = None}

\* IsFreshMarker gone wrong: the first name is opened whether it exists or not.
MutFirstMarkerAlways(shm, i, m) == m = 1

\* Two calls that had a slot earlier may release their regions, a lower name
\* first, while the loop of a third is between the two names.
ReleasesBehindLoop == \E c, d, e \in Calls : c # d /\ d # e /\ c # e

\* create_overflow_fresh: the first generation whose name is free, or a later one
\* when a lower name was released behind the loop.  One call at a time takes
\* names of a slot: all that the loop finds taken were taken when it began.
IsFreshMarker(shm, i, m) ==
    /\ m \in FreeMarkers(shm, i)
    /\ ReleasesBehindLoop \/ \A n \in FreeMarkers(shm, i) : m <= n

\* DropHandle gone wrong: the mapping goes away, its name stays.
MutDropKeepsName(shm, i, m) == shm

\* The names of slot i once the handle on marker m (0: no handle) is dropped.
DropHandle(shm, i, m) == [shm EXCEPT ![i] = [n \in Markers |-> IF n = m THEN None ELSE @[n]]]

\* What a reader makes of a payload whose metadata is in the arena and whose
\* body is in the arena (marker 0) or in an overflow region.  None: the region
\* is gone and the read fails.
Body(arena, shm, i, m) == IF m = 0 THEN arena[i] ELSE shm[i][m]
ReadPayload(arena, shm, i, m) ==
    CASE Body(arena, shm, i, m) = None -> None
      [] Body(arena, shm, i, m) = arena[i] -> arena[i]
      [] OTHER -> Mixed
-----------------------------------------------------------------------------
\* SlotBus::create and SlotWorker::open have succeeded, both threads are
\* started, and nothing was dispatched yet.  An orphan is a region nobody in
\* this connection holds and whose bytes belong to none of its calls.
Init ==
    /\ status = [i \in Slots |-> FREE]
    /\ reqId = [i \in Slots |-> None]
    /\ reqMarker = [i \in Slots |-> 0]
    /\ rspMarker = [i \in Slots |-> 0]
    /\ reqArena = [i \in Slots |-> None]
    /\ rspArena = [i \in Slots |-> None]
    /\ reqShm = [i \in Slots |-> [m \in Markers |-> IF m \in Orphans THEN Mixed ELSE None]]
    /\ rspShm = [i \in Slots |-> [m \in Markers |-> IF m \in Orphans THEN Mixed ELSE None]]
    /\ reqEvent = 0
    /\ rspEvent = 0
    /\ disp = [c \in Calls |-> "idle"]
    /\ at = [c \in Calls |-> 0]
    /\ held = [c \in Calls |-> 0]
    /\ hubOvf = [i \in Slots |-> 0]
    /\ pending = {}
    /\ got = [c \in Calls |-> None]
    /\ watch = "wait"
    /\ wat = 0
    /\ wid = None
    /\ wrsp = None
    /\ recv = "wait"
    /\ rat = 0
    /\ hand = [c \in Calls |-> "none"]
    /\ hat = [c \in Calls |-> 0]
    /\ hheld = [c \in Calls |-> 0]
    /\ wkOvf = [i \in Slots |-> 0]
    /\ seen = [c \in Calls |-> None]
    /\ delivered = [c \in Calls |-> 0]
=============================================================================
