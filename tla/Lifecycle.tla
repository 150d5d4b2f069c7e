------------------------------ MODULE Lifecycle ------------------------------
(***************************************************************************)
(* How a slotbus connection ends, and how a worker comes back: stop() and  *)
(* Drop of SlotBus and SlotWorker, the loops that look at `running` before *)
(* each wait, the reference counts that decide when a map and the regions  *)
(* in it go away, the death of the worker process at any point, and a new  *)
(* SlotWorker on the control region of a hub that never noticed.  The      *)
(* steps in between are those of SlotBus.                                  *)
(***************************************************************************)
EXTENDS SlotBus

CONSTANT MaxSessions    \* bound: workers that open the control region in turn

ASSUME LifecycleAssumption == MaxSessions \in Nat \ {0}

VARIABLES
    bus,        \* the SlotBus: `running` is set exactly while it is "up"
    watchLoop,  \* the watcher's loop: at the test of `running`, past it, or left
    worker,     \* the SlotWorker of this session, likewise
    userArc,    \* whether the program still has its Arc<SlotWorker>
    recvLoop,   \* the receive loop, whose closure owns an Arc<SlotWorker> too
    session,    \* how many workers have opened the region
    dead,       \* calls whose handler died with its process (not in the code)
    leaked,     \* response regions left behind by killed workers (not in the code)
    stuck       \* slots claimed by a worker that was killed (not in the code)

endVars == <<bus, watchLoop, worker, userArc, recvLoop, session, dead, leaked, stuck>>
lifeVars == <<vars, endVars>>

LifeTypeOK ==
    /\ TypeOK
    /\ bus \in {"up", "stopping", "stopped", "dropping", "dropped"}
    /\ watchLoop \in {"check", "in", "exited"}
    /\ worker \in {"up", "stopping", "stopped", "dropped", "killed"}
    /\ userArc \in BOOLEAN
    /\ recvLoop \in {"check", "in", "exited"}
    /\ session \in 1 .. MaxSessions
    /\ dead \subseteq Calls
    /\ leaked \subseteq Slots \X Markers
    /\ stuck \subseteq Slots

LifeInit ==
    /\ Init
    /\ bus = "up" /\ watchLoop = "check"
    /\ worker = "up" /\ userArc = TRUE /\ recvLoop = "check"
    /\ session = 1
    /\ dead = {} /\ leaked = {} /\ stuck = {}

\* DropAll gone wrong: the map is forgotten with its regions still named.
MutDropAllLeaks(shm, ovf) == shm

\* The names of the regions in a map of handles go when the map goes.
DropAll(shm, ovf) ==
    [i \in Slots |-> [m \in Markers |-> IF m = ovf[i] THEN None ELSE shm[i][m]]]
-----------------------------------------------------------------------------
\* dispatch() borrows the SlotBus: none starts once it is being dropped.  It does
\* not look at `running`.
StartCall(c) ==
    /\ bus \in {"up", "stopping", "stopped"}
    /\ Start(c)
    /\ UNCHANGED endVars

DispatchStep(c) == Dispatch(c) /\ UNCHANGED endVars

\* One step of an iteration of the watcher's loop.
WatchStep ==
    /\ watchLoop = "in"
    /\ Watcher
    /\ watchLoop' = IF watch' = "wait" THEN "check" ELSE "in"
    /\ UNCHANGED <<bus, worker, userArc, recvLoop, session, dead, leaked, stuck>>

\* The last Arc of the hub's maps is gone: the senders of the calls that are
\* still pending close their receivers, and the overflow regions lose their names.
HubMapsGo ==
    /\ pending' = {}
    /\ reqShm' = DropAll(reqShm, hubOvf)
    /\ hubOvf' = [i \in Slots |-> 0]

\* WatchCheck gone wrong: `running` is tested by no one after the first time.
MutWatchNeverChecks ==
    /\ watchLoop = "check"
    /\ watchLoop' = "in"
    /\ UNCHANGED <<vars, bus, worker, userArc, recvLoop, session, dead, leaked, stuck>>

\* The test of `running` at the head of the loop; the thread that leaves drops
\* its Arcs of the maps.
WatchCheck ==
    /\ watchLoop = "check"
    /\ watchLoop' = IF bus = "up" THEN "in" ELSE "exited"
    /\ IF bus = "dropped" THEN HubMapsGo ELSE UNCHANGED <<pending, reqShm, hubOvf>>
    /\ UNCHANGED <<slotVars, rspShm, reqEvent, rspEvent, dispVars, got, watchVars, workerVars,
                   bus, worker, userArc, recvLoop, session, dead, leaked, stuck>>

\* SlotBus::stop(): `running` is cleared, then the watcher is woken.
BusStop ==
    /\ bus = "up"
    /\ bus' = "stopping"
    /\ UNCHANGED <<vars, watchLoop, worker, userArc, recvLoop, session, dead, leaked, stuck>>

BusStopSignal ==
    /\ bus = "stopping"
    /\ bus' = "stopped"
    /\ rspEvent' = Signal(rspEvent)
    /\ UNCHANGED <<slotVars, reqShm, rspShm, reqEvent, hubVars, workerVars,
                   watchLoop, worker, userArc, recvLoop, session, dead, leaked, stuck>>

\* Drop of SlotBus: nobody borrows it any more.
BusDrop ==
    /\ bus \in {"up", "stopped"}
    /\ \A c \in Calls : disp[c] \in {"idle", "rejected", "error", "returned"}
    /\ bus' = "dropping"
    /\ UNCHANGED <<vars, watchLoop, worker, userArc, recvLoop, session, dead, leaked, stuck>>

\* BusDropSignal gone wrong: the watcher is left to its timeout.
MutDropWithoutSignal ==
    /\ bus = "dropping"
    /\ bus' = "dropped"
    /\ IF watchLoop = "exited" THEN HubMapsGo ELSE UNCHANGED <<pending, reqShm, hubOvf>>
    /\ UNCHANGED <<slotVars, rspShm, reqEvent, rspEvent, dispVars, got, watchVars, workerVars,
                   watchLoop, worker, userArc, recvLoop, session, dead, leaked, stuck>>

\* The signal that ends Drop; then the fields go.  The maps survive as long as
\* the watcher has its Arcs.
BusDropSignal ==
    /\ bus = "dropping"
    /\ bus' = "dropped"
    /\ rspEvent' = Signal(rspEvent)
    /\ IF watchLoop = "exited" THEN HubMapsGo ELSE UNCHANGED <<pending, reqShm, hubOvf>>
    /\ UNCHANGED <<slotVars, rspShm, reqEvent, dispVars, got, watchVars, workerVars,
                   watchLoop, worker, userArc, recvLoop, session, dead, leaked, stuck>>
-----------------------------------------------------------------------------
\* A handler whose call of send_response() is not over; it has an Arc.
Handling(c) == hand[c] \in HandlingPc \cup {"published", "stored"}

HandlerStep(c) == c \notin dead /\ Handler(c) /\ UNCHANGED endVars

RecvStep ==
    /\ recvLoop = "in"
    /\ ReceiveLoop
    /\ recvLoop' = IF recv' = "wait" THEN "check" ELSE "in"
    /\ UNCHANGED <<bus, watchLoop, worker, userArc, session, dead, leaked, stuck>>

RecvCheck ==
    /\ recvLoop = "check"
    /\ recvLoop' = IF worker = "up" THEN "in" ELSE "exited"
    /\ UNCHANGED <<vars, bus, watchLoop, worker, userArc, session, dead, leaked, stuck>>

\* SlotWorker::stop(), called by the program or by a handler.
WorkerStop ==
    /\ worker = "up"
    /\ userArc \/ \E c \in Calls \ dead : Handling(c)
    /\ worker' = "stopping"
    /\ UNCHANGED <<vars, bus, watchLoop, userArc, recvLoop, session, dead, leaked, stuck>>

\* WorkerStopSignal gone wrong: the other event is signalled.
MutStopSignalsResponse ==
    /\ worker = "stopping"
    /\ worker' = "stopped"
    /\ rspEvent' = Signal(rspEvent)
    /\ UNCHANGED <<slotVars, reqShm, rspShm, reqEvent, hubVars, workerVars,
                   bus, watchLoop, userArc, recvLoop, session, dead, leaked, stuck>>

WorkerStopSignal ==
    /\ worker = "stopping"
    /\ worker' = "stopped"
    /\ reqEvent' = Signal(reqEvent)
    /\ UNCHANGED <<slotVars, reqShm, rspShm, rspEvent, hubVars, workerVars,
                   bus, watchLoop, userArc, recvLoop, session, dead, leaked, stuck>>

\* The program lets go of its Arc.
UserRelease ==
    /\ userArc
    /\ worker \in {"up", "stopped"}
    /\ userArc' = FALSE
    /\ UNCHANGED <<vars, bus, watchLoop, worker, recvLoop, session, dead, leaked, stuck>>

\* Drop of SlotWorker, in whichever thread lets go of the last Arc.
WorkerDrop ==
    /\ worker = "stopped"
    /\ ~userArc
    /\ recvLoop = "exited"
    /\ \A c \in Calls \ dead : ~Handling(c)
    /\ worker' = "dropped"
    /\ reqEvent' = Signal(reqEvent)
    /\ rspShm' = DropAll(rspShm, wkOvf)
    /\ wkOvf' = [i \in Slots |-> 0]
    /\ UNCHANGED <<slotVars, reqShm, rspEvent, hubVars, recvVars, handVars, seen, delivered,
                   bus, watchLoop, userArc, recvLoop, session, dead, leaked, stuck>>

\* The worker process is killed: its threads and handles are gone, what it wrote
\* to shared memory and the names of its regions stay (on Unix for good).
WorkerKill ==
    /\ worker \in {"up", "stopping", "stopped"}
    /\ worker' = "killed"
    /\ userArc' = FALSE
    /\ recvLoop' = "exited"
    /\ recv' = "wait"
    /\ rat' = 0
    /\ dead' = dead \cup {c \in Calls : Handling(c)}
    /\ leaked' = leaked \cup {im \in Slots \X Markers :
                    \/ wkOvf[im[1]] = im[2]
                    \/ \E c \in Calls \ dead : hat[c] = im[1] /\ hheld[c] = im[2]}
    /\ stuck' = {i \in Slots : status[i] = CLAIMED}
    /\ wkOvf' = [i \in Slots |-> 0]
    /\ UNCHANGED <<slotVars, osVars, hubVars, handVars, seen, delivered,
                   bus, watchLoop, session>>

\* WorkerOpen gone wrong: a new worker gives the claimed slots out again.
MutOpenRequeuesClaimed ==
    /\ worker \in {"dropped", "killed"}
    /\ bus # "dropped"
    /\ session < MaxSessions
    /\ session' = session + 1
    /\ worker' = "up"
    /\ userArc' = TRUE
    /\ recvLoop' = "check"
    /\ status' = [i \in Slots |-> IF status[i] = CLAIMED THEN READY ELSE status[i]]
    /\ UNCHANGED <<reqId, reqMarker, rspMarker, reqArena, rspArena, osVars, hubVars, workerVars,
                   bus, watchLoop, dead, leaked, stuck>>

\* WorkerOpen gone wrong: a new worker starts with an event that is not set.
MutOpenResetsEvent ==
    /\ worker \in {"dropped", "killed"}
    /\ bus # "dropped"
    /\ session < MaxSessions
    /\ session' = session + 1
    /\ worker' = "up"
    /\ userArc' = TRUE
    /\ recvLoop' = "check"
    /\ reqEvent' = 0
    /\ UNCHANGED <<slotVars, reqShm, rspShm, rspEvent, hubVars, workerVars,
                   bus, watchLoop, dead, leaked, stuck>>

\* SlotWorker::open and start_receive_loop: the slots are taken as they are.  Once
\* the SlotBus is dropped its request event is gone and open() fails.
WorkerOpen ==
    /\ worker \in {"dropped", "killed"}
    /\ bus # "dropped"
    /\ session < MaxSessions
    /\ session' = session + 1
    /\ worker' = "up"
    /\ userArc' = TRUE
    /\ recvLoop' = "check"
    /\ UNCHANGED <<vars, bus, watchLoop, dead, leaked, stuck>>

LifeNext ==
    \/ \E c \in Calls : StartCall(c) \/ DispatchStep(c) \/ HandlerStep(c)
    \/ WatchStep \/ WatchCheck
    \/ RecvStep \/ RecvCheck
    \/ BusStop \/ BusStopSignal \/ BusDrop \/ BusDropSignal
    \/ WorkerStop \/ WorkerStopSignal \/ UserRelease \/ WorkerDrop
    \/ WorkerKill \/ WorkerOpen

LifeSpec == LifeInit /\ [][LifeNext]_lifeVars

\* The threads run on, as in SlotBus, and a stop() or a drop that has begun
\* ends.  Whether anybody stops, drops, kills or reopens is up to the program.
LifeFairSpec ==
    /\ LifeSpec
    /\ \A c \in Calls : WF_lifeVars(DispatchStep(c)) /\ WF_lifeVars(HandlerStep(c))
    /\ WF_lifeVars(WatchStep \/ WatchCheck)
    /\ WF_lifeVars(RecvStep \/ RecvCheck)
    /\ WF_lifeVars(BusStopSignal \/ BusDropSignal)
    /\ WF_lifeVars(WorkerStopSignal \/ WorkerDrop)
-----------------------------------------------------------------------------
\* Who may be touching slot i in a process that is alive.
LiveAccessors(i) == Accessors(i) \ {<<"handler", c>> : c \in dead}

(***************************************************************************)
(* A killed worker costs exactly the slots it had claimed.  Such a slot    *)
(* stays Claimed for ever and nobody touches it again; every other slot in *)
(* Writing or Claimed still has somebody alive to move it on.              *)
(***************************************************************************)
StuckOnlyByKill ==
    \A i \in Slots :
        /\ status[i] \in {WRITING, CLAIMED} => (LiveAccessors(i) = {} <=> i \in stuck)
        /\ i \in stuck => status[i] = CLAIMED

\* The handles of the processes and maps that are still there.
HubMapsAlive == ~(bus = "dropped" /\ watchLoop = "exited")
LiveRequestHandles(i, m) ==
    RequestHandles(i, m) \ {<<"map", n>> : n \in {n \in {None} : ~HubMapsAlive}}
LiveResponseHandles(i, m) ==
    ResponseHandles(i, m) \ {<<"local", c>> : c \in dead}

(***************************************************************************)
(* Across stop, drop, kill and reopen every overflow region is either held *)
(* by one live handle or was leaked by a killed worker, and never both: a  *)
(* clean shutdown leaves no region behind, and a new worker does not adopt *)
(* or remove what a killed one left.                                       *)
(***************************************************************************)
RegionsAccountedFor ==
    \A i \in Slots : \A m \in Markers \ Orphans :
        /\ HeldOnce(LiveRequestHandles(i, m), reqShm[i][m] # None)
        /\ IF <<i, m>> \in leaked
           THEN LiveResponseHandles(i, m) = {} /\ rspShm[i][m] # None
           ELSE HeldOnce(LiveResponseHandles(i, m), rspShm[i][m] # None)

(***************************************************************************)
(* Stopping, dropping and reopening lose no wakeup either: a worker that   *)
(* is stopped between two requests leaves the signal for the one after it, *)
(* and only the death of a worker can leave a request or a response in a   *)
(* slot with nothing but a timeout to find it.                             *)
(***************************************************************************)
OnlyKillLosesWakeup ==
    [][\/ WorkerKill
       \/ \A i \in Slots :
            /\ RequestNoticed(i) => RequestNoticed(i)'
            /\ ResponseNoticed(i, dead) => ResponseNoticed(i, dead)']_lifeVars

(***************************************************************************)
(* A stop() or drop is never slept through: once its signal is out, a loop *)
(* that is past its test of `running` finds a signal at the wait.          *)
(***************************************************************************)
StopNoticed ==
    /\ bus \in {"stopped", "dropped"} /\ watchLoop = "in" /\ watch = "wait" => rspEvent > 0
    /\ worker = "stopped" /\ recvLoop = "in" /\ recv = "wait" => reqEvent > 0

(***************************************************************************)
(* "The thread exits when the SlotBus is dropped" (start_response_watcher) *)
(* or stopped, and needs no timeout for it, wherever in its loop the stop  *)
(* finds it.                                                               *)
(***************************************************************************)
WatcherStops == bus # "up" ~> watchLoop = "exited"

(***************************************************************************)
(* Once the SlotBus is dropped every receiver that dispatch() handed out   *)
(* is resolved or closed: no caller waits for ever, whatever became of its *)
(* request.                                                                *)
(***************************************************************************)
ReceiversSettled ==
    bus = "dropped" ~> \A c \in Calls : disp[c] = "returned" => got[c] = c \/ c \notin pending

(***************************************************************************)
(* stop() ends the receive loop without the help of a timeout.             *)
(***************************************************************************)
ReceiveLoopStops == worker \in {"stopping", "stopped"} ~> recvLoop = "exited"
=============================================================================
