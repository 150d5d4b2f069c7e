----------------------------- MODULE SlotBusInv -----------------------------
(***************************************************************************)
(* The inductive invariant behind the safety properties of SlotBus.  None  *)
(* of those properties is inductive alone: that nobody else touches a slot *)
(* follows from what each thread knows of the status word (the *Own*       *)
(* conjuncts), and that payloads are not mixed from what a status says of  *)
(* the bytes behind it (the *Content* conjuncts).  SlotBusOwnershipProofs  *)
(* and SlotBusPayloadProofs prove the parts of IInv inductive.             *)
(***************************************************************************)
EXTENDS SlotBus

Busy == {READY, CLAIMED, DONE}

\* --- what a thread at some point of its code knows of the status word ---

\* A dispatch() that has reserved a slot is alone in Writing there.
WritersOwn ==
    \A c \in Calls : disp[c] \in WritingPc =>
        /\ status[at[c]] = WRITING
        /\ \A d \in Calls : disp[d] \in WritingPc /\ at[d] = at[c] => d = c

\* The receive loop, about to read, has claimed a slot nobody was given yet.
RecvOwns ==
    recv = "read" => status[rat] = CLAIMED /\ hand[reqArena[rat]] = "none"

\* A handler that has not answered yet still has its call's slot claimed.
HandlersOwn ==
    \A c \in Calls : hand[c] \in HandlingPc =>
        status[hat[c]] = CLAIMED /\ reqArena[hat[c]] = c

\* The watcher looks only into slots that stay Done under it.
WatcherOwns ==
    watch \in {"read", "release"} => status[wat] = DONE

\* --- what a status word says of the slot ---

\* A slot in Writing is some dispatch()'s.
WritingContent ==
    \A i \in Slots : status[i] = WRITING =>
        \E c \in Calls : disp[c] \in WritingPc /\ at[c] = i

\* A slot from Ready to Done carries one call, the one that published it there.
BusyContent ==
    \A i \in Slots : status[i] \in Busy =>
        /\ reqArena[i] \in Calls
        /\ disp[reqArena[i]] \in PublishedPc
        /\ at[reqArena[i]] = i
        /\ reqId[i] \in {None, reqArena[i]}

\* The region it points to, if it is still there, is that call's.
RequestContent ==
    \A i \in Slots : status[i] \in Busy /\ reqMarker[i] # 0 =>
        reqShm[i][reqMarker[i]] \in {None, reqArena[i]}

\* A Ready slot has not been given to a handler yet.
ReadyContent ==
    \A i \in Slots : status[i] = READY => hand[reqArena[i]] = "none"

\* Slot i is with the receive loop or with the handler of the call it carries;
\* handlers of the calls in D do not count.
Tended(i, D) ==
    \/ recv = "read" /\ rat = i
    \/ reqArena[i] \notin D /\ hand[reqArena[i]] \in HandlingPc /\ hat[reqArena[i]] = i

\* A Claimed slot has somebody to free it.  This is all that the death of a
\* worker would break, so it is kept apart from the rest.
ClaimedContent == \A i \in Slots : status[i] = CLAIMED => Tended(i, {})

\* A Done slot carries the answer to its call.
DoneContent ==
    \A i \in Slots : status[i] = DONE =>
        /\ hand[reqArena[i]] \in {"published", "stored", "sent"}
        /\ rspArena[i] = reqArena[i]
        /\ rspMarker[i] # 0 => rspShm[i][rspMarker[i]] \in {None, rspArena[i]}

\* --- payloads that were written but not published yet ---

WrittenSlot ==
    \A c \in Calls : disp[c] = "written" =>
        reqArena[at[c]] = c /\ reqId[at[c]] \in {None, c}

WrittenRequest ==
    \A c \in Calls : disp[c] = "written" /\ reqMarker[at[c]] # 0 =>
        reqShm[at[c]][reqMarker[at[c]]] \in {None, c}

WrittenResponse ==
    \A c \in Calls : hand[c] = "written" =>
        /\ rspArena[hat[c]] = c
        /\ rspMarker[hat[c]] # 0 => rspShm[hat[c]][rspMarker[hat[c]]] \in {None, c}

\* --- calls ---

\* Before its request is published nothing was delivered for a call.
UnpublishedUnseen ==
    \A c \in Calls : disp[c] \notin PublishedPc => hand[c] = "none"

\* A request was delivered once when it has a handler, and never otherwise.
DeliveredOnce ==
    \A c \in Calls : delivered[c] = IF hand[c] = "none" THEN 0 ELSE 1

\* The response in the watcher's hands is that of the call whose id it has.
WatcherConsistent ==
    watch \in {"release", "drop", "resolve"} /\ wid \in Calls => wrsp \in {None, wid}

OwnershipInv ==
    /\ WritersOwn
    /\ RecvOwns
    /\ HandlersOwn
    /\ WatcherOwns
    /\ WritingContent
    /\ BusyContent
    /\ ReadyContent
    /\ WrittenSlot
    /\ UnpublishedUnseen

PayloadInv ==
    /\ RequestContent
    /\ DoneContent
    /\ WrittenRequest
    /\ WrittenResponse
    /\ DeliveredOnce
    /\ WatcherConsistent
    /\ RequestIntact
    /\ ResponseMatches

(***************************************************************************)
(* The inductive invariant: who owns a slot, and what its bytes are.       *)
(***************************************************************************)
IInv == TypeOK /\ OwnershipInv /\ ClaimedContent /\ PayloadInv
-----------------------------------------------------------------------------
(***************************************************************************)
(* Who holds which overflow region, for one direction: shm names regions,  *)
(* ovf is the map of that side, the call c has the local handle loc[c] on  *)
(* a region of slot[c], and the names in B are burnt: nobody holds them.   *)
(* What is said of burnt names makes it inductive.                         *)
(***************************************************************************)
MapHandles(shm, ovf, B) ==
    \A i \in Slots : ovf[i] # 0 => <<i, ovf[i]>> \notin B /\ shm[i][ovf[i]] # None

LocalHandles(shm, ovf, slot, loc, B) ==
    \A c \in Calls : loc[c] # 0 =>
        /\ <<slot[c], loc[c]>> \notin B
        /\ shm[slot[c]][loc[c]] # None
        /\ ovf[slot[c]] # loc[c]
        /\ \A d \in Calls \ {c} : slot[d] = slot[c] => loc[d] # loc[c]

NamesHeld(shm, ovf, slot, loc, B) ==
    \A i \in Slots : \A m \in Markers : shm[i][m] # None /\ <<i, m>> \notin B =>
        ovf[i] = m \/ \E c \in Calls : slot[c] = i /\ loc[c] = m

BurntKept(shm, B) ==
    \A i \in Slots : \A m \in Markers : <<i, m>> \in B =>
        shm[i][m] # None /\ (m \in Orphans => shm[i][m] = Mixed)

HandleTable(shm, ovf, slot, loc, B) ==
    /\ MapHandles(shm, ovf, B)
    /\ LocalHandles(shm, ovf, slot, loc, B)
    /\ NamesHeld(shm, ovf, slot, loc, B)
    /\ BurntKept(shm, B)

\* A local handle exists from the creation of the region to the bookkeeping.
LocalsInUse ==
    /\ \A c \in Calls : held[c] # 0 => disp[c] \in {"written", "published"}
    /\ \A c \in Calls : hheld[c] # 0 => hand[c] \in {"written", "published"}

MarkersLive == \A i \in Slots : reqMarker[i] \notin Orphans /\ rspMarker[i] \notin Orphans

\* The names of the orphans, which are burnt from the start.
OrphanNames == Slots \X Orphans

\* The local handles of the handlers that are alive: those of D are not.
LiveLocals(D) == [c \in Calls |-> IF c \in D THEN 0 ELSE hheld[c]]

\* With the handlers of D dead and the response regions in B burnt on the way.
HandleInv(D, B) ==
    /\ HandleTable(reqShm, hubOvf, at, held, OrphanNames)
    /\ HandleTable(rspShm, wkOvf, hat, LiveLocals(D), OrphanNames \cup B)
    /\ LocalsInUse
    /\ MarkersLive

\* --- the pending map ---

\* A dispatch() that has put its entry in the map.
RegisteredPc == {"registered", "returned"}

\* The id the watcher has read is still the slot's.
IdCurrent == watch = "release" => wid = reqId[wat]

\* The call the watcher is about to resolve has left its slot.
TakenOut ==
    watch \in {"drop", "resolve"} /\ wid \in Calls =>
        /\ disp[wid] \in PublishedPc
        /\ \A i \in Slots : status[i] \in Busy => reqArena[i] # wid

WatcherInv == IdCurrent /\ TakenOut

\* An entry stays as long as its request or its answer is in a slot, and until
\* the watcher has resolved it.  (While the hub keeps its maps.)
BusyPending ==
    \A i \in Slots : status[i] \in Busy /\ disp[reqArena[i]] \in RegisteredPc =>
        reqArena[i] \in pending

TakenPending ==
    watch \in {"drop", "resolve"} /\ wid \in Calls /\ disp[wid] \in RegisteredPc =>
        wid \in pending

PendingInv == BusyPending /\ TakenPending
=============================================================================
