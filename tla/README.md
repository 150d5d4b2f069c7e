# TLA+ models of slotbus

slotbus lets a *hub* process send requests to a *worker* process through shared
memory. This directory holds TLA+ modules that model its protocol, TLC
configurations that check them on small instances, and proofs checked by TLAPS.
File names below without a path are under `src/slotbus/src/`.

## 1. Inventory of the system

| component | state it keeps | operations | properties that make it correct |
|---|---|---|---|
| slot layout (`types.rs`, `region.rs`) | none: offsets computed from `num_slots` and `region_size` | `compute_layout`, `arena_size`, `slot_arenas`, `arena_body_offset`, `inline_body_capacity`, the checked heap accesses | payloads never overlap, pointers stay in the mapping, the reported capacity is right |
| slots (`region.rs`) | per slot a status word, id, pointers, arenas | `claim_free_slot`, `write_request`, `read_request`, `write_response`, `read_response` | a slot is used by one thread at a time; no slot is stranded |
| control region handshake (`region.rs`) | the header, the name of the region | `create_or_open`, `open`, `init_control`, `validate_control` | no header promises more than the mapping; a worker gets the hub that is there |
| overflow regions (`region.rs`, `types.rs`) | named OS objects, a marker in the slot | `create_overflow_fresh`, `read_overflow`, dropping a handle | every region has one handle; a reader finds the region its marker means; orphans cost only their own names |
| reclaim (`region.rs`) | files of the platform | `reclaim_orphaned_backing_file` | only orphans are removed |
| named events (`events.rs`) | an auto-reset event (Windows) or a semaphore (POSIX), and its name | `create`, `open`, `signal`, `wait_timeout`, drop | no wakeup is lost; the names lead to the events in use |
| `SlotBus` (`transport.rs`) | `pending`, `overflow_regions`, `running` | `create`, `dispatch` (any thread), the response watcher (one thread), `stop`, drop | a receiver gets the answer to its own call; the watcher ends |
| `SlotWorker` (`transport.rs`) | `overflow_regions`, `running` | `open`, the receive loop (one thread), `send_response` (any thread), `stop`, drop | a request is delivered intact and at most once; the loop ends |
| configuration (`config.rs`) | none | builder, OS names | names do not collide |

The components meet in the control region, in the OS names and in the two
events. The hub claims a slot (`Free` to `Writing`), writes a request and stores
`Ready`; the worker's loop exchanges `Ready` for `Claimed` and calls a handler;
`send_response` writes the answer and stores `Done`; the hub's watcher reads it,
exchanges `Done` for `Free` and resolves the caller's oneshot. There is no lock
across the processes: only the status word orders the plain accesses to a slot,
and only the names in the operating system bring two processes together.

What is hard: all those threads interleave; each of `dispatch` and
`send_response` does its private bookkeeping (the `pending` map, the overflow
handle) *after* it has published the slot, when the slot may already be
somebody else's; events merge; waits time out; writes fail half-way; generations
of overflow names run out; processes are killed and leave slots and names
behind; a predecessor lets go of names that its successor already uses; the
header is written and read without any order. `PROJECT.json` lists these hazards
at their lines, with the properties that cover each.

## 2. Modules

| module | models |
|---|---|
| `SlotLayout` | the layout arithmetic, as operators |
| `SlotHeap` | the arenas of all slots as writers fill them: inline, empty or spilled payloads in both directions |
| `BusState` | constants, variables, types, initial state and shared helpers of a connection |
| `HubSide` | `dispatch` and the response watcher |
| `WorkerSide` | the receive loop and `send_response` |
| `SlotBus` | the composition of the two sides, its fairness and its properties |
| `SlotBusInv` | the inductive invariants of `SlotBus` |
| `RequestReply` | the abstract service: calls are asked, served, replied, received, or refused or lost |
| `SlotProtocol` | the slots as the two processes rely on them: mailboxes that go round `Free`, `Writing`, `Ready`, `Claimed`, `Done` and carry one request and its answer |
| `Lifecycle` | `SlotBus` with `stop`, drop, the death of the worker and a new worker on the same region |
| `LifecycleInv` | the inductive invariant of `Lifecycle` |
| `NamedRegions` | named shared memory on Windows and Unix: create, open, reclaim, close, be killed |
| `OverflowNames` | the loop of `create_overflow_fresh` over generations, with readers, dropped and killed creators |
| `Attach` | `SlotBus::create` and `SlotWorker::open` step by step, with predecessors that were dropped or killed |
| `MCSlotHeap`, `MCSlotBus`, `MCLifecycle`, `MCOverflowNames`, `MCAttach` | instances for TLC |
| `SlotLayoutProofs`, `SlotBusOwnershipProofs`, `SlotBusBookkeepingProofs`, `SlotBusPayloadProofs`, `LifecycleProofs`, `NamedRegionsProofs`, `OverflowNamesProofs`, `AttachProofs` | theorems and proofs |

`SlotBus` EXTENDS both sides over `BusState`, and `Lifecycle` EXTENDS `SlotBus`,
so that its threads are exactly those of `SlotBus`. `OverflowNames` and `Attach`
are both built from the parts of actions in `NamedRegions`; `Attach` also uses
`SlotLayout` for the header.

Operators whose names begin with `Mut` are deliberately wrong variants of the
definition that follows them (a forgotten reset, a swapped order). They are not
part of any specification: each documents an error that one of the properties
has been seen to catch.

### One connection: `SlotBus`

* `status`, `reqId`, `reqMarker`, `rspMarker`: the fields `status`, `req_id`,
  `body_overflow`, `resp_body_overflow` of `SlotMeta`. `reqArena` and `rspArena`
  stand for the pointers and bytes of one direction: the call whose metadata
  (and inline body) were last written there. That two slots or directions do not
  share bytes is what `SlotHeap` shows.
* `reqShm`, `rspShm`: the overflow regions by slot and marker; `None` means that
  the name does not exist. A marker m is generation m - 1.
* `hubOvf`, `wkOvf`: the two `overflow_regions` maps; `held`, `hheld`: a handle
  that is still a local variable. `pending`, `got`: the pending map and what
  each oneshot was resolved with.
* `disp`, `watch`, `recv`, `hand`: program counters of `dispatch`, of the two
  loops and of each handler; `at`, `wat`, `rat`, `hat` the slots they are at.
* `delivered` and `seen` are history: how often and with what a handler was
  called.

An action is one access that other threads can observe: one atomic operation on
a status word, one critical section of a mutex, one operation on a named object
or event, or the copying of a payload into or out of a slot. The copying is a
single step, which `SlotAccessExclusive` justifies: nobody else is in the slot.
`create_overflow_fresh` is a single step here and a loop in `OverflowNames`. The
single step takes the lowest free name. Where three calls meet in one slot it may
take any free name: two of them may release their regions, the lower name first,
while the loop of the third is between the two, which with two calls cannot
happen. Failing needs no such case: one call at a time creates names of a slot,
so all that the loop finds taken were taken when it began. The runs have two
calls; the proofs cover both cases.

Two abstract specifications are instantiated here. `RequestReply` is what a
caller sees; its state is computed by `Phase`. `SlotProtocol` is what one process
may expect of a slot the other has left: from `Ready` to `Free` its id, arena and
marker (`CarriedRequest`) do not change, `Done` is stored only over the request
it answers (`CarriedAnswer`), and no call is put in a slot twice. Between `Free` and
`Ready` the bytes are the writer's own business and the mailbox counts as empty.

`RequestNoticed` and `ResponseNoticed` say, for one slot, that whoever should look
at it will: a signal is pending, or the thread that filled the slot has still to
send it, or the loop is on its way to the slot in the present scan.

### Its end and a new worker: `Lifecycle`

`bus` and `worker` follow the two objects through `stop` and drop, each of which
is two steps in the code: the store to `running`, then the signal. `watchLoop`
and `recvLoop` say where a loop stands with its test of `running`: before it,
past it, or left. `userArc` is the program's `Arc<SlotWorker>`; the receive loop
and every handler have one too, and `WorkerDrop` happens when the last is gone.
The watcher holds the `Arc`s of the hub's maps, so these go (`HubMapsGo`) with
the bus or with the watcher, whichever is last, and the names of the regions in
them too. `WorkerKill` takes threads and handles away at any point and leaves
the slots and the names. `WorkerOpen` starts the next worker on the slots as they
are. `dead`, `leaked` and `stuck` are history: the handlers, regions and slots
the kills have cost; nothing depends on `leaked` and `stuck`, and `dead` says
only which handlers no longer run.

### Names: `NamedRegions`, `OverflowNames`, `Attach`

`windows` is chosen in `Init` and never changes: one run checks both platforms.
A region is a number, `denotes` what each name stands for. Dropping the owner's
handle removes the name; on Windows a region others still have open may instead
become `doomed`: nobody can open it any more and the name goes with the last
handle. A killed process removes nothing. `CanReclaim` is the exclusive open of
the backing file, which only Windows grants and only when no process has it open.

`OverflowNames` is about one slot and direction. Each creator runs the loop of
`create_overflow_fresh` attempt by attempt (`try`, `reclaim`, `retry`), fills the
region and publishes; a reader claims the slot, copies marker and length, and
opens by name later. Creators drop their connection or are killed at any time,
and several of them can be on the same names, as a hub and its successor are.
`own` and `alone` are history.

`Attach` has one process per call of `SlotBus::create` and per worker. The pc's
name the next call: `taken`, `retry`, `adopt` inside `create_or_open`, `mapped`
and `init` inside `init_control`, `req` to `rsp_open` inside the two
`NamedEvent::create`s. Drop begins with a step that lets go of nothing; then the
region and the two events are released one by one in any order, because the
region and the response event belong to the watcher thread as well and either
thread may be the last. A successor may be created once the request event, which
the watcher does not share, is gone. A worker whose `open` fails, or that goes
away, forgets what it had found out (`Forget`). The header is five words; while a
hub is in `init`, a read of one yields the old word, zero or the new one
(`WordsRead`), independently of any other word, and a hub killed there leaves any
mixture. `overlapped` (hubs created while a predecessor was still letting go) and
`met` (the hub that was up when a worker began to open) are history.

### Abstractions

* A payload is the call it belongs to and one of three sizes: *inline* (an empty
  body included), *spill*, *oversize* (metadata longer than the half, refused).
  `SlotLayout!Placement` is where the sizes come from. A reader that joins
  metadata of one call and a body of another gets `Mixed`; one whose overflow
  region is gone gets `None`.
* The atomics are sequentially consistent. Every status access that guards data
  is Acquire, Release or both in the code, and all data of a slot are ordered by
  its own status word, so weaker orders would add nothing between two slots that
  the properties tell apart. The header, which is plain memory, is not treated
  so: see `WordsRead`.
* Every call has its own id. `LongIds` are the calls whose id exceeds 36 bytes
  and is cut in the slot (`region.rs:762`).
* A handler runs on its own: it may answer on the receive thread or on another,
  as `tests/roundtrip.rs` does. It calls `send_response` once.
* In `SlotBus`, `Orphans` are names left by killed processes that nothing
  reclaims (always so on Unix), and a name vanishes with its creator's handle;
  what Windows adds is in `OverflowNames`.
* In `Attach`, one connection has one hub at a time (`transport.rs:65`: "Create
  one `SlotBus` per connected worker"): the next is created when the last was
  dropped, has failed or is dead.
* Serialization does not fail. Offsets are natural numbers (regions below 4 GB).

## 3. Runs

| run | instance | what it shows |
|---|---|---|
| `heap` | 2 slots, 85-byte heap: arenas of 40 (2 bytes left over), halves of 16 and 24; metadata 0, 3, 16, 17, bodies 0, 8, 13 | `PayloadsDisjoint`, `BodyClearOfMeta`, `PointersReadable`, `CapacityHonest`, and the invariant the proof uses |
| `bus_safety` | 2 calls, 2 slots, all sizes both ways, marker 1 an orphan and marker 2 free, semaphores, timeouts | the ten safety properties and the inductive invariant |
| `bus_live` | 3 calls, 2 slots, inline requests and refused writes, inline responses, auto-reset events, no timeouts, one over-long id | no loop sleeps on a slot that waits for it (`NoLostWakeup`); every reserved slot becomes free again (`SlotRecycled`); a call passes over, and in the end is refused for, only slots occupied by others (`RefusedOnlyUnderLoad`); `RequestReply` is implemented |
| `lifecycle` | 2 calls, 1 slot, spilled bodies both ways, 2 workers in turn, any of stop, drop and kill | what a killed worker costs is exactly its claimed slots and unreleased regions; a clean shutdown leaves nothing; a stop is never slept through (`StopNoticed`) and only a kill loses a wakeup (`OnlyKillLosesWakeup`); the slot implements `SlotProtocol` throughout; and the invariant the proof uses, which holds that nothing is delivered twice |
| `life_live` | 2 calls, 1 slot, spilled requests, spilled and refused responses, one over-long id, 1 worker, no timeouts | the watcher ends after `stop` or drop of the bus, the receive loop after `stop` of the worker; after drop of the bus every receiver is resolved or closed |
| `attach` | 2 hubs in turn, each 1 or 2 slots in 200 or 400 bytes; 1 worker; both platforms | headers are honest, workers stay in their mapping, hubs are reachable, a worker gets the hub that was up, live regions keep their names |
| `overflow_names` | 2 creators, 1 reader, 2 generations, 4 regions, bodies of one and of two pages; both platforms | no write leaves its mapping, slow readers are served, orphans cost exactly their names |
| `stale_reader` | 1 creator, 1 reader, 2 generations | violated, see below |
| `receiver_resolves` | 2 calls, inline, no timeouts | violated, see below |
| `request_overflow`, `response_overflow` | 2 calls, 1 slot | violated, see below |
| `heap_wide` | 4 slots in 1 MB | violated, see below |

Why these bounds are enough for the questions asked.

* Two calls over two slots are the least for which one slot has two occupants in
  turn while the other is busy, both loops go round more than one slot, and an
  answer could cross over. With one of two markers burnt by an orphan, a handle
  that lingers exhausts the generations, so the failure path of
  `create_overflow_fresh` is taken. `Timeouts` adds spurious wakeups, which
  subsume every late or repeated signal; the liveness run takes them away so
  that nothing hides a lost wakeup, and uses the auto-reset event, which merges
  signals (the counting semaphore can only wake more often). The symmetry of the
  calls is used for invariants only.
* `bus_live`: with three calls over two slots a call finds both occupied, a slot
  may be freed behind its scan, and a slot that a failed write has kept would
  cost the next call its place. A third call and spilled bodies at once are more
  than TLC can check in minutes, so nothing is spilled here and no request is
  discarded. That a discarded request, or a response that could not be written,
  leaves no slot behind is checked by `NoAbandonedSlot` in `bus_safety` and
  `StuckOnlyByKill` in `lifecycle`.
* `SlotProtocol` is about each slot by itself, and its marker and the stale
  contents of a slot matter most, so it is checked where bodies spill and workers
  follow each other, in `lifecycle`.
* `lifecycle`: with one slot the second call meets whatever the first or a kill
  has left there, and is refused when it is stuck. Two sessions are one kill or
  drop and one successor. Two markers let the response of the second worker find
  the leaked region of the first.
* `life_live`: with spilled requests late bookkeeping takes away the region of a
  waiting request, so the receive loop discards it; a response that is not
  written, an id that is cut and a kill leave a call without an answer in three
  more ways. `ReceiversSettled` has to hold for all of them.
* `attach`: two hubs are one predecessor, dropped or killed anywhere, and one
  successor that adopts, reclaims or creates. 1 or 2 slots in 200 or 400 bytes
  give a successor that fits the mapping it adopts, one that does not, one whose
  layout fits only the larger mapping it adopts and not its own size, a heap of 8
  bytes and one of none, and headers with different words, so that a torn one is
  told apart.
* `overflow_names`: two generations are the least for which a name is skipped,
  and exhausting them is possible; two creators can race for one name; four
  regions let each of them start over. The bound `MaxRegions` stops the run, not
  the code. 4000 and 5000 bytes round to different mappings.

A connection whose calls are all finished, or whose regions are used up, stops,
so deadlock is checked in the heap run only.

### Fairness

`FairSpec` asks weak fairness of each `dispatch` that was called, of each
handler, of the watcher and of the receive loop: these are OS threads that never
wait for one another except through events, and a handler "must call
`send_response` when done" (`transport.rs:431`). Nothing is assumed about
whether `dispatch` is called. `LifeFairSpec` asks the same of the threads, and
that a `stop` or a drop that has begun ends; nobody is obliged to stop, drop or
kill anything, or to open a worker again. Weak fairness is enough: once a thread
can step, no other thread can take that step away, except by ending the process.

### Disagreements with the documentation

1. `ReceiverResolves`: the receiver returned by `dispatch` "resolves when the
   worker responds". Not if the response arrives between the store of `Ready` and
   the insertion in `pending`: the answer is dropped, the receiver waits until
   the bus is dropped. `OnlyLateRegistrationLosesAnswer` shows that this window is
   the only way in which an answer that was read, for an id that fits, is lost.
2. `RequestOverflowAlive` and 3. `ResponseOverflowAlive`: the handle of an
   overflow region is put in a map under the slot's index after the slot was
   published; by then the slot may have a new occupant, whose handle is dropped.
   The reader then fails and the call is never answered. What does hold is
   `RequestIntact` and `ResponseMatches`: nobody gets wrong bytes.
4. `NewRegionNeverHanded`: `src/README.md:264` says that a slow reader "can never
   be handed a *new* region created for a reused slot under the same name".
   Generations start at 0 for every payload, so after a hub was dropped and made
   again the first spilled request takes the name a reader of the old connection
   has in its hands. What does hold is `SlowReaderServed`: as long as the creator
   keeps its region, the reader gets that region and no other, which is what
   `tests/stress.rs:850` tests.
5. `MetaLengthRecorded`: metadata of 64 KB and more fit a large arena but not the
   16-bit length field.

Three texts are imprecise in a way no run is needed for:

* "no free slots available (all {0} slots in use)" (`error.rs:17`): the scan looks
  at one slot after the other, so each slot was in use when it was looked at, but
  not all need to have been at one time. `RefusedOnlyUnderLoad` is stated so.
* `SlotWorker::stop` is "Called automatically when the `SlotWorker` is dropped"
  (`transport.rs:506`), and its drop signals "to wake the receive loop"
  (`transport.rs:516`). The receive loop's closure owns an `Arc` of the worker, so
  the worker is not dropped while the loop runs: a program that lets go of its
  own `Arc` without `stop` leaves the loop running. This is the guard of
  `WorkerDrop`; `ReceiveLoopStops` speaks of `stop` only.
* `SlotBus::stop` "Signal[s] the response watcher and receive loops to stop"
  (`transport.rs:286`): it reaches the watcher only, as `BusStop` models it. The
  receive loops have a `running` of their own in the worker.

`HubReachable` and `AttachedToHubThatWasUp` except the hubs in `overlapped`: drop
of a `SlotBus` returns before its watcher has let go of the region and the
response event, and a successor created in that window loses its names when the
watcher ends. No text promises otherwise, so this is a hazard of the list and
not a disagreement.

## 4. Proofs

All theorems hold for every value of the constants that the named assumptions
admit: `GeometryAssumption` (at least one slot, natural lengths), `BusAssumption`
(at least one slot, orphans among the markers, `None` and `Mixed` are no calls),
`RegionsAssumption`, `OverflowAssumption` and `AttachAssumption` (names and kinds
of processes as the code has them, `NoProc` is none of them). None limits the
number of calls, slots, markers, processes, regions, generations or bytes.

**Heap** (`SlotLayoutProofs`). `HeapInv` says of every half that it holds one
payload placed from its base and within its size; it is inductive because a
write touches one half. The four properties follow from it by arithmetic:
`ArenaSizeFacts` (the arenas together fit the heap), `HalfFacts` (the halves make
up the arena, both multiples of 8), `HalvesInHeap`, `HalvesDisjoint` and
`Align8Facts` (a half is a multiple of 8, so aligning metadata that fits does not
leave it).

**Connection** (`SlotBusOwnershipProofs`, `SlotBusBookkeepingProofs`,
`SlotBusPayloadProofs`). None of the safety
properties is inductive. The invariants of `SlotBusInv` are layers, each proved
inductive over the ones before it:

1. `TypeOK`.
2. `OwnershipInv`: each thread between its claim and its publication knows the
   status word of its slot (`WritersOwn`, `RecvOwns`, `HandlersOwn`,
   `WatcherOwns`), and each status says who is there (`WritingContent`,
   `BusyContent`, `ReadyContent`). A slot from `Ready` to `Done` carries exactly
   the call that published it, which makes two handlers in one slot impossible.
   `SlotAccessExclusive` and `WatcherCasSucceeds` follow. `ClaimedContent`, that
   somebody tends each claimed slot, is kept apart, because it is all that the
   death of a worker breaks; with it `NoAbandonedSlot` and `RefusedOnlyUnderLoad`
   follow.
3. `HandleInv`: the map and the locals of one direction hold different handles on
   regions that exist and are no orphans, and every other name is free or burnt.
   It is stated once for both directions (`HandleTable`), and with two parameters
   for `Lifecycle`: the handlers that are dead and the names they have burnt.
   `EveryRegionHeldOnce` and `OrphansLeftAlone` follow.
4. `WatcherInv`: the call whose answer the watcher has in its hands has left its
   slot. `PendingInv`: an entry of the pending map stays as long as its request or
   its answer is in a slot or in the watcher's hands.
   `OnlyLateRegistrationLosesAnswer` follows.
5. `PayloadInv`: the region a slot points to is gone or is that of the call in
   its arena (`RequestContent`, `DoneContent` and their not-yet-published forms),
   a handler exists exactly when the request was delivered once, and the watcher
   holds the answer to the id it holds. `RequestIntact`, `ResponseMatches` and
   `AtMostOnceDelivery` follow, and `IInv` is the conjunction with 1 and 2.

`ConnectionImplements` is the refinement: `Spec` implies `RR!Spec`, with the phase
of a call computed from slots, watcher and receivers (`Phase`). Under `IInv` and
`WatcherInv` a
step of the connection changes the phase of at most one call, and that as the
service allows; the steps that publish, claim, answer, free, read and resolve are
looked at one by one, for all others the phases do not change.

`SlotsImplement` is the second refinement, `Spec` implies `SP!Spec`. A step that
turns no status word leaves every mailbox alone (`NoSlotTurns`): by
`OwnershipInv` whoever writes plain bytes is in a slot whose status makes them
its own. A step that turns one slot is that slot's step of `SlotProtocol`
(`OneSlotTurns`), because what is carried depends on the slot itself only
(`CarriedSame`); a call is published once because `dispatch` passes its program
counters once, and a marker cannot change under a reader.

**Wakeups** (end of `SlotBusBookkeepingProofs`). `NoLostWakeup` is inductive over
`TypeOK` and `OwnershipInv`. A signal that a wait consumes is replaced by the
scan that follows (`RecvWillPass`, `WatchWillPass`), a slot the scan has passed by
the signal of whoever fills it later, and a pending signal stays pending, merged
or counted (`SignalPending`); the `Wake...` lemmas take the threads one by one.
`OwnershipInv` is needed to know that the call in the arena of a `Ready` slot is
the one whose `dispatch` has still to signal. This is the safety half of
`SlotRecycled`; `NoAbandonedSlot` is the other: a slot is either tended by a
thread, or noticed.

**Ends and new workers** (`LifecycleProofs`). A step is either one of `SlotBus` by
somebody alive, for which the lemmas above are cited with the dead handlers taken
out (`ConnectionSteps`), or one that ends or opens something and leaves slots and
calls alone (`EndSteps`). `LifeInv` keeps `OwnershipInv`, `PayloadInv` and
`WatcherInv` as they are. It replaces `ClaimedContent` by `StuckInv`: the slots in
`stuck` are `Claimed` and nobody alive is near them, every other claimed slot is
tended by somebody alive. It holds `PendingInv` only as long as the hub has its
maps, which is when `GoneInv` takes over. `LeakInv` is `HandleInv` with the
handlers in `dead` dead and the regions in `leaked` burnt: a kill moves every
handle of the worker there at once, a drop removes the names of a whole map
(`HandlesDropAll`). `QuietInv` says that a bus being dropped is not borrowed.
`LifeRefusedUnderLoad` is `RefusedUnderLoad` with the kills: `PassedNotFree` finds
that a slot passed over was not free, and `TakenOccupied` that a slot that is not
free and not stuck has somebody alive in it.
All safety properties of the `lifecycle` run follow, and so do `LifeDeliveredOnce`,
`LifeImplements` and `LifeSlotsImplement`: what `SlotBus` shows of a connection
without an end is kept through stop, drop, kill and reopen. Of these three the
`lifecycle` run checks only the last.

What an end does to wakeups is an action property and an invariant.
`WakeupsOutliveStops`: a slot that is noticed stays noticed in every step but
`WorkerKill`. No invariant would do, as a kill may take away a handler that has
stored `Done` and not yet signalled; the slot is then found by the next signal or
timeout. In `OnlyKillLosesWakeup` the dead handlers therefore do not count as
signallers. `StopsNoticed`: once `stop` or drop has signalled, a loop that is past
its test of `running` finds a signal at its wait, with no timeout needed; a scan
in between returns to the test. `GoneHubKeepsNobody`: when the bus and its watcher
are gone the pending map is empty, and no thread is left to fill it (`GoneInv`).

**Overflow names** (`NamedRegionsProofs`, `OverflowNamesProofs`). The lemmas of
`NamedRegionsProofs` say what create, open, reclaim, close and kill do to each
name and owner, so that the two models above it never unfold them. `RegionInv`:
a creator past its loop holds the region its generation names, owns it and has
filled it when it is published; what a reader copied is true of the region while
its creator has it. `AloneInv` says that a creator nobody interferes with has
found orphans only. All four properties of the run are proved.

**Handshake** (`AttachProofs`). `HeaderInv` makes the honesty of a header a fact
about single words (`WordsFit`): a non-zero magic means that the mapping holds a
header, a non-zero `num_slots` that it holds that many slots. That survives a
half-written header and a torn read, which no statement about whole headers
would. `ReachInv`: one hub at a time is active; one outside `overlapped` has no
predecessor still letting go; whoever owns a region still maps it, so nobody else
can take the name away; and a worker that met a hub has got, word by word and
event by event, what that hub has. All six properties of the run are proved.

Each step lemma has one step per action and one under it per conjunct that the
action can disturb.

**Model-checked only.** The liveness properties (`SlotRecycled`, `WatcherStops`,
`ReceiversSettled`, `ReceiveLoopStops`): liveness under fairness is out of the
prover's reach. What is proved is the safety core of each, the facts from which it
follows by fairness alone: `NoAbandonedSlot` and `NoLostWakeup` for
`SlotRecycled`, `StopNoticed` for `WatcherStops` and `ReceiveLoopStops`,
`GoneHubKeepsNobody` for `ReceiversSettled`. Every invariant, action property and
refinement that a passing run checks is also proved.

## 5. Not modelled

* **Worker and hub restarts crossing over.** `Lifecycle` has a new worker on old
  slots, `Attach` a new hub on old names. A worker of the old hub that answers
  into slots the new one has zeroed is in neither: the product of the two is
  beyond TLC's reach, and nothing in the code prevents or detects it. Likewise
  two live workers, or two live hubs, on one region.
* **Callers that break the contract**: two calls in flight with one `req_id` (the
  field holds UUIDs), a handler that calls `send_response` twice or for another
  slot.
* **Failing serialization** between claim and write, which leaves the slot in
  `Writing`: `to_allocvec` of these structs fails only when memory runs out.
* **Other errors of the operating system**: creation that fails for another
  reason than a taken name, events that cannot be created, waits that fail.
* **Names that coincide**: formatting, the clamp and the macOS hash in
  `config.rs` have no state; two configurations with the same names are two hubs
  on one region.
* **The checks on a backing file's path** before it is reclaimed: names are
  single components here.
* `create_overflow` and the bump allocator, which nothing calls any more; error
  texts, instrumentation, logging and the HTTP method byte; regions of 4 GB and
  more, where a `u32` offset would wrap.
