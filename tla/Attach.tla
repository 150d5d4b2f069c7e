------------------------------- MODULE Attach -------------------------------
(***************************************************************************)
(* How a hub and a worker find each other: SlotBus::create and             *)
(* SlotWorker::open, step by step over the names the operating system      *)
(* keeps, with the hubs that came before: one that is being dropped, whose *)
(* watcher thread still holds the region, or one that was killed and left  *)
(* its names behind.                                                       *)
(***************************************************************************)
EXTENDS NamedRegions, SlotLayout, Sequences

CONSTANTS
    Hubs,         \* calls of SlotBus::create, each a process of its own
    Workers,      \* processes that call SlotWorker::open, again when it fails
    SlotCounts,   \* num_slots a hub may be configured with
    RegionSizes   \* region_size likewise

ASSUME AttachAssumption ==
    /\ Procs = Hubs \cup Workers
    /\ Hubs \cap Workers = {}
    /\ Names = {"control"}
    /\ SlotCounts \subseteq Nat \ {0}
    /\ RegionSizes \subseteq Nat

VARIABLES
    pc,         \* how far each process has come
    want,       \* the configuration of each hub
    hdr,        \* the five header words of each region nobody initialises
    seen,       \* the header words a worker has read
    sem,        \* the event object each event name stands for, by its creator
    ev,         \* the event objects each process has open
    overlapped, \* hubs created before their predecessor let go (not in the code)
    met         \* the hub that was up when a worker began to open (not in the code)

attachVars == <<regionVars, pc, want, hdr, seen, sem, ev, overlapped, met>>

Events == {"req", "rsp"}
NoEvents == [e \in Events |-> NoProc]
Configs == [slots : SlotCounts, size : RegionSizes]

SHM_MAGIC == 1397506609
SHM_VERSION == 2

\* The header words in their order: magic, version, num_slots, heap_offset and
\* heap_size.
Blank == <<0, 0, 0, 0, 0>>
HeaderOf(c) ==
    <<SHM_MAGIC, SHM_VERSION, c.slots, HeapOffset(c.slots), HeapSize(c.slots, c.size)>>
Recognised(h) == h[1] = SHM_MAGIC /\ h[2] = SHM_VERSION
LayoutEnd(h) == h[4] + h[5]

\* Words of one header, words of another: what a writer has got to.
Between(old, new) ==
    {[i \in 1 .. 5 |-> IF i \in S THEN new[i] ELSE old[i]] : S \in SUBSET (1 .. 5)}

HubPc == {"idle", "taken", "retry", "adopt", "mapped", "init", "req", "req_open",
          "rsp", "rsp_open", "up", "dropping", "gone", "failed", "killed"}
WorkerPc == {"idle", "read", "req", "rsp", "up", "failed"}

AttachTypeOK ==
    /\ RegionsTyped
    /\ pc \in [Procs -> HubPc \cup WorkerPc]
    /\ \A h \in Hubs : pc[h] \in HubPc
    /\ \A w \in Workers : pc[w] \in WorkerPc
    /\ want \in [Hubs -> Configs]
    /\ hdr \in [Regions -> [1 .. 5 -> Nat]]
    /\ seen \in [Workers -> Seq(Nat)]
    /\ \A w \in Workers : Len(seen[w]) <= 5
    /\ sem \in [Events -> Hubs \cup {NoProc}]
    /\ ev \in [Procs -> [Events -> Hubs \cup {NoProc}]]
    /\ overlapped \subseteq Hubs
    /\ met \in [Workers -> Hubs \cup {NoProc}]

AttachInit ==
    /\ RegionsInit
    /\ pc = [p \in Procs |-> "idle"]
    /\ want \in [Hubs -> Configs]
    /\ hdr = [k \in Regions |-> Blank]
    /\ seen = [w \in Workers |-> <<>>]
    /\ sem = NoEvents
    /\ ev = [p \in Procs |-> NoEvents]
    /\ overlapped = {}
    /\ met = [w \in Workers |-> NoProc]

Goto(p, l) == pc' = [pc EXCEPT ![p] = l]

\* CloseEvents gone wrong: a name is unlinked by whoever closes it, not only by
\* its creator.
MutOpenerUnlinks(p, es, unlink) ==
    /\ sem' = [e \in Events |-> IF e \in es /\ sem[e] = ev[p][e] THEN NoProc ELSE sem[e]]
    /\ ev' = [ev EXCEPT ![p] = [e \in Events |-> IF e \in es THEN NoProc ELSE @[e]]]

\* The event objects in es are closed by p.  On Windows a name goes with the last
\* handle; on Unix it goes when a creator unlinks it, whatever it stands for.
CloseEvents(p, es, unlink) ==
    /\ sem' = [e \in Events |->
                 IF e \in es /\ IF windows
                                THEN sem[e] = ev[p][e] /\ \A q \in Procs \ {p} : ev[q][e] # sem[e]
                                ELSE unlink
                 THEN NoProc ELSE sem[e]]
    /\ ev' = [ev EXCEPT ![p] = [e \in Events |-> IF e \in es THEN NoProc ELSE @[e]]]
-----------------------------------------------------------------------------
\* One connection, one SlotBus: a hub is created when the last one is dead or
\* was dropped.  drop() has then returned, so the request event is gone, but the
\* watcher may still run.
DropReturned(g) == pc[g] = "dropping" /\ ev[g]["req"] = NoProc
MayCreate(h) ==
    \A g \in Hubs \ {h} :
        pc[g] \in {"idle", "gone", "failed", "killed"} \/ DropReturned(g)

\* create_or_open: the exclusive create finds the name free or taken.
HubCreate(h) ==
    /\ pc[h] = "idle"
    /\ MayCreate(h)
    /\ overlapped' = overlapped \cup
            {g \in {h} : \E o \in Hubs : pc[o] = "dropping"}
    /\ \/ /\ CreateRegion(h, "control", want[h].size)
          /\ Goto(h, "mapped")
       \/ /\ denotes["control"] # 0
          /\ Goto(h, "taken")
          /\ UNCHANGED regionVars
    /\ UNCHANGED <<want, hdr, seen, sem, ev, met>>

\* create_exclusive: an orphan is removed, anything else is left to be opened.
HubReclaim(h) ==
    /\ pc[h] = "taken"
    /\ IF CanReclaim("control")
       THEN ReclaimRegion("control") /\ Goto(h, "retry")
       ELSE Goto(h, "adopt") /\ UNCHANGED regionVars
    /\ UNCHANGED <<want, hdr, seen, sem, ev, overlapped, met>>

HubRetry(h) ==
    /\ pc[h] = "retry"
    /\ IF denotes["control"] = 0
       THEN CreateRegion(h, "control", want[h].size) /\ Goto(h, "mapped")
       ELSE Goto(h, "adopt") /\ UNCHANGED regionVars
    /\ UNCHANGED <<want, hdr, seen, sem, ev, overlapped, met>>

\* The existing mapping is opened, if it is still there.
HubAdopt(h) ==
    /\ pc[h] = "adopt"
    /\ IF CanOpen("control")
       THEN OpenRegion(h, "control") /\ Goto(h, "mapped")
       ELSE Goto(h, "failed") /\ UNCHANGED regionVars
    /\ UNCHANGED <<want, hdr, seen, sem, ev, overlapped, met>>

\* HubCheck gone wrong: the requested layout is written whatever was mapped.
MutNoSizeCheck(h) ==
    /\ pc[h] = "mapped"
    /\ Goto(h, "init")
    /\ UNCHANGED <<regionVars, want, hdr, seen, sem, ev, overlapped, met>>

\* init_control refuses a mapping too small for the requested layout.
HubCheck(h) ==
    /\ pc[h] = "mapped"
    /\ IF LayoutEnd(HeaderOf(want[h])) > regionLen[map[h]]
       THEN CloseRegion(h) /\ Goto(h, "failed")
       ELSE Goto(h, "init") /\ UNCHANGED regionVars
    /\ UNCHANGED <<want, hdr, seen, sem, ev, overlapped, met>>

\* HubInit gone wrong: the header of an adopted region is taken over.
MutAdoptedHeaderKept(h) ==
    /\ pc[h] = "init"
    /\ hdr' = [hdr EXCEPT ![map[h]] = IF Recognised(@) THEN @ ELSE HeaderOf(want[h])]
    /\ Goto(h, "req")
    /\ UNCHANGED <<regionVars, want, seen, sem, ev, overlapped, met>>

\* The region is zeroed and the header written; what others see of the header
\* meanwhile is WordsRead.
HubInit(h) ==
    /\ pc[h] = "init"
    /\ hdr' = [hdr EXCEPT ![map[h]] = HeaderOf(want[h])]
    /\ Goto(h, "req")
    /\ UNCHANGED <<regionVars, want, seen, sem, ev, overlapped, met>>

\* NamedEvent::create on Unix first unlinks a semaphore left by a crash.
HubUnlinkEvent(h, e) ==
    /\ pc[h] = e
    /\ sem' = IF windows THEN sem ELSE [sem EXCEPT ![e] = NoProc]
    /\ Goto(h, IF e = "req" THEN "req_open" ELSE "rsp_open")
    /\ UNCHANGED <<regionVars, want, hdr, seen, ev, overlapped, met>>

\* CreateEventW, sem_open(O_CREAT): an existing object is opened, else made.
HubCreateEvent(h, e) ==
    /\ pc[h] = IF e = "req" THEN "req_open" ELSE "rsp_open"
    /\ LET object == IF sem[e] = NoProc THEN h ELSE sem[e] IN
        /\ sem' = [sem EXCEPT ![e] = object]
        /\ ev' = [ev EXCEPT ![h][e] = object]
    /\ Goto(h, IF e = "req" THEN "rsp" ELSE "up")
    /\ UNCHANGED <<regionVars, want, hdr, seen, overlapped, met>>

\* Drop of SlotBus begins.  The region and the response event are shared with
\* the watcher thread: which thread lets go last, and in which order the three
\* go, is open.
HubDrop(h) ==
    /\ pc[h] = "up"
    /\ Goto(h, "dropping")
    /\ UNCHANGED <<regionVars, want, hdr, seen, sem, ev, overlapped, met>>

HubReleaseRegion(h) ==
    /\ pc[h] = "dropping"
    /\ map[h] # 0
    /\ CloseRegion(h)
    /\ Goto(h, IF ev[h] = NoEvents THEN "gone" ELSE "dropping")
    /\ UNCHANGED <<want, hdr, seen, sem, ev, overlapped, met>>

HubReleaseEvent(h, e) ==
    /\ pc[h] = "dropping"
    /\ ev[h][e] # NoProc
    /\ CloseEvents(h, {e}, TRUE)
    /\ Goto(h, IF map[h] = 0 /\ ev'[h] = NoEvents THEN "gone" ELSE "dropping")
    /\ UNCHANGED <<regionVars, want, hdr, seen, overlapped, met>>

\* The hub process is killed.  If it was initialising a region, the zeroing or
\* the writing stops half way.
HubKill(h) ==
    /\ pc[h] \notin {"idle", "gone", "failed", "killed"}
    /\ KillRegion(h)
    /\ CloseEvents(h, Events, FALSE)
    /\ IF pc[h] = "init"
       THEN \E left \in Between(hdr[map[h]], Blank) \cup Between(Blank, HeaderOf(want[h])) :
                hdr' = [hdr EXCEPT ![map[h]] = left]
       ELSE UNCHANGED hdr
    /\ Goto(h, "killed")
    /\ UNCHANGED <<want, seen, overlapped, met>>
-----------------------------------------------------------------------------
HubsUp == {h \in Hubs : pc[h] = "up"}

\* SlotWorker::open maps the region.
WorkerMap(w) ==
    /\ pc[w] \in {"idle", "failed"}
    /\ OpenRegion(w, "control")
    /\ seen' = [seen EXCEPT ![w] = <<>>]
    /\ met' = [met EXCEPT ![w] = IF HubsUp = {} THEN NoProc ELSE CHOOSE h \in HubsUp : TRUE]
    /\ Goto(w, "read")
    /\ UNCHANGED <<want, hdr, sem, ev, overlapped>>

\* What a plain read of word i of region k yields: while a hub writes the region,
\* the word from before, the zero or the new word.
WordsRead(k, i) ==
    {hdr[k][i]} \cup UNION {{0, HeaderOf(want[h])[i]} : h \in {h \in Hubs : pc[h] = "init" /\ map[h] = k}}

\* validate_control reads the header words one after the other ...
WorkerRead(w) ==
    /\ pc[w] = "read"
    /\ Len(seen[w]) < 5
    /\ \E word \in WordsRead(map[w], Len(seen[w]) + 1) :
            seen' = [seen EXCEPT ![w] = Append(@, word)]
    /\ UNCHANGED <<regionVars, pc, want, hdr, sem, ev, overlapped, met>>

\* What open() had found out goes with it.
Forget(w) ==
    /\ seen' = [seen EXCEPT ![w] = <<>>]
    /\ met' = [met EXCEPT ![w] = NoProc]

\* WorkerValidate gone wrong: only magic and version are checked.
MutNoBoundCheck(w) ==
    /\ pc[w] = "read"
    /\ Len(seen[w]) = 5
    /\ IF Recognised(seen[w])
       THEN Goto(w, "req") /\ UNCHANGED <<regionVars, seen, met>>
       ELSE CloseRegion(w) /\ Forget(w) /\ Goto(w, "failed")
    /\ UNCHANGED <<want, hdr, sem, ev, overlapped>>

\* ... and accepts what fits the mapping; num_slots is taken as it is.
WorkerValidate(w) ==
    /\ pc[w] = "read"
    /\ Len(seen[w]) = 5
    /\ IF Recognised(seen[w]) /\ LayoutEnd(seen[w]) <= regionLen[map[w]]
       THEN Goto(w, "req") /\ UNCHANGED <<regionVars, seen, met>>
       ELSE CloseRegion(w) /\ Forget(w) /\ Goto(w, "failed")
    /\ UNCHANGED <<want, hdr, sem, ev, overlapped>>

\* NamedEvent::open; when there is no such name everything is closed again.
WorkerOpenEvent(w, e) ==
    /\ pc[w] = e
    /\ IF sem[e] # NoProc
       THEN /\ ev' = [ev EXCEPT ![w][e] = sem[e]]
            /\ Goto(w, IF e = "req" THEN "rsp" ELSE "up")
            /\ UNCHANGED <<regionVars, sem, seen, met>>
       ELSE /\ CloseRegion(w)
            /\ CloseEvents(w, Events, FALSE)
            /\ Forget(w)
            /\ Goto(w, "failed")
    /\ UNCHANGED <<want, hdr, overlapped>>

\* The worker is dropped or killed: it created none of the names it uses.
WorkerGone(w) ==
    /\ pc[w] = "up"
    /\ CloseRegion(w)
    /\ CloseEvents(w, Events, FALSE)
    /\ Forget(w)
    /\ Goto(w, "idle")
    /\ UNCHANGED <<want, hdr, overlapped>>

AttachNext ==
    \/ \E h \in Hubs :
        \/ HubCreate(h) \/ HubReclaim(h) \/ HubRetry(h) \/ HubAdopt(h) \/ HubCheck(h) \/ HubInit(h)
        \/ HubDrop(h) \/ HubReleaseRegion(h)
        \/ \E e \in Events : HubUnlinkEvent(h, e) \/ HubCreateEvent(h, e) \/ HubReleaseEvent(h, e)
        \/ HubKill(h)
    \/ \E w \in Workers :
        \/ WorkerMap(w) \/ WorkerRead(w) \/ WorkerValidate(w)
        \/ \E e \in Events : WorkerOpenEvent(w, e)
        \/ WorkerGone(w)

AttachSpec == AttachInit /\ [][AttachNext]_attachVars
-----------------------------------------------------------------------------
(***************************************************************************)
(* "A region must never advertise a heap larger than the mapping that      *)
(* backs it" (stale_region_size.rs), whichever size it was adopted at and  *)
(* wherever in init_control a hub was killed.                              *)
(***************************************************************************)
HeaderHonest ==
    \A k \in 1 .. made : Recognised(hdr[k]) =>
        LayoutEnd(hdr[k]) <= regionLen[k] /\ HeapOffset(hdr[k][3]) <= regionLen[k]

(***************************************************************************)
(* A worker that opened successfully never reaches beyond its mapping,     *)
(* neither through a slot nor through the heap, even when a hub was        *)
(* initialising the region while it read the header and the words it put   *)
(* together never stood there at one time.  Nothing checks num_slots.      *)
(***************************************************************************)
WorkerAccessInMapping ==
    \A w \in Workers : pc[w] \in {"req", "rsp", "up"} =>
        /\ LayoutEnd(seen[w]) <= regionLen[map[w]]
        /\ HeapOffset(seen[w][3]) <= regionLen[map[w]]

(***************************************************************************)
(* Once create() has returned, the names lead workers to the region and    *)
(* the events this hub uses, unless it was created before the watcher of   *)
(* its predecessor had let go of them: that one removes the names later.   *)
(***************************************************************************)
HubReachable ==
    \A h \in Hubs : pc[h] = "up" /\ h \notin overlapped =>
        denotes["control"] = map[h] /\ sem = ev[h]

(***************************************************************************)
(* A worker that began to open while a hub was up, and opened successfully *)
(* while it still is, shares the region and both events with that very hub *)
(* and works with its layout, not with those of one that came before.      *)
(***************************************************************************)
AttachedToHubThatWasUp ==
    \A w \in Workers : \A h \in Hubs \ overlapped :
        pc[w] = "up" /\ met[w] = h /\ pc[h] = "up" =>
            /\ map[w] = map[h]
            /\ ev[w] = ev[h]
            /\ seen[w] = HeaderOf(want[h])

(***************************************************************************)
(* "A live region is never touched" (CHANGELOG): a region loses its name   *)
(* only with the handle of its owner or when no process maps it any more.  *)
(***************************************************************************)
LiveRegionKeepsName ==
    [][\A n \in Names : \A k \in Regions : denotes[n] = k /\ denotes'[n] # k =>
          \/ \A p \in Procs : map'[p] # k
          \/ \E p \in Procs : owner[k] = p /\ map[p] = k /\ map'[p] # k]_attachVars
=============================================================================
