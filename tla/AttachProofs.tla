---------------------------- MODULE AttachProofs ----------------------------
(***************************************************************************)
(* How hub and worker find each other, for any number of hubs and workers  *)
(* and any configurations: no header promises more than the mapping holds, *)
(* no worker reaches beyond its own, and one that began to open while a    *)
(* hub was up shares the region, the events and the layout of that hub.    *)
(***************************************************************************)
EXTENDS Attach, NamedRegionsProofs, SequenceTheorems

\* Pc's of a hub inside create(), and of one with the region mapped.
HoldingPc == {"mapped", "init", "req", "req_open", "rsp", "rsp_open", "up"}
ActivePc == {"taken", "retry", "adopt"} \cup HoldingPc
LeavingPc == {"dropping"}

\* Pc's of a worker that has mapped a region, and that has validated it.
MappedPc == {"read", "req", "rsp", "up"}
ValidPc == {"req", "rsp", "up"}

\* A header put together from honest ones, word by word, is no lie about the
\* heap, nor are its slots, in a mapping of length len.
WordsFit(h, len) ==
    /\ h[1] # 0 => HeapOffset(0) <= len
    /\ h[3] # 0 => HeapOffset(h[3]) <= len

HeadersFit ==
    \A k \in Regions :
        IF k <= made THEN WordsFit(hdr[k], regionLen[k]) /\ LayoutEnd(hdr[k]) <= regionLen[k]
        ELSE hdr[k] = Blank

InitFits ==
    \A h \in Hubs :
        /\ pc[h] \in {"mapped", "init"} => map[h] # 0
        /\ pc[h] = "init" => LayoutEnd(HeaderOf(want[h])) <= regionLen[map[h]]

\* The words a worker has read are some from honest headers.
SeenFits ==
    \A w \in Workers :
        /\ pc[w] \in MappedPc =>
            /\ map[w] # 0
            /\ Len(seen[w]) >= 1 /\ seen[w][1] # 0 => HeapOffset(0) <= regionLen[map[w]]
            /\ Len(seen[w]) >= 3 /\ seen[w][3] # 0 => HeapOffset(seen[w][3]) <= regionLen[map[w]]
        /\ pc[w] \in ValidPc =>
            /\ Len(seen[w]) = 5
            /\ Recognised(seen[w])
            /\ LayoutEnd(seen[w]) <= regionLen[map[w]]

HeaderInv == HeadersFit /\ InitFits /\ SeenFits

\* One connection at a time, and a hub not created too early has no predecessor
\* that is still letting go.
OneHub == \A h \in Hubs, g \in Hubs : h # g /\ pc[h] \in ActivePc => pc[g] \notin ActivePc
LeftAlone ==
    \A h \in Hubs \ overlapped : pc[h] \in ActivePc => \A g \in Hubs : pc[g] \notin LeavingPc

\* Whose handle would remove a name still holds that region.
OwnersHold ==
    \A k \in Regions : owner[k] # NoProc =>
        /\ owner[k] \in Hubs
        /\ map[owner[k]] = k
        /\ pc[owner[k]] \in HoldingPc \cup {"dropping"}

\* The names lead to what such a hub has created or adopted so far.
NamesLead ==
    \A h \in Hubs \ overlapped : pc[h] \in HoldingPc =>
        map[h] # 0 /\ denotes["control"] = map[h] /\ map[h] \notin doomed
EventsLead ==
    \A h \in Hubs \ overlapped :
        /\ pc[h] \in {"rsp", "rsp_open", "up"} => sem["req"] = ev[h]["req"] /\ sem["req"] # NoProc
        /\ pc[h] = "up" => sem["rsp"] = ev[h]["rsp"] /\ sem["rsp"] # NoProc
HeaderStands ==
    \A h \in Hubs \ overlapped :
        pc[h] \in {"req", "req_open", "rsp", "rsp_open", "up"} => hdr[map[h]] = HeaderOf(want[h])

\* A worker that met a hub has got from it whatever it has got so far.
MetWasUp ==
    \A w \in Workers : met[w] # NoProc =>
        pc[met[w]] \in {"up", "dropping", "gone", "killed"}
WorkerFollows ==
    \A w \in Workers : \A h \in Hubs \ overlapped : met[w] = h /\ pc[h] = "up" =>
        /\ pc[w] \in MappedPc =>
            /\ map[w] = map[h]
            /\ \A i \in 1 .. Len(seen[w]) : seen[w][i] = HeaderOf(want[h])[i]
        /\ pc[w] \in {"rsp", "up"} => ev[w]["req"] = ev[h]["req"]
        /\ pc[w] = "up" => ev[w]["rsp"] = ev[h]["rsp"]

ReachInv ==
    /\ OneHub /\ LeftAlone /\ OwnersHold
    /\ NamesLead /\ EventsLead /\ HeaderStands
    /\ MetWasUp /\ WorkerFollows
-----------------------------------------------------------------------------

(***************************************************************************)
(* The name and the processes.                                             *)
(***************************************************************************)
LEMMA AttachConstants ==
    /\ "control" \in Names /\ Names = {"control"}
    /\ Hubs \subseteq Procs /\ Workers \subseteq Procs /\ Procs = Hubs \cup Workers
    /\ \A h \in Hubs, w \in Workers : h # w
    /\ \A p \in Procs : p # NoProc
  BY AttachAssumption, RegionsAssumption

(***************************************************************************)
(* Where the heap starts, and how large it is.                             *)
(***************************************************************************)
LEMMA LayoutFacts ==
    ASSUME NEW n \in Nat, NEW s \in Nat
    PROVE  /\ HeapOffset(n) \in Nat /\ HeapOffset(0) \in Nat
           /\ HeapOffset(0) <= HeapOffset(n)
           /\ HeapSize(n, s) \in Nat
  BY DEF HeapOffset, HeapSize, SaturatingSub, SHM_HEADER_SIZE, SLOT_META_SIZE

(***************************************************************************)
(* The words of a blank header and of a configuration's header.            *)
(***************************************************************************)
LEMMA HeaderFacts ==
    /\ Blank \in [1 .. 5 -> Nat] /\ \A i \in 1 .. 5 : Blank[i] = 0
    /\ \A c \in Configs :
        /\ HeaderOf(c) \in [1 .. 5 -> Nat]
        /\ HeaderOf(c)[1] = SHM_MAGIC
        /\ HeaderOf(c)[2] = SHM_VERSION
        /\ HeaderOf(c)[3] = c.slots
        /\ HeaderOf(c)[4] = HeapOffset(c.slots)
        /\ HeaderOf(c)[5] = HeapSize(c.slots, c.size)
        /\ c.slots \in Nat \ {0} /\ c.size \in Nat
    /\ SHM_MAGIC # 0
  <1>1. Blank \in [1 .. 5 -> Nat] /\ \A i \in 1 .. 5 : Blank[i] = 0
    BY DEF Blank
  <1>2. ASSUME NEW c \in Configs
        PROVE  /\ HeaderOf(c) \in [1 .. 5 -> Nat]
               /\ HeaderOf(c)[1] = SHM_MAGIC
               /\ HeaderOf(c)[2] = SHM_VERSION
               /\ HeaderOf(c)[3] = c.slots
               /\ HeaderOf(c)[4] = HeapOffset(c.slots)
               /\ HeaderOf(c)[5] = HeapSize(c.slots, c.size)
               /\ c.slots \in Nat \ {0} /\ c.size \in Nat
    <2>1. c.slots \in Nat \ {0} /\ c.size \in Nat
      BY AttachAssumption DEF Configs
    <2>2. HeapOffset(c.slots) \in Nat /\ HeapSize(c.slots, c.size) \in Nat
      BY <2>1, LayoutFacts
    <2>3. SHM_MAGIC \in Nat /\ SHM_VERSION \in Nat
      BY DEF SHM_MAGIC, SHM_VERSION
    <2>4. HeaderOf(c) \in [1 .. 5 -> Nat]
      BY <2>1, <2>2, <2>3 DEF HeaderOf
    <2> QED
      BY <2>1, <2>4 DEF HeaderOf
  <1> QED
    BY <1>1, <1>2 DEF SHM_MAGIC

(***************************************************************************)
(* A header in the making has words of the old one and of the new.         *)
(***************************************************************************)
LEMMA BetweenFacts ==
    ASSUME NEW old \in [1 .. 5 -> Nat], NEW new \in [1 .. 5 -> Nat], NEW h \in Between(old, new)
    PROVE  /\ h \in [1 .. 5 -> Nat]
           /\ \A i \in 1 .. 5 : h[i] = old[i] \/ h[i] = new[i]
  BY DEF Between

(***************************************************************************)
(* At the start there are no regions.                                      *)
(***************************************************************************)
LEMMA AttachTypeInit == AttachInit => AttachTypeOK
  <1> SUFFICES ASSUME AttachInit PROVE AttachTypeOK
    OBVIOUS
  <1>1. RegionsTyped
    BY RegionsAssumption DEF AttachInit, RegionsInit, RegionsTyped
  <1>2. NoEvents \in [Events -> Hubs \cup {NoProc}]
    BY DEF NoEvents
  <1>3. /\ seen \in [Workers -> Seq(Nat)]
        /\ \A w \in Workers : Len(seen[w]) <= 5
    BY DEF AttachInit
  <1>4. hdr \in [Regions -> [1 .. 5 -> Nat]]
    BY HeaderFacts DEF AttachInit
  <1> QED
    BY <1>1, <1>2, <1>3, <1>4, AttachConstants DEF AttachInit, AttachTypeOK, HubPc, WorkerPc

(***************************************************************************)
(* Closing events leaves a handle or a name as it was, or takes it away.   *)
(***************************************************************************)
LEMMA CloseEventsFacts ==
    ASSUME AttachTypeOK, NEW p \in Procs, NEW es \in SUBSET Events, NEW unlink \in BOOLEAN,
           CloseEvents(p, es, unlink)
    PROVE  /\ sem' \in [Events -> Hubs \cup {NoProc}]
           /\ ev' \in [Procs -> [Events -> Hubs \cup {NoProc}]]
           /\ \A q \in Procs \ {p} : ev'[q] = ev[q]
           /\ ~unlink => \A e \in Events, q \in Procs \ {p} : ev[q][e] = sem[e] => sem'[e] = sem[e]
  <1>1. /\ sem \in [Events -> Hubs \cup {NoProc}]
        /\ ev \in [Procs -> [Events -> Hubs \cup {NoProc}]]
    BY DEF AttachTypeOK
  <1>2. /\ sem' = [e \in Events |->
                     IF e \in es /\ IF windows
                                    THEN sem[e] = ev[p][e] /\ \A q \in Procs \ {p} : ev[q][e] # sem[e]
                                    ELSE unlink
                     THEN NoProc ELSE sem[e]]
        /\ ev' = [ev EXCEPT ![p] = [e \in Events |-> IF e \in es THEN NoProc ELSE ev[p][e]]]
    BY DEF CloseEvents
  <1>3. sem' \in [Events -> Hubs \cup {NoProc}]
    BY <1>1, <1>2
  <1>4. [e \in Events |-> IF e \in es THEN NoProc ELSE ev[p][e]] \in [Events -> Hubs \cup {NoProc}]
    BY <1>1
  <1>5. ev' \in [Procs -> [Events -> Hubs \cup {NoProc}]] /\ \A q \in Procs \ {p} : ev'[q] = ev[q]
    BY <1>1, <1>2, <1>4
  <1>6. ~unlink => \A e \in Events, q \in Procs \ {p} : ev[q][e] = sem[e] => sem'[e] = sem[e]
    BY <1>1, <1>2
  <1> QED
    BY <1>3, <1>5, <1>6

(***************************************************************************)
(* The regions a hub has to do with stay typed.                            *)
(***************************************************************************)
LEMMA RegionSteps ==
    ASSUME AttachTypeOK, NEW p \in Procs,
           \/ UNCHANGED regionVars
           \/ \E h \in Hubs : CreateRegion(p, "control", want[h].size)
           \/ OpenRegion(p, "control") \/ ReclaimRegion("control")
           \/ CloseRegion(p) \/ KillRegion(p)
    PROVE  /\ RegionsTyped'
           /\ \A q \in Procs \ {p} : map'[q] = map[q]
           /\ made' = made \/ made' = made + 1
           /\ \A k \in Regions : k <= made => regionLen'[k] = regionLen[k]
           /\ made' # made => \E h \in Hubs : CreateRegion(p, "control", want[h].size)
  <1> USE AttachConstants
  <1>1. RegionsTyped /\ made \in Nat
    BY RegionsAssumption DEF AttachTypeOK, RegionsTyped
  <1>2. CASE UNCHANGED regionVars
    BY <1>1, <1>2 DEF regionVars, RegionsTyped
  <1>3. ASSUME NEW h \in Hubs, CreateRegion(p, "control", want[h].size)
        PROVE  /\ RegionsTyped'
               /\ \A q \in Procs \ {p} : map'[q] = map[q]
               /\ made' = made + 1
               /\ \A k \in Regions : k <= made => regionLen'[k] = regionLen[k]
    <2>1. want[h].size \in Nat
      BY AttachAssumption DEF AttachTypeOK, Configs
    <2> QED
      BY <1>1, <1>3, <2>1, CreateFacts
  <1>4. CASE OpenRegion(p, "control")
    BY <1>1, <1>4, OpenFacts
  <1>5. CASE ReclaimRegion("control")
    BY <1>1, <1>5, ReclaimFacts
  <1>6. CASE CloseRegion(p)
    BY <1>1, <1>6, CloseFacts
  <1>7. CASE KillRegion(p)
    BY <1>1, <1>7, KillFacts
  <1> QED
    BY <1>2, <1>3, <1>4, <1>5, <1>6, <1>7

(***************************************************************************)
(* A hub's steps inside create() and after it.                             *)
(***************************************************************************)
HubStep(h) ==
    \/ HubCreate(h) \/ HubReclaim(h) \/ HubRetry(h) \/ HubAdopt(h) \/ HubCheck(h) \/ HubInit(h)
    \/ HubDrop(h) \/ HubReleaseRegion(h)
    \/ \E e \in Events : HubUnlinkEvent(h, e) \/ HubCreateEvent(h, e) \/ HubReleaseEvent(h, e)
    \/ HubKill(h)

WorkerStep(w) ==
    \/ WorkerMap(w) \/ WorkerRead(w) \/ WorkerValidate(w)
    \/ \E e \in Events : WorkerOpenEvent(w, e)
    \/ WorkerGone(w)

(***************************************************************************)
(* The steps of a hub keep the types.                                      *)
(***************************************************************************)
LEMMA AttachTypeHub == ASSUME AttachTypeOK, NEW h \in Hubs, HubStep(h) PROVE AttachTypeOK'
  <1> USE AttachConstants
  <1>1. /\ pc \in [Procs -> HubPc \cup WorkerPc]
        /\ \A g \in Hubs : pc[g] \in HubPc
        /\ \A w \in Workers : pc[w] \in WorkerPc
        /\ hdr \in [Regions -> [1 .. 5 -> Nat]]
        /\ sem \in [Events -> Hubs \cup {NoProc}]
        /\ ev \in [Procs -> [Events -> Hubs \cup {NoProc}]]
    BY DEF AttachTypeOK
  <1>2. ASSUME \E l \in HubPc : Goto(h, l), RegionsTyped', UNCHANGED <<want, seen, met>>,
               hdr' \in [Regions -> [1 .. 5 -> Nat]],
               sem' \in [Events -> Hubs \cup {NoProc}],
               ev' \in [Procs -> [Events -> Hubs \cup {NoProc}]],
               overlapped' \subseteq Hubs
        PROVE  AttachTypeOK'
    BY <1>1, <1>2 DEF AttachTypeOK, Goto
  <1>3. overlapped' \subseteq Hubs /\ UNCHANGED <<want, seen, met>>
    BY DEF AttachTypeOK, HubStep, HubCreate, HubReclaim, HubRetry, HubAdopt, HubCheck, HubInit,
        HubUnlinkEvent, HubCreateEvent, HubDrop, HubReleaseRegion, HubReleaseEvent, HubKill
  <1>4. \E l \in HubPc : Goto(h, l)
    BY DEF HubPc, HubStep, HubCreate, HubReclaim, HubRetry, HubAdopt, HubCheck, HubInit,
        HubUnlinkEvent, HubCreateEvent, HubDrop, HubReleaseRegion, HubReleaseEvent, HubKill
  <1>5. RegionsTyped'
    BY RegionSteps DEF HubStep, HubCreate, HubReclaim, HubRetry, HubAdopt, HubCheck, HubInit,
        HubUnlinkEvent, HubCreateEvent, HubDrop, HubReleaseRegion, HubReleaseEvent, HubKill
  <1>6. hdr' \in [Regions -> [1 .. 5 -> Nat]]
    <2>1. HeaderOf(want[h]) \in [1 .. 5 -> Nat] /\ Blank \in [1 .. 5 -> Nat]
      BY HeaderFacts DEF AttachTypeOK
    <2>2. CASE UNCHANGED hdr
      BY <1>1, <2>2
    <2>3. CASE HubInit(h)
      BY <1>1, <2>1, <2>3 DEF HubInit
    <2>4. CASE HubKill(h)
      <3>1. CASE map[h] \in Regions
        <4>1. \A left \in Between(hdr[map[h]], Blank) \cup Between(Blank, HeaderOf(want[h])) :
                  left \in [1 .. 5 -> Nat]
          BY <1>1, <2>1, <3>1, BetweenFacts
        <4> QED
          BY <1>1, <2>4, <4>1 DEF HubKill
      <3>2. CASE map[h] \notin Regions
        BY <1>1, <2>4, <3>2 DEF HubKill
      <3> QED
        BY <3>1, <3>2
    <2> QED
      BY <2>2, <2>3, <2>4 DEF HubStep, HubCreate, HubReclaim, HubRetry, HubAdopt, HubCheck,
          HubUnlinkEvent, HubCreateEvent, HubDrop, HubReleaseRegion, HubReleaseEvent
  <1>7. /\ sem' \in [Events -> Hubs \cup {NoProc}]
        /\ ev' \in [Procs -> [Events -> Hubs \cup {NoProc}]]
    <2>1. CASE UNCHANGED <<sem, ev>>
      BY <1>1, <2>1
    <2>2. ASSUME NEW e \in Events, HubUnlinkEvent(h, e) \/ HubCreateEvent(h, e)
          PROVE  /\ sem' \in [Events -> Hubs \cup {NoProc}]
                 /\ ev' \in [Procs -> [Events -> Hubs \cup {NoProc}]]
      <3>1. CASE HubUnlinkEvent(h, e)
        BY <1>1, <3>1 DEF HubUnlinkEvent
      <3>2. CASE HubCreateEvent(h, e)
        <4>1. PICK object \in Hubs \cup {NoProc} :
                  /\ sem' = [sem EXCEPT ![e] = object]
                  /\ ev' = [ev EXCEPT ![h][e] = object]
          BY <1>1, <3>2 DEF HubCreateEvent
        <4>2. sem' \in [Events -> Hubs \cup {NoProc}]
          BY <1>1, <4>1
        <4>3. ev' \in [Procs -> [Events -> Hubs \cup {NoProc}]]
          BY <1>1, <4>1
        <4> QED
          BY <4>2, <4>3
      <3> QED
        BY <2>2, <3>1, <3>2
    <2>3. CASE \E es \in SUBSET Events, unlink \in BOOLEAN : CloseEvents(h, es, unlink)
      BY <2>3, CloseEventsFacts
    <2>4. HubKill(h) \/ (\E e \in Events : HubReleaseEvent(h, e)) =>
              \E es \in SUBSET Events, unlink \in BOOLEAN : CloseEvents(h, es, unlink)
      BY DEF HubReleaseEvent, HubKill
    <2> QED
      BY <2>1, <2>2, <2>3, <2>4 DEF HubStep, HubCreate, HubReclaim, HubRetry, HubAdopt, HubCheck,
          HubInit, HubDrop, HubReleaseRegion
  <1> QED
    BY <1>2, <1>3, <1>4, <1>5, <1>6, <1>7

(***************************************************************************)
(* What a worker reads is a number.                                        *)
(***************************************************************************)
LEMMA ReadFacts ==
    ASSUME AttachTypeOK, NEW k \in Regions, NEW i \in 1 .. 5, NEW word \in WordsRead(k, i)
    PROVE  /\ word \in Nat
           /\ \/ word = hdr[k][i]
              \/ word = 0
              \/ \E h \in Hubs : pc[h] = "init" /\ map[h] = k /\ word = HeaderOf(want[h])[i]
  <1>1. hdr[k] \in [1 .. 5 -> Nat] /\ \A h \in Hubs : HeaderOf(want[h]) \in [1 .. 5 -> Nat]
    BY HeaderFacts DEF AttachTypeOK
  <1> QED
    BY <1>1 DEF WordsRead

(***************************************************************************)
(* The steps of a worker keep the types.                                   *)
(***************************************************************************)
LEMMA AttachTypeWorker ==
    ASSUME AttachTypeOK, \A w \in Workers : pc[w] \in MappedPc => map[w] # 0,
           NEW w \in Workers, WorkerStep(w)
    PROVE  AttachTypeOK'
  <1> USE AttachConstants
  <1>1. /\ pc \in [Procs -> HubPc \cup WorkerPc]
        /\ \A g \in Hubs : pc[g] \in HubPc
        /\ \A v \in Workers : pc[v] \in WorkerPc
        /\ seen \in [Workers -> Seq(Nat)]
        /\ \A v \in Workers : Len(seen[v]) <= 5
        /\ sem \in [Events -> Hubs \cup {NoProc}]
        /\ ev \in [Procs -> [Events -> Hubs \cup {NoProc}]]
        /\ met \in [Workers -> Hubs \cup {NoProc}]
    BY DEF AttachTypeOK
  <1>2. RegionsTyped'
    BY RegionSteps DEF WorkerStep, WorkerMap, WorkerRead, WorkerValidate, WorkerOpenEvent, WorkerGone, Forget
  <1>3. UNCHANGED <<want, hdr, overlapped>>
    BY DEF WorkerStep, WorkerMap, WorkerRead, WorkerValidate, WorkerOpenEvent, WorkerGone, Forget
  <1>4. UNCHANGED pc \/ \E l \in WorkerPc : Goto(w, l)
    BY DEF WorkerStep, WorkerMap, WorkerRead, WorkerValidate, WorkerOpenEvent, WorkerGone, Forget, WorkerPc
  <1>5. /\ seen' \in [Workers -> Seq(Nat)]
        /\ \A v \in Workers : Len(seen'[v]) <= 5
    <2>1. CASE UNCHANGED seen
      BY <1>1, <2>1
    <2>2. CASE seen' = [seen EXCEPT ![w] = <<>>]
      <3>1. <<>> \in Seq(Nat) /\ Len(<<>>) <= 5
        OBVIOUS
      <3>2. \A v \in Workers : seen'[v] = IF v = w THEN <<>> ELSE seen[v]
        BY <1>1, <2>2
      <3>3. seen' = [v \in Workers |-> seen'[v]] /\ \A v \in Workers : seen'[v] \in Seq(Nat)
        BY <1>1, <2>2, <3>1, <3>2
      <3>4. \A v \in Workers : Len(seen'[v]) <= 5
        BY <1>1, <3>1, <3>2
      <3>5. seen' \in [Workers -> Seq(Nat)]
        BY <3>3
      <3> QED
        BY <3>4, <3>5
    <2>3. CASE WorkerRead(w)
      <3>1. map[w] \in Regions
        <4>1. map[w] # 0
          BY <2>3 DEF WorkerRead, MappedPc
        <4>2. map[w] \in 0 .. made /\ made \in 0 .. MaxRegions /\ MaxRegions \in Nat
          BY RegionsAssumption DEF AttachTypeOK, RegionsTyped
        <4> QED
          BY <4>1, <4>2 DEF Regions
      <3>2. Len(seen[w]) + 1 \in 1 .. 5
        BY <1>1, <2>3 DEF WorkerRead
      <3>3. PICK word \in Nat : seen' = [seen EXCEPT ![w] = Append(seen[w], word)]
        BY <2>3, <3>1, <3>2, ReadFacts DEF WorkerRead
      <3>4. Append(seen[w], word) \in Seq(Nat) /\ Len(Append(seen[w], word)) <= 5
        BY <1>1, <3>2
      <3> QED
        BY <1>1, <3>3, <3>4
    <2> QED
      BY <2>1, <2>2, <2>3 DEF WorkerStep, WorkerMap, WorkerValidate, WorkerOpenEvent, WorkerGone, Forget
  <1>6. /\ sem' \in [Events -> Hubs \cup {NoProc}]
        /\ ev' \in [Procs -> [Events -> Hubs \cup {NoProc}]]
    <2>1. CASE UNCHANGED <<sem, ev>>
      BY <1>1, <2>1
    <2>2. CASE CloseEvents(w, Events, FALSE)
      BY <2>2, CloseEventsFacts
    <2>3. CASE \E e \in Events : ev' = [ev EXCEPT ![w][e] = sem[e]] /\ UNCHANGED sem
      BY <1>1, <2>3
    <2> QED
      BY <2>1, <2>2, <2>3 DEF WorkerStep, WorkerMap, WorkerRead, WorkerValidate, WorkerOpenEvent,
          WorkerGone, Forget
  <1>7. met' \in [Workers -> Hubs \cup {NoProc}]
    <2>1. HubsUp # {} => (CHOOSE h \in HubsUp : TRUE) \in Hubs
      BY DEF HubsUp
    <2> QED
      BY <1>1, <2>1 DEF WorkerStep, WorkerMap, WorkerRead, WorkerValidate, WorkerOpenEvent, WorkerGone, Forget
  <1>8. /\ pc' \in [Procs -> HubPc \cup WorkerPc]
        /\ \A g \in Hubs : pc'[g] \in HubPc
        /\ \A v \in Workers : pc'[v] \in WorkerPc
    <2>1. CASE UNCHANGED pc
      BY <1>1, <2>1
    <2>2. ASSUME NEW l \in WorkerPc, pc' = [pc EXCEPT ![w] = l]
          PROVE  /\ pc' \in [Procs -> HubPc \cup WorkerPc]
                 /\ \A g \in Hubs : pc'[g] = pc[g]
                 /\ \A v \in Workers : pc'[v] \in WorkerPc
      BY <1>1, <2>2
    <2> QED
      BY <1>1, <1>4, <2>1, <2>2 DEF Goto
  <1> QED
    BY <1>2, <1>3, <1>5, <1>6, <1>7, <1>8 DEF AttachTypeOK
-----------------------------------------------------------------------------

(***************************************************************************)
(* A header whose layout ends in the mapping fits it, all its slots too.   *)
(***************************************************************************)
LEMMA HeaderFits ==
    ASSUME NEW c \in Configs, NEW len \in Nat, LayoutEnd(HeaderOf(c)) <= len
    PROVE  WordsFit(HeaderOf(c), len)
  <1>1. /\ HeaderOf(c)[3] = c.slots /\ c.slots \in Nat /\ c.size \in Nat
        /\ HeaderOf(c)[4] = HeapOffset(c.slots) /\ HeaderOf(c)[5] = HeapSize(c.slots, c.size)
    BY HeaderFacts
  <1>2. /\ HeapOffset(c.slots) \in Nat /\ HeapOffset(0) \in Nat /\ HeapSize(c.slots, c.size) \in Nat
        /\ HeapOffset(0) <= HeapOffset(c.slots)
    BY <1>1, LayoutFacts
  <1>3. HeapOffset(c.slots) + HeapSize(c.slots, c.size) <= len
    BY <1>1 DEF LayoutEnd
  <1> QED
    BY <1>1, <1>2, <1>3 DEF WordsFit

(***************************************************************************)
(* Zeroes among the words of a header that fits do no harm.                *)
(***************************************************************************)
LEMMA ZeroesFit ==
    ASSUME NEW x \in [1 .. 5 -> Nat], NEW h \in [1 .. 5 -> Nat], NEW len \in Nat,
           \A i \in 1 .. 5 : h[i] = x[i] \/ h[i] = 0,
           WordsFit(x, len), LayoutEnd(x) <= len
    PROVE  WordsFit(h, len) /\ LayoutEnd(h) <= len
  <1>1. /\ h[1] = x[1] \/ h[1] = 0
        /\ h[3] = x[3] \/ h[3] = 0
        /\ h[4] = x[4] \/ h[4] = 0
        /\ h[5] = x[5] \/ h[5] = 0
        /\ x[4] \in Nat /\ x[5] \in Nat
    OBVIOUS
  <1>2. WordsFit(h, len)
    BY <1>1 DEF WordsFit
  <1>3. LayoutEnd(h) <= len
    BY <1>1 DEF LayoutEnd
  <1> QED
    BY <1>2, <1>3

(***************************************************************************)
(* A blank header fits any mapping.                                        *)
(***************************************************************************)
LEMMA BlankFits == \A len \in Nat : WordsFit(Blank, len) /\ LayoutEnd(Blank) <= len
  BY HeaderFacts DEF WordsFit, LayoutEnd

(***************************************************************************)
(* At the start there is no header.                                        *)
(***************************************************************************)
LEMMA HeaderInit == AttachInit => HeaderInv
  <1> SUFFICES ASSUME AttachInit PROVE HeaderInv
    OBVIOUS
  <1>1. HeadersFit
    BY DEF AttachInit, RegionsInit, HeadersFit, Regions
  <1>2. InitFits /\ SeenFits
    BY AttachConstants DEF AttachInit, InitFits, SeenFits, MappedPc, ValidPc
  <1> QED
    BY <1>1, <1>2 DEF HeaderInv

(***************************************************************************)
(* Whichever step a hub takes, or where it is killed, headers fit.         *)
(***************************************************************************)
LEMMA HeaderHub ==
    ASSUME AttachTypeOK, HeaderInv, NEW h \in Hubs, HubStep(h)
    PROVE  HeaderInv'
  <1> USE AttachConstants
  <1>1. /\ RegionsTyped /\ made \in Nat /\ MaxRegions \in Nat /\ made <= MaxRegions
        /\ pc \in [Procs -> HubPc \cup WorkerPc]
        /\ hdr \in [Regions -> [1 .. 5 -> Nat]]
        /\ want \in [Hubs -> Configs]
        /\ regionLen \in [Regions -> Nat]
        /\ \A p \in Procs : map[p] \in 0 .. made
    BY RegionsAssumption DEF AttachTypeOK, RegionsTyped
  <1>2. /\ RegionsTyped'
        /\ \A q \in Procs \ {h} : map'[q] = map[q]
        /\ made' = made \/ made' = made + 1
        /\ \A k \in Regions : k <= made => regionLen'[k] = regionLen[k]
        /\ made' # made => \E g \in Hubs : CreateRegion(h, "control", want[g].size)
    BY RegionSteps DEF HubStep, HubCreate, HubReclaim, HubRetry, HubAdopt, HubCheck, HubInit,
        HubUnlinkEvent, HubCreateEvent, HubDrop, HubReleaseRegion, HubReleaseEvent, HubKill
  <1>3. UNCHANGED <<want, seen>> /\ \E l \in HubPc : pc' = [pc EXCEPT ![h] = l]
    BY DEF HubPc, Goto, HubStep, HubCreate, HubReclaim, HubRetry, HubAdopt, HubCheck, HubInit,
        HubUnlinkEvent, HubCreateEvent, HubDrop, HubReleaseRegion, HubReleaseEvent, HubKill
  <1>4. \A q \in Procs \ {h} : pc'[q] = pc[q]
    BY <1>1, <1>3
  <1>5. \A k \in 1 .. made : k \in Regions /\ regionLen'[k] = regionLen[k]
    <2>1. made \in Nat /\ MaxRegions \in Nat /\ made <= MaxRegions
      BY <1>1
    <2>2. \A k \in 1 .. made : k \in Regions /\ k <= made
      BY <2>1 DEF Regions
    <2> QED
      BY <1>2, <2>2
  <1>6. SeenFits'
    <2> SUFFICES ASSUME NEW w \in Workers
                 PROVE  /\ pc'[w] \in MappedPc =>
                            /\ map'[w] # 0
                            /\ Len(seen'[w]) >= 1 /\ seen'[w][1] # 0 =>
                                   HeapOffset(0) <= regionLen'[map'[w]]
                            /\ Len(seen'[w]) >= 3 /\ seen'[w][3] # 0 =>
                                   HeapOffset(seen'[w][3]) <= regionLen'[map'[w]]
                        /\ pc'[w] \in ValidPc =>
                            /\ Len(seen'[w]) = 5
                            /\ Recognised(seen'[w])
                            /\ LayoutEnd(seen'[w]) <= regionLen'[map'[w]]
      BY DEF SeenFits
    <2>1. pc'[w] = pc[w] /\ map'[w] = map[w] /\ seen'[w] = seen[w]
      BY <1>2, <1>3, <1>4
    <2>2. ValidPc \subseteq MappedPc
      BY DEF ValidPc, MappedPc
    <2>3. pc[w] \in MappedPc => map[w] # 0 /\ regionLen'[map[w]] = regionLen[map[w]]
      <3>1. pc[w] \in MappedPc => map[w] # 0
        BY DEF HeaderInv, SeenFits
      <3> QED
        BY <1>1, <1>5, <3>1
    <2> QED
      BY <2>1, <2>2, <2>3 DEF HeaderInv, SeenFits
  <1>7. InitFits'
    <2>1. ASSUME NEW g \in Hubs, g # h
          PROVE  /\ pc'[g] \in {"mapped", "init"} => map'[g] # 0
                 /\ pc'[g] = "init" => LayoutEnd(HeaderOf(want'[g])) <= regionLen'[map'[g]]
      <3>1. pc'[g] = pc[g] /\ map'[g] = map[g] /\ want'[g] = want[g]
        BY <1>2, <1>3, <1>4, <2>1
      <3>2. pc[g] = "init" => map[g] # 0 /\ regionLen'[map[g]] = regionLen[map[g]]
        BY <1>1, <1>5 DEF HeaderInv, InitFits
      <3> QED
        BY <3>1, <3>2 DEF HeaderInv, InitFits
    <2>2. pc'[h] = "mapped" => map'[h] # 0
      <3>1. pc'[h] = "mapped" => HubCreate(h) \/ HubRetry(h) \/ HubAdopt(h)
        BY <1>1 DEF Goto, HubStep, HubCreate, HubReclaim, HubRetry, HubAdopt, HubCheck, HubInit,
            HubUnlinkEvent, HubCreateEvent, HubDrop, HubReleaseRegion, HubReleaseEvent, HubKill, Events
      <3>2. ASSUME CreateRegion(h, "control", want[h].size) PROVE map'[h] # 0
        <4>1. map' = [map EXCEPT ![h] = made + 1]
          BY <3>2 DEF CreateRegion
        <4> QED
          BY <1>1, <4>1 DEF RegionsTyped
      <3>3. ASSUME OpenRegion(h, "control") PROVE map'[h] # 0
        <4>1. map' = [map EXCEPT ![h] = denotes["control"]] /\ denotes["control"] # 0
          BY <3>3 DEF OpenRegion, CanOpen
        <4> QED
          BY <1>1, <4>1 DEF RegionsTyped
      <3>4. pc'[h] = "mapped" =>
                CreateRegion(h, "control", want[h].size) \/ OpenRegion(h, "control")
        BY <1>1, <3>1 DEF Goto, HubCreate, HubRetry, HubAdopt
      <3> QED
        BY <3>2, <3>3, <3>4
    <2>3. pc'[h] = "init" =>
              map'[h] # 0 /\ LayoutEnd(HeaderOf(want'[h])) <= regionLen'[map'[h]]
      <3>1. pc'[h] = "init" => HubCheck(h)
        BY <1>1 DEF Goto, HubStep, HubCreate, HubReclaim, HubRetry, HubAdopt, HubCheck, HubInit,
            HubUnlinkEvent, HubCreateEvent, HubDrop, HubReleaseRegion, HubReleaseEvent, HubKill, Events
      <3> SUFFICES ASSUME HubCheck(h), pc'[h] = "init"
                   PROVE  map'[h] # 0 /\ LayoutEnd(HeaderOf(want'[h])) <= regionLen'[map'[h]]
        BY <3>1
      <3>2. /\ pc[h] = "mapped"
            /\ ~(LayoutEnd(HeaderOf(want[h])) > regionLen[map[h]])
            /\ UNCHANGED regionVars
        BY <1>1 DEF HubCheck, Goto
      <3>3. map[h] # 0 /\ map[h] \in Regions
        BY <1>1, <1>5, <3>2 DEF HeaderInv, InitFits
      <3>4. regionLen[map[h]] \in Nat /\ LayoutEnd(HeaderOf(want[h])) \in Nat
        <4>1. HeaderOf(want[h])[4] \in Nat /\ HeaderOf(want[h])[5] \in Nat
          BY <1>1, HeaderFacts
        <4> QED
          BY <1>1, <3>3, <4>1 DEF LayoutEnd
      <3> QED
        BY <1>3, <3>2, <3>3, <3>4 DEF regionVars
    <2> QED
      BY <2>1, <2>2, <2>3 DEF InitFits
  <1>8. HeadersFit'
    <2>1. CASE UNCHANGED hdr
      <3> SUFFICES ASSUME NEW k \in Regions
                   PROVE  IF k <= made' THEN WordsFit(hdr[k], regionLen'[k]) /\ LayoutEnd(hdr[k]) <= regionLen'[k]
                          ELSE hdr[k] = Blank
        BY <2>1 DEF HeadersFit
      <3>1. k \in Nat
        BY DEF Regions
      <3>2. CASE k <= made
        BY <1>1, <1>2, <3>1, <3>2 DEF HeaderInv, HeadersFit
      <3>3. CASE ~(k <= made)
        <4>1. hdr[k] = Blank
          BY <3>3 DEF HeaderInv, HeadersFit
        <4>2. regionLen'[k] \in Nat
          BY <1>2 DEF RegionsTyped
        <4> QED
          BY <4>1, <4>2, BlankFits
      <3> QED
        BY <3>2, <3>3
    <2>2. CASE /\ pc[h] = "init" /\ made' = made
               /\ \E x : /\ hdr' = [hdr EXCEPT ![map[h]] = x]
                         /\ x \in {HeaderOf(want[h])} \cup Between(hdr[map[h]], Blank)
                                    \cup Between(Blank, HeaderOf(want[h]))
      <3>1. /\ map[h] \in Regions /\ map[h] <= made
            /\ LayoutEnd(HeaderOf(want[h])) <= regionLen[map[h]]
            /\ regionLen[map[h]] \in Nat
        BY <1>1, <1>5, <2>2 DEF HeaderInv, InitFits
      <3>2. WordsFit(HeaderOf(want[h]), regionLen[map[h]])
        BY <1>1, <3>1, HeaderFits
      <3>3. WordsFit(hdr[map[h]], regionLen[map[h]]) /\ LayoutEnd(hdr[map[h]]) <= regionLen[map[h]]
        BY <3>1 DEF HeaderInv, HeadersFit
      <3>4. HeaderOf(want[h]) \in [1 .. 5 -> Nat] /\ hdr[map[h]] \in [1 .. 5 -> Nat]
        BY <1>1, <3>1, HeaderFacts
      <3>5. PICK x : /\ hdr' = [hdr EXCEPT ![map[h]] = x]
                     /\ x \in {HeaderOf(want[h])} \cup Between(hdr[map[h]], Blank)
                                \cup Between(Blank, HeaderOf(want[h]))
        BY <2>2
      <3>6. WordsFit(x, regionLen[map[h]]) /\ LayoutEnd(x) <= regionLen[map[h]]
        <4>1. CASE x = HeaderOf(want[h])
          BY <3>1, <3>2, <4>1
        <4>2. CASE x \in Between(hdr[map[h]], Blank)
          <5>1. x \in [1 .. 5 -> Nat] /\ \A i \in 1 .. 5 : x[i] = hdr[map[h]][i] \/ x[i] = 0
            BY <3>4, <4>2, BetweenFacts, HeaderFacts
          <5> QED
            BY <3>1, <3>3, <3>4, <5>1, ZeroesFit
        <4>3. CASE x \in Between(Blank, HeaderOf(want[h]))
          <5>1. x \in [1 .. 5 -> Nat] /\ \A i \in 1 .. 5 : x[i] = HeaderOf(want[h])[i] \/ x[i] = 0
            BY <3>4, <4>3, BetweenFacts, HeaderFacts
          <5> QED
            BY <3>1, <3>2, <3>4, <5>1, ZeroesFit
        <4> QED
          BY <3>5, <4>1, <4>2, <4>3
      <3>7. \A k \in Regions : hdr'[k] = IF k = map[h] THEN x ELSE hdr[k]
        BY <1>1, <3>5
      <3>8. \A k \in Regions : k <= made => regionLen'[k] = regionLen[k]
        BY <1>2
      <3> SUFFICES ASSUME NEW k \in Regions
                   PROVE  IF k <= made' THEN WordsFit(hdr'[k], regionLen'[k]) /\ LayoutEnd(hdr'[k]) <= regionLen'[k]
                          ELSE hdr'[k] = Blank
        BY DEF HeadersFit
      <3>9. CASE k = map[h]
        BY <2>2, <3>1, <3>6, <3>7, <3>8, <3>9
      <3>10. CASE k # map[h]
        BY <2>2, <3>7, <3>8, <3>10 DEF HeaderInv, HeadersFit
      <3> QED
        BY <3>9, <3>10
    <2>3. UNCHANGED hdr \/ (pc[h] = "init" /\ (HubInit(h) \/ HubKill(h)))
      BY DEF HubStep, HubCreate, HubReclaim, HubRetry, HubAdopt, HubCheck, HubInit,
          HubUnlinkEvent, HubCreateEvent, HubDrop, HubReleaseRegion, HubReleaseEvent, HubKill
    <2>4. HubInit(h) \/ HubKill(h) => made' = made
      BY DEF HubInit, HubKill, KillRegion, regionVars
    <2>5. HubInit(h) => hdr' = [hdr EXCEPT ![map[h]] = HeaderOf(want[h])]
      BY DEF HubInit
    <2>6. HubKill(h) /\ pc[h] = "init" =>
              \E x \in Between(hdr[map[h]], Blank) \cup Between(Blank, HeaderOf(want[h])) :
                  hdr' = [hdr EXCEPT ![map[h]] = x]
      BY DEF HubKill
    <2> QED
      BY <2>1, <2>2, <2>3, <2>4, <2>5, <2>6
  <1> QED
    BY <1>6, <1>7, <1>8 DEF HeaderInv

(***************************************************************************)
(* A worker that reads word by word, while a header is being written or    *)
(* not, sees words that fit.                                               *)
(***************************************************************************)
LEMMA HeaderWorker ==
    ASSUME AttachTypeOK, HeaderInv, NEW w \in Workers, WorkerStep(w)
    PROVE  HeaderInv'
  <1> USE AttachConstants
  <1>1. /\ RegionsTyped /\ made \in 0 .. MaxRegions /\ MaxRegions \in Nat
        /\ pc \in [Procs -> HubPc \cup WorkerPc]
        /\ hdr \in [Regions -> [1 .. 5 -> Nat]]
        /\ want \in [Hubs -> Configs]
        /\ seen \in [Workers -> Seq(Nat)]
        /\ regionLen \in [Regions -> Nat]
        /\ \A p \in Procs : map[p] \in 0 .. made
    BY RegionsAssumption DEF AttachTypeOK, RegionsTyped
  <1>2. /\ \A q \in Procs \ {w} : map'[q] = map[q]
        /\ UNCHANGED <<made, regionLen>>
    <2>1. UNCHANGED regionVars \/ OpenRegion(w, "control") \/ CloseRegion(w)
      BY DEF WorkerStep, WorkerMap, WorkerRead, WorkerValidate, WorkerOpenEvent, WorkerGone, Forget
    <2> QED
      BY <1>1, <2>1, OpenFacts, CloseFacts DEF regionVars
  <1>3. UNCHANGED <<want, hdr>> /\ (UNCHANGED pc \/ \E l \in WorkerPc : pc' = [pc EXCEPT ![w] = l])
    BY DEF WorkerPc, Goto, WorkerStep, WorkerMap, WorkerRead, WorkerValidate, WorkerOpenEvent, WorkerGone, Forget
  <1>4. \A q \in Procs \ {w} : pc'[q] = pc[q]
    BY <1>1, <1>3
  <1>5. HeadersFit'
    BY <1>2, <1>3 DEF HeaderInv, HeadersFit
  <1>6. InitFits'
    <2>1. \A h \in Hubs : pc'[h] = pc[h] /\ map'[h] = map[h] /\ want'[h] = want[h]
      BY <1>2, <1>3, <1>4
    <2> QED
      BY <1>2, <2>1 DEF HeaderInv, InitFits
  <1> DEFINE Fine(v) ==
                /\ pc'[v] \in MappedPc =>
                    /\ map'[v] # 0
                    /\ Len(seen'[v]) >= 1 /\ seen'[v][1] # 0 =>
                           HeapOffset(0) <= regionLen'[map'[v]]
                    /\ Len(seen'[v]) >= 3 /\ seen'[v][3] # 0 =>
                           HeapOffset(seen'[v][3]) <= regionLen'[map'[v]]
                /\ pc'[v] \in ValidPc =>
                    /\ Len(seen'[v]) = 5
                    /\ Recognised(seen'[v])
                    /\ LayoutEnd(seen'[v]) <= regionLen'[map'[v]]
             Was(v) ==
                /\ pc[v] \in MappedPc =>
                    /\ map[v] # 0
                    /\ Len(seen[v]) >= 1 /\ seen[v][1] # 0 =>
                           HeapOffset(0) <= regionLen[map[v]]
                    /\ Len(seen[v]) >= 3 /\ seen[v][3] # 0 =>
                           HeapOffset(seen[v][3]) <= regionLen[map[v]]
                /\ pc[v] \in ValidPc =>
                    /\ Len(seen[v]) = 5
                    /\ Recognised(seen[v])
                    /\ LayoutEnd(seen[v]) <= regionLen[map[v]]
  <1>7. \A v \in Workers : Was(v)
    BY DEF HeaderInv, SeenFits
  <1>8. \A v \in Workers \ {w} : Fine(v)
    <2>1. \A v \in Workers \ {w} : seen'[v] = seen[v]
      BY <1>1 DEF WorkerStep, WorkerMap, WorkerRead, WorkerValidate, WorkerOpenEvent, WorkerGone, Forget
    <2> QED
      BY <1>2, <1>4, <1>7, <2>1
  <1>9. Fine(w)
    <2>1. CASE pc'[w] \notin MappedPc
      BY <2>1 DEF MappedPc, ValidPc
    <2>2. CASE WorkerMap(w)
      <3>1. /\ map' = [map EXCEPT ![w] = denotes["control"]] /\ denotes["control"] # 0
            /\ seen' = [seen EXCEPT ![w] = <<>>]
            /\ pc' = [pc EXCEPT ![w] = "read"]
        BY <2>2 DEF WorkerMap, OpenRegion, CanOpen, Goto
      <3>2. map'[w] # 0
        BY <1>1, <3>1 DEF RegionsTyped
      <3>3. seen'[w] = <<>> /\ pc'[w] = "read"
        BY <1>1, <3>1
      <3>4. Len(seen'[w]) = 0
        BY <3>3
      <3> QED
        BY <3>2, <3>3, <3>4 DEF ValidPc
    <2>3. CASE WorkerRead(w)
      <3>1. pc[w] = "read" /\ UNCHANGED <<regionVars, pc>> /\ Len(seen[w]) < 5 /\ Len(seen[w]) \in Nat
        BY <1>1, <2>3 DEF WorkerRead
      <3>2. map[w] # 0
        BY <1>7, <3>1 DEF MappedPc
      <3>3. map[w] \in Regions /\ map[w] <= made
        <4>1. map[w] \in 0 .. made /\ made \in 0 .. MaxRegions /\ MaxRegions \in Nat
          BY <1>1
        <4> QED
          BY <3>2, <4>1 DEF Regions
      <3>4. Len(seen[w]) + 1 \in 1 .. 5
        BY <3>1
      <3>5. PICK word \in WordsRead(map[w], Len(seen[w]) + 1) :
                seen' = [seen EXCEPT ![w] = Append(seen[w], word)]
        BY <2>3 DEF WorkerRead
      <3> DEFINE i == Len(seen[w]) + 1
                 len == regionLen[map[w]]
      <3>6. /\ word \in Nat
            /\ \/ word = hdr[map[w]][i]
               \/ word = 0
               \/ \E h \in Hubs : pc[h] = "init" /\ map[h] = map[w] /\ word = HeaderOf(want[h])[i]
        BY <3>3, <3>4, <3>5, ReadFacts
      <3>7. len \in Nat
        BY <1>1, <3>3
      <3>8. WordsFit(hdr[map[w]], len)
        BY <3>3 DEF HeaderInv, HeadersFit
      <3>9. \A h \in Hubs : pc[h] = "init" /\ map[h] = map[w] => WordsFit(HeaderOf(want[h]), len)
        BY <1>1, <3>7, HeaderFits DEF HeaderInv, InitFits
      <3> HIDE DEF i, len
      <3>10. i = 1 /\ word # 0 => HeapOffset(0) <= len
        BY <3>6, <3>8, <3>9 DEF WordsFit
      <3>11. i = 3 /\ word # 0 => HeapOffset(word) <= len
        BY <3>6, <3>8, <3>9 DEF WordsFit
      <3>12. /\ seen[w] \in Seq(Nat)
             /\ seen'[w] = Append(seen[w], word)
        BY <1>1, <3>5
      <3>13. /\ Len(seen'[w]) = i /\ seen'[w][i] = word
             /\ \A j \in 1 .. Len(seen[w]) : seen'[w][j] = seen[w][j]
        BY <3>6, <3>12 DEF i
      <3>14. Len(seen'[w]) >= 1 /\ seen'[w][1] # 0 => HeapOffset(0) <= len
        <4>1. CASE i = 1
          BY <3>10, <3>13, <4>1
        <4>2. CASE i # 1
          <5>1. Len(seen[w]) >= 1 /\ seen'[w][1] = seen[w][1]
            BY <3>1, <3>13, <4>2 DEF i
          <5> QED
            BY <1>7, <3>1, <5>1 DEF MappedPc, len
        <4> QED
          BY <4>1, <4>2
      <3>15. Len(seen'[w]) >= 3 /\ seen'[w][3] # 0 => HeapOffset(seen'[w][3]) <= len
        <4>1. CASE i = 3
          BY <3>11, <3>13, <4>1
        <4>2. CASE i < 3
          BY <3>1, <3>13, <4>2 DEF i
        <4>3. CASE i > 3
          <5>1. Len(seen[w]) >= 3 /\ seen'[w][3] = seen[w][3]
            BY <3>1, <3>13, <4>3 DEF i
          <5> QED
            BY <1>7, <3>1, <5>1 DEF MappedPc, len
        <4> QED
          BY <3>1, <4>1, <4>2, <4>3 DEF i
      <3>16. map'[w] = map[w] /\ regionLen' = regionLen /\ pc'[w] = "read"
        BY <3>1 DEF regionVars
      <3> QED
        BY <3>2, <3>14, <3>15, <3>16 DEF ValidPc, len
    <2>4. CASE WorkerValidate(w) /\ pc'[w] \in MappedPc
      <3>1. /\ pc[w] = "read" /\ Len(seen[w]) = 5
            /\ IF Recognised(seen[w]) /\ LayoutEnd(seen[w]) <= regionLen[map[w]]
               THEN pc' = [pc EXCEPT ![w] = "req"] /\ UNCHANGED <<regionVars, seen>>
               ELSE pc' = [pc EXCEPT ![w] = "failed"]
        BY <2>4 DEF WorkerValidate, Goto
      <3>2. /\ Recognised(seen[w]) /\ LayoutEnd(seen[w]) <= regionLen[map[w]]
            /\ UNCHANGED <<regionVars, seen>>
        BY <1>1, <2>4, <3>1 DEF MappedPc
      <3>3. UNCHANGED <<map, regionLen>>
        BY <3>2 DEF regionVars
      <3>4. Was(w) /\ pc[w] \in MappedPc
        BY <1>7, <3>1 DEF MappedPc
      <3> QED
        BY <3>1, <3>2, <3>3, <3>4
    <2>5. CASE (\E e \in Events : WorkerOpenEvent(w, e)) /\ pc'[w] \in MappedPc
      <3>1. PICK e \in Events : WorkerOpenEvent(w, e)
        BY <2>5
      <3>2. pc[w] \in {"req", "rsp"} /\ pc'[w] # "failed"
        BY <2>5, <3>1 DEF WorkerOpenEvent, Events, MappedPc
      <3>3. UNCHANGED regionVars /\ UNCHANGED seen
        BY <1>1, <3>1, <3>2 DEF WorkerOpenEvent, Goto
      <3>4. Was(w) /\ pc[w] \in MappedPc /\ pc[w] \in ValidPc /\ UNCHANGED <<map, regionLen>>
        BY <1>7, <3>2, <3>3 DEF MappedPc, ValidPc, regionVars
      <3> QED
        BY <3>3, <3>4
    <2>6. CASE WorkerGone(w)
      <3>1. pc'[w] = "idle"
        BY <1>1, <2>6 DEF WorkerGone, Goto
      <3> QED
        BY <3>1 DEF MappedPc, ValidPc
    <2> QED
      BY <2>1, <2>2, <2>3, <2>4, <2>5, <2>6 DEF WorkerStep
  <1>10. SeenFits'
    <2>1. \A v \in Workers : Fine(v)
      BY <1>8, <1>9
    <2> QED
      BY <2>1 DEF SeenFits
  <1> QED
    BY <1>5, <1>6, <1>10 DEF HeaderInv

(***************************************************************************)
(* Every step keeps the types and the headers honest.                      *)
(***************************************************************************)
LEMMA HeaderStep ==
    ASSUME AttachTypeOK, HeaderInv, [AttachNext]_attachVars
    PROVE  AttachTypeOK' /\ HeaderInv'
  <1>1. CASE UNCHANGED attachVars
    <2>1. AttachTypeOK'
      BY <1>1 DEF attachVars, regionVars, AttachTypeOK, RegionsTyped
    <2>2. HeaderInv'
      BY <1>1 DEF attachVars, regionVars, HeaderInv, HeadersFit, InitFits, SeenFits
    <2> QED
      BY <2>1, <2>2
  <1>2. ASSUME NEW h \in Hubs, HubStep(h)
        PROVE  AttachTypeOK' /\ HeaderInv'
    BY <1>2, AttachTypeHub, HeaderHub
  <1>3. ASSUME NEW w \in Workers, WorkerStep(w)
        PROVE  AttachTypeOK' /\ HeaderInv'
    <2>1. \A v \in Workers : pc[v] \in MappedPc => map[v] # 0
      BY DEF HeaderInv, SeenFits
    <2> QED
      BY <1>3, <2>1, AttachTypeWorker, HeaderWorker
  <1>4. AttachNext => (\E h \in Hubs : HubStep(h)) \/ \E w \in Workers : WorkerStep(w)
    BY DEF AttachNext, HubStep, WorkerStep
  <1> QED
    BY <1>1, <1>2, <1>3, <1>4

(***************************************************************************)
(* In every behaviour the types hold, and no header lies, half written or  *)
(* not.                                                                    *)
(***************************************************************************)
THEOREM HeadersCorrect == AttachSpec => [](AttachTypeOK /\ HeaderInv)
  <1>1. AttachInit => AttachTypeOK /\ HeaderInv
    BY AttachTypeInit, HeaderInit
  <1>2. (AttachTypeOK /\ HeaderInv) /\ [AttachNext]_attachVars => (AttachTypeOK /\ HeaderInv)'
    BY HeaderStep
  <1> QED
    BY <1>1, <1>2, PTL DEF AttachSpec

(***************************************************************************)
(* Type correctness of the handshake.                                      *)
(***************************************************************************)
THEOREM AttachTypeCorrect == AttachSpec => []AttachTypeOK
  BY HeadersCorrect, PTL

(***************************************************************************)
(* A region never advertises more than the mapping that backs it, wherever *)
(* a hub was killed while it wrote the header.                             *)
(***************************************************************************)
THEOREM HeadersHonest == AttachSpec => []HeaderHonest
  <1>1. ASSUME AttachTypeOK, HeaderInv, NEW k \in 1 .. made, Recognised(hdr[k])
        PROVE  LayoutEnd(hdr[k]) <= regionLen[k] /\ HeapOffset(hdr[k][3]) <= regionLen[k]
    <2>1. k \in Regions /\ k <= made
      <3>1. made \in 0 .. MaxRegions /\ MaxRegions \in Nat
        BY <1>1, RegionsAssumption DEF AttachTypeOK, RegionsTyped
      <3> QED
        BY <3>1 DEF Regions
    <2>2. WordsFit(hdr[k], regionLen[k]) /\ LayoutEnd(hdr[k]) <= regionLen[k]
      BY <1>1, <2>1 DEF HeaderInv, HeadersFit
    <2>3. hdr[k][1] # 0
      BY <1>1, HeaderFacts DEF Recognised
    <2> QED
      BY <2>2, <2>3 DEF WordsFit
  <1>2. AttachTypeOK /\ HeaderInv => HeaderHonest
    BY <1>1 DEF HeaderHonest
  <1> QED
    BY <1>2, HeadersCorrect, PTL

(***************************************************************************)
(* A worker that opened successfully stays inside its mapping, whatever    *)
(* was being written while it read.                                        *)
(***************************************************************************)
THEOREM AccessInMapping == AttachSpec => []WorkerAccessInMapping
  <1>1. ASSUME HeaderInv, NEW w \in Workers, pc[w] \in {"req", "rsp", "up"}
        PROVE  LayoutEnd(seen[w]) <= regionLen[map[w]] /\ HeapOffset(seen[w][3]) <= regionLen[map[w]]
    <2>1. /\ Len(seen[w]) = 5 /\ Recognised(seen[w]) /\ LayoutEnd(seen[w]) <= regionLen[map[w]]
          /\ Len(seen[w]) >= 1 /\ seen[w][1] # 0 => HeapOffset(0) <= regionLen[map[w]]
          /\ Len(seen[w]) >= 3 /\ seen[w][3] # 0 => HeapOffset(seen[w][3]) <= regionLen[map[w]]
      BY <1>1 DEF HeaderInv, SeenFits, ValidPc, MappedPc
    <2>2. seen[w][1] # 0
      BY <2>1, HeaderFacts DEF Recognised
    <2> QED
      BY <2>1, <2>2
  <1>2. HeaderInv => WorkerAccessInMapping
    BY <1>1 DEF WorkerAccessInMapping
  <1> QED
    BY <1>2, HeadersCorrect, PTL

(***************************************************************************)
(* A live region keeps its name until its owner lets go of it.             *)
(***************************************************************************)
THEOREM LiveNamesKept == AttachSpec => LiveRegionKeepsName
  <1> DEFINE Kept == \A n \in Names : \A k \in Regions : denotes[n] = k /\ denotes'[n] # k =>
                        \/ \A p \in Procs : map'[p] # k
                        \/ \E p \in Procs : owner[k] = p /\ map[p] = k /\ map'[p] # k
  <1>1. ASSUME AttachTypeOK, [AttachNext]_attachVars PROVE Kept
    <2> USE AttachConstants
    <2>1. RegionsTyped
      BY <1>1 DEF AttachTypeOK
    <2>2. \/ UNCHANGED regionVars
          \/ \E p \in Procs :
               \/ \E h \in Hubs : CreateRegion(p, "control", want[h].size)
               \/ OpenRegion(p, "control") \/ ReclaimRegion("control")
               \/ CloseRegion(p) \/ KillRegion(p)
      <3>1. CASE UNCHANGED attachVars
        BY <3>1 DEF attachVars
      <3>2. ASSUME NEW h \in Hubs, HubStep(h)
            PROVE  \/ UNCHANGED regionVars
                   \/ CreateRegion(h, "control", want[h].size)
                   \/ OpenRegion(h, "control") \/ ReclaimRegion("control")
                   \/ CloseRegion(h) \/ KillRegion(h)
        BY <3>2 DEF HubStep, HubCreate, HubReclaim, HubRetry, HubAdopt, HubCheck, HubInit,
            HubUnlinkEvent, HubCreateEvent, HubDrop, HubReleaseRegion, HubReleaseEvent, HubKill
      <3>3. ASSUME NEW w \in Workers, WorkerStep(w)
            PROVE  UNCHANGED regionVars \/ OpenRegion(w, "control") \/ CloseRegion(w)
        BY <3>3 DEF WorkerStep, WorkerMap, WorkerRead, WorkerValidate, WorkerOpenEvent, WorkerGone, Forget
      <3>4. AttachNext => (\E h \in Hubs : HubStep(h)) \/ \E w \in Workers : WorkerStep(w)
        BY DEF AttachNext, HubStep, WorkerStep
      <3> QED
        BY <1>1, <3>1, <3>2, <3>3, <3>4
    <2>3. \A h \in Hubs : want[h].size \in Nat
      BY <1>1, AttachAssumption DEF AttachTypeOK, Configs
    <2>4. \/ UNCHANGED regionVars
          \/ \E p \in Procs :
               \/ \E m \in Names, l \in Nat : CreateRegion(p, m, l)
               \/ \E m \in Names : OpenRegion(p, m) \/ ReclaimRegion(m)
               \/ CloseRegion(p) \/ KillRegion(p)
      BY <2>2, <2>3
    <2> QED
      BY <2>1, <2>4, NameLost
  <1>2. AttachTypeOK /\ [AttachNext]_attachVars => [Kept]_attachVars
    BY <1>1
  <1> QED
    BY <1>2, AttachTypeCorrect, PTL DEF AttachSpec, LiveRegionKeepsName
-----------------------------------------------------------------------------

(***************************************************************************)
(* At the start nobody has created anything.                               *)
(***************************************************************************)
LEMMA ReachInit == AttachInit => ReachInv
  <1> SUFFICES ASSUME AttachInit PROVE ReachInv
    OBVIOUS
  <1> USE AttachConstants DEF AttachInit, RegionsInit
  <1>1. OneHub /\ LeftAlone /\ NamesLead
    BY DEF OneHub, LeftAlone, NamesLead, ActivePc, HoldingPc
  <1>2. OwnersHold
    BY DEF OwnersHold
  <1>3. EventsLead /\ HeaderStands
    BY DEF EventsLead, HeaderStands
  <1>4. MetWasUp /\ WorkerFollows
    BY DEF MetWasUp, WorkerFollows
  <1> QED
    BY <1>1, <1>2, <1>3, <1>4 DEF ReachInv

(***************************************************************************)
(* While a hub that is alone is at work, no other hub takes a step.        *)
(***************************************************************************)
LEMMA OnlyThisHubMoves ==
    ASSUME AttachTypeOK, OneHub, LeftAlone, NEW h \in Hubs, HubStep(h),
           NEW f \in Hubs \ overlapped, f # h, pc[f] \in ActivePc
    PROVE  FALSE
  <1>1. pc[h] \notin ActivePc /\ pc[h] \notin LeavingPc
    BY DEF OneHub, LeftAlone
  <1>2. HubCreate(h)
    <2>1. pc[h] \in HubPc
      BY DEF AttachTypeOK
    <2>2. pc[h] \in {"idle", "gone", "failed", "killed"}
      BY <1>1, <2>1 DEF HubPc, ActivePc, HoldingPc, LeavingPc
    <2> QED
      BY <2>2 DEF HubStep, HubCreate, HubReclaim, HubRetry, HubAdopt, HubCheck, HubInit,
          HubUnlinkEvent, HubCreateEvent, HubDrop, HubReleaseRegion, HubReleaseEvent, HubKill, Events
  <1> QED
    BY <1>2 DEF HubCreate, MayCreate, DropReturned, ActivePc, HoldingPc

(***************************************************************************)
(* From where a hub gets to where.                                         *)
(***************************************************************************)
LEMMA HubMoves ==
    ASSUME AttachTypeOK, NEW h \in Hubs, HubStep(h)
    PROVE  /\ \A q \in Procs \ {h} : pc'[q] = pc[q]
           /\ UNCHANGED <<want, seen, met>>
           /\ pc'[h] \in ActivePc => pc[h] \in ActivePc \/ HubCreate(h)
           /\ pc'[h] = "mapped" =>
                CreateRegion(h, "control", want[h].size) \/ OpenRegion(h, "control")
           /\ pc'[h] \in HoldingPc \ {"mapped"} => pc[h] \in HoldingPc /\ UNCHANGED regionVars
           /\ pc'[h] \in LeavingPc => pc[h] \in {"up", "dropping"}
           /\ pc'[h] = "up" => pc[h] = "rsp_open" /\ HubCreateEvent(h, "rsp")
           /\ pc[h] \in {"up", "dropping", "gone", "killed"} =>
                pc'[h] \in {"dropping", "gone", "killed"}
           /\ overlapped' = overlapped
                \/ (HubCreate(h) /\ overlapped' = overlapped \cup
                        {g \in {h} : \E o \in Hubs : pc[o] = "dropping"})
  <1> USE AttachConstants
  <1>1. pc \in [Procs -> HubPc \cup WorkerPc]
    BY DEF AttachTypeOK
  <1>2. \E l : pc' = [pc EXCEPT ![h] = l]
    BY DEF Goto, HubStep, HubCreate, HubReclaim, HubRetry, HubAdopt, HubCheck, HubInit,
        HubUnlinkEvent, HubCreateEvent, HubDrop, HubReleaseRegion, HubReleaseEvent, HubKill
  <1>3. UNCHANGED <<want, seen, met>>
    BY DEF HubStep, HubCreate, HubReclaim, HubRetry, HubAdopt, HubCheck, HubInit,
        HubUnlinkEvent, HubCreateEvent, HubDrop, HubReleaseRegion, HubReleaseEvent, HubKill
  <1>4. overlapped' = overlapped
          \/ (HubCreate(h) /\ overlapped' = overlapped \cup
                  {g \in {h} : \E o \in Hubs : pc[o] = "dropping"})
    BY DEF HubStep, HubCreate, HubReclaim, HubRetry, HubAdopt, HubCheck, HubInit,
        HubUnlinkEvent, HubCreateEvent, HubDrop, HubReleaseRegion, HubReleaseEvent, HubKill
  <1>5. HubCreate(h) =>
            \/ pc'[h] = "mapped" /\ CreateRegion(h, "control", want[h].size)
            \/ pc'[h] = "taken"
    BY <1>1 DEF HubCreate, Goto
  <1>6. HubCreate(h) => pc[h] = "idle"
    BY DEF HubCreate
  <1>7. HubReclaim(h) => pc[h] = "taken" /\ pc'[h] \in {"retry", "adopt"}
    BY <1>1 DEF HubReclaim, Goto
  <1>8. HubRetry(h) => pc[h] = "retry" /\
            \/ pc'[h] = "mapped" /\ CreateRegion(h, "control", want[h].size)
            \/ pc'[h] = "adopt"
    BY <1>1 DEF HubRetry, Goto
  <1>9. HubAdopt(h) => pc[h] = "adopt" /\
            \/ pc'[h] = "mapped" /\ OpenRegion(h, "control")
            \/ pc'[h] = "failed"
    BY <1>1 DEF HubAdopt, Goto
  <1>10. HubCheck(h) => pc[h] = "mapped" /\
            \/ pc'[h] = "init" /\ UNCHANGED regionVars
            \/ pc'[h] = "failed"
    BY <1>1 DEF HubCheck, Goto
  <1>11. HubInit(h) => pc[h] = "init" /\ pc'[h] = "req" /\ UNCHANGED regionVars
    BY <1>1 DEF HubInit, Goto
  <1>12. ASSUME NEW e \in Events, HubUnlinkEvent(h, e)
         PROVE  pc[h] \in {"req", "rsp"} /\ pc'[h] \in {"req_open", "rsp_open"} /\ UNCHANGED regionVars
    BY <1>1, <1>12 DEF HubUnlinkEvent, Goto, Events
  <1>13. ASSUME NEW e \in Events, HubCreateEvent(h, e)
         PROVE  /\ UNCHANGED regionVars
                /\ \/ pc[h] = "req_open" /\ pc'[h] = "rsp"
                   \/ pc[h] = "rsp_open" /\ pc'[h] = "up" /\ e = "rsp"
    BY <1>1, <1>13 DEF HubCreateEvent, Goto, Events
  <1>14. HubDrop(h) => pc[h] = "up" /\ pc'[h] = "dropping"
    BY <1>1 DEF HubDrop, Goto
  <1>15. HubReleaseRegion(h) => pc[h] = "dropping" /\ pc'[h] \in {"dropping", "gone"}
    BY <1>1 DEF HubReleaseRegion, Goto
  <1>16. ASSUME NEW e \in Events, HubReleaseEvent(h, e)
         PROVE  pc[h] = "dropping" /\ pc'[h] \in {"dropping", "gone"}
    BY <1>1, <1>16 DEF HubReleaseEvent, Goto
  <1>17. HubKill(h) => pc[h] \notin {"idle", "gone", "failed", "killed"} /\ pc'[h] = "killed"
    BY <1>1 DEF HubKill, Goto
  <1> DEFINE Moved ==
           /\ pc'[h] \in ActivePc => pc[h] \in ActivePc \/ HubCreate(h)
           /\ pc'[h] = "mapped" =>
                CreateRegion(h, "control", want[h].size) \/ OpenRegion(h, "control")
           /\ pc'[h] \in HoldingPc \ {"mapped"} => pc[h] \in HoldingPc /\ UNCHANGED regionVars
           /\ pc'[h] \in LeavingPc => pc[h] \in {"up", "dropping"}
           /\ pc'[h] = "up" => pc[h] = "rsp_open" /\ HubCreateEvent(h, "rsp")
           /\ pc[h] \in {"up", "dropping", "gone", "killed"} =>
                pc'[h] \in {"dropping", "gone", "killed"}
  <1> USE DEF ActivePc, HoldingPc, LeavingPc
  <1>18. HubCreate(h) \/ HubReclaim(h) \/ HubRetry(h) \/ HubAdopt(h) => Moved
    BY <1>5, <1>6, <1>7, <1>8, <1>9
  <1>19. HubCheck(h) \/ HubInit(h) => Moved
    BY <1>10, <1>11
  <1>20. ASSUME NEW e \in Events, HubUnlinkEvent(h, e) \/ HubCreateEvent(h, e) PROVE Moved
    BY <1>12, <1>13, <1>20
  <1>21. HubDrop(h) \/ HubReleaseRegion(h) \/ (\E e \in Events : HubReleaseEvent(h, e)) \/ HubKill(h)
         => Moved
    BY <1>14, <1>15, <1>16, <1>17
  <1>22. Moved
    BY <1>18, <1>19, <1>20, <1>21 DEF HubStep
  <1> QED
    BY <1>1, <1>2, <1>3, <1>4, <1>22

(***************************************************************************)
(* Hubs follow one another.                                                *)
(***************************************************************************)
LEMMA OneAtATime ==
    ASSUME AttachTypeOK, OneHub, LeftAlone, NEW h \in Hubs, HubStep(h)
    PROVE  /\ OneHub' /\ LeftAlone'
           /\ \A f \in Hubs \ overlapped' : pc'[f] \in ActivePc => f = h
           /\ pc[h] \in ActivePc => overlapped' = overlapped
  <1> USE AttachConstants
  <1>1. /\ \A q \in Procs \ {h} : pc'[q] = pc[q]
        /\ pc'[h] \in ActivePc => pc[h] \in ActivePc \/ HubCreate(h)
        /\ pc'[h] \in LeavingPc => pc[h] \in {"up", "dropping"}
        /\ overlapped' = overlapped
             \/ (HubCreate(h) /\ overlapped' = overlapped \cup
                     {g \in {h} : \E o \in Hubs : pc[o] = "dropping"})
    BY HubMoves
  <1>2. HubCreate(h) => pc[h] = "idle" /\ \A g \in Hubs \ {h} : pc[g] \notin ActivePc
    BY DEF HubCreate, MayCreate, DropReturned, ActivePc, HoldingPc
  <1>3. \A f \in Hubs \ overlapped' : pc'[f] \in ActivePc => f = h
    <2> SUFFICES ASSUME NEW f \in Hubs \ overlapped', pc'[f] \in ActivePc, f # h PROVE FALSE
      OBVIOUS
    <2>1. f \in Hubs \ overlapped /\ pc[f] \in ActivePc
      BY <1>1
    <2> QED
      BY <2>1, OnlyThisHubMoves
  <1>4. OneHub'
    <2> SUFFICES ASSUME NEW f \in Hubs, NEW g \in Hubs, f # g, pc'[f] \in ActivePc, pc'[g] \in ActivePc
                 PROVE  FALSE
      BY DEF OneHub
    <2>1. \A x \in Hubs : x # h => pc'[x] = pc[x]
      BY <1>1
    <2>2. CASE f = h
      BY <1>1, <1>2, <2>1, <2>2 DEF OneHub
    <2>3. CASE g = h
      BY <1>1, <1>2, <2>1, <2>3 DEF OneHub
    <2>4. CASE f # h /\ g # h
      BY <2>1, <2>4 DEF OneHub
    <2> QED
      BY <2>2, <2>3, <2>4
  <1>5. LeftAlone'
    <2> SUFFICES ASSUME NEW f \in Hubs \ overlapped', pc'[f] \in ActivePc,
                        NEW g \in Hubs, pc'[g] \in LeavingPc
                 PROVE  FALSE
      BY DEF LeftAlone
    <2>1. f = h
      BY <1>3
    <2>2. g # h
      BY <2>1 DEF ActivePc, HoldingPc, LeavingPc
    <2>3. pc[g] \in LeavingPc
      BY <1>1, <2>2
    <2>4. CASE HubCreate(h)
      <3>1. h \notin overlapped'
        BY <2>1
      <3>2. HubCreate(h) => overlapped' = overlapped \cup
                     {x \in {h} : \E o \in Hubs : pc[o] = "dropping"}
        BY DEF HubCreate
      <3> QED
        BY <2>3, <2>4, <3>1, <3>2 DEF LeavingPc
    <2>5. CASE ~HubCreate(h)
      <3>1. pc[h] \in ActivePc /\ h \notin overlapped
        BY <1>1, <2>1, <2>5
      <3> QED
        BY <2>3, <3>1 DEF LeftAlone
    <2> QED
      BY <2>4, <2>5
  <1>6. pc[h] \in ActivePc => overlapped' = overlapped
    BY <1>1, <1>2 DEF ActivePc, HoldingPc
  <1> QED
    BY <1>3, <1>4, <1>5, <1>6

(***************************************************************************)
(* Who would remove a name still holds the region.                         *)
(***************************************************************************)
LEMMA OwnersHub ==
    ASSUME AttachTypeOK, OwnersHold, NEW h \in Hubs, HubStep(h)
    PROVE  OwnersHold'
  <1> USE AttachConstants
  <1>1. RegionsTyped /\ pc \in [Procs -> HubPc \cup WorkerPc] /\ made \in Nat /\ want[h].size \in Nat
    <2>1. RegionsTyped /\ pc \in [Procs -> HubPc \cup WorkerPc] /\ want[h] \in Configs
      BY DEF AttachTypeOK
    <2>2. made \in Nat
      BY <2>1, RegionsAssumption DEF RegionsTyped
    <2>3. want[h].size \in Nat
      BY <2>1, HeaderFacts
    <2> QED
      BY <2>1, <2>2, <2>3
  <1>2. \A q \in Procs \ {h} : pc'[q] = pc[q] /\ map'[q] = map[q]
    BY HubMoves, RegionSteps DEF HubStep, HubCreate, HubReclaim, HubRetry, HubAdopt, HubCheck,
        HubInit, HubUnlinkEvent, HubCreateEvent, HubDrop, HubReleaseRegion, HubReleaseEvent, HubKill
  <1>3. ASSUME NEW k \in Regions, owner'[k] # NoProc, owner'[k] # h, owner'[k] = owner[k]
        PROVE  /\ owner'[k] \in Hubs
               /\ map'[owner'[k]] = k
               /\ pc'[owner'[k]] \in HoldingPc \cup {"dropping"}
    BY <1>2, <1>3 DEF OwnersHold
  <1>4. \A k \in Regions : owner[k] = h => map[h] = k /\ pc[h] \in HoldingPc \cup {"dropping"}
    BY DEF OwnersHold
  <1>5. CASE pc[h] \notin HoldingPc \cup {"dropping"} /\ (UNCHANGED regionVars \/ ReclaimRegion("control"))
    <2>1. UNCHANGED owner
      BY <1>5 DEF regionVars, ReclaimRegion
    <2> QED
      BY <1>3, <1>4, <1>5, <2>1 DEF OwnersHold
  <1>6. CASE pc'[h] \in HoldingPc \cup {"dropping"} /\ UNCHANGED regionVars
    <2>1. UNCHANGED <<owner, map>>
      BY <1>6 DEF regionVars
    <2> QED
      BY <1>3, <1>4, <1>6, <2>1 DEF OwnersHold
  <1>7. CASE CreateRegion(h, "control", want[h].size) /\ pc'[h] = "mapped"
             /\ pc[h] \notin HoldingPc \cup {"dropping"}
    <2>1. /\ \A k \in Regions : owner'[k] = IF k = made + 1 THEN h ELSE owner[k]
          /\ map'[h] = made + 1
      BY <1>1, <1>7, CreateFacts
    <2>2. ASSUME NEW k \in Regions, owner'[k] # NoProc
          PROVE  /\ owner'[k] \in Hubs
                 /\ map'[owner'[k]] = k
                 /\ pc'[owner'[k]] \in HoldingPc \cup {"dropping"}
      <3>1. CASE k = made + 1
        BY <1>7, <2>1, <2>2, <3>1 DEF HoldingPc
      <3>2. CASE k # made + 1
        BY <1>3, <1>4, <1>7, <2>1, <2>2, <3>2
      <3> QED
        BY <3>1, <3>2
    <2> QED
      BY <2>2 DEF OwnersHold
  <1>8. CASE OpenRegion(h, "control") /\ pc[h] \notin HoldingPc \cup {"dropping"}
    <2>1. UNCHANGED owner
      BY <1>8 DEF OpenRegion
    <2> QED
      BY <1>3, <1>4, <1>8, <2>1 DEF OwnersHold
  <1>9. CASE CloseRegion(h)
    <2>1. /\ \A k \in Regions : owner'[k] = owner[k] \/ (k = map[h] /\ owner'[k] = NoProc)
          /\ map[h] # 0 /\ owner[map[h]] = h => owner'[map[h]] = NoProc
      BY <1>1, <1>9, CloseFacts
    <2>2. \A k \in Regions : k # 0
      BY DEF Regions
    <2>3. \A k \in Regions : owner'[k] # NoProc => owner'[k] = owner[k] /\ owner'[k] # h
      BY <1>4, <2>1, <2>2
    <2> QED
      BY <1>3, <2>3 DEF OwnersHold
  <1>10. CASE KillRegion(h)
    <2>1. \A k \in Regions : owner'[k] = IF owner[k] = h THEN NoProc ELSE owner[k]
      BY <1>1, <1>10, KillFacts
    <2>2. \A k \in Regions : owner'[k] # NoProc => owner'[k] = owner[k] /\ owner'[k] # h
      BY <2>1
    <2> QED
      BY <1>3, <2>2 DEF OwnersHold
  <1> USE DEF HoldingPc
  <1>11. CASE HubCreate(h) \/ HubReclaim(h) \/ HubRetry(h) \/ HubAdopt(h)
    <2>1. pc[h] \in {"idle", "taken", "retry", "adopt"}
      BY <1>11 DEF HubCreate, HubReclaim, HubRetry, HubAdopt
    <2>2. pc[h] \notin HoldingPc \cup {"dropping"}
      BY <2>1
    <2>3. \/ UNCHANGED regionVars \/ ReclaimRegion("control") \/ OpenRegion(h, "control")
          \/ CreateRegion(h, "control", want[h].size) /\ pc'[h] = "mapped"
      BY <1>1, <1>11 DEF HubCreate, HubReclaim, HubRetry, HubAdopt, Goto
    <2> QED
      BY <1>5, <1>7, <1>8, <2>2, <2>3
  <1>12. CASE HubCheck(h) \/ HubInit(h) \/ HubDrop(h) \/ HubReleaseRegion(h) \/ HubKill(h)
    <2>1. \/ pc'[h] \in HoldingPc \cup {"dropping"} /\ UNCHANGED regionVars
          \/ CloseRegion(h) \/ KillRegion(h)
      BY <1>1, <1>12 DEF HubCheck, HubInit, HubDrop, HubReleaseRegion, HubKill, Goto
    <2> QED
      BY <1>6, <1>9, <1>10, <2>1
  <1>13. ASSUME NEW e \in Events, HubUnlinkEvent(h, e) \/ HubCreateEvent(h, e) PROVE OwnersHold'
    <2>1. pc'[h] \in HoldingPc \cup {"dropping"} /\ UNCHANGED regionVars
      BY <1>1, <1>13 DEF HubUnlinkEvent, HubCreateEvent, Goto
    <2> QED
      BY <1>6, <2>1
  <1>14. ASSUME NEW e \in Events, HubReleaseEvent(h, e) PROVE OwnersHold'
    <2>1. UNCHANGED regionVars /\ UNCHANGED <<owner, map>>
      BY <1>14 DEF HubReleaseEvent, regionVars
    <2>2. CASE map[h] = 0
      <3>1. \A k \in Regions : k # 0
        BY DEF Regions
      <3>2. \A k \in Regions : owner'[k] # h
        BY <1>4, <2>1, <2>2, <3>1
      <3> QED
        BY <1>3, <2>1, <3>2 DEF OwnersHold
    <2>3. CASE map[h] # 0
      <3>1. pc'[h] = "dropping"
        BY <1>1, <1>14, <2>3 DEF HubReleaseEvent, Goto
      <3> QED
        BY <1>6, <2>1, <3>1
    <2> QED
      BY <2>2, <2>3
  <1> QED
    BY <1>11, <1>12, <1>13, <1>14 DEF HubStep

(***************************************************************************)
(* What a hub that is alone has created or adopted, its names lead to.     *)
(***************************************************************************)
LEMMA LeadHub ==
    ASSUME AttachTypeOK, HeaderInv, ReachInv, NEW h \in Hubs, HubStep(h),
           h \notin overlapped', pc'[h] \in HoldingPc
    PROVE  /\ map'[h] # 0 /\ denotes'["control"] = map'[h] /\ map'[h] \notin doomed'
           /\ pc'[h] \in {"rsp", "rsp_open", "up"} =>
                sem'["req"] = ev'[h]["req"] /\ sem'["req"] # NoProc
           /\ pc'[h] = "up" => sem'["rsp"] = ev'[h]["rsp"] /\ sem'["rsp"] # NoProc
           /\ pc'[h] \in {"req", "req_open", "rsp", "rsp_open", "up"} =>
                hdr'[map'[h]] = HeaderOf(want'[h])
  <1> USE AttachConstants
  <1>1. /\ RegionsTyped /\ made \in Nat
        /\ pc \in [Procs -> HubPc \cup WorkerPc]
        /\ sem \in [Events -> Hubs \cup {NoProc}]
        /\ ev \in [Procs -> [Events -> Hubs \cup {NoProc}]]
        /\ hdr \in [Regions -> [1 .. 5 -> Nat]]
    BY RegionsAssumption DEF AttachTypeOK, RegionsTyped
  <1>2. h \notin overlapped
    BY HubMoves
  <1>3. CASE pc'[h] = "mapped"
    <2>1. CASE CreateRegion(h, "control", want[h].size)
      <3>1. want[h].size \in Nat
        BY HeaderFacts DEF AttachTypeOK
      <3>2. /\ map'[h] = made + 1 /\ denotes'["control"] = made + 1
            /\ UNCHANGED doomed /\ doomed \subseteq 1 .. made
        BY <1>1, <2>1, <3>1, CreateFacts DEF RegionsTyped
      <3> QED
        BY <1>1, <1>3, <3>2
    <2>2. CASE OpenRegion(h, "control")
      <3>1. /\ map'[h] = denotes["control"] /\ denotes'["control"] = denotes["control"]
            /\ UNCHANGED doomed
        BY <1>1, <2>2, OpenFacts
      <3>2. denotes["control"] # 0 /\ denotes["control"] \notin doomed
        BY <2>2 DEF OpenRegion, CanOpen
      <3> QED
        BY <1>3, <3>1, <3>2
    <2> QED
      BY <1>3, <2>1, <2>2, HubMoves
  <1>4. CASE pc'[h] # "mapped"
    <2>1. pc[h] \in HoldingPc /\ UNCHANGED regionVars /\ UNCHANGED want
      BY <1>4, HubMoves
    <2>2. UNCHANGED <<denotes, map, doomed>>
      BY <2>1 DEF regionVars
    <2>3. map'[h] # 0 /\ denotes'["control"] = map'[h] /\ map'[h] \notin doomed'
      BY <1>2, <2>1, <2>2 DEF ReachInv, NamesLead
    <2>4. map[h] \in Regions
      <3>1. map[h] \in 0 .. made /\ made \in 0 .. MaxRegions /\ MaxRegions \in Nat /\ map[h] # 0
        BY <1>1, <2>2, <2>3, RegionsAssumption DEF RegionsTyped
      <3> QED
        BY <3>1 DEF Regions
    <2>5. CASE HubCheck(h)
      <3>1. pc'[h] \in {"init", "failed"}
        BY <1>1, <2>5 DEF HubCheck, Goto
      <3> QED
        BY <2>3, <3>1 DEF HoldingPc
    <2>6. CASE HubInit(h)
      <3>1. pc'[h] = "req" /\ hdr' = [hdr EXCEPT ![map[h]] = HeaderOf(want[h])]
        BY <1>1, <2>6 DEF HubInit, Goto
      <3> QED
        BY <1>1, <2>1, <2>2, <2>3, <2>4, <3>1
    <2>7. ASSUME NEW e \in Events, HubUnlinkEvent(h, e)
          PROVE  /\ pc'[h] \in {"rsp", "rsp_open", "up"} =>
                      sem'["req"] = ev'[h]["req"] /\ sem'["req"] # NoProc
                 /\ pc'[h] = "up" => sem'["rsp"] = ev'[h]["rsp"] /\ sem'["rsp"] # NoProc
                 /\ hdr'[map'[h]] = HeaderOf(want'[h])
      <3>1. /\ pc[h] = e /\ pc'[h] = IF e = "req" THEN "req_open" ELSE "rsp_open"
            /\ sem' = sem \/ sem' = [sem EXCEPT ![e] = NoProc]
            /\ UNCHANGED <<ev, hdr>>
        BY <1>1, <2>7 DEF HubUnlinkEvent, Goto
      <3>2. e \in {"req", "rsp"}
        BY DEF Events
      <3>3. hdr[map[h]] = HeaderOf(want[h])
        BY <1>2, <3>1, <3>2 DEF ReachInv, HeaderStands
      <3>4. e = "rsp" => sem["req"] = ev[h]["req"] /\ sem["req"] # NoProc /\ sem'["req"] = sem["req"]
        BY <1>1, <1>2, <3>1, <3>2 DEF ReachInv, EventsLead, Events
      <3> QED
        BY <2>1, <2>2, <3>1, <3>2, <3>3, <3>4
    <2>8. ASSUME NEW e \in Events, HubCreateEvent(h, e)
          PROVE  /\ pc'[h] \in {"rsp", "rsp_open", "up"} =>
                      sem'["req"] = ev'[h]["req"] /\ sem'["req"] # NoProc
                 /\ pc'[h] = "up" => sem'["rsp"] = ev'[h]["rsp"] /\ sem'["rsp"] # NoProc
                 /\ hdr'[map'[h]] = HeaderOf(want'[h])
      <3>1. PICK object \in Hubs :
                /\ sem' = [sem EXCEPT ![e] = object]
                /\ ev' = [ev EXCEPT ![h][e] = object]
        BY <1>1, <2>8 DEF HubCreateEvent
      <3>2. /\ pc[h] = IF e = "req" THEN "req_open" ELSE "rsp_open"
            /\ pc'[h] = IF e = "req" THEN "rsp" ELSE "up"
            /\ UNCHANGED hdr
        BY <1>1, <2>8 DEF HubCreateEvent, Goto
      <3>3. e \in {"req", "rsp"} /\ "req" \in Events /\ "rsp" \in Events
        BY DEF Events
      <3>4. hdr[map[h]] = HeaderOf(want[h])
        BY <1>2, <3>2, <3>3 DEF ReachInv, HeaderStands
      <3>5. /\ sem'[e] = object /\ ev'[h][e] = object /\ object # NoProc
            /\ \A d \in Events \ {e} : sem'[d] = sem[d] /\ ev'[h][d] = ev[h][d]
        BY <1>1, <3>1
      <3>6. e = "rsp" => sem["req"] = ev[h]["req"] /\ sem["req"] # NoProc
        BY <1>2, <3>2 DEF ReachInv, EventsLead
      <3>7. e = "req" => pc'[h] = "rsp"
        BY <3>2
      <3>8. CASE e = "req"
        BY <2>1, <2>2, <3>2, <3>4, <3>5, <3>7, <3>8
      <3>9. CASE e = "rsp"
        BY <2>1, <2>2, <3>2, <3>3, <3>4, <3>5, <3>6, <3>9
      <3> QED
        BY <3>3, <3>8, <3>9
    <2>9. HubCreate(h) \/ HubReclaim(h) \/ HubRetry(h) \/ HubAdopt(h) \/ HubDrop(h)
            \/ HubReleaseRegion(h) \/ (\E e \in Events : HubReleaseEvent(h, e)) \/ HubKill(h)
          => pc'[h] \notin HoldingPc \ {"mapped"}
      BY <1>1 DEF HubCreate, HubReclaim, HubRetry, HubAdopt, HubDrop, HubReleaseRegion,
          HubReleaseEvent, HubKill, Goto, HoldingPc
    <2> QED
      BY <1>4, <2>3, <2>5, <2>6, <2>7, <2>8, <2>9 DEF HubStep
  <1> QED
    BY <1>3, <1>4

(***************************************************************************)
(* The steps of a hub keep where the names lead.                           *)
(***************************************************************************)
LEMMA ReachHub ==
    ASSUME AttachTypeOK, HeaderInv, ReachInv, NEW h \in Hubs, HubStep(h)
    PROVE  ReachInv'
  <1> USE AttachConstants
  <1>1. /\ OneHub' /\ LeftAlone'
        /\ \A f \in Hubs \ overlapped' : pc'[f] \in ActivePc => f = h
    BY OneAtATime DEF ReachInv
  <1>2. OwnersHold'
    BY OwnersHub DEF ReachInv
  <1>3. NamesLead'
    <2>1. \A f \in Hubs \ overlapped' : pc'[f] \in HoldingPc => f = h
      BY <1>1 DEF ActivePc
    <2> QED
      BY <2>1, LeadHub DEF NamesLead
  <1>4. \A f \in Hubs \ overlapped' : pc'[f] \in {"req", "req_open", "rsp", "rsp_open", "up"} =>
            f = h /\ pc'[f] \in HoldingPc
    BY <1>1 DEF ActivePc, HoldingPc
  <1>5. EventsLead'
    BY <1>4, LeadHub DEF EventsLead
  <1>6. HeaderStands'
    BY <1>4, LeadHub DEF HeaderStands
  <1>7. MetWasUp'
    <2>1. \A w \in Workers : met'[w] = met[w] /\ met[w] \in Hubs \cup {NoProc}
      BY HubMoves DEF AttachTypeOK
    <2>2. \A g \in Hubs : pc[g] \in {"up", "dropping", "gone", "killed"} =>
              pc'[g] \in {"up", "dropping", "gone", "killed"}
      BY HubMoves
    <2> QED
      BY <2>1, <2>2 DEF ReachInv, MetWasUp
  <1>8. WorkerFollows'
    <2> SUFFICES ASSUME NEW w \in Workers, NEW f \in Hubs \ overlapped', met'[w] = f, pc'[f] = "up"
                 PROVE  FALSE
      BY DEF WorkerFollows
    <2>1. f = h
      BY <1>4
    <2>2. pc[h] = "rsp_open" /\ met[w] = h
      BY <2>1, HubMoves
    <2> QED
      BY <2>2 DEF ReachInv, MetWasUp
  <1> QED
    BY <1>1, <1>2, <1>3, <1>5, <1>6, <1>7, <1>8 DEF ReachInv

(***************************************************************************)
(* What a worker's step leaves alone.                                      *)
(***************************************************************************)
LEMMA WorkerMoves ==
    ASSUME AttachTypeOK, HeaderInv, ReachInv, NEW w \in Workers, WorkerStep(w)
    PROVE  /\ \A q \in Procs \ {w} : pc'[q] = pc[q] /\ map'[q] = map[q] /\ ev'[q] = ev[q]
           /\ \A v \in Workers \ {w} : seen'[v] = seen[v] /\ met'[v] = met[v]
           /\ UNCHANGED <<want, hdr, overlapped>>
           /\ \A k \in Regions : owner'[k] = owner[k] \/ owner'[k] = NoProc
           /\ \A h \in Hubs : \A e \in Events : sem[e] = ev[h][e] => sem'[e] = sem[e]
           /\ \A h \in Hubs : map[h] # 0 /\ denotes["control"] = map[h] /\ map[h] \notin doomed =>
                denotes'["control"] = map[h] /\ map[h] \notin doomed'
  <1> USE AttachConstants
  <1>1. /\ RegionsTyped
        /\ pc \in [Procs -> HubPc \cup WorkerPc]
        /\ seen \in [Workers -> Seq(Nat)]
        /\ met \in [Workers -> Hubs \cup {NoProc}]
        /\ ev \in [Procs -> [Events -> Hubs \cup {NoProc}]]
    BY DEF AttachTypeOK
  <1>2. /\ UNCHANGED <<want, hdr, overlapped>>
        /\ \A v \in Workers \ {w} : seen'[v] = seen[v] /\ met'[v] = met[v]
    BY <1>1 DEF WorkerStep, WorkerMap, WorkerRead, WorkerValidate, WorkerOpenEvent, WorkerGone, Forget
  <1>3. \A q \in Procs \ {w} : pc'[q] = pc[q]
    BY <1>1 DEF Goto, WorkerStep, WorkerMap, WorkerRead, WorkerValidate, WorkerOpenEvent, WorkerGone, Forget
  <1>4. /\ \A q \in Procs \ {w} : ev'[q] = ev[q]
        /\ \A h \in Hubs : \A e \in Events : sem[e] = ev[h][e] => sem'[e] = sem[e]
    <2>1. CASE UNCHANGED <<sem, ev>>
      BY <2>1
    <2>2. CASE CloseEvents(w, Events, FALSE)
      <3>1. /\ \A q \in Procs \ {w} : ev'[q] = ev[q]
            /\ \A e \in Events, q \in Procs \ {w} : ev[q][e] = sem[e] => sem'[e] = sem[e]
        BY <2>2, CloseEventsFacts
      <3>2. \A h \in Hubs : h \in Procs \ {w}
        BY AttachConstants
      <3> QED
        BY <3>1, <3>2
    <2>3. CASE \E e \in Events : ev' = [ev EXCEPT ![w][e] = sem[e]] /\ UNCHANGED sem
      BY <1>1, <2>3
    <2> QED
      BY <2>1, <2>2, <2>3 DEF WorkerStep, WorkerMap, WorkerRead, WorkerValidate, WorkerOpenEvent,
          WorkerGone, Forget
  <1>5. /\ \A q \in Procs \ {w} : map'[q] = map[q]
        /\ \A k \in Regions : owner'[k] = owner[k] \/ owner'[k] = NoProc
        /\ \A h \in Hubs : map[h] # 0 /\ denotes["control"] = map[h] /\ map[h] \notin doomed =>
             denotes'["control"] = map[h] /\ map[h] \notin doomed'
    <2>1. CASE UNCHANGED regionVars
      BY <2>1 DEF regionVars
    <2>2. CASE OpenRegion(w, "control")
      BY <1>1, <2>2, OpenFacts
    <2>3. CASE CloseRegion(w)
      <3>1. /\ \A q \in Procs : map'[q] = IF q = w THEN 0 ELSE map[q]
            /\ \A n \in Names : denotes'[n] = denotes[n] \/ (denotes[n] = map[w] /\ denotes'[n] = 0)
            /\ \A k \in Regions : owner'[k] = owner[k] \/ (k = map[w] /\ owner'[k] = NoProc)
            /\ \A k \in doomed' : k \in doomed \/ (k = map[w] /\ owner'[k] = NoProc)
            /\ map[w] # 0 /\ owner[map[w]] # w /\ map[w] \notin doomed =>
                 UNCHANGED <<denotes, owner, doomed>>
        BY <1>1, <2>3, CloseFacts
      <3>2. map[w] # 0 => owner[map[w]] # w
        <4>1. map[w] # 0 => map[w] \in Regions
          <5>1. map[w] \in 0 .. made /\ made \in 0 .. MaxRegions /\ MaxRegions \in Nat
            BY <1>1, RegionsAssumption DEF RegionsTyped
          <5> QED
            BY <5>1 DEF Regions
        <4> QED
          BY <4>1 DEF ReachInv, OwnersHold
      <3>3. ASSUME NEW h \in Hubs, map[h] # 0, denotes["control"] = map[h], map[h] \notin doomed
            PROVE  denotes'["control"] = map[h] /\ map[h] \notin doomed'
        <4>1. CASE map[w] = map[h]
          BY <3>1, <3>2, <3>3, <4>1
        <4>2. CASE map[w] # map[h]
          BY <3>1, <3>3, <4>2
        <4> QED
          BY <4>1, <4>2
      <3> QED
        BY <3>1, <3>3
    <2> QED
      BY <2>1, <2>2, <2>3 DEF WorkerStep, WorkerMap, WorkerRead, WorkerValidate, WorkerOpenEvent,
          WorkerGone, Forget
  <1> QED
    BY <1>2, <1>3, <1>4, <1>5

(***************************************************************************)
(* A worker that met a hub goes on with what is that hub's.                *)
(***************************************************************************)
LEMMA WorkerTakes ==
    ASSUME AttachTypeOK, HeaderInv, ReachInv, NEW w \in Workers, WorkerStep(w),
           NEW h \in Hubs \ overlapped, met'[w] = h, pc[h] = "up"
    PROVE  /\ pc'[w] \in MappedPc =>
               /\ map'[w] = map[h]
               /\ \A i \in 1 .. Len(seen'[w]) : seen'[w][i] = HeaderOf(want[h])[i]
           /\ pc'[w] \in {"rsp", "up"} => ev'[w]["req"] = ev[h]["req"]
           /\ pc'[w] = "up" => ev'[w]["rsp"] = ev[h]["rsp"]
  <1> USE AttachConstants
  <1>1. /\ RegionsTyped
        /\ pc \in [Procs -> HubPc \cup WorkerPc]
        /\ seen \in [Workers -> Seq(Nat)]
        /\ met \in [Workers -> Hubs \cup {NoProc}]
        /\ ev \in [Procs -> [Events -> Hubs \cup {NoProc}]]
        /\ "req" \in Events /\ "rsp" \in Events
    BY DEF AttachTypeOK, Events
  <1>2. /\ denotes["control"] = map[h]
        /\ sem["req"] = ev[h]["req"] /\ sem["rsp"] = ev[h]["rsp"]
        /\ hdr[map[h]] = HeaderOf(want[h])
        /\ \A g \in Hubs : pc[g] # "init"
    <2>1. denotes["control"] = map[h]
      BY DEF ReachInv, NamesLead, HoldingPc
    <2>2. sem["req"] = ev[h]["req"] /\ sem["rsp"] = ev[h]["rsp"]
      BY DEF ReachInv, EventsLead
    <2>3. hdr[map[h]] = HeaderOf(want[h])
      BY DEF ReachInv, HeaderStands
    <2>4. \A g \in Hubs : pc[g] # "init"
      BY DEF ReachInv, OneHub, ActivePc, HoldingPc
    <2> QED
      BY <2>1, <2>2, <2>3, <2>4
  <1>3. ~WorkerMap(w) =>
            /\ pc[w] \in MappedPc =>
                /\ map[w] = map[h]
                /\ \A i \in 1 .. Len(seen[w]) : seen[w][i] = HeaderOf(want[h])[i]
            /\ pc[w] \in {"rsp", "up"} => ev[w]["req"] = ev[h]["req"]
            /\ pc[w] = "up" => ev[w]["rsp"] = ev[h]["rsp"]
    <2>1. ~WorkerMap(w) => met' = met \/ met' = [met EXCEPT ![w] = NoProc]
      BY DEF WorkerStep, WorkerRead, WorkerValidate, WorkerOpenEvent, WorkerGone, Forget
    <2>2. h # NoProc
      BY RegionsAssumption
    <2>3. ~WorkerMap(w) => met[w] = h
      BY <1>1, <2>1, <2>2
    <2> QED
      BY <2>3 DEF ReachInv, WorkerFollows
  <1>4. CASE WorkerMap(w)
    <2>1. /\ map' = [map EXCEPT ![w] = denotes["control"]]
          /\ seen' = [seen EXCEPT ![w] = <<>>]
          /\ pc' = [pc EXCEPT ![w] = "read"]
      BY <1>4 DEF WorkerMap, OpenRegion, Goto
    <2>2. map'[w] = denotes["control"]
      BY <1>1, <2>1 DEF RegionsTyped
    <2>3. seen'[w] = <<>> /\ pc'[w] = "read"
      BY <1>1, <2>1
    <2>4. 1 .. Len(seen'[w]) = {}
      BY <2>3
    <2> QED
      BY <1>2, <2>2, <2>3, <2>4
  <1>5. CASE WorkerRead(w)
    <2>1. pc[w] = "read" /\ UNCHANGED <<regionVars, pc, ev>> /\ Len(seen[w]) < 5
      BY <1>5 DEF WorkerRead
    <2>2. ~WorkerMap(w)
      BY <2>1 DEF WorkerMap
    <2>3. map[w] = map[h] /\ \A i \in 1 .. Len(seen[w]) : seen[w][i] = HeaderOf(want[h])[i]
      BY <1>3, <2>1, <2>2 DEF MappedPc
    <2>4. WordsRead(map[w], Len(seen[w]) + 1) = {HeaderOf(want[h])[Len(seen[w]) + 1]}
      <3>1. {g \in Hubs : pc[g] = "init" /\ map[g] = map[w]} = {}
        BY <1>2
      <3>2. hdr[map[w]] = HeaderOf(want[h])
        BY <1>2, <2>3
      <3> QED
        BY <3>1, <3>2 DEF WordsRead
    <2>5. seen' = [seen EXCEPT ![w] = Append(seen[w], HeaderOf(want[h])[Len(seen[w]) + 1])]
      BY <1>5, <2>4 DEF WorkerRead
    <2>6. HeaderOf(want[h])[Len(seen[w]) + 1] \in Nat
      <3>1. Len(seen[w]) + 1 \in 1 .. 5
        BY <1>1, <2>1
      <3> QED
        BY <3>1, HeaderFacts DEF AttachTypeOK
    <2>7. seen[w] \in Seq(Nat) /\ seen'[w] = Append(seen[w], HeaderOf(want[h])[Len(seen[w]) + 1])
      BY <1>1, <2>5
    <2>8. \A i \in 1 .. Len(seen'[w]) : seen'[w][i] = HeaderOf(want[h])[i]
      <3> DEFINE x == HeaderOf(want[h])
                 n == Len(seen[w]) + 1
      <3> HIDE DEF x
      <3>1. /\ Len(seen'[w]) = n /\ n \in Nat /\ seen'[w][n] = x[n]
            /\ \A i \in 1 .. Len(seen[w]) : seen'[w][i] = seen[w][i]
        BY <2>6, <2>7 DEF x
      <3>2. \A i \in 1 .. n : i \in 1 .. Len(seen[w]) \/ i = n
        BY <2>7
      <3> QED
        BY <2>3, <3>1, <3>2 DEF x
    <2>9. UNCHANGED map
      BY <2>1 DEF regionVars
    <2> QED
      BY <2>1, <2>3, <2>8, <2>9
  <1>6. CASE WorkerValidate(w)
    <2>1. pc[w] = "read" /\ UNCHANGED ev
          /\ (pc'[w] = "failed" \/ (pc'[w] = "req" /\ UNCHANGED <<regionVars, seen>>))
      BY <1>1, <1>6 DEF WorkerValidate, Goto
    <2>2. pc'[w] = "req" => UNCHANGED <<map, seen>>
      BY <2>1 DEF regionVars
    <2>3. ~WorkerMap(w) /\ pc[w] \in MappedPc
      BY <2>1 DEF WorkerMap, MappedPc
    <2> QED
      BY <1>3, <2>1, <2>2, <2>3 DEF MappedPc
  <1>7. ASSUME NEW e \in Events, WorkerOpenEvent(w, e)
        PROVE  /\ pc'[w] \in MappedPc =>
                   /\ map'[w] = map[h]
                   /\ \A i \in 1 .. Len(seen'[w]) : seen'[w][i] = HeaderOf(want[h])[i]
               /\ pc'[w] \in {"rsp", "up"} => ev'[w]["req"] = ev[h]["req"]
               /\ pc'[w] = "up" => ev'[w]["rsp"] = ev[h]["rsp"]
    <2>1. pc[w] = e /\ e \in {"req", "rsp"}
      BY <1>7 DEF WorkerOpenEvent, Events
    <2>2. ~WorkerMap(w) /\ pc[w] \in MappedPc
      BY <2>1 DEF WorkerMap, MappedPc
    <2>3. CASE pc'[w] = "failed"
      BY <2>3 DEF MappedPc
    <2>4. CASE pc'[w] # "failed"
      <3>1. /\ ev' = [ev EXCEPT ![w][e] = sem[e]]
            /\ pc'[w] = (IF e = "req" THEN "rsp" ELSE "up")
            /\ UNCHANGED <<regionVars, seen>>
        BY <1>1, <1>7, <2>4 DEF WorkerOpenEvent, Goto
      <3>2. ev'[w][e] = sem[e] /\ \A d \in Events \ {e} : ev'[w][d] = ev[w][d]
        BY <1>1, <3>1
      <3>3. UNCHANGED map
        BY <3>1 DEF regionVars
      <3>4. CASE e = "req"
        BY <1>2, <1>3, <2>1, <2>2, <3>1, <3>2, <3>3, <3>4
      <3>5. CASE e = "rsp"
        BY <1>1, <1>2, <1>3, <2>1, <2>2, <3>1, <3>2, <3>3, <3>5
      <3> QED
        BY <2>1, <3>4, <3>5
    <2> QED
      BY <2>3, <2>4
  <1>8. CASE WorkerGone(w)
    <2>1. pc'[w] = "idle"
      BY <1>1, <1>8 DEF WorkerGone, Goto
    <2> QED
      BY <2>1 DEF MappedPc
  <1> QED
    BY <1>4, <1>5, <1>6, <1>7, <1>8 DEF WorkerStep

(***************************************************************************)
(* The steps of a worker keep where the names lead, and lead it there.     *)
(***************************************************************************)
LEMMA ReachWorker ==
    ASSUME AttachTypeOK, HeaderInv, ReachInv, NEW w \in Workers, WorkerStep(w)
    PROVE  ReachInv'
  <1> USE AttachConstants
  <1>1. /\ \A h \in Hubs : pc'[h] = pc[h] /\ map'[h] = map[h] /\ ev'[h] = ev[h]
        /\ \A v \in Workers \ {w} :
             pc'[v] = pc[v] /\ map'[v] = map[v] /\ ev'[v] = ev[v] /\ seen'[v] = seen[v] /\ met'[v] = met[v]
        /\ UNCHANGED <<want, hdr, overlapped>>
        /\ \A k \in Regions : owner'[k] = owner[k] \/ owner'[k] = NoProc
        /\ \A h \in Hubs : \A e \in Events : sem[e] = ev[h][e] => sem'[e] = sem[e]
        /\ \A h \in Hubs : map[h] # 0 /\ denotes["control"] = map[h] /\ map[h] \notin doomed =>
             denotes'["control"] = map[h] /\ map[h] \notin doomed'
    BY WorkerMoves
  <1>2. OneHub' /\ LeftAlone' /\ HeaderStands'
    BY <1>1 DEF ReachInv, OneHub, LeftAlone, HeaderStands
  <1>3. OwnersHold'
    BY <1>1 DEF ReachInv, OwnersHold
  <1>4. NamesLead'
    BY <1>1 DEF ReachInv, NamesLead
  <1>5. EventsLead'
    BY <1>1 DEF ReachInv, EventsLead, Events
  <1>6. MetWasUp'
    <2>1. met'[w] = met[w] \/ met'[w] = NoProc \/ (met'[w] \in Hubs /\ pc[met'[w]] = "up")
      <3>1. CASE WorkerMap(w)
        <4>1. met' = [met EXCEPT ![w] = IF HubsUp = {} THEN NoProc ELSE CHOOSE h \in HubsUp : TRUE]
          BY <3>1 DEF WorkerMap
        <4>2. met \in [Workers -> Hubs \cup {NoProc}]
          BY DEF AttachTypeOK
        <4>3. HubsUp # {} => (CHOOSE h \in HubsUp : TRUE) \in HubsUp
          OBVIOUS
        <4> QED
          BY <4>1, <4>2, <4>3 DEF HubsUp
      <3>2. CASE ~WorkerMap(w)
        <4>1. met' = met \/ met' = [met EXCEPT ![w] = NoProc]
          BY <3>2 DEF WorkerStep, WorkerRead, WorkerValidate, WorkerOpenEvent, WorkerGone, Forget
        <4>2. met \in [Workers -> Hubs \cup {NoProc}]
          BY DEF AttachTypeOK
        <4> QED
          BY <4>1, <4>2
      <3> QED
        BY <3>1, <3>2
    <2>2. \A v \in Workers : met[v] \in Hubs \cup {NoProc}
      BY DEF AttachTypeOK
    <2> QED
      BY <1>1, <2>1, <2>2 DEF ReachInv, MetWasUp
  <1>7. WorkerFollows'
    <2> SUFFICES ASSUME NEW v \in Workers, NEW h \in Hubs \ overlapped', met'[v] = h, pc'[h] = "up"
                 PROVE  /\ pc'[v] \in MappedPc =>
                            /\ map'[v] = map'[h]
                            /\ \A i \in 1 .. Len(seen'[v]) : seen'[v][i] = HeaderOf(want'[h])[i]
                        /\ pc'[v] \in {"rsp", "up"} => ev'[v]["req"] = ev'[h]["req"]
                        /\ pc'[v] = "up" => ev'[v]["rsp"] = ev'[h]["rsp"]
      BY DEF WorkerFollows
    <2>1. h \in Hubs \ overlapped /\ pc[h] = "up" /\ map'[h] = map[h] /\ ev'[h] = ev[h] /\ want' = want
      BY <1>1
    <2>2. CASE v = w
      BY <2>1, <2>2, WorkerTakes
    <2>3. CASE v # w
      BY <1>1, <2>1, <2>3 DEF ReachInv, WorkerFollows
    <2> QED
      BY <2>2, <2>3
  <1> QED
    BY <1>2, <1>3, <1>4, <1>5, <1>6, <1>7 DEF ReachInv

(***************************************************************************)
(* In every behaviour the names lead where they should.                    *)
(***************************************************************************)
THEOREM ReachCorrect == AttachSpec => []ReachInv
  <1>1. AttachInit => ReachInv
    BY ReachInit
  <1>2. AttachTypeOK /\ HeaderInv /\ ReachInv /\ [AttachNext]_attachVars => ReachInv'
    <2> SUFFICES ASSUME AttachTypeOK, HeaderInv, ReachInv, [AttachNext]_attachVars PROVE ReachInv'
      OBVIOUS
    <2>1. CASE UNCHANGED attachVars
      <3> USE <2>1 DEF attachVars, regionVars, ReachInv
      <3>1. OneHub' /\ LeftAlone' /\ OwnersHold' /\ NamesLead'
        BY DEF OneHub, LeftAlone, OwnersHold, NamesLead
      <3>2. EventsLead' /\ HeaderStands' /\ MetWasUp' /\ WorkerFollows'
        BY DEF EventsLead, HeaderStands, MetWasUp, WorkerFollows
      <3> QED
        BY <3>1, <3>2
    <2>2. AttachNext => (\E h \in Hubs : HubStep(h)) \/ \E w \in Workers : WorkerStep(w)
      BY DEF AttachNext, HubStep, WorkerStep
    <2> QED
      BY <2>1, <2>2, ReachHub, ReachWorker
  <1> QED
    BY <1>1, <1>2, HeadersCorrect, PTL DEF AttachSpec

(***************************************************************************)
(* Once create() has returned the names lead to this hub, unless it was    *)
(* created before its predecessor had let go.                              *)
(***************************************************************************)
THEOREM HubsReachable == AttachSpec => []HubReachable
  <1>1. ASSUME AttachTypeOK, ReachInv, NEW h \in Hubs \ overlapped, pc[h] = "up"
        PROVE  denotes["control"] = map[h] /\ sem = ev[h]
    <2>1. denotes["control"] = map[h]
      BY <1>1 DEF ReachInv, NamesLead, HoldingPc
    <2>2. sem["req"] = ev[h]["req"] /\ sem["rsp"] = ev[h]["rsp"]
      BY <1>1 DEF ReachInv, EventsLead
    <2>3. sem \in [Events -> Hubs \cup {NoProc}] /\ ev[h] \in [Events -> Hubs \cup {NoProc}]
      BY <1>1, AttachConstants DEF AttachTypeOK
    <2>4. \A e \in Events : sem[e] = ev[h][e]
      BY <2>2 DEF Events
    <2> QED
      BY <2>1, <2>3, <2>4
  <1>2. AttachTypeOK /\ ReachInv => HubReachable
    BY <1>1 DEF HubReachable
  <1> QED
    BY <1>2, AttachTypeCorrect, ReachCorrect, PTL

(***************************************************************************)
(* A worker that began to open while a hub was up, and opened while it     *)
(* still is, shares region, events and layout with that very hub.          *)
(***************************************************************************)
THEOREM AttachedCorrectly == AttachSpec => []AttachedToHubThatWasUp
  <1>1. ASSUME AttachTypeOK, HeaderInv, ReachInv, NEW w \in Workers, NEW h \in Hubs \ overlapped,
               pc[w] = "up", met[w] = h, pc[h] = "up"
        PROVE  map[w] = map[h] /\ ev[w] = ev[h] /\ seen[w] = HeaderOf(want[h])
    <2>1. /\ map[w] = map[h]
          /\ \A i \in 1 .. Len(seen[w]) : seen[w][i] = HeaderOf(want[h])[i]
          /\ ev[w]["req"] = ev[h]["req"] /\ ev[w]["rsp"] = ev[h]["rsp"]
      BY <1>1 DEF ReachInv, WorkerFollows, MappedPc
    <2>2. ev[w] = ev[h]
      <3>1. ev[w] \in [Events -> Hubs \cup {NoProc}] /\ ev[h] \in [Events -> Hubs \cup {NoProc}]
        BY <1>1, AttachConstants DEF AttachTypeOK
      <3>2. \A e \in Events : ev[w][e] = ev[h][e]
        BY <2>1 DEF Events
      <3> QED
        BY <3>1, <3>2
    <2>3. seen[w] = HeaderOf(want[h])
      <3>1. seen[w] \in Seq(Nat) /\ Len(seen[w]) = 5
        BY <1>1 DEF AttachTypeOK, HeaderInv, SeenFits, ValidPc
      <3>2. HeaderOf(want[h]) \in Seq(Nat) /\ Len(HeaderOf(want[h])) = 5
        <4>1. /\ want[h].slots \in Nat
              /\ HeapOffset(want[h].slots) \in Nat
              /\ HeapSize(want[h].slots, want[h].size) \in Nat
          BY <1>1, HeaderFacts, LayoutFacts DEF AttachTypeOK
        <4> QED
          BY <4>1 DEF HeaderOf, SHM_MAGIC, SHM_VERSION
      <3> QED
        BY <2>1, <3>1, <3>2, SeqEqual
    <2> QED
      BY <2>1, <2>2, <2>3
  <1>2. AttachTypeOK /\ HeaderInv /\ ReachInv => AttachedToHubThatWasUp
    BY <1>1 DEF AttachedToHubThatWasUp
  <1> QED
    BY <1>2, HeadersCorrect, ReachCorrect, PTL
=============================================================================
